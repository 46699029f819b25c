SPECIFICATION GatewaySpec
CONSTANTS
    q1 = q1
    q2 = q2
    NoRequest = NoRequest
    key = key
    Requests <- MCRequestSet
    Profiles <- MCProfiles
    Identities <- MCIdentities
    Tiers <- MCTiers
    Cost <- MCCost
    Full = 3
    TTL = 4
    SecretSet = TRUE
    KeySet = TRUE
    MaxLosses = 1
    \* Turn, at rest
    t1 = t1
    t2 = t2
    NoTurn = NoTurn
    Turns <- MCTurns
    Question <- MCQuestion
    OldPrompts <- OnlyFresh
    MemoryWired = FALSE
    PromoteAfter = 2
    MutateAfter = 1
    MaxVersions = 4
    MaxCrashes = 1
PROPERTIES
    LazyBucketIsEager
    EveryRequestAnswered
