SPECIFICATION ChatSpec
CONSTANTS
    t1 = t1
    t2 = t2
    NoTurn = NoTurn
    Turns <- MCTurns
    Question <- MCQuestion
    OldPrompts <- MCOldPrompts
    MemoryWired = FALSE
    PromoteAfter = 2
    MutateAfter = 1
    MaxVersions = 4
    MaxCrashes = 1
    \* Gateway, at rest
    q1 = q1
    q2 = q2
    NoRequest = NoRequest
    key = key
    Requests <- MCRequestSet
    Profiles <- MCProfiles
    Identities <- MCIdentities
    Tiers <- MCTiers
    Cost <- MCCost
    Full = 3
    TTL = 4
    SecretSet = TRUE
    KeySet = TRUE
    MaxLosses = 1
SYMMETRY MCAlike
\* Turns end.
CHECK_DEADLOCK FALSE
INVARIANTS
    CachedWasGraded
    SequentialForgetsNothing
    EvolutionsFit
