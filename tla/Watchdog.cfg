SPECIFICATION FairSpec
CONSTANTS
    e1 = e1
    e2 = e2
    Execs <- TwoExecs
    MaxRuntime = 3
    PollInterval = 2
INVARIANTS
    Supervised
    Punctual
    ReasonMatchesResult
PROPERTY
    EveryCallReturns
