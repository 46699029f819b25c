SPECIFICATION FairSpec
CONSTANTS
    c1 = c1
    c2 = c2
    c3 = c3
    Callers <- MCCallers
    Threshold = 2
    RecoveryTimeout = 2
    HalfOpenMax = 2
    Window = 3
    MaxRecords = 3
    FallbackSuspends = TRUE
INVARIANTS
    ProbesAccounted
PROPERTIES
    LazyBreakerIsEager
    OutageEnds
