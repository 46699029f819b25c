SPECIFICATION FairSpec
CONSTANTS
    r1 = r1
    r2 = r2
    r3 = r3
    r4 = r4
    r5 = r5
    Requests <- FiveRequests
    Limiters <- Shared
    LimiterOf <- AllShareOne
    MaxAgents = 2
INVARIANTS
    SlotsConserved
    NoLostWakeup
PROPERTY
    EveryWaitEnds
