SPECIFICATION MCSpec
CONSTANTS
    p1 = p1
    p2 = p2
    d1 = d1
    d2 = d2
    d3 = d3
    w1 = w1
    w2 = w2
    r1 = r1
    Procs <- MCProcs
    Docs <- MCDocs
    Text <- MCText
    MaxWords = 2
    Overlap = 1
    Quarantine = 1
    Reject = 2
    Stores <- MCStores
    Readers <- MCReaders
    Session <- MCSession
    Remembered <- MCRemembered
    Said <- MCSaid
    Related <- MCRelated
    Trust <- MCTrust
    Threshold = 8
    Limit = 3
    Types <- MCTypes
    Memories <- MCMemories
    Vectors <- MCVectors
    BatchSize = 2
    Attempts = 2
    MaxRuns = 2
\* The memory calls and the migration end.
CHECK_DEADLOCK FALSE
INVARIANTS
    PairedUnlessOverlap
    SearchRecovers
    OnlySuspectLeftOut
    FoundWasSaid
    AuthorityKept
    SummaryExact
