SPECIFICATION StoreSpec
CONSTANTS
    t1 = t1
    t2 = t2
    a = a
    b = b
    c = c
    r1 = r1
    r2 = r2
    m1 = m1
    Requests <- TwoRequests
    Indexers <- OneIndexer
    Maintainers <- OneMaintainer
    Text <- Texts
    Batch <- Batches
    Similar <- Chain
    MaxAttempts = 2
    MaxFaults = 1
    Missing = Missing
    Torn = Torn
    \* SemanticCache, at rest
    Tasks <- TwoTasks
    Query <- ThreeQueries
    Score <- Likeness
    Threshold = 2
    MaxEntries = 1
    TTL = 1
    MaxTime = 2
    NoEntry = NoEntry
VIEW StoreView
INVARIANTS
    Aligned
    LostOnlyToOverlap
    CopiesBounded
PROPERTY
    DuplicatesOnlyRemoved
