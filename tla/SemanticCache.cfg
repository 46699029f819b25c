SPECIFICATION CacheSpec
CONSTANTS
    t1 = t1
    t2 = t2
    a = a
    b = b
    c = c
    r1 = r1
    r2 = r2
    m1 = m1
    Tasks <- TwoTasks
    Query <- ThreeQueries
    Score <- Likeness
    Threshold = 2
    MaxEntries = 1
    TTL = 1
    MaxTime = 2
    NoEntry = NoEntry
    \* FaissStore, at rest
    Requests <- None
    Indexers <- None
    Maintainers <- None
    Text <- Texts
    Batch <- NoBatches
    Similar <- Chain
    MaxAttempts = 2
    MaxFaults = 1
    Missing = Missing
    Torn = Torn
SYMMETRY TaskSymmetry
INVARIANTS
    LiveIndexed
    NearestAnswers
PROPERTY
    EvictionExact
