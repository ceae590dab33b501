SPECIFICATION MCSpec
CONSTANTS
    MaxItems = 4
    MaxChunk = 3
    GuidedItems = {10}
    StaticItems = {5, 8}
    t1 = t1
    t2 = t2
    t3 = t3
    MaxWorkers = 4
    MaxScanItems = 5
    Insertion = 4
    Cutoff = 4
    Ninthers = {6, 40}
    PartialLimit = 2
    SortBlock = 2
    nt = 8
    vt = 3
    Warp = 4
    Threshold = 2
    Word = 65536
    RangeBits = 3
    NumberBits = 8
INVARIANTS
    TasksConsistent
    ResultsExact
PROPERTY
    AlgorithmsEnd
