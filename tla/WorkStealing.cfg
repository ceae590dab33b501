SPECIFICATION FairSpec
CONSTANTS
    Task = {t1, t2, t3}
    NoTask = NoTask
    Client = {c1}
    NumWorkers = 2
    NumBuckets = 1
    Waiters = {0, 1}
    Capacity = 1
    MaxSteals = 1
INVARIANTS
    NoLostWakeup
    InOnePlace
    CleanExit
PROPERTIES
    EveryTaskFinishes
    ShutdownTerminates
