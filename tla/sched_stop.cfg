\* A thread that scales down by hand while the scheduler is started and stopped; workers cannot always be created.
CONSTANTS
    w1 = w1
    w2 = w2
    w3 = w3
    w4 = w4
    s1 = s1
    u1 = u1
    u2 = u2
    MinThreads = 1
    MaxThreads = 2
    CoreThreads = 1
    UpStep = 1
    DownStep = 1
    SizeMod = 16
    Workers = {w1, w2}
    Scalers = {s1}
    Asks <- DownOnly
    Units = {u1}
    Outcomes = {"returns", "throws", "late"}
    Levels = {"middle"}
    Capacity = 1
    CreateFails = TRUE
SPECIFICATION FairSpec
INVARIANTS
    NoOrphan
    StopEndsWorkers
PROPERTIES
    StopReturns
    QueuedTasksEnd
CHECK_DEADLOCK FALSE
