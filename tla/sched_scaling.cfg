\* The scaling thread alone changes the number of workers; tasks kill them.
CONSTANTS
    w1 = w1
    w2 = w2
    w3 = w3
    w4 = w4
    s1 = s1
    u1 = u1
    u2 = u2
    MinThreads = 1
    MaxThreads = 2
    CoreThreads = 2
    UpStep = 2
    DownStep = 2
    SizeMod = 16
    Workers = {w1, w2, w3}
    Scalers = {}
    Asks <- None
    Units = {u1, u2}
    Outcomes = {"throws"}
    Levels = {"high", "middle", "low"}
    Capacity = 1
    CreateFails = FALSE
SPECIFICATION Spec
SYMMETRY Symmetry
INVARIANTS
    ScalingKeepsBounds
    TaskIsSomewhere
CHECK_DEADLOCK FALSE
