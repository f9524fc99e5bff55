\* Fair threads: submitters that block on a queue of one, a worker that keeps
\* fetching one unit at a time in every way, and a close at any moment.
CONSTANTS
    p1 = p1
    p2 = p2
    c1 = c1
    k = k
    u1 = u1
    u2 = u2
    u3 = u3
    Producers = {p1, p2}
    Consumers = {c1}
    Controllers = {k}
    Units = {u1, u2, u3}
    InitialCap = 1
    NewCaps = {}
    Modes = {"block"}
    PopCalls = {"pop", "try_pop", "try_pop_for"}
    BatchCounts = {}
    PushBatches = FALSE
    Controls = {"close"}
SPECIFICATION LivelySpec
INVARIANTS
    NobodySleptThrough
    CloseStrandsOnlyRacers
PROPERTIES
    WaitsEnd
    AcceptedIsFetched
CHECK_DEADLOCK FALSE
