\* Every backpressure mode, batches, clear and resizing together; seen from
\* outside, the abstract channel.
CONSTANTS
    p1 = p1
    p2 = p2
    c1 = c1
    k = k
    u1 = u1
    u2 = u2
    u3 = u3
    Producers = {p1, p2}
    Consumers = {c1}
    Controllers = {k}
    Units = {u1, u2, u3}
    InitialCap = 1
    NewCaps = {2}
    Modes = {"block", "overwrite", "exception", "drop"}
    PopCalls = {"pop", "try_pop", "try_pop_for", "pop_batch"}
    BatchCounts = {0, 2}
    PushBatches = TRUE
    Controls = {"close", "clear", "set_max_size"}
SPECIFICATION Spec
SYMMETRY Symmetry
INVARIANTS
    FifoDelivery
PROPERTIES
    ImplementsChannel
CHECK_DEADLOCK FALSE
