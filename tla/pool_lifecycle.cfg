\* Two threads start, stop, pause and resume the pool while a third submits,
\* cancels and waits for two tasks; two workers, of which any number may exist
\* when a start fails.  Or the pool of Encapsulation: a caller and the monitor
\* change the number of its workers while it is used and destroyed.
CONSTANTS
    c1 = c1
    c2 = c2
    t1 = t1
    t2 = t2
    u1 = u1
    u2 = u2
    w1 = w1
    w2 = w2
    Controllers = {c1, c2}
    Clients = {t1}
    Waiters = {t1}
    Units = {u1, u2}
    Workers = {w1, w2}
    Outcomes = {"returns", "throws"}
    StartFails = TRUE
SPECIFICATION PoolsSpec
INVARIANTS StoppedIsQuiet
PROPERTIES AcceptedIsKept EndsReturn
