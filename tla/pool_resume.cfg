\* One thread uses the pool: after pause and resume it says that it is running.
CONSTANTS
    c1 = c1
    c2 = c2
    t1 = t1
    t2 = t2
    u1 = u1
    u2 = u2
    w1 = w1
    w2 = w2
    Controllers = {c1}
    Clients = {t1}
    Waiters = {t1}
    Units = {u1}
    Workers = {w1, w2}
    Outcomes = {"returns", "throws"}
    StartFails = FALSE
SPECIFICATION Spec
INVARIANT RunningServes
