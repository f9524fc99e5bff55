\* Three requests, one after the other or at a time, over one session, answers of
\* two pieces.
CONSTANTS
    r1 = r1
    r2 = r2
    r3 = r3
    s1 = s1
    Requests = {r1, r2, r3}
    Counted = {r1, r2, r3}
    Sessions = {s1}
    Chunks = 2
    MaxTasks = 1
    Workers = 1
SPECIFICATION Spec
INVARIANT OwnAnswer
CHECK_DEADLOCK FALSE
