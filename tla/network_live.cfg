\* A borrower and a manager at a pool for one session, two sessions in all;
\* two counted requests over one session, one at a time, answers of two pieces,
\* each on a thread of its own or both on the one of a pool.
CONSTANTS
    b1 = b1
    m1 = m1
    p1 = p1
    s1 = s1
    s2 = s2
    r1 = r1
    r2 = r2
    Requests = {r1, r2}
    Counted = {r1, r2}
    Sessions = {s1}
    Chunks = 2
    MaxTasks = 1
    Workers = 1
SPECIFICATION FairSpec
INVARIANTS DrainedIsQuiet ShutdownIsWoken
PROPERTIES BorrowReturns ZombiesForgotten RequestsReturn
CHECK_DEADLOCK FALSE
