\* One thread beside the io_context's uses a session and connects it once, with
\* one read or write more than its own; a manager of two sessions, one clean-up
\* that waits at most.
CONSTANTS
    u1 = u1
    m1 = m1
    s1 = s1
    s2 = s2
SPECIFICATION FairSpec
PROPERTIES DeadAreForgotten SessionSettles
CHECK_DEADLOCK FALSE
