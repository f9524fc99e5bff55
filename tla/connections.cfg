\* Two borrowers and a manager at a pool for one session, two sessions in all; or
\* one session that connects, adopts or shakes hands twice; or a manager of two
\* sessions and one clean-up that waits at most.
CONSTANTS
    b1 = b1
    b2 = b2
    m1 = m1
    s1 = s1
    s2 = s2
    p1 = p1
    u1 = u1
    c1 = c1
    c2 = c2
    Borrowers = {b1, b2}
    Managers = {m1}
    Sessions = {s1, s2}
    Pools = {p1}
    Min = 1
    Max = 1
    Calls = {c1, c2}
    MaxOps = 1
    MaxTasks = 1
SPECIFICATION MCSpec
SYMMETRY Symmetry
INVARIANTS LentAreKnown FewAboveMaximum ClosedIsQuiet
PROPERTIES ImplementsLeaseBook
