\* Trees over six keys, a hash table of four nodes, a heap of seven elements, a
\* list of four nodes, a string of three and a vector of four places; two objects that own
\* memory, three smart pointers and two weak ones; two threads with two shared
\* containers, three with two that make them wait or with a ring of three slots,
\* four with a closable queue of two; two submitters and two fetchers at an
\* ordered task queue for one unit; two messages that differ in one thing.
CONSTANTS
    s1 = s1  s2 = s2  f1 = f1  f2 = f2
    Submitters = {s1, s2}  Fetchers = {f1, f2}
    Units = {1, 2}  Limit = 1  MaxTime = 1  Batches = {1, 2}
    Users = {1, 2, 3}  Stores = {1, 2}  Capacities = {0, 1, 2}  MaxItems = 2
    Clients = {1, 2, 3, 4}  Bound = 2
    RingThreads = {1, 2, 3}  RingValues = {1, 2}  RingLength = 3  Wrap = 8  MaxFree = 3
    Owners = {1, 2}  Blocks = {1, 2, 3, 4}  MaxSize = 2
    Handles = {1, 2, 3}  Watchers = {4, 5}  Things = {1, 2}  Counters = {1, 2, 3}
    Callers = {1, 2}  Objects = {1, 2}
SPECIFICATION MCSpec
SYMMETRY Alike
INVARIANTS
    ContentsAreKept OrderIsKept MemoryHasOneOwner WritersAreAlone NoCircle
    NobodySleepsThrough
PROPERTIES PushKeepsColours
CHECK_DEADLOCK FALSE
