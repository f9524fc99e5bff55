------------------------------ MODULE MCWaiting ------------------------------
(***************************************************************************)
(* The containers at which threads sleep until another one tells them:     *)
(* Waits are the stack and the queues of Asio/model/concurrent, Ranks the  *)
(* ordered task queues of Asio/model/sched, Closable the queue of          *)
(* Encapsulation, Ring the one of Asio/model/concurrent between two        *)
(* semaphores.  They stand side by side and do not act on each other.      *)
(***************************************************************************)
EXTENDS Naturals, FiniteSets

CONSTANTS
    Users, Stores,             \* threads, and the stacks or queues they use
    Capacities,                \* what these are made with
    MaxItems,                  \* bound: no push beyond this number
    Submitters, Fetchers,      \* threads at an ordered task queue
    Units,                     \* tasks: priorities, or times
    Limit,                     \* its capacity
    MaxTime,                   \* bound: the clock goes no further
    Batches,                   \* what pop_batch asks for
    Clients, Bound,            \* threads at a closable queue, its capacity
    RingThreads, RingValues,   \* threads at a ring, and what they put there
    RingLength,                \* its slots
    Wrap,                      \* where its count turns over
    MaxFree                    \* bound: no clear that leaves more permits

ASSUME WaitingAssumption ==
    /\ IsFiniteSet(Users) /\ Capacities \subseteq Nat
    /\ IsFiniteSet(Submitters) /\ IsFiniteSet(Fetchers)
    /\ Units \subseteq Nat /\ Limit \in Nat
    /\ IsFiniteSet(Clients) /\ Bound \in Nat
    /\ IsFiniteSet(RingThreads) /\ RingLength \in Nat \ {0}
    /\ Wrap \in Nat /\ RingLength < Wrap

(* Whoever waits in a pop_batch takes at least one unit: a batch of none   *)
(* (rank.hpp would wait for it too) would use up a notification.           *)
ASSUME BatchAssumption == Batches \subseteq Nat \ {0}

VARIABLES
    waitKind, items, maxCap, waitAt,                         \* Waits
    rankKind, queue, closed, cap, now, watching, rankAt, unit, batch, closer,
    fetched, lost, rankFate,                                 \* Ranks
    length, tasksClosed, cleared, closableAt,                \* Closable
    slot, produce, consume, cnt, free, usedSlots, ringAt, stored, spoiled  \* Ring

waits == <<waitKind, items, maxCap, waitAt>>
ranks == <<rankKind, queue, closed, cap, now, watching, rankAt, unit, batch, closer,
           fetched, lost, rankFate>>
closable == <<length, tasksClosed, cleared, closableAt>>
ring == <<slot, produce, consume, cnt, free, usedSlots, ringAt, stored, spoiled>>

Waits == INSTANCE BlockingContainers WITH
    Kinds <- {"stack", "priority_queue", "queue"}, Threads <- Users, Objects <- Stores,
    kind <- waitKind, at <- waitAt
Ranks == INSTANCE OrderedRank WITH
    Kinds <- {"priority", "deferred"}, Capacity <- Limit,
    kind <- rankKind, at <- rankAt, fate <- rankFate
Closable == INSTANCE ClosableQueue WITH
    Threads <- Clients, Capacity <- Bound, closed <- tasksClosed, at <- closableAt
Ring == INSTANCE AnnularQueue WITH
    Threads <- RingThreads, Values <- RingValues, Capacity <- RingLength,
    used <- usedSlots, at <- ringAt

WaitingInit == Waits!Init /\ Ranks!Init /\ Closable!Init /\ Ring!Init
AtWaits == Waits!Next /\ UNCHANGED <<ranks, closable, ring>>
AtRanks == Ranks!Next /\ UNCHANGED <<waits, closable, ring>>
AtClosable == Closable!Next /\ UNCHANGED <<waits, ranks, ring>>
AtRing == Ring!Next /\ UNCHANGED <<waits, ranks, closable>>
WaitingSpec ==
    /\ WaitingInit
    /\ [][AtWaits \/ AtRanks \/ AtClosable \/ AtRing]_<<waits, ranks, closable, ring>>

-----------------------------------------------------------------------------
(* No thread sleeps while there is an element or a place for it and nobody *)
(* is on the way to it.                                                    *)
NobodySleepsThrough ==
    /\ Waits!NobodySleepsThrough
    /\ Ranks!NoUnitSleptThrough
    /\ Closable!NobodySleepsThrough

(* The ring hands its elements out in their order and writes none over, as *)
(* long as its clear is not misused; an ordered task queue hands a unit    *)
(* out once, and none that was overwritten or cleared.                     *)
OrderIsKept == Ring!RingKeepsOrder /\ Ranks!HandedOutOnce
=============================================================================
