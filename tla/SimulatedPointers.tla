--------------------------- MODULE SimulatedPointers ---------------------------
(***************************************************************************)
(* The smart pointers of Asio/model/container/simulate_pointer.hpp:        *)
(* smart_ptr and unique_ptr own an object alone, shared_ptr counts its     *)
(* owners, weak_ptr looks at an object through a shared_ptr.  A counter    *)
(* stands for the count and the mutex that are made and deleted together.  *)
(*                                                                         *)
(* Assigning a shared_ptr by copy, and a shared_ptr to a weak_ptr, does    *)
(* not compile: both need a constant as what is not.                       *)
(***************************************************************************)
EXTENDS Naturals, FiniteSets

CONSTANTS
    Kinds,        \* which of "smart", "unique", "shared" are tried
    Pointers,
    Watchers,     \* weak pointers
    Things,       \* objects that may be allocated
    Counters

VARIABLES
    kind,
    ptr,          \* for each pointer: alive, the thing, the counter
    weak,         \* for each weak pointer: alive, the thing, through which pointer
    things,       \* allocated
    count,        \* of each allocated counter
    twice         \* something was deleted that was not there

vars == <<kind, ptr, weak, things, count, twice>>

None == 0
Dead == [alive |-> FALSE, thing |-> None, counter |-> None]
Blind == [alive |-> FALSE, thing |-> None, via |-> None]

Init ==
    /\ kind \in Kinds
    /\ ptr = [p \in Pointers |-> Dead]
    /\ weak = [w \in Watchers |-> Blind]
    /\ things = {} /\ count = [c \in {} |-> 0] /\ twice = FALSE

Shared == kind = "shared"
Fresh(S, used) == IF S \ used = {} THEN {} ELSE {CHOOSE x \in S \ used : TRUE}
FreshCounters == IF Shared THEN Fresh(Counters, DOMAIN count) ELSE {None}
WithCount(f, c, n) == [x \in DOMAIN f \cup ({c} \ {None}) |-> IF x = c THEN n ELSE f[x]]

Owning(t, c) == [alive |-> TRUE, thing |-> t, counter |-> c]

(* The constructor from a pointer, which may be null: a count even then.   *)
Construct(p, t) ==
    /\ ~ptr[p].alive
    /\ \E c \in FreshCounters :
        /\ ptr' = [ptr EXCEPT ![p] = Owning(t, c)]
        /\ count' = WithCount(count, c, 1)
    /\ things' = things \cup ({t} \ {None})
    /\ UNCHANGED <<kind, weak, twice>>

(* deleter(_ptr) where there is something                                  *)
Deleted(t) == things \ {t}
Missing(t) == t # None /\ t \notin things

(* release: of what is left of the owners, only the last one deletes, and  *)
(* without an object it leaves count and mutex behind.                     *)
Last(o) == count[o.counter] = 1 /\ o.thing # None
Without(f, c) == [x \in DOMAIN f \ {c} |-> f[x]]
Released(f, o) == IF Last(o) THEN Without(f, o.counter) ELSE [f EXCEPT ![o.counter] = @ - 1]
Left(o) == IF Last(o) THEN Deleted(o.thing) ELSE things

(* ~smart_ptr, ~unique_ptr                                                 *)
Destroy(p) ==
    /\ ~Shared /\ ptr[p].alive
    /\ ptr' = [ptr EXCEPT ![p] = Dead]
    /\ things' = Deleted(ptr[p].thing)
    /\ twice' = (twice \/ Missing(ptr[p].thing))
    /\ UNCHANGED <<kind, weak, count>>

(* ~shared_ptr; nobody looks through it any more.                          *)
DestroyShared(p) ==
    /\ Shared /\ ptr[p].alive
    /\ \A w \in Watchers : weak[w].via # p
    /\ ptr' = [ptr EXCEPT ![p] = Dead]
    /\ count' = Released(count, ptr[p])
    /\ things' = Left(ptr[p])
    /\ twice' = (twice \/ (Last(ptr[p]) /\ Missing(ptr[p].thing)))
    /\ UNCHANGED <<kind, weak>>

(* The copy constructor of shared_ptr, under the mutex of its source.      *)
Copy(p, q) ==
    /\ Shared /\ ~ptr[p].alive /\ ptr[q].alive
    /\ ptr' = [ptr EXCEPT ![p] = ptr[q]]
    /\ count' = [count EXCEPT ![ptr[q].counter] = @ + 1]
    /\ UNCHANGED <<kind, weak, things, twice>>

(* The move constructors: shared_ptr gives its source a new count.         *)
MoveConstruct(p, q) ==
    /\ ~ptr[p].alive /\ ptr[q].alive
    /\ \E c \in FreshCounters :
        /\ ptr' = [ptr EXCEPT ![p] = ptr[q], ![q] = Owning(None, c)]
        /\ count' = WithCount(count, c, 1)
    /\ UNCHANGED <<kind, weak, things, twice>>

(* The move assignments: smart_ptr forgets what it had.                    *)
MoveSmart(p, q) ==
    /\ kind = "smart" /\ p # q /\ ptr[p].alive /\ ptr[q].alive
    /\ ptr' = [ptr EXCEPT ![p] = ptr[q], ![q] = Owning(None, None)]
    /\ UNCHANGED <<kind, weak, things, count, twice>>
MoveUnique(p, q) ==
    /\ kind = "unique" /\ p # q /\ ptr[p].alive /\ ptr[q].alive
    /\ ptr' = [ptr EXCEPT ![p] = ptr[q], ![q] = Owning(None, None)]
    /\ things' = Deleted(ptr[p].thing)
    /\ twice' = (twice \/ Missing(ptr[p].thing))
    /\ UNCHANGED <<kind, weak, count>>
MoveShared(p, q) ==
    /\ Shared /\ p # q /\ ptr[p].alive /\ ptr[q].alive
    /\ \E c \in FreshCounters :
        /\ ptr' = [ptr EXCEPT ![p] = ptr[q], ![q] = Owning(None, c)]
        /\ count' = WithCount(Released(count, ptr[p]), c, 1)
    /\ things' = Left(ptr[p])
    /\ twice' = (twice \/ (Last(ptr[p]) /\ Missing(ptr[p].thing)))
    /\ UNCHANGED <<kind, weak>>

-----------------------------------------------------------------------------
(* Weak pointers: made blind or on a shared_ptr, copied, moved, assigned.  *)

Watch(w) ==
    /\ Shared /\ ~weak[w].alive
    /\ \E v \in {[Blind EXCEPT !.alive = TRUE]}
            \cup {[alive |-> TRUE, thing |-> ptr[p].thing, via |-> p] :
                    p \in {q \in Pointers : ptr[q].alive}} :
        weak' = [weak EXCEPT ![w] = v]
    /\ UNCHANGED <<kind, ptr, things, count, twice>>
CopyWatch(w, v) ==
    /\ Shared /\ w # v /\ weak[v].alive
    /\ weak' = [weak EXCEPT ![w] = weak[v]]
    /\ UNCHANGED <<kind, ptr, things, count, twice>>
MoveWatch(w, v) ==
    /\ Shared /\ w # v /\ weak[v].alive
    /\ weak' = [weak EXCEPT ![w] = weak[v], ![v] = [Blind EXCEPT !.alive = TRUE]]
    /\ UNCHANGED <<kind, ptr, things, count, twice>>

(* ~weak_ptr deletes the object when it looks through no shared_ptr.       *)
EndWatch(w) ==
    LET t == IF weak[w].via = None THEN weak[w].thing ELSE None
    IN  /\ Shared /\ weak[w].alive
        /\ weak' = [weak EXCEPT ![w] = Blind]
        /\ things' = Deleted(t)
        /\ twice' = (twice \/ Missing(t))
        /\ UNCHANGED <<kind, ptr, count>>

Next ==
    \/ \E p \in Pointers :
        \/ \E t \in {None} \cup Fresh(Things, things) : Construct(p, t)
        \/ Destroy(p) \/ DestroyShared(p)
        \/ \E q \in Pointers :
            \/ Copy(p, q) \/ MoveConstruct(p, q)
            \/ MoveSmart(p, q) \/ MoveUnique(p, q) \/ MoveShared(p, q)
    \/ \E w \in Watchers :
        \/ Watch(w) \/ EndWatch(w)
        \/ \E v \in Watchers : CopyWatch(w, v) \/ MoveWatch(w, v)

Spec == Init /\ [][Next]_vars

-----------------------------------------------------------------------------
(* Nothing is deleted twice and nothing that a pointer still owns is       *)
(* deleted; a counter says how many own its object and no object has two;  *)
(* unique_ptr and shared_ptr leave no object behind (release, the moves).  *)
OwnedOnce ==
    LET alive == {p \in Pointers : ptr[p].alive}
        owners(t) == {p \in alive : ptr[p].thing = t}
    IN  /\ ~twice
        /\ \A p \in alive : ptr[p].thing \in things \cup {None}
        /\ \A t \in things :
            /\ Shared => Cardinality({ptr[p].counter : p \in owners(t)}) = 1
            /\ kind = "unique" => Cardinality(owners(t)) = 1
            /\ kind = "smart" => Cardinality(owners(t)) <= 1
        /\ Shared => \A p \in alive :
            count[ptr[p].counter] = Cardinality({q \in alive : ptr[q].counter = ptr[p].counter})
=============================================================================
