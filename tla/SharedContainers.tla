--------------------------- MODULE SharedContainers ---------------------------
(***************************************************************************)
(* The containers of Asio/model/concurrent that guard a standard container *)
(* by one shared_mutex: what each method locks, in which order, and what   *)
(* it touches under the locks.  Of the contents nothing is kept; what the  *)
(* locks are for is that no method touches what another is writing.        *)
(*                                                                         *)
(* The semaphores and condition variables of the other containers are in   *)
(* AnnularQueue and BlockingContainers.                                    *)
(***************************************************************************)
EXTENDS Naturals, Sequences, FiniteSets, SequencesExt

CONSTANTS
    Callers,
    Objects        \* numbers: the addresses of containers of one class

VARIABLES
    methods,       \* what the class of the containers offers
    at,            \* "idle", "locking" or "inside", for each thread
    call,          \* what the thread does, with the objects it does it to
    got            \* how many of the locks of its call the thread has

vars == <<methods, at, call, got>>

-----------------------------------------------------------------------------
(* Methods.  "self" is the object, "other" the argument of the same class. *)
(* order tells how the locks are taken: as written, by address, or all     *)
(* together with std::lock.  distinct: the method returns at once when it  *)
(* is called with its own object.  bare: what it writes without its lock;  *)
(* only the two moves of unordered_multiset are declared so.               *)

Shared(role) == [role |-> role, mode |-> "shared"]
Unique(role) == [role |-> role, mode |-> "unique"]

Method(name, locks, reads, writes) ==
    [name |-> name, locks |-> locks, reads |-> reads, writes |-> writes,
     order |-> "written", distinct |-> FALSE, bare |-> {}]
OfDistinct(m) == [m EXCEPT !.distinct = TRUE]

Reading(names) == {Method(n, <<Shared("self")>>, {"self"}, {}) : n \in names}

(* Mutant: a writer takes the lock as a reader does. *)
WritingShared(names) == {Method(n, <<Shared("self")>>, {}, {"self"}) : n \in names}

Writing(names) == {Method(n, <<Unique("self")>>, {}, {"self"}) : n \in names}

(* at and [] of an object that is not const only look for the element.     *)
LookingUp(names) == {Method(n, <<Unique("self")>>, {"self"}, {}) : n \in names}
Unguarded(names) == {Method(n, <<>>, {}, {}) : n \in names}

CopyConstruct == Method("copy", <<Shared("other")>>, {"other"}, {})
CopyAssign ==
    OfDistinct(Method("operator=", <<Unique("self"), Shared("other")>>, {"other"}, {"self"}))
Swap == OfDistinct(Method("swap", <<Unique("self"), Unique("other")>>, {}, {"self", "other"}))
SwapByAddress == [Swap EXCEPT !.order = "address"]
SwapTogether == [Swap EXCEPT !.order = "together"]
Merge == Method("merge", <<Unique("self"), Unique("other")>>, {}, {"self", "other"})
Comparing(names) ==
    {Method(n, <<Shared("self"), Shared("other")>>, {"self", "other"}, {}) : n \in names}
Updating(names) ==
    {Method(n, <<Unique("self"), Shared("other")>>, {"other"}, {"self"}) : n \in names}

-----------------------------------------------------------------------------
(* The classes *)

ConcurrentVectorElements ==
    {CopyConstruct, CopyAssign}
    \cup Reading({"size", "empty", "max_size", "capacity", "at const", "[] const"})
    \cup LookingUp({"at", "[]"})
    \cup Writing({"push_back", "emplace_back", "pop_back"})
ConcurrentVectorWhole ==
    {Swap}
    \cup Reading({"contains", "snapshot"})
    \cup Writing({"clear", "resize", "reserve", "insert", "erase"})
ConcurrentVector == ConcurrentVectorElements \cup ConcurrentVectorWhole

(* at that returns a reference for writing has the lock for reading only.  *)
ConcurrentArray ==
    {CopyConstruct, CopyAssign, Swap}
    \cup Reading({"at const", "at", "[] const", "front", "back", "data", "begin", "end"})
    \cup LookingUp({"[]"})
    \cup Writing({"construct", "fill"})
    \cup Unguarded({"empty", "size", "max_size"})

ConcurrentForwardListFront ==
    {CopyConstruct, CopyAssign}
    \cup Reading({"get_allocator", "empty", "front"})
    \cup Writing({"push_front", "pop_front"})
ConcurrentForwardListPlaces ==
    {Swap}
    \cup Reading({"begin", "end"})
    \cup Writing({"insert_after", "emplace_after", "emplace_front", "erase_after", "clear"})
ConcurrentForwardList == ConcurrentForwardListFront \cup ConcurrentForwardListPlaces

ConcurrentListEnds ==
    {CopyConstruct, CopyAssign}
    \cup Reading({"get_allocator", "empty", "size", "max_size", "front", "back"})
    \cup Writing({"push_front", "push_back", "pop_front", "pop_back"})
ConcurrentListPlaces ==
    {Swap}
    \cup Reading({"begin", "end"})
    \cup Writing({"insert", "emplace", "emplace_front", "emplace_back", "erase", "clear"})
ConcurrentList == ConcurrentListEnds \cup ConcurrentListPlaces

(* pop_front and pop_back stay inside until the deque is not empty.        *)
ConcurrentDequeEnds ==
    Reading({"size", "empty", "max_size"})
    \cup Writing({"push_back", "push_front", "emplace_back", "emplace_front", "pop_front",
                  "pop_back", "try_pop_front", "try_pop_back"})
ConcurrentDequeWhole ==
    Reading({"at const", "[] const", "snapshot"})
    \cup LookingUp({"at", "[]"})
    \cup Writing({"push_range", "pop_range", "clear"})
ConcurrentDeque == ConcurrentDequeEnds \cup ConcurrentDequeWhole

(* Two objects, without a look whether they are one.                       *)
ConcurrentStringContents ==
    {CopyConstruct, CopyAssign}
    \cup Reading({"length", "size", "empty", "at", "[]", "c_str", "str"})
    \cup Writing({"construct", "= text", "clear", "reserve", "+= text"})
ConcurrentStringPairs ==
    Updating({"+="}) \cup Comparing({"==", "!=", "<", ">", "<=", ">="})
    \cup Reading({"find", "substr"}) \cup Writing({"replace"})
ConcurrentString == ConcurrentStringContents \cup ConcurrentStringPairs

ConcurrentBitsetBits ==
    {CopyConstruct, CopyAssign}
    \cup Reading({"test", "bool", "[]"})
    \cup Writing({"flip", "set", "reset"})
ConcurrentBitsetWhole ==
    Comparing({"&", "|", "^"}) \cup Updating({"&=", "|=", "^="})
    \cup Reading({"~", "to_ulong", "to_ullong", "to_string", "count", "all", "any", "none"})
    \cup Unguarded({"size"})
ConcurrentBitset == ConcurrentBitsetBits \cup ConcurrentBitsetWhole

ConcurrentMapElements ==
    {CopyConstruct, CopyAssign}
    \cup Reading({"empty", "size", "max_size", "at const"})
    \cup LookingUp({"at"})
    \cup Writing({"[]", "insert"})
ConcurrentMapPlaces ==
    {Swap}
    \cup Reading({"find", "end", "count"})
    \cup Writing({"emplace", "try_emplace", "insert_or_assign", "erase", "clear"})
ConcurrentMapWhole ==
    {Merge}
    \cup Reading({"contains", "lower_bound", "upper_bound", "equal_range", "key_comp",
                  "snapshot"})
ConcurrentMap == ConcurrentMapElements \cup ConcurrentMapPlaces \cup ConcurrentMapWhole

MultimapMove == Method("move", <<Unique("other")>>, {}, {"other"})
MultimapMoveAssign == [Swap EXCEPT !.name = "operator= of a temporary"]
ConcurrentMultimapElements ==
    {CopyConstruct, CopyAssign, MultimapMove, MultimapMoveAssign}
    \cup Reading({"get_allocator", "end", "empty", "size", "max_size"})
    \cup Writing({"= list", "clear", "insert"})
ConcurrentMultimapPlaces ==
    {SwapByAddress}
    \cup Reading({"find", "count", "contains", "equal_range"})
    \cup Writing({"insert", "emplace", "emplace_hint", "erase"})
ConcurrentMultimapWhole ==
    {Merge}
    \cup Reading({"lower_bound", "upper_bound", "key_comp", "value_comp", "snapshot"})
ConcurrentMultimap ==
    ConcurrentMultimapElements \cup ConcurrentMultimapPlaces \cup ConcurrentMultimapWhole

ConcurrentMultisetElements ==
    {CopyConstruct, CopyAssign}
    \cup Reading({"get_allocator", "begin", "end", "cbegin", "cend", "empty", "size", "max_size"})
    \cup Writing({"insert", "emplace", "erase"})
ConcurrentMultisetWhole ==
    {SwapTogether}
    \cup Reading({"find", "count", "lower_bound", "upper_bound", "equal_range", "key_comp",
                  "snapshot"})
    \cup Writing({"erase", "clear"})
ConcurrentMultiset == ConcurrentMultisetElements \cup ConcurrentMultisetWhole

ConcurrentSetElements ==
    {CopyConstruct, CopyAssign}
    \cup Reading({"empty", "size", "max_size"})
    \cup Writing({"insert", "emplace", "erase", "clear"})
ConcurrentSetWhole ==
    {Swap, Merge}
    \cup Reading({"find", "count", "contains", "lower_bound", "upper_bound", "equal_range",
                  "key_comp", "snapshot"})
ConcurrentSet == ConcurrentSetElements \cup ConcurrentSetWhole

Buckets ==
    {"empty", "size", "max_size", "bucket_count", "max_bucket_count", "bucket_size",
     "begin", "end"}
Lookups == {"find", "count", "contains", "hash_function", "key_eq", "snapshot"}
Changes == {"insert", "emplace", "erase", "clear"}

UnorderedMapElements ==
    {CopyConstruct, CopyAssign} \cup Reading(Buckets \cup {"at const"})
    \cup LookingUp({"at"}) \cup Writing({"[]"})
UnorderedMapWhole == {Swap, Merge} \cup Reading(Lookups) \cup Writing(Changes)
UnorderedMap == UnorderedMapElements \cup UnorderedMapWhole

UnorderedMultimapElements ==
    {CopyConstruct, CopyAssign} \cup Reading(Buckets) \cup Writing({"insert", "emplace"})
UnorderedMultimapWhole ==
    {Swap, Merge} \cup Reading(Lookups) \cup Writing({"erase", "clear"})
UnorderedMultimap == UnorderedMultimapElements \cup UnorderedMultimapWhole

(* Both moves empty their source without its lock.                         *)
BareMove == [Method("move", <<>>, {}, {"other"}) EXCEPT !.bare = {"other"}]
BareMoveAssign ==
    [Method("operator= of a temporary", <<Unique("self")>>, {}, {"self", "other"})
        EXCEPT !.bare = {"other"}, !.distinct = TRUE]
Tuning ==
    Reading({"load_factor", "max_load_factor"})
    \cup Writing({"max_load_factor of", "rehash", "reserve"})
UnorderedMultisetElements ==
    {CopyConstruct, CopyAssign, BareMove, BareMoveAssign}
    \cup Reading(Buckets \cup {"get_allocator", "bucket"}) \cup Writing({"insert"})
UnorderedMultisetPlaces ==
    {Swap} \cup Reading(Lookups \cup {"equal_range"}) \cup Writing(Changes)
UnorderedMultisetWhole == {Merge} \cup Tuning \cup Reading({"snapshot"})
UnorderedMultiset ==
    UnorderedMultisetElements \cup UnorderedMultisetPlaces \cup UnorderedMultisetWhole

UnorderedSetElements == {CopyConstruct, CopyAssign} \cup Reading(Buckets) \cup Writing(Changes)
UnorderedSetWhole == {Swap, Merge} \cup Reading(Lookups) \cup Tuning
UnorderedSet == UnorderedSetElements \cup UnorderedSetWhole

Classes ==
    {ConcurrentVector, ConcurrentArray, ConcurrentForwardList, ConcurrentList, ConcurrentDeque,
     ConcurrentString, ConcurrentBitset, ConcurrentMap, ConcurrentMultimap, ConcurrentMultiset,
     ConcurrentSet, UnorderedMap, UnorderedMultimap, UnorderedMultiset, UnorderedSet}

-----------------------------------------------------------------------------
(* Calls.  Methods that lock and touch the same are one.                   *)

Kind(m) == [locks |-> m.locks, reads |-> m.reads, writes |-> m.writes,
            order |-> m.order, distinct |-> m.distinct, bare |-> m.bare]

NoCall == [locks |-> <<>>, reads |-> {}, writes |-> {}, bare |-> {}, order |-> "written"]

Init ==
    /\ methods \in {{Kind(m) : m \in class} : class \in Classes}
    /\ at = [t \in Callers |-> "idle"]
    /\ call = [t \in Callers |-> NoCall]
    /\ got = [t \in Callers |-> 0]

(* Mutant: no look at the addresses.                                       *)
LocksAsWritten(m, object) ==
    [i \in DOMAIN m.locks |-> [object |-> object[m.locks[i].role], mode |-> m.locks[i].mode]]

Locks(m, object) ==
    LET written == [i \in DOMAIN m.locks |->
                      [object |-> object[m.locks[i].role], mode |-> m.locks[i].mode]]
    IN  IF m.order = "address" /\ object.other < object.self THEN Reverse(written) ELSE written

CallOf(m, object) ==
    [locks |-> Locks(m, object), order |-> m.order,
     reads |-> {object[r] : r \in m.reads}, writes |-> {object[r] : r \in m.writes},
     bare |-> {object[r] : r \in m.bare}]

Begin(t) ==
    \E m \in methods, o, p \in Objects :
        LET object == [self |-> o, other |-> p]
        IN  /\ at[t] = "idle"
            /\ m.distinct => o # p
            /\ at' = [at EXCEPT ![t] = "locking"]
            /\ call' = [call EXCEPT ![t] = CallOf(m, object)]
            /\ UNCHANGED <<methods, got>>

Held(t) == {call[t].locks[i] : i \in 1 .. got[t]}
Wanted(t) == call[t].locks[got[t] + 1]
InTheWay(held, wanted) ==
    held.object = wanted.object /\ (held.mode = "unique" \/ wanted.mode = "unique")

(* Who keeps t from its next lock; t itself, if it has it already.         *)
Blockers(t) ==
    IF at[t] # "locking" \/ got[t] = Len(call[t].locks) THEN {}
    ELSE {u \in Callers : \E l \in Held(u) : InTheWay(l, Wanted(t))}

Acquire(t) ==
    /\ at[t] = "locking" /\ got[t] < Len(call[t].locks)
    /\ Blockers(t) = {}
    /\ got' = [got EXCEPT ![t] = @ + 1]
    /\ UNCHANGED <<methods, at, call>>

(* std::lock gives back what it has and begins with the lock it missed.    *)
BackOff(t) ==
    /\ at[t] = "locking" /\ call[t].order = "together"
    /\ got[t] > 0 /\ Blockers(t) # {}
    /\ got' = [got EXCEPT ![t] = 0]
    /\ call' = [call EXCEPT ![t].locks = Reverse(@)]
    /\ UNCHANGED <<methods, at>>

Enter(t) ==
    /\ at[t] = "locking" /\ got[t] = Len(call[t].locks)
    /\ at' = [at EXCEPT ![t] = "inside"]
    /\ UNCHANGED <<methods, call, got>>

Leave(t) ==
    /\ at[t] = "inside"
    /\ at' = [at EXCEPT ![t] = "idle"]
    /\ call' = [call EXCEPT ![t] = NoCall]
    /\ got' = [got EXCEPT ![t] = 0]
    /\ UNCHANGED methods

Next == \E t \in Callers : Begin(t) \/ Acquire(t) \/ BackOff(t) \/ Enter(t) \/ Leave(t)

Spec == Init /\ [][Next]_vars

-----------------------------------------------------------------------------
(* No method is inside an object that another is writing, whatever two     *)
(* objects they were called with, unless that object is the source of one  *)
(* of the two moves of unordered_multiset, the only ones that empty what   *)
(* they have not locked.                                                   *)
Touched(t) == call[t].reads \cup call[t].writes

WritersAreAlone ==
    \A t, u \in Callers :
        t # u /\ at[t] = "inside" /\ at[u] = "inside"
        => call[t].writes \cap Touched(u) \subseteq call[t].bare \cup call[u].bare

(* Calls that lock two objects by address or with std::lock, and calls     *)
(* that lock one, never wait for each other in a circle (swap of multimap  *)
(* and of multiset).                                                       *)
InOrder(t) == Len(call[t].locks) < 2 \/ call[t].order # "written"

NoCircle ==
    \A group \in SUBSET Callers :
        group # {} /\ (\A t \in group : InOrder(t))
        => \E t \in group :
            \/ Blockers(t) \cap group = {}
            \/ got[t] > 0 /\ call[t].order = "together"
=============================================================================
