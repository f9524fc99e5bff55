--------------------------- MODULE SimulatedBuffers ---------------------------
(***************************************************************************)
(* Who owns what memory in string, vector and list (simulate_string.hpp,   *)
(* simulate_vector.hpp, simulate_list.hpp of Asio/model/container), while  *)
(* objects are made, grow, are copied, moved, swapped and destroyed.       *)
(*                                                                         *)
(* Of the contents only the length counts.  A block is an array of room    *)
(* elements, or, for a list, its head with all nodes (room 0).  An object  *)
(* that follows a null pointer or goes beyond its block ends the run with  *)
(* a fate of its own.                                                      *)
(***************************************************************************)
EXTENDS Naturals, FiniteSets

CONSTANTS
    Kinds,       \* which of "string", "vector", "list" are tried
    Objects,
    Blocks,      \* numbers of blocks
    MaxSize      \* no operation beyond this length

VARIABLES
    kind,
    object,      \* for each object: alive, block, size, capacity
    room,        \* the length of each allocated block
    fate         \* "well", or "null" or "outside" after an access to such

vars == <<kind, object, room, fate>>

None == 0
Dead == [alive |-> FALSE, block |-> None, size |-> 0, capacity |-> 0]
Holding(b, s, c) == [alive |-> TRUE, block |-> b, size |-> s, capacity |-> c]
Nothing == Holding(None, 0, 0)

Init ==
    /\ kind \in Kinds
    /\ object = [o \in Objects |-> Dead]
    /\ room = [b \in {} |-> 0]
    /\ fate = "well"

Allocated == DOMAIN room
Fresh == Blocks \ Allocated
NextFresh == CHOOSE b \in Fresh : TRUE
With(r, b, n) == [x \in DOMAIN r \cup {b} |-> IF x = b THEN n ELSE r[x]]
Without(r, b) == [x \in DOMAIN r \ {b} |-> r[x]]

(* One byte more than the capacity, for the end of a string.               *)
Length(capacity) == IF kind = "string" THEN capacity + 1 ELSE capacity

Ready(o) == fate = "well" /\ object[o].alive
Put(o, v) == object' = [object EXCEPT ![o] = v]
Ends(how) == fate' = how /\ UNCHANGED <<kind, object, room>>

-----------------------------------------------------------------------------
(* Constructors and destructors *)

(* From n elements; vector has a constructor without a block as well.      *)
Construct(o, n) ==
    /\ fate = "well" /\ ~object[o].alive /\ Fresh # {}
    /\ Put(o, Holding(NextFresh, n, IF kind = "list" THEN 0 ELSE n))
    /\ room' = With(room, NextFresh, IF kind = "list" THEN 0 ELSE Length(n))
    /\ UNCHANGED <<kind, fate>>
ConstructEmpty(o) ==
    /\ kind = "vector" /\ fate = "well" /\ ~object[o].alive
    /\ Put(o, Nothing)
    /\ UNCHANGED <<kind, room, fate>>

(* The copy has the capacity of its source; string reads up to the end of  *)
(* a block that a moved string has not.                                    *)
CopyConstruct(o, p) ==
    LET s == object[p]
    IN  /\ Ready(p) /\ ~object[o].alive /\ Fresh # {}
        /\ IF s.block = None /\ kind # "vector" THEN Ends("null")
           ELSE /\ \/ /\ kind = "vector" /\ s.capacity = 0
                      /\ Put(o, Nothing)
                      /\ UNCHANGED room
                   \/ /\ kind # "vector" \/ s.capacity > 0
                      /\ Put(o, [s EXCEPT !.block = NextFresh])
                      /\ room' = With(room, NextFresh, IF kind = "list" THEN 0 ELSE Length(s.capacity))
                /\ UNCHANGED <<kind, fate>>

(* Mutant: the source keeps its block as well.                             *)
MovedFromKeeps(s) == s

(* What is left of the source of a move: string forgets its block only.    *)
MovedFrom(s) == IF kind = "vector" THEN Nothing ELSE [s EXCEPT !.block = None]

MoveConstruct(o, p) ==
    LET s == object[p]
    IN  /\ Ready(p) /\ ~object[o].alive
        /\ object' = [object EXCEPT ![o] = s, ![p] = MovedFrom(s)]
        /\ \/ kind # "list" /\ UNCHANGED room
           \/ kind = "list" /\ Fresh # {} /\ room' = With(room, NextFresh, 0)
        /\ UNCHANGED <<kind, fate>>

(* ~list clears the list, which begins at its head.                        *)
Destroy(o) ==
    LET b == object[o].block
    IN  /\ Ready(o)
        /\ IF kind = "list" /\ b = None THEN Ends("null")
           ELSE /\ Put(o, Dead)
                /\ room' = Without(room, b)
                /\ UNCHANGED <<kind, fate>>

-----------------------------------------------------------------------------
(* Assignment and exchange *)

(* string frees its block and copies; vector and list exchange their block *)
(* with that of a copy, whose destructor follows the old head of the list. *)
CopyAssign(o, p) ==
    LET s == object[p]
        to == IF kind = "vector" /\ s.capacity = 0 THEN None ELSE NextFresh
        freed == Without(room, object[o].block)
    IN  /\ Ready(o) /\ Ready(p) /\ o # p /\ Fresh # {}
        /\ IF \/ kind = "list" /\ (s.block = None \/ object[o].block = None)
              \/ kind = "string" /\ s.block = None /\ s.size > 0
           THEN Ends("null")
           ELSE /\ Put(o, [s EXCEPT !.block = to])
                /\ room' = IF to = None THEN freed
                           ELSE With(freed, to, IF kind = "list" THEN 0 ELSE Length(s.capacity))
                /\ UNCHANGED <<kind, fate>>

(* Only string frees what it has; list gives its source a new head.        *)
MoveAssign(o, p) ==
    LET s == object[p]
    IN  /\ Ready(o) /\ Ready(p) /\ o # p
        /\ \/ /\ kind = "string"
              /\ object' = [object EXCEPT ![o] = s, ![p] = MovedFrom(s)]
              /\ room' = Without(room, object[o].block)
           \/ /\ kind = "vector"
              /\ object' = [object EXCEPT ![o] = s, ![p] = MovedFrom(s)]
              /\ UNCHANGED room
           \/ /\ kind = "list" /\ Fresh # {}
              /\ object' = [object EXCEPT ![o] = s, ![p] = Holding(NextFresh, 0, 0)]
              /\ room' = With(room, NextFresh, 0)
        /\ UNCHANGED <<kind, fate>>

Swap(o, p) ==
    /\ Ready(o) /\ Ready(p) /\ o # p
    /\ object' = [object EXCEPT ![o] = object[p], ![p] = object[o]]
    /\ UNCHANGED <<kind, room, fate>>

-----------------------------------------------------------------------------
(* Growing and shrinking *)

(* allocate_resources of string, resize of vector: a block of n elements   *)
(* takes the place of the old one.                                         *)
Reallocate(o, n) ==
    /\ object' = [object EXCEPT ![o].block = NextFresh, ![o].capacity = n]
    /\ room' = With(Without(room, object[o].block), NextFresh, Length(n))

(* reserve of string, resize of vector                                     *)
Reserve(o, n) ==
    LET v == object[o]
    IN  /\ Ready(o) /\ kind # "list" /\ n > v.capacity /\ Fresh # {}
        /\ IF kind = "string" /\ v.block = None THEN Ends("null")
           ELSE Reallocate(o, n) /\ UNCHANGED <<kind, fate>>

DoubledCapacity(v) ==
    IF kind = "string" THEN IF v.capacity = 0 THEN 2 ELSE v.capacity * 2
    ELSE IF v.block = None THEN 10 ELSE v.capacity * 2

(* push_back, push_front of one element.  A vector that was made with no   *)
(* element at all doubles its capacity of 0.                               *)
Push(o) ==
    LET v == object[o]
        c == DoubledCapacity(v)
    IN  /\ Ready(o) /\ v.size < MaxSize /\ Fresh # {}
        /\ IF kind \in {"string", "list"} /\ v.block = None THEN Ends("null")
           ELSE IF kind = "vector" /\ v.size = v.capacity /\ c = 0 THEN Ends("outside")
           ELSE /\ \/ /\ kind # "list" /\ v.size = v.capacity
                      /\ Put(o, Holding(NextFresh, v.size + 1, c))
                      /\ room' = With(Without(room, v.block), NextFresh, Length(c))
                   \/ /\ kind = "list" \/ v.size < v.capacity
                      /\ Put(o, [v EXCEPT !.size = @ + 1])
                      /\ UNCHANGED room
                /\ UNCHANGED <<kind, fate>>

(* pop_back, pop_front: a list without elements erases its head, a vector  *)
(* without elements does nothing; a string has neither.                    *)
Pop(o) ==
    LET v == object[o]
    IN  /\ Ready(o) /\ kind # "string"
        /\ IF kind = "list" /\ v.block = None THEN Ends("null")
           ELSE IF kind = "list" /\ v.size = 0 THEN Ends("outside")
           ELSE /\ Put(o, [v EXCEPT !.size = IF @ = 0 THEN 0 ELSE @ - 1])
                /\ UNCHANGED <<kind, room, fate>>

(* += and push_back of a string, += of vector and list; an object may be   *)
(* appended to itself, but a list then never ends.  Of what is appended    *)
(* list takes the head, string a character if it has one; a list that has  *)
(* nothing to take leaves its own head alone.                              *)
FollowsNull(v, from) ==
    \/ kind = "list" /\ (from.block = None \/ (v.block = None /\ from.size > 0))
    \/ kind = "string" /\ (v.block = None \/ (from.block = None /\ from.size > 0))

Append(o, p) ==
    LET v == object[o]
        n == v.size + object[p].size
        nothing == kind = "vector" /\ object[p].size = 0
    IN  /\ Ready(o) /\ Ready(p) /\ n <= MaxSize /\ Fresh # {}
        /\ kind = "list" => o # p
        /\ IF FollowsNull(v, object[p]) THEN Ends("null")
           ELSE /\ \/ /\ kind # "list" /\ n > v.capacity /\ ~nothing
                      /\ Put(o, Holding(NextFresh, n, n))
                      /\ room' = With(Without(room, v.block), NextFresh, Length(n))
                   \/ /\ kind = "list" \/ n <= v.capacity \/ nothing
                      /\ Put(o, [v EXCEPT !.size = n])
                      /\ UNCHANGED room
                /\ UNCHANGED <<kind, fate>>

(* size_adjust of vector, which does not lengthen it; resize of string.    *)
Resize(o, n) ==
    LET v == object[o]
        size == IF kind = "vector" /\ n > v.size THEN v.size ELSE n
    IN  /\ Ready(o) /\ kind # "list" /\ Fresh # {}
        /\ IF kind = "string" /\ v.block = None THEN Ends("null")
           ELSE /\ \/ /\ n > v.capacity
                      /\ Put(o, Holding(NextFresh, size, n))
                      /\ room' = With(Without(room, v.block), NextFresh, Length(n))
                   \/ /\ n <= v.capacity
                      /\ Put(o, [v EXCEPT !.size = size])
                      /\ UNCHANGED room
                /\ UNCHANGED <<kind, fate>>

(* clear of list                                                           *)
Clear(o) ==
    /\ Ready(o) /\ kind = "list"
    /\ IF object[o].block = None THEN Ends("null")
       ELSE Put(o, [object[o] EXCEPT !.size = 0]) /\ UNCHANGED <<kind, room, fate>>

(* erase of vector, at a position it has.                                  *)
Erase(o) ==
    /\ Ready(o) /\ kind = "vector" /\ object[o].size > 0
    /\ Put(o, [object[o] EXCEPT !.size = @ - 1])
    /\ UNCHANGED <<kind, room, fate>>

(* prepend, insert_sub_string with n characters                            *)
InsertText(o, n) ==
    LET v == object[o]
    IN  /\ Ready(o) /\ kind = "string" /\ v.size + n <= MaxSize /\ Fresh # {}
        /\ IF v.block = None THEN Ends("null")
           ELSE /\ \/ /\ v.size + n > v.capacity
                      /\ Put(o, Holding(NextFresh, v.size + n, v.size + n))
                      /\ room' = With(Without(room, v.block), NextFresh, Length(v.size + n))
                   \/ /\ v.size + n <= v.capacity
                      /\ Put(o, [v EXCEPT !.size = @ + n])
                      /\ UNCHANGED room
                /\ UNCHANGED <<kind, fate>>

-----------------------------------------------------------------------------
Next ==
    \/ \E o \in Objects :
        \/ ConstructEmpty(o) \/ Destroy(o) \/ Push(o) \/ Pop(o) \/ Clear(o) \/ Erase(o)
        \/ \E n \in 0 .. 2 : Construct(o, n) \/ Resize(o, n) \/ Reserve(o, n) \/ InsertText(o, n)
    \/ \E o, p \in Objects :
        \/ CopyConstruct(o, p) \/ MoveConstruct(o, p) \/ CopyAssign(o, p)
        \/ MoveAssign(o, p) \/ Swap(o, p) \/ Append(o, p)

Spec == Init /\ [][Next]_vars

(* No two objects free the same memory, none uses memory that was freed or *)
(* ends before its capacity, and a string leaks nothing, whatever is moved *)
(* and assigned (the constructors, assignments and allocate_resources,     *)
(* resize).                                                                *)
OneOwner ==
    /\ \A o, p \in Objects :
        o # p => object[o].block = None \/ object[o].block # object[p].block
    /\ \A o \in Objects : object[o].block # None =>
        /\ object[o].block \in Allocated
        /\ kind # "list" =>
            object[o].size <= object[o].capacity /\ Length(object[o].capacity) <= room[object[o].block]
    /\ kind = "string" => \A b \in Allocated : \E o \in Objects : object[o].block = b
=============================================================================
