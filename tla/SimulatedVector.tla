---------------------------- MODULE SimulatedVector ----------------------------
(***************************************************************************)
(* The elements of a vector (Asio/model/container/simulate_vector.hpp) in  *)
(* its block, moved one by one, beside the sequence that the description   *)
(* at the head of the file promises.  What lies behind the last element    *)
(* stays there until it is written over.  Where the code is known to do    *)
(* something else the vector meets its fate, and its story ends.           *)
(***************************************************************************)
EXTENDS Integers, SequencesExt

CONSTANTS
    Values,
    MaxLength      \* no operation beyond this length

Default == 0       \* vector_type()

VARIABLES
    block,         \* _data_pointer: the elements from 0 to the capacity
    size,          \* _size_pointer
    contents,      \* history: the sequence
    fate           \* "none", or why the sequence is not there

vars == <<block, size, contents, fate>>

Capacity == Cardinality(DOMAIN block)

(* resize: elements are moved to a longer block, which is filled up.       *)
Resized(capacity, v) ==
    IF capacity <= Capacity THEN block
    ELSE [i \in 0 .. capacity - 1 |-> IF i < size THEN block[i] ELSE v]
Filled(cells, from, to, v) ==
    [i \in DOMAIN cells |-> IF i \in from .. to - 1 THEN v ELSE cells[i]]

(* A vector without elements has no block yet.                             *)
Init ==
    /\ fate = "none"
    /\ \/ block = [i \in {} |-> Default] /\ size = 0 /\ contents = <<>>
       \/ \E n \in 1 .. 2 : \E s \in [1 .. n -> Values] :
            block = [i \in 0 .. n - 1 |-> s[i + 1]] /\ size = n /\ contents = s

Becomes(cells, s) ==
    /\ fate = "none" /\ Len(s) <= MaxLength
    /\ block' = cells /\ size' = Len(s) /\ contents' = s /\ UNCHANGED fate

(* The elements stay as they are, against the promise.                     *)
Keeps(cells, s, f) ==
    /\ fate = "none" /\ Len(s) <= MaxLength
    /\ block' = cells /\ contents' = s /\ fate' = f /\ UNCHANGED size

-----------------------------------------------------------------------------
(* push_back, push_front                                                   *)
Grown ==
    IF size < Capacity THEN block
    ELSE Resized(IF Capacity = 0 THEN 10 ELSE 2 * Capacity, Default)
PushBack(v) == Becomes([Grown EXCEPT ![size] = v], Append(contents, v))

(* The last element is moved back first.                                   *)
Shifted(cells) ==
    [i \in DOMAIN cells |-> IF i \in 1 .. size THEN cells[i - 1] ELSE cells[i]]
PushFront(v) == Becomes([Shifted(Grown) EXCEPT ![0] = v], <<v>> \o contents)

(* pop_back, pop_front and erase, which moves up what follows; the first   *)
(* two do nothing when there is no element.                                *)
MovedUp(at) ==
    [i \in DOMAIN block |-> IF i \in at .. size - 2 THEN block[i + 1] ELSE block[i]]
PopBack == Becomes(block, IF size = 0 THEN <<>> ELSE Front(contents))
PopFront == Becomes(MovedUp(0), IF size = 0 THEN <<>> ELSE Tail(contents))
Erase(at) == at < size /\ Becomes(MovedUp(at), RemoveAt(contents, at + 1))

(* += with another vector, or with itself after its block was replaced.    *)
AppendAll(s) ==
    LET room == Resized(size + Len(s), Default)
    IN  Becomes([i \in DOMAIN room |->
                    IF i \in size .. size + Len(s) - 1 THEN s[i - size + 1] ELSE room[i]],
                contents \o s)
AppendSelf ==
    LET room == Resized(size + size, Default)
    IN  Becomes([i \in DOMAIN room |->
                    IF i \in size .. size + size - 1 THEN room[i - size] ELSE room[i]],
                contents \o contents)

(* size_adjust is to make the vector n elements long: it fills the places, *)
(* and the vector is no longer than before.  resize is to set the capacity *)
(* and to cut what is beyond it: it never cuts.                            *)
Longer(n, v) == contents \o [i \in 1 .. n - size |-> v]
SizeAdjust(n, v) ==
    \/ n > Capacity /\ Keeps(Filled(Resized(n, Default), Capacity, n, v), Longer(n, v), "as short")
    \/ n <= Capacity /\ n > size /\ Keeps(Filled(block, size, n, v), Longer(n, v), "as short")
    \/ n <= size /\ Becomes(block, SubSeq(contents, 1, n))
Resize(n, v) ==
    \/ n >= size /\ Becomes(Resized(n, v), contents)
    \/ n < size /\ Keeps(block, SubSeq(contents, 1, n), "not cut")

(* The copy has the capacity of its source and takes its place.            *)
CopyAssign ==
    Becomes([i \in DOMAIN block |-> IF i < size THEN block[i] ELSE Default], contents)

Next ==
    \/ \E v \in Values :
        \/ PushBack(v) \/ PushFront(v)
        \/ \E n \in 0 .. MaxLength : SizeAdjust(n, v) \/ Resize(n, v)
    \/ \E s \in UNION {[1 .. n -> Values] : n \in 0 .. 2} : AppendAll(s)
    \/ \E at \in 0 .. MaxLength : Erase(at)
    \/ PopBack \/ PopFront \/ AppendSelf \/ CopyAssign

Spec == Init /\ [][Next]_vars

-----------------------------------------------------------------------------
(* The block holds the promised elements in their order.  Excepted are a   *)
(* vector that size_adjust should have made longer and one that resize     *)
(* should have cut.                                                        *)
BlockHoldsContents ==
    fate = "none" =>
        /\ size = Len(contents) /\ size <= Capacity
        /\ \A i \in DOMAIN contents : block[i - 1] = contents[i]
=============================================================================
