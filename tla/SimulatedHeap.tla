----------------------------- MODULE SimulatedHeap -----------------------------
(***************************************************************************)
(* priority_queue (Asio/model/container/simulate_queue.hpp): a heap in a   *)
(* vector, the greatest element first.  Positions count from 0.            *)
(***************************************************************************)
EXTENDS Integers, Sequences, SequencesExt

CONSTANTS Values, MaxLength

VARIABLES
    heap,        \* vector_container_object
    history      \* how often each value has been pushed and not popped

vars == <<heap, history>>

Init == heap = <<>> /\ history = [v \in Values |-> 0]

At(q, i) == q[i + 1]
Swapped(q, i, j) == [q EXCEPT ![i + 1] = At(q, j), ![j + 1] = At(q, i)]

(* priority_queue_adjust_upwards                                           *)
RECURSIVE AdjustUpwards(_, _)
AdjustUpwards(q, child) ==
    LET parent == (child - 1) \div 2
    IN  IF child > 0 /\ At(q, parent) < At(q, child)
        THEN AdjustUpwards(Swapped(q, parent, child), parent) ELSE q

GreaterChild(q, parent) ==
    LET left == parent * 2 + 1
    IN  IF left + 1 < Len(q) /\ At(q, left) < At(q, left + 1) THEN left + 1 ELSE left

(* priority_queue_adjust_downwards                                         *)
RECURSIVE AdjustDownwards(_, _)
AdjustDownwards(q, parent) ==
    LET child == GreaterChild(q, parent)
    IN  IF child < Len(q) /\ At(q, parent) < At(q, child)
        THEN AdjustDownwards(Swapped(q, parent, child), child) ELSE q

Push(v) ==
    /\ Len(heap) < MaxLength
    /\ heap' = AdjustUpwards(Append(heap, v), Len(heap))
    /\ history' = [history EXCEPT ![v] = @ + 1]

(* pop of an empty queue throws: it asks the vector for the element before *)
(* the first.                                                              *)
Pop ==
    LET top == Head(heap)
        last == Len(heap) - 1
    IN  /\ heap # <<>>
        /\ heap' = AdjustDownwards(SubSeq(Swapped(heap, 0, last), 1, last), 0)
        /\ history' = [history EXCEPT ![top] = @ - 1]

Next == Pop \/ \E v \in Values : Push(v)

Spec == Init /\ [][Next]_vars

(* The element on top is the greatest, and nothing is lost or doubled      *)
(* (priority_queue, its two adjustments).                                  *)
TopIsGreatest ==
    /\ \A v \in Values : Len(SelectSeq(heap, LAMBDA x : x = v)) = history[v]
    /\ heap # <<>> => \A i \in DOMAIN heap : heap[i] <= Head(heap)
=============================================================================
