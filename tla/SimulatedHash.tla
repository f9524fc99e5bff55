----------------------------- MODULE SimulatedHash -----------------------------
(***************************************************************************)
(* hash_table (Asio/model/container/simulate_base.hpp): chains of nodes    *)
(* from the buckets, and one list through all nodes in the order in which  *)
(* they came, from which the table is built anew when it grows.            *)
(*                                                                         *)
(* Keys are their own hash values.  A node is a number; a node that is     *)
(* copied when the table grows keeps it.  The table meets its fate, and    *)
(* its story ends, when a key is used that pop has hidden.                 *)
(***************************************************************************)
EXTENDS Naturals, Sequences, FiniteSets, SequencesExt

CONSTANTS
    Keys,          \* numbers
    Nodes,         \* 1 .. n: no push beyond n nodes
    Capacities,    \* what the table may be constructed with
    LoadFactor     \* load_factor, in tenths

VARIABLES
    capacity,      \* hash_capacity
    chain,         \* vector_hash_table: the nodes of each bucket
    order,         \* the overall list
    size,          \* _size
    key,           \* the key of each node
    history,       \* the keys pushed and not popped, in the order they came
    fate           \* "none", or what a hidden key has led to

vars == <<capacity, chain, order, size, key, history, fate>>

Buckets(n) == 0 .. n - 1

Init ==
    /\ capacity \in Capacities
    /\ chain = [b \in Buckets(capacity) |-> <<>>]
    /\ order = <<>> /\ size = 0
    /\ key = [n \in Nodes |-> 0]
    /\ history = <<>> /\ fate = "none"

(* The places in the bucket of k where it is.                              *)
Bucket(k) == chain[k % capacity]
PlacesOf(k) ==
    IF size = 0 THEN {} ELSE {i \in DOMAIN Bucket(k) : key[Bucket(k)[i]] = k}
Find(k) == PlacesOf(k) # {}

Survivors == order

(* What a table of n buckets gets: each node of the list in the front of   *)
(* its bucket.                                                             *)
Rehashed(n) ==
    [b \in Buckets(n) |-> Reverse(SelectSeq(Survivors, LAMBDA x : key[x] % n = b))]

Full == size * 10 >= capacity * LoadFactor
NewCapacity == IF ~Full THEN capacity ELSE IF capacity = 0 THEN 10 ELSE capacity * 2
Grown == IF Full THEN Rehashed(NewCapacity) ELSE chain

(* A key of the table whose node its bucket has lost.                      *)
Hidden(k) == k \in ToSet(history) /\ ~Find(k)

(* push.  A hidden key comes in twice.                                     *)
Push(k) ==
    LET n == CHOOSE x \in Nodes : x \notin Range(order)
        b == k % NewCapacity
    IN  /\ fate = "none" /\ ~Find(k) /\ Len(order) < Cardinality(Nodes)
        /\ capacity' = NewCapacity
        /\ chain' = [Grown EXCEPT ![b] = <<n>> \o @]
        /\ order' = Append(IF Full THEN Survivors ELSE order, n)
        /\ size' = (IF Full THEN Len(Survivors) ELSE size) + 1
        /\ key' = [key EXCEPT ![n] = k]
        /\ history' = IF Hidden(k) THEN history ELSE Append(history, k)
        /\ fate' = IF Hidden(k) THEN "twice" ELSE "none"

(* push of a temporary: the same.                                          *)
PushMoved(k) == Push(k)

(* hash_chain_adjustment: with the first node of a chain the others are    *)
(* lost to the bucket.                                                     *)
Unchained(q, i) == IF i = 1 THEN <<>> ELSE RemoveAt(q, i)

(* pop takes the node out of the list, at its head, its end or between.    *)
Unlisted(n) == SelectSeq(order, LAMBDA x : x # n)

Pop(k) ==
    LET i == CHOOSE j \in PlacesOf(k) : \A l \in PlacesOf(k) : j <= l
        n == Bucket(k)[i]
    IN  /\ fate = "none" /\ Find(k)
        /\ chain' = [chain EXCEPT ![k % capacity] = Unchained(@, i)]
        /\ order' = Unlisted(n)
        /\ size' = size - 1
        /\ history' = SelectSeq(history, LAMBDA x : x # k)
        /\ UNCHANGED <<capacity, key, fate>>

(* pop of a hidden key: it is not found, and stays.                        *)
Miss(k) ==
    /\ fate = "none" /\ Hidden(k)
    /\ history' = SelectSeq(history, LAMBDA x : x # k)
    /\ fate' = "left"
    /\ UNCHANGED <<capacity, chain, order, size, key>>

Next == \E k \in Keys : Push(k) \/ PushMoved(k) \/ Pop(k) \/ Miss(k)

Spec == Init /\ [][Next]_vars

-----------------------------------------------------------------------------
(* Iteration shows the keys pushed and not popped, each once and in the    *)
(* order in which they came, as many as size says, also after the table    *)
(* has grown and though pop loses parts of chains: what a bucket has is in *)
(* the list, and in the bucket of its key (push, pop,                      *)
(* hash_chain_adjustment).  Excepted is a table in which a key that pop    *)
(* had hidden was pushed or popped again.                                  *)
ListIsHistory ==
    /\ size = Len(order) /\ IsInjective(order)
    /\ fate = "none" => [i \in DOMAIN order |-> key[order[i]]] = history /\ IsInjective(history)
    /\ \A b \in DOMAIN chain :
        /\ IsInjective(chain[b])
        /\ \A n \in Range(chain[b]) : n \in Range(order) /\ key[n] % capacity = b
=============================================================================
