----------------------------- MODULE SimulatedList -----------------------------
(***************************************************************************)
(* The nodes of a list (Asio/model/container/simulate_list.hpp): a ring    *)
(* through a head that holds no element, linked both ways, and an iterator *)
(* that the caller keeps while others insert and erase around it.  An      *)
(* element never leaves its node, so that only the nodes are shown.        *)
(***************************************************************************)
EXTENDS Naturals, SequencesExt

CONSTANTS
    Sentinel,   \* _head
    Nodes       \* the other nodes there may be

VARIABLES
    node,       \* the allocated nodes: prev and next
    held,       \* the node of the kept iterator, the head for end()
    contents    \* history: the nodes of the elements in their order

vars == <<node, held, contents>>

Alone == [n \in {Sentinel} |-> [prev |-> Sentinel, next |-> Sentinel]]
Init == node = Alone /\ held = Sentinel /\ contents = <<>>

Places == DOMAIN node
Elements == Places \ {Sentinel}
Fresh == Nodes \ Places
Position(n) == CHOOSE i \in 1 .. Len(contents) + 1 : (contents \o <<Sentinel>>)[i] = n

-----------------------------------------------------------------------------
(* insert before a place: the four links.                                  *)
Linked(links, n, at) ==
    [x \in DOMAIN links \cup {n} |->
        IF x = n THEN [prev |-> links[at].prev, next |-> at]
        ELSE [links[x] EXCEPT !.next = IF x = links[at].prev THEN n ELSE @,
                              !.prev = IF x = at THEN n ELSE @]]

(* erase: the neighbours are linked and the node is freed.                 *)
Unlinked(links, at) ==
    [x \in DOMAIN links \ {at} |->
        [links[x] EXCEPT !.next = IF x = links[at].prev THEN links[at].next ELSE @,
                         !.prev = IF x = links[at].next THEN links[at].prev ELSE @]]

(* insert returns an iterator to the new element, erase one to the next:   *)
(* the caller may keep it.                                                 *)
Insert(at) == \E n \in Fresh :
    /\ node' = Linked(node, n, at)
    /\ contents' = InsertAt(contents, Position(at), n)
    /\ held' \in {held, n}
Erase(at) ==
    /\ at # Sentinel
    /\ node' = Unlinked(node, at)
    /\ contents' = RemoveAt(contents, Position(at))
    /\ held' \in {node[at].next} \cup ({held} \ {at})

PushBack == Insert(Sentinel)
PushFront == Insert(node[Sentinel].next)
PopBack == Erase(node[Sentinel].prev)
PopFront == Erase(node[Sentinel].next)

-----------------------------------------------------------------------------
(* resize, one element after the other at the back: an iterator to one of  *)
(* those that go is given up.                                              *)
Shrink(size) ==
    LET cut[k \in Nat] ==
            IF k = 0 THEN node ELSE Unlinked(cut[k - 1], cut[k - 1][Sentinel].prev)
    IN  /\ size < Len(contents)
        /\ node' = cut[Len(contents) - size]
        /\ contents' = SubSeq(contents, 1, size)
        /\ held' = IF held \in DOMAIN node' THEN held ELSE Sentinel
Grow(size) == \E added \in [1 .. size - Len(contents) -> Fresh] :
    LET grown[k \in Nat] ==
            IF k = 0 THEN node ELSE Linked(grown[k - 1], added[k], Sentinel)
    IN  /\ size > Len(contents) /\ IsInjective(added)
        /\ node' = grown[size - Len(contents)]
        /\ contents' = contents \o added
        /\ UNCHANGED held

Clear == node' = Alone /\ contents' = <<>> /\ held' = Sentinel

(* ++ and -- of an iterator.                                               *)
Advance == held' = node[held].next /\ UNCHANGED <<node, contents>>
Retreat == held' = node[held].prev /\ UNCHANGED <<node, contents>>

Next ==
    \/ \E at \in Places : Insert(at) \/ Erase(at)
    \/ PushBack \/ PushFront \/ PopBack \/ PopFront
    \/ \E size \in 0 .. 3 : Shrink(size) \/ Grow(size)
    \/ Clear \/ Advance \/ Retreat

Spec == Init /\ [][Next]_vars

-----------------------------------------------------------------------------
Ring == <<Sentinel>> \o contents \o <<Sentinel>>

(* Going forwards and going backwards from the head meet the elements in   *)
(* the order they were put in, no other node is left, and an iterator that *)
(* is kept outlives what is inserted and erased around it.                 *)
RingIsContents ==
    /\ \A i \in 1 .. Len(Ring) - 1 :
        node[Ring[i]].next = Ring[i + 1] /\ node[Ring[i + 1]].prev = Ring[i]
    /\ Elements = ToSet(contents)
    /\ held \in Places
=============================================================================
