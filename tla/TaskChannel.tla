----------------------------- MODULE TaskChannel -----------------------------
(***************************************************************************)
(* What the FIFO task queue promises to the thread pool, without threads,  *)
(* locks, condition variables or capacities: a line of units that grows at *)
(* its end, gives its newest unit up only for a newer one, hands units out *)
(* from its front, and never sees the same unit twice.                     *)
(***************************************************************************)
EXTENDS Naturals, Sequences

CONSTANT Units

VARIABLES
    waiting,    \* units in line, front first
    handed,     \* units handed out, in order
    discarded   \* units overwritten or cleared

vars == <<waiting, handed, discarded>>

Seen(u) ==
    \/ \E i \in DOMAIN waiting : waiting[i] = u
    \/ \E i \in DOMAIN handed : handed[i] = u
    \/ u \in discarded

Init == waiting = <<>> /\ handed = <<>> /\ discarded = {}

Accept(u) ==
    /\ ~Seen(u)
    /\ waiting' = Append(waiting, u)
    /\ UNCHANGED <<handed, discarded>>

(* The newest unit makes way for u.                                        *)
Replace(u) ==
    /\ ~Seen(u)
    /\ waiting # <<>>
    /\ waiting' = Append(SubSeq(waiting, 1, Len(waiting) - 1), u)
    /\ discarded' = discarded \cup {waiting[Len(waiting)]}
    /\ UNCHANGED handed

HandOut(n) ==
    /\ handed' = handed \o SubSeq(waiting, 1, n)
    /\ waiting' = SubSeq(waiting, n + 1, Len(waiting))
    /\ UNCHANGED discarded

DiscardAll ==
    /\ discarded' = discarded \cup {waiting[i] : i \in DOMAIN waiting}
    /\ waiting' = <<>>
    /\ UNCHANGED handed

Next ==
    \/ \E u \in Units : Accept(u) \/ Replace(u)
    \/ \E n \in 1..Len(waiting) : HandOut(n)
    \/ DiscardAll

Spec == Init /\ [][Next]_vars
=============================================================================
