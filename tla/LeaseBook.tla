------------------------------ MODULE LeaseBook ------------------------------
(***************************************************************************)
(* What a connection pool promises about its sessions: at any time each    *)
(* one is with nobody, with the pool, or with one borrower; it gets from   *)
(* one borrower to another only through the pool, and once out of all      *)
(* hands it does not come back before it is a new session.                 *)
(***************************************************************************)
CONSTANTS Sessions, Borrowers

VARIABLE lessee       \* who has each session: "nobody", "pool" or a borrower

Init == lessee = [s \in Sessions |-> "nobody"]

Passes(s, from, to) ==
    lessee[s] \in from /\ lessee' = [lessee EXCEPT ![s] = to]

(* A new session is put among the idle ones, or given to who asked for it. *)
Admit(s) == Passes(s, {"nobody"}, "pool")
Connect(s, b) == Passes(s, {"nobody"}, b)

Lend(s, b) == Passes(s, {"pool"}, b)
Return(s) == Passes(s, Borrowers, "pool")

(* Sessions leave: closed, dropped by the other side, or forgotten.        *)
Leave(S) ==
    lessee' = [s \in Sessions |-> IF s \in S THEN "nobody" ELSE lessee[s]]

Next ==
    \/ \E s \in Sessions : Admit(s) \/ Return(s)
    \/ \E s \in Sessions, b \in Borrowers : Connect(s, b) \/ Lend(s, b)
    \/ \E S \in SUBSET Sessions : Leave(S)

Spec == Init /\ [][Next]_lessee
=============================================================================
