------------------------------ MODULE TaskLife ------------------------------
(***************************************************************************)
(* What a submitted task promises to those who hold it, without threads,   *)
(* mutexes or the order of its stores: one way from pending to an end that *)
(* never changes, and one answer that agrees with that end.                *)
(***************************************************************************)
CONSTANT Answers    \* FALSE for a task that has no future

VARIABLES
    state,    \* where the task is in its life
    answer    \* what its future holds

vars == <<state, answer>>

Init == state = "pending" /\ answer = "none"

Start == state = "pending" /\ state' = "running" /\ UNCHANGED answer

Abandon ==
    /\ state = "pending"
    /\ state' \in {"cancelled", "timeout"}
    /\ UNCHANGED answer

(* A task completes only once its value can be fetched.                    *)
Complete ==
    /\ state = "running"
    /\ Answers => answer = "value"
    /\ state' = "completed"
    /\ UNCHANGED answer

Fail ==
    /\ state = "running"
    /\ answer # "value"
    /\ state' = "failed"
    /\ UNCHANGED answer

(* The future gets its answer once, and only an answer the task's state    *)
(* justifies.                                                              *)
Justified(a) ==
    \/ a = "value" /\ state = "running"
    \/ a = "failure" /\ state \in {"running", "failed"}
    \/ a = "cancelled" /\ state = "cancelled"
    \/ a = "overtime" /\ state = "timeout"
    \/ a = "rejected" /\ state # "pending"

Answer ==
    /\ Answers
    /\ answer = "none"
    /\ answer' \in {"value", "failure", "cancelled", "overtime", "rejected"}
    /\ Justified(answer')
    /\ UNCHANGED state

Next == Start \/ Abandon \/ Complete \/ Fail \/ Answer

Spec == Init /\ [][Next]_vars
=============================================================================
