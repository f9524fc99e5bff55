------------------------------- MODULE MCUnit -------------------------------
(***************************************************************************)
(* Small sets of threads around one task, or around the dependencies of    *)
(* one: a behaviour takes one part and leaves the other as it began.  A    *)
(* task that is queuedOnce is fetched by e1 alone; any other may be        *)
(* fetched by both executors, again and again.                             *)
(***************************************************************************)
EXTENDS Unit
CONSTANTS e1, e2, c1, t1, w1, w2
CONSTANTS Askers, Adders, Dependencies    \* of the task with dependencies
ASSUME DependentAssumption ==
    Askers \cap Adders = {} /\ "null" \notin Askers \cup Adders

VARIABLES
    part,
    queuedOnce,
    own, list, completed, satisfied, stamp, mutex, at, seen, answer, owed

reliance == <<own, list, completed, satisfied, stamp, mutex, at, seen, answer, owed>>

Dependent == INSTANCE Reliance

MCInit ==
    /\ part \in {"task", "dependencies"}
    /\ Init /\ queuedOnce \in BOOLEAN /\ Dependent!Init
    /\ part = "task" => list = {}
    /\ part = "dependencies" => queuedOnce

TaskStep ==
    /\ part = "task" /\ Next
    /\ queuedOnce => \A e \in Executors \ {e1} : pc'[e] = "idle"
    /\ UNCHANGED <<part, queuedOnce, reliance>>
DependenciesStep ==
    /\ part = "dependencies" /\ Dependent!Next
    /\ UNCHANGED <<part, queuedOnce, vars>>

(* The threads go on, and the queue hands a pending task to a worker.      *)
MCSpec ==
    /\ MCInit /\ [][TaskStep \/ DependenciesStep]_<<part, queuedOnce, vars, reliance>>
    /\ FairThreads
    /\ WF_vars(part = "task" /\ state = "pending" /\ Execute(e1))

(* A task that is queued once and whose function returned is completed once*)
(* its executor is through with it: cancel and mark_timeout cannot turn it *)
(* into a failure by satisfying the promise first.  And who is told that   *)
(* the dependencies of a task are satisfied is told the truth.             *)
AnswersAreTrue ==
    /\ queuedOnce => SuccessIsKept
    /\ Dependent!SatisfiedIsTrue

(* Whoever fetches the result of a task that is queued once gets an answer:*)
(* value, failure, cancellation or timeout; and whoever waits hears of its *)
(* end.                                                                    *)
AskersHear ==
    \A w \in Waiters :
        queuedOnce /\ pc[w] \in {"get_result", "wait", "wait_for"} ~> pc[w] = "idle"
=============================================================================
