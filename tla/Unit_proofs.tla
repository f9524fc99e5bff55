----------------------------- MODULE Unit_proofs -----------------------------
(***************************************************************************)
(* Theorems about the task object, for every kind of task and any number   *)
(* of executors, cancellers, timers and waiters.                           *)
(*                                                                         *)
(* The safety properties rest on IInv, which says where a thread can be in *)
(* each state of the task and what it has already written there; those of  *)
(* a task that is queued once, and of dependencies, on KeptInv and         *)
(* DependentInv besides.                                                   *)
(***************************************************************************)
EXTENDS MCUnit, TLAPS

(* The executor that runs the task is alone until it stores the final      *)
(* state; everybody else has found the state changed.                      *)
Phases ==
    /\ \A e \in Executors :
        /\ pc[e] \in BodyLocations => state = "running"
        /\ pc[e] = "completed_notify" => state = "completed"
        /\ pc[e] \in StoredLocations \ {"completed_notify"} => state = "failed"
        /\ pc[e] \in RejectLocations => state # "pending"
    /\ \A e, f \in Executors :
        pc[e] \in BodyLocations /\ pc[f] \in BodyLocations => e = f
    /\ \A c \in Cancellers : pc[c] \in CancelLocations => state = "cancelled"
    /\ \A t \in Timers : pc[t] \in TimeoutLocations => state = "timeout"
    /\ runs <= 1
    /\ state \in {"pending", "cancelled", "timeout"} => runs = 0

(* What has been written when a thread is at a location.                   *)
Written ==
    /\ state = "pending" \/ ~Promised => promise = "none"
    /\ \A e \in Executors :
        /\ pc[e] \in {"body", "set_value", "error_store", "set_unknown",
                      "unknown_ready", "unknown_store"} => promise # "value"
        /\ pc[e] \in {"value_ready", "completed_store"} /\ Promised
             => promise = "value"
        /\ pc[e] = "completed_store" /\ Promised => ready
        /\ pc[e] \in {"error_ready", "unknown_ready", "unknown_store",
                      "reject_ready"} => promise # "none"
        /\ pc[e] \in {"reject", "reject_ready", "set_value", "value_ready",
                      "set_error", "error_ready", "set_unknown"} => Promised
    /\ \A c \in Cancellers :
        /\ pc[c] = "cancel_promise" => Promised
        /\ pc[c] = "cancel_ready" => promise # "none"
    /\ \A t \in Timers :
        /\ pc[t] = "timeout_promise" => Promised
        /\ pc[t] \in {"timeout_ready", "timeout_callback"} => promise # "none"
        /\ pc[t] = "timeout_callback" => ready
    /\ handled => state = "timeout" /\ promise # "none" /\ ready
    /\ callbacks = IF handled THEN 1 ELSE 0

(* Also a waiter that has not joined the condition variable yet.           *)
WaiterIsNotified ==
    (state \in Terminal)
      /\ (\E w \in Waiters :
            pc[w] \in {"wait", "wait_for", "wait_sleep", "wait_for_sleep"})
    => \E t \in Threads : pc[t] \in StillToNotify

IInv == TypeOK /\ Phases /\ Written /\ AnswerMatchesState /\ WaiterIsNotified

USE RolesDisjoint, KindAssumption DEF Threads, Promised, Terminal


LEMMA InitIInv == Init => IInv
<1> SUFFICES ASSUME Init PROVE IInv
  OBVIOUS
<1>1. TypeOK
  BY DEF Init, TypeOK
<1>2. \A t \in Threads : pc[t] = "idle"
  BY DEF Init
<1>3. Phases
  BY <1>2 DEF Init, Phases, BodyLocations, StoredLocations, RejectLocations,
     CancelLocations, TimeoutLocations
<1>4. Written
  BY <1>2 DEF Init, Written
<1>5. AnswerMatchesState /\ WaiterIsNotified
  BY <1>2 DEF Init, AnswerMatchesState, WaiterIsNotified
<1> QED
  BY <1>1, <1>3, <1>4, <1>5 DEF IInv

LEMMA ExecuteStep ==
    ASSUME IInv, NEW e \in Executors, Execute(e)
    PROVE  IInv'
<1> USE DEF Step, Store, Satisfy, SetReady, Raise, Move, NotifyAll, LockFree,
     SetExceptionOrThrow, ReadyAndRaise, object, history
<1> USE DEF IInv, TypeOK, Phases, Written, AnswerMatchesState,
     WaiterIsNotified, BodyLocations, StoredLocations, RejectLocations,
     CancelLocations, TimeoutLocations, WaitLocations, StillToNotify
<1>1. CASE Execute(e)
  <2>1. TypeOK'
    BY <1>1 DEF Execute, Started, Rejected
  <2>2. Phases'
    BY <1>1 DEF Execute, Started, Rejected
  <2>3. Written'
    BY <1>1 DEF Execute, Started, Rejected
  <2>4. AnswerMatchesState'
    BY <1>1 DEF Execute, Started, Rejected
  <2>5. WaiterIsNotified'
    BY <1>1 DEF Execute, Started, Rejected
  <2> QED
    BY <2>1, <2>2, <2>3, <2>4, <2>5
<1> HIDE DEF IInv
<1> QED
  BY <1>1 DEF Execute

LEMMA ExecutingSteps ==
    ASSUME IInv, NEW e \in Executors, Executing(e)
    PROVE  IInv'
<1> USE DEF Step, Store, Satisfy, SetReady, Raise, Move, NotifyAll, LockFree,
     SetExceptionOrThrow, ReadyAndRaise, object, history
<1> USE DEF IInv, TypeOK, Phases, Written, AnswerMatchesState,
     WaiterIsNotified, BodyLocations, StoredLocations, RejectLocations,
     CancelLocations, TimeoutLocations, WaitLocations, StillToNotify
<1>1. CASE Run(e)
  <2>1. TypeOK'
    <3>1. PICK l \in BodyLocations : pc' = [pc EXCEPT ![e] = l]
      BY <1>1 DEF Run
    <3>2. returned' \in BOOLEAN /\ UNCHANGED <<object, runs, callbacks, raised>>
      BY <1>1 DEF Run
    <3> QED
      BY <3>1, <3>2
  <2>2. Phases'
    BY <1>1 DEF Run
  <2>3. Written'
    BY <1>1 DEF Run
  <2>4. AnswerMatchesState'
    BY <1>1 DEF Run
  <2>5. WaiterIsNotified'
    BY <1>1 DEF Run
  <2> QED
    BY <2>1, <2>2, <2>3, <2>4, <2>5
<1>2. CASE SetValue(e)
  BY <1>2 DEF SetValue
<1>3. CASE ValueReady(e)
  BY <1>3 DEF ValueReady
<1>4. CASE CompletedStore(e)
  BY <1>4 DEF CompletedStore
<1>5. CASE ErrorStore(e)
  BY <1>5 DEF ErrorStore
<1>6. CASE SetError(e)
  BY <1>6 DEF SetError
<1>7. CASE ErrorReady(e)
  BY <1>7 DEF ErrorReady
<1>8. CASE SetUnknown(e)
  BY <1>8 DEF SetUnknown
<1>9. CASE UnknownReady(e)
  BY <1>9 DEF UnknownReady
<1>10. CASE UnknownStore(e)
  BY <1>10 DEF UnknownStore
<1>11. CASE Reject(e)
  BY <1>11 DEF Reject
<1>12. CASE RejectReady(e)
  BY <1>12 DEF RejectReady
<1> HIDE DEF IInv
<1> QED
  BY <1>1, <1>2, <1>3, <1>4, <1>5, <1>6, <1>7, <1>8, <1>9, <1>10, <1>11, <1>12 DEF Executing

LEMMA CancelSteps ==
    ASSUME IInv, NEW c \in Cancellers, Cancel(c) \/ Cancelling(c)
    PROVE  IInv'
<1> USE DEF Step, Store, Satisfy, SetReady, Raise, Move, NotifyAll, LockFree,
     SetExceptionOrThrow, ReadyAndRaise, object, history
<1> USE DEF IInv, TypeOK, Phases, Written, AnswerMatchesState,
     WaiterIsNotified, BodyLocations, StoredLocations, RejectLocations,
     CancelLocations, TimeoutLocations, WaitLocations, StillToNotify
<1>1. CASE Cancel(c)
  BY <1>1 DEF Cancel
<1>2. CASE CancelPromise(c)
  BY <1>2 DEF CancelPromise
<1>3. CASE CancelReady(c)
  BY <1>3 DEF CancelReady
<1> HIDE DEF IInv
<1> QED
  BY <1>1, <1>2, <1>3 DEF Cancelling

LEMMA TimeoutSteps ==
    ASSUME IInv, NEW t \in Timers, MarkTimeout(t) \/ TimingOut(t)
    PROVE  IInv'
<1> USE DEF Step, Store, Satisfy, SetReady, Raise, Move, NotifyAll, LockFree,
     SetExceptionOrThrow, ReadyAndRaise, object, history
<1> USE DEF IInv, TypeOK, Phases, Written, AnswerMatchesState,
     WaiterIsNotified, BodyLocations, StoredLocations, RejectLocations,
     CancelLocations, TimeoutLocations, WaitLocations, StillToNotify
<1>1. CASE MarkTimeout(t)
  BY <1>1 DEF MarkTimeout
<1>2. CASE TimeoutPromise(t)
  BY <1>2 DEF TimeoutPromise
<1>3. CASE TimeoutReady(t)
  BY <1>3 DEF TimeoutReady
<1>4. CASE HandleTimeout(t)
  BY <1>4 DEF HandleTimeout
<1> HIDE DEF IInv
<1> QED
  BY <1>1, <1>2, <1>3, <1>4 DEF TimingOut

LEMMA NotifyingSteps ==
    ASSUME IInv, NEW t \in Executors \cup Cancellers \cup Timers, Notifying(t)
    PROVE  IInv'
<1> USE DEF Step, Store, Satisfy, SetReady, Raise, Move, NotifyAll, LockFree,
     SetExceptionOrThrow, ReadyAndRaise, object, history
<1> USE DEF IInv, TypeOK, Phases, Written, AnswerMatchesState,
     WaiterIsNotified, BodyLocations, StoredLocations, RejectLocations,
     CancelLocations, TimeoutLocations, WaitLocations, StillToNotify
<1>1. CASE CompletedNotify(t)
  BY <1>1 DEF CompletedNotify
<1>2. CASE ErrorNotify(t)
  BY <1>2 DEF ErrorNotify
<1>3. CASE UnknownNotify(t)
  BY <1>3 DEF UnknownNotify
<1>4. CASE CancelNotify(t)
  BY <1>4 DEF CancelNotify
<1>5. CASE TimeoutNotify(t)
  BY <1>5 DEF TimeoutNotify
<1> HIDE DEF IInv
<1> QED
  BY <1>1, <1>2, <1>3, <1>4, <1>5 DEF Notifying

LEMMA WaiterSteps ==
    ASSUME IInv, NEW w \in Waiters, Wait(w) \/ WaitFor(w) \/ GetResult(w) \/ WaitLock(w)
      \/ SpuriousWakeup(w) \/ WaitTimedOut(w) \/ Waiting(w)
    PROVE  IInv'
<1> USE DEF Step, Store, Satisfy, SetReady, Raise, Move, NotifyAll, LockFree,
     SetExceptionOrThrow, ReadyAndRaise, object, history
<1> USE DEF IInv, TypeOK, Phases, Written, AnswerMatchesState,
     WaiterIsNotified, BodyLocations, StoredLocations, RejectLocations,
     CancelLocations, TimeoutLocations, WaitLocations, StillToNotify
<1>1. CASE Wait(w)
  BY <1>1 DEF Wait
<1>2. CASE WaitFor(w)
  BY <1>2 DEF WaitFor
<1>3. CASE GetResult(w)
  BY <1>3 DEF GetResult
<1>4. CASE WaitLock(w)
  BY <1>4 DEF WaitLock
<1>5. CASE SpuriousWakeup(w)
  BY <1>5 DEF SpuriousWakeup
<1>6. CASE WaitTimedOut(w)
  BY <1>6 DEF WaitTimedOut
<1>7. CASE WaitSleep(w)
  BY <1>7 DEF WaitSleep
<1>8. CASE WaitTimeout(w)
  BY <1>8 DEF WaitTimeout
<1>9. CASE GotResult(w)
  BY <1>9 DEF GotResult
<1> HIDE DEF IInv
<1> QED
  BY <1>1, <1>2, <1>3, <1>4, <1>5, <1>6, <1>7, <1>8, <1>9 DEF Waiting

LEMMA InductiveStep == IInv /\ [Next]_vars => IInv'
<1> SUFFICES ASSUME IInv, [Next]_vars PROVE IInv'
  OBVIOUS
<1>1. ASSUME NEW e \in Executors, Execute(e) \/ Executing(e) PROVE IInv'
  BY <1>1, ExecuteStep, ExecutingSteps
<1>2. ASSUME NEW c \in Cancellers, Cancel(c) \/ Cancelling(c) PROVE IInv'
  BY <1>2, CancelSteps
<1>3. ASSUME NEW t \in Timers, MarkTimeout(t) \/ TimingOut(t) PROVE IInv'
  BY <1>3, TimeoutSteps
<1>4. ASSUME NEW t \in Executors \cup Cancellers \cup Timers, Notifying(t)
      PROVE  IInv'
  BY <1>4, NotifyingSteps
<1>5. ASSUME NEW w \in Waiters,
             Wait(w) \/ WaitFor(w) \/ GetResult(w) \/ WaitLock(w)
               \/ SpuriousWakeup(w) \/ WaitTimedOut(w) \/ Waiting(w)
      PROVE  IInv'
  BY <1>5, WaiterSteps
<1>6. CASE UNCHANGED vars
  BY <1>6 DEF vars, object, history, IInv, TypeOK, Phases, Written,
     AnswerMatchesState, WaiterIsNotified
<1> QED
  BY <1>1, <1>2, <1>3, <1>4, <1>5, <1>6 DEF Next

(* IInv holds in every reachable state: where the threads are and what they*)
(* have written agrees with the state of the task.                         *)
THEOREM Invariance == Spec => []IInv
  BY InitIInv, InductiveStep, PTL DEF Spec

(* Every variable keeps its type, whatever the kind of task and however    *)
(* many threads execute, cancel, time out and wait.                        *)
THEOREM UnitTypeOK == Spec => []TypeOK
  BY Invariance, PTL DEF IInv

(* The compare-and-swap of mark_running lets one executor in at most, and  *)
(* none after a cancellation or a timeout.                                 *)
THEOREM UnitRunsOnce == Spec => []RunsOnce
<1>1. IInv => RunsOnce
  BY DEF IInv, Phases, RunsOnce
<1> QED
  BY <1>1, Invariance, PTL

(* The future and the final state agree, although cancel, mark_timeout and *)
(* the three endings of execute write them in different orders.            *)
THEOREM UnitAnswers == Spec => []AnswerMatchesState
  BY Invariance, PTL DEF IInv

(* Storing the state without the mutex and notifying with it loses no      *)
(* waiter.                                                                 *)
THEOREM UnitWakesWaiters == Spec => []NoWaiterSleepsThrough
<1>1. IInv => NoWaiterSleepsThrough
  BY DEF IInv, WaiterIsNotified, NoWaiterSleepsThrough
<1> QED
  BY <1>1, Invariance, PTL

(* The timeout callback is called once at most, and only after the future  *)
(* of a late task has its answer.                                          *)
THEOREM UnitCallsBackOnce == Spec => []CallbackOnce
<1>1. IInv => CallbackOnce
  BY DEF IInv, Written, CallbackOnce
<1> QED
  BY <1>1, Invariance, PTL

-----------------------------------------------------------------------------
(* Every step of the object is a step of the abstract life, or none.       *)
LEMMA ExecutorLife ==
    ASSUME IInv, NEW e \in Executors, Execute(e) \/ Executing(e)
    PROVE  Life!Next \/ UNCHANGED Life!vars
<1> USE DEF IInv, Phases, Written, BodyLocations, StoredLocations,
     RejectLocations, Step, Store, Satisfy, SetReady, Raise, Move, object, history,
     SetExceptionOrThrow, ReadyAndRaise, Life!vars
<1>1. CASE Execute(e)
  BY <1>1 DEF Execute, Started, Rejected, Life!Next, Life!Start
<1>2. CASE SetValue(e)
  BY <1>2 DEF SetValue, Life!Next, Life!Answer, Life!Justified
<1>3. CASE CompletedStore(e)
  BY <1>3 DEF CompletedStore, Life!Next, Life!Complete
<1>4. CASE ErrorStore(e)
  BY <1>4 DEF ErrorStore, Life!Next, Life!Fail
<1>5. CASE UnknownStore(e)
  BY <1>5 DEF UnknownStore, Life!Next, Life!Fail
<1>6. CASE SetError(e)
  BY <1>6 DEF SetError, Life!Next, Life!Answer, Life!Justified
<1>7. CASE SetUnknown(e)
  BY <1>7 DEF SetUnknown, Life!Next, Life!Answer, Life!Justified
<1>8. CASE Reject(e)
  BY <1>8 DEF Reject, Life!Next, Life!Answer, Life!Justified
<1>9. CASE Run(e) \/ ValueReady(e) \/ ErrorReady(e) \/ UnknownReady(e)
           \/ RejectReady(e)
  BY <1>9 DEF Run, ValueReady, ErrorReady, UnknownReady, RejectReady
<1> HIDE DEF IInv
<1> QED
  BY <1>1, <1>2, <1>3, <1>4, <1>5, <1>6, <1>7, <1>8, <1>9 DEF Executing

LEMMA CancelLife ==
    ASSUME IInv, NEW c \in Cancellers, Cancel(c) \/ Cancelling(c)
    PROVE  Life!Next \/ UNCHANGED Life!vars
<1> USE DEF IInv, Phases, Written, CancelLocations, Step, Store, Satisfy,
     SetReady, object, history, Life!vars
<1>1. CASE Cancel(c)
  BY <1>1 DEF Cancel, Life!Next, Life!Abandon
<1>2. CASE CancelPromise(c)
  BY <1>2 DEF CancelPromise, Life!Next, Life!Answer, Life!Justified
<1>3. CASE CancelReady(c)
  BY <1>3 DEF CancelReady
<1> QED
  BY <1>1, <1>2, <1>3 DEF Cancelling

LEMMA TimeoutLife ==
    ASSUME IInv, NEW t \in Timers, MarkTimeout(t) \/ TimingOut(t)
    PROVE  Life!Next \/ UNCHANGED Life!vars
<1> USE DEF IInv, Phases, Written, TimeoutLocations, Step, Store, Satisfy,
     SetReady, object, history, Life!vars
<1>1. CASE MarkTimeout(t)
  BY <1>1 DEF MarkTimeout, Life!Next, Life!Abandon
<1>2. CASE TimeoutPromise(t)
  BY <1>2 DEF TimeoutPromise, Life!Next, Life!Answer, Life!Justified
<1>3. CASE TimeoutReady(t) \/ HandleTimeout(t)
  BY <1>3 DEF TimeoutReady, HandleTimeout
<1> QED
  BY <1>1, <1>2, <1>3 DEF TimingOut

LEMMA OtherLife ==
    ASSUME NEW t \in Threads,
           \/ Notifying(t) \/ Wait(t) \/ WaitFor(t) \/ GetResult(t) \/ WaitLock(t)
           \/ SpuriousWakeup(t) \/ WaitTimedOut(t) \/ Waiting(t)
    PROVE  UNCHANGED Life!vars
  BY DEF Notifying, CompletedNotify, ErrorNotify, UnknownNotify, CancelNotify,
     TimeoutNotify, NotifyAll, Wait, WaitFor, GetResult, WaitLock, SpuriousWakeup,
     WaitTimedOut, Waiting, WaitSleep, WaitTimeout, GotResult, Move, object,
     Life!vars

LEMMA StepLife == IInv /\ [Next]_vars => [Life!Next]_(Life!vars)
<1> SUFFICES ASSUME IInv, [Next]_vars
             PROVE  Life!Next \/ UNCHANGED Life!vars
  OBVIOUS
<1>1. CASE UNCHANGED vars
  BY <1>1 DEF vars, object, Life!vars
<1> QED
  BY <1>1, ExecutorLife, CancelLife, TimeoutLife, OtherLife DEF Next

(* The task object implements the abstract life of a task: it reaches one  *)
(* end in one way, and its future gets one answer, justified by the state. *)
THEOREM UnitImplementsTaskLife == Spec => ImplementsTaskLife
<1>1. Init => Life!Init
  BY DEF Init, Life!Init
<1> QED
  BY <1>1, StepLife, Invariance, PTL DEF Spec, ImplementsTaskLife, Life!Spec

(* Once the task has ended nobody changes how.                             *)
THEOREM UnitEndIsFinal == Spec => TerminalIsFinal
<1>1. IInv /\ [Next]_vars => [(state \in Terminal) => state' = state]_vars
  <2> SUFFICES ASSUME IInv, [Next]_vars, state \in Terminal
               PROVE  state' = state
    BY DEF vars, object
  <2>1. [Life!Next]_(Life!vars)
    BY StepLife
  <2>2. state = "failed" \/ state = "completed" \/ state \in {"cancelled", "timeout"}
    OBVIOUS
  <2> QED
    BY <2>1, <2>2 DEF Life!Next, Life!Start, Life!Abandon, Life!Complete,
       Life!Fail, Life!Answer, Life!vars
<1> QED
  BY <1>1, Invariance, PTL DEF Spec, TerminalIsFinal

-----------------------------------------------------------------------------
(* Answers are true.  A task that is queued once meets one executor: then  *)
(* nobody but it answers the promise of a running task.                    *)
Alone(e) == \A f \in Executors \ {e} : pc[f] = "idle"

KeptInv ==
    /\ state = "pending" => ~returned
    /\ \A e \in Executors :
        /\ pc[e] \in {"body", "set_value"} => promise = "none"
        /\ pc[e] \in {"body", "error_store", "set_unknown", "unknown_ready",
                      "unknown_store"} => ~returned
    /\ returned => \/ state = "completed"
                   \/ \E e \in Executors :
                        pc[e] \in {"set_value", "value_ready", "completed_store"}

(* The dependencies of a task.  Whoever is between two steps under the     *)
(* mutex has it; a kept answer is true of what has been added; and an asker*)
(* is owed no more than has been added by now.                             *)
Places ==
    {"idle", "looks", "locks", "stamps", "answers", "waits", "resets", "resets time"}
DependentTypes ==
    /\ list \subseteq Dependencies \cup {"null"}
    /\ at \in [Askers \cup Adders -> Places]
    /\ seen \in [Askers \cup Adders -> {"stale", "fresh"} \cup Dependencies]
    /\ stamp \in {"stale", "fresh"}
    /\ owed \in [Askers -> SUBSET (Dependencies \cup {"null"})]
    /\ answer \in [Askers -> BOOLEAN]
    /\ satisfied \in BOOLEAN
    /\ \A t \in Askers : at[t] \notin {"resets", "resets time"}
    /\ \A t \in Adders : at[t] \in {"idle", "resets", "resets time"}
DependentFacts ==
    /\ \A t \in Askers \cup Adders :
        at[t] \in {"stamps", "resets", "resets time"} => mutex = t
    /\ \A t \in Adders : at[t] = "resets time" => ~satisfied
    /\ satisfied => Dependent!Added \subseteq completed
    /\ \A t \in Askers :
        /\ at[t] # "idle" => owed[t] \subseteq Dependent!Added
        /\ at[t] \in {"stamps", "answers"} /\ answer[t] => owed[t] \subseteq completed
DependentInv == DependentTypes /\ DependentFacts

LEMMA KeptExecutor ==
    ASSUME IInv, KeptInv, NEW e \in Executors, Alone(e), Execute(e) \/ Executing(e)
    PROVE  KeptInv'
<1> USE DEF IInv, TypeOK, Phases, KeptInv, Alone, BodyLocations, StoredLocations,
     RejectLocations, Step, Store, Satisfy, SetReady, Raise, Move, object, history,
     SetExceptionOrThrow, ReadyAndRaise
<1>1. CASE Execute(e)
  BY <1>1 DEF Execute, Started, Rejected, Written
<1>2. CASE Run(e)
  BY <1>2 DEF Run
<1>3. CASE SetValue(e) \/ ValueReady(e) \/ CompletedStore(e)
  BY <1>3 DEF SetValue, ValueReady, CompletedStore
<1>4. CASE ErrorStore(e) \/ SetError(e) \/ ErrorReady(e)
  BY <1>4 DEF ErrorStore, SetError, ErrorReady
<1>5. CASE SetUnknown(e) \/ UnknownReady(e) \/ UnknownStore(e)
  BY <1>5 DEF SetUnknown, UnknownReady, UnknownStore
<1>6. CASE Reject(e) \/ RejectReady(e)
  BY <1>6 DEF Reject, RejectReady
<1> HIDE DEF IInv, KeptInv
<1> QED
  BY <1>1, <1>2, <1>3, <1>4, <1>5, <1>6 DEF Executing

(* Cancellers and timers answer the promise of a task that is not running. *)
LEMMA KeptOthers ==
    ASSUME IInv, KeptInv,
           \/ \E c \in Cancellers : Cancel(c) \/ Cancelling(c)
           \/ \E t \in Timers : MarkTimeout(t) \/ TimingOut(t)
    PROVE  KeptInv'
<1> USE DEF IInv, TypeOK, Phases, KeptInv, BodyLocations, CancelLocations,
     TimeoutLocations, Step, Store, Satisfy, SetReady, object, history
<1>1. ASSUME NEW c \in Cancellers, Cancel(c) \/ Cancelling(c) PROVE KeptInv'
  <2>1. \A f \in Executors : pc'[f] = pc[f]
    BY <1>1 DEF Cancel, Cancelling, CancelPromise, CancelReady
  <2>2. UNCHANGED returned
    BY <1>1 DEF Cancel, Cancelling, CancelPromise, CancelReady
  <2>3. state' # "pending" /\ state # "completed" /\ state # "running"
    BY <1>1 DEF Cancel, Cancelling, CancelPromise, CancelReady
  <2> QED
    BY <2>1, <2>2, <2>3
<1>2. ASSUME NEW t \in Timers, MarkTimeout(t) \/ TimingOut(t) PROVE KeptInv'
  <2>1. \A f \in Executors : pc'[f] = pc[f]
    BY <1>2 DEF MarkTimeout, TimingOut, TimeoutPromise, TimeoutReady, HandleTimeout
  <2>2. UNCHANGED returned
    BY <1>2 DEF MarkTimeout, TimingOut, TimeoutPromise, TimeoutReady, HandleTimeout
  <2>3. state' # "pending" /\ state # "completed" /\ state # "running"
    BY <1>2 DEF MarkTimeout, TimingOut, TimeoutPromise, TimeoutReady, HandleTimeout
  <2> QED
    BY <2>1, <2>2, <2>3
<1> QED
  BY <1>1, <1>2

LEMMA KeptNotifying ==
    ASSUME IInv, KeptInv, NEW t \in Executors \cup Cancellers \cup Timers, Notifying(t)
    PROVE  KeptInv'
<1>1. UNCHANGED <<state, promise, returned>>
  BY DEF Notifying, CompletedNotify, ErrorNotify, UnknownNotify, CancelNotify,
     TimeoutNotify, NotifyAll, Raise, object, history
<1>2. \A f \in Executors :
        \/ pc'[f] = pc[f]
        \/ pc[f] \in StoredLocations /\ pc'[f] \in {"set_error", "idle"}
  BY DEF Notifying, CompletedNotify, ErrorNotify, UnknownNotify, CancelNotify,
     TimeoutNotify, NotifyAll, IInv, TypeOK, BodyLocations, StoredLocations,
     RejectLocations, CancelLocations, TimeoutLocations, WaitLocations
<1> QED
  BY <1>1, <1>2 DEF KeptInv, StoredLocations

LEMMA KeptWaiters ==
    ASSUME IInv, KeptInv, NEW w \in Waiters,
           \/ Wait(w) \/ WaitFor(w) \/ GetResult(w) \/ WaitLock(w)
           \/ SpuriousWakeup(w) \/ WaitTimedOut(w) \/ Waiting(w)
    PROVE  KeptInv'
<1>1. UNCHANGED <<state, promise, returned>> /\ \A f \in Executors : pc'[f] = pc[f]
  BY DEF Wait, WaitFor, GetResult, WaitLock, SpuriousWakeup, WaitTimedOut, Waiting,
     WaitSleep, WaitTimeout, GotResult, Move, Step, object, history, IInv, TypeOK
<1> QED
  BY <1>1 DEF KeptInv

LEMMA KeptStep ==
    ASSUME IInv, KeptInv, NEW e, Alone(e), Alone(e)', Next
    PROVE  KeptInv'
<1>1. ASSUME NEW f \in Executors, Execute(f) \/ Executing(f) PROVE KeptInv'
  <2>1. CASE f = e
    BY <1>1, <2>1, KeptExecutor
  <2>2. CASE f # e
    <3>1. pc[f] = "idle" /\ pc'[f] = "idle"
      BY <2>2 DEF Alone
    <3>2. Execute(f) /\ state # "pending" /\ Rejected(f)
      BY <1>1, <3>1 DEF IInv, TypeOK, Execute, Started, Executing, Run, SetValue,
         ValueReady, CompletedStore, ErrorStore, SetError, ErrorReady, SetUnknown,
         UnknownReady, UnknownStore, Reject, RejectReady, Step, SetExceptionOrThrow,
         ReadyAndRaise
    <3>3. UNCHANGED <<state, promise, returned, pc>>
      BY <3>1, <3>2 DEF Rejected, Move, Step, Raise, object, IInv, TypeOK
    <3> QED
      BY <3>3 DEF KeptInv
  <2> QED
    BY <2>1, <2>2
<1> QED
  BY <1>1, KeptOthers, KeptNotifying, KeptWaiters DEF Next

(* Whichever executor takes the task, if no other one does.                *)
LEMMA KeptIsSuccess == IInv /\ KeptInv => SuccessIsKept
  BY DEF IInv, KeptInv, SuccessIsKept

-----------------------------------------------------------------------------
LEMMA DependentInit == Dependent!Init => DependentInv
<1> SUFFICES ASSUME Dependent!Init PROVE DependentInv
  OBVIOUS
<1>1. \A t \in Askers \cup Adders : at[t] = "idle"
  BY DEF Dependent!Init
<1>2. DependentTypes
  <2>1. list \subseteq Dependencies \cup {"null"}
    BY DEF Dependent!Init, Dependent!Null
  <2> QED
    BY <1>1, <2>1 DEF Dependent!Init, DependentTypes, Places
<1>3. DependentFacts
  BY <1>1 DEF Dependent!Init, DependentFacts
<1> QED
  BY <1>2, <1>3 DEF DependentInv

(* Nobody adds while the mutex is free, or somebody else's.                *)
LEMMA AddedIsListed ==
    ASSUME DependentInv, \A t \in Adders : mutex # t
    PROVE  Dependent!Added = list
<1>1. {x \in Adders : at[x] # "idle"} = {}
  BY DEF DependentInv, DependentTypes, DependentFacts
<1> QED
  BY <1>1 DEF Dependent!Added

LEMMA AddedStays ==
    ASSUME list' = list, \A x \in Adders : at'[x] = at[x] /\ seen'[x] = seen[x]
    PROVE  Dependent!Added' = Dependent!Added
<1>1. {x \in Adders : at'[x] # "idle"} = {x \in Adders : at[x] # "idle"}
  OBVIOUS
<1>2. {seen'[x] : x \in {y \in Adders : at'[y] # "idle"}}
        = {seen[x] : x \in {y \in Adders : at[y] # "idle"}}
  BY <1>1
<1> QED
  BY <1>2 DEF Dependent!Added

(* What an asker's step leaves alone.                                      *)
LEMMA AskerMoves ==
    ASSUME DependentInv, NEW t \in Askers,
           \/ Dependent!Ask(t) \/ Dependent!Look(t) \/ Dependent!Examine(t)
           \/ Dependent!Stamp(t) \/ Dependent!Return(t) \/ Dependent!WaitFor(t)
           \/ Dependent!TimeOut(t)
    PROVE  /\ UNCHANGED <<list, completed>>
           /\ \A x \in (Askers \cup Adders) \ {t} : at'[x] = at[x] /\ seen'[x] = seen[x]
           /\ \A x \in Askers \ {t} : owed'[x] = owed[x] /\ answer'[x] = answer[x]
           /\ Dependent!Added' = Dependent!Added
<1> USE DEF DependentInv, DependentTypes, Dependent!Step, Dependent!Hears
<1>1. UNCHANGED <<list, completed>>
  BY DEF Dependent!Ask, Dependent!Look, Dependent!Examine, Dependent!Stamp,
     Dependent!Return, Dependent!WaitFor, Dependent!TimeOut
<1>2. \A x \in (Askers \cup Adders) \ {t} : at'[x] = at[x] /\ seen'[x] = seen[x]
  BY DEF Dependent!Ask, Dependent!Look, Dependent!Examine, Dependent!Stamp,
     Dependent!Return, Dependent!WaitFor, Dependent!TimeOut
<1>3. \A x \in Askers \ {t} : owed'[x] = owed[x] /\ answer'[x] = answer[x]
  BY DEF Dependent!Ask, Dependent!Look, Dependent!Examine, Dependent!Stamp,
     Dependent!Return, Dependent!WaitFor, Dependent!TimeOut
<1>4. \A x \in Adders : at'[x] = at[x] /\ seen'[x] = seen[x]
  BY <1>2, DependentAssumption
<1> HIDE DEF DependentInv, DependentTypes
<1> QED
  BY <1>1, <1>2, <1>3, <1>4, AddedStays

LEMMA AskerStep ==
    ASSUME DependentInv, NEW t \in Askers,
           \/ Dependent!Ask(t) \/ Dependent!Look(t) \/ Dependent!Examine(t)
           \/ Dependent!Stamp(t) \/ Dependent!Return(t) \/ Dependent!WaitFor(t)
           \/ Dependent!TimeOut(t)
    PROVE  DependentInv'
<1> DEFINE A == Dependent!Added
<1>1. /\ UNCHANGED <<list, completed>>
      /\ \A x \in (Askers \cup Adders) \ {t} : at'[x] = at[x] /\ seen'[x] = seen[x]
      /\ \A x \in Askers \ {t} : owed'[x] = owed[x] /\ answer'[x] = answer[x]
      /\ A' = A
  BY AskerMoves
<1>2. A \subseteq list /\ (mutex = "null" => A = list)
  BY AddedIsListed, DependentAssumption DEF Dependent!Added
<1>3. DependentTypes'
  <2> DEFINE L == {"idle", "looks", "locks", "stamps", "answers", "waits"}
             S == {"stale", "fresh"} \cup Dependencies
             M == SUBSET (Dependencies \cup {"null"})
  <2> USE DEF Dependent!Ask, Dependent!Look, Dependent!Examine, Dependent!Stamp,
       Dependent!Return, Dependent!WaitFor, Dependent!TimeOut, Dependent!Step,
       Dependent!Hears, Dependent!AllCompleted
  <2>1. DependentTypes
    BY DEF DependentInv
  <2>2. \E l \in L : at' = [at EXCEPT ![t] = l]
    OBVIOUS
  <2>3. stamp \in {"stale", "fresh"} /\ satisfied \in BOOLEAN
    BY <2>1 DEF DependentTypes
  <2>4. seen' = seen \/ \E s \in S : seen' = [seen EXCEPT ![t] = s]
    BY <2>3
  <2>5. answer' = answer \/ \E b \in BOOLEAN : answer' = [answer EXCEPT ![t] = b]
    OBVIOUS
  <2>6. A \in M
    BY <1>2, <2>1 DEF DependentTypes
  <2>7. owed' = owed \/ \E m \in M : owed' = [owed EXCEPT ![t] = m]
    BY <2>6
  <2>8. stamp' \in {"stale", "fresh"} /\ satisfied' \in BOOLEAN
    BY <2>3
  <2> HIDE DEF Dependent!Ask, Dependent!Look, Dependent!Examine, Dependent!Stamp,
       Dependent!Return, Dependent!WaitFor, Dependent!TimeOut, Dependent!Step,
       Dependent!Hears, Dependent!AllCompleted, A
  <2>9. at' \in [Askers \cup Adders -> Places]
        /\ \A x \in Askers : at'[x] \notin {"resets", "resets time"}
        /\ \A y \in Adders : at'[y] \in {"idle", "resets", "resets time"}
    BY <2>1, <2>2, DependentAssumption DEF DependentTypes, Places
  <2>10. seen' \in [Askers \cup Adders -> S]
    BY <2>1, <2>4 DEF DependentTypes
  <2>11. answer' \in [Askers -> BOOLEAN]
    BY <2>1, <2>5 DEF DependentTypes
  <2>12. owed' \in [Askers -> M]
    BY <2>1, <2>7 DEF DependentTypes
  <2> QED
    BY <1>1, <2>1, <2>8, <2>9, <2>10, <2>11, <2>12 DEF DependentTypes
<1>4. DependentFacts'
  <2> SUFFICES /\ \A x \in Askers \cup Adders :
                    at'[x] \in {"stamps", "resets", "resets time"} => mutex' = x
               /\ \A x \in Adders : at'[x] = "resets time" => ~satisfied'
               /\ satisfied' => A \subseteq completed
               /\ \A x \in Askers :
                    /\ at'[x] # "idle" => owed'[x] \subseteq A
                    /\ at'[x] \in {"stamps", "answers"} /\ answer'[x]
                          => owed'[x] \subseteq completed
    BY <1>1 DEF DependentFacts
  <2> USE DependentAssumption
      DEF DependentInv, DependentTypes, DependentFacts, Dependent!Step,
       Dependent!Hears, Dependent!Free, Dependent!Null, Dependent!AllCompleted
  <2>1. CASE Dependent!Ask(t)
    BY <1>1, <2>1 DEF Dependent!Ask
  <2>2. CASE Dependent!Look(t)
    <3>1. at[t] = "looks" /\ UNCHANGED <<satisfied, mutex, owed>>
          /\ \/ /\ satisfied /\ at' = [at EXCEPT ![t] = "answers"]
             \/ at' = [at EXCEPT ![t] = "locks"]
      BY <2>2 DEF Dependent!Look
    <3>2. satisfied => owed[t] \subseteq completed
      BY <3>1
    <3> QED
      BY <1>1, <3>1, <3>2
  <2>3. CASE Dependent!Examine(t)
    <3>1. mutex = "null" /\ at[t] = "locks" /\ owed' = owed /\ A = list
      BY <1>2, <2>3 DEF Dependent!Examine
    <3>2. CASE satisfied /\ stamp = "fresh"
      <4>1. at' = [at EXCEPT ![t] = "answers"] /\ UNCHANGED <<satisfied, mutex>>
        BY <2>3, <3>2 DEF Dependent!Examine
      <4> QED
        BY <1>1, <3>1, <3>2, <4>1
    <3>3. CASE ~(satisfied /\ stamp = "fresh")
      <4>1. /\ at' = [at EXCEPT ![t] = "stamps"] /\ mutex' = t
            /\ satisfied' = (list \subseteq completed)
            /\ answer' = [answer EXCEPT ![t] = list \subseteq completed]
        BY <2>3, <3>3 DEF Dependent!Examine
      <4> QED
        BY <1>1, <3>1, <4>1
    <3> QED
      BY <3>2, <3>3
  <2>4. CASE Dependent!Stamp(t)
    BY <1>1, <2>4 DEF Dependent!Stamp
  <2>5. CASE Dependent!Return(t)
    BY <1>1, <2>5 DEF Dependent!Return
  <2>6. CASE Dependent!WaitFor(t)
    BY <1>1, <1>2, <2>6 DEF Dependent!WaitFor
  <2>7. CASE Dependent!TimeOut(t)
    BY <1>1, <1>2, <2>7 DEF Dependent!TimeOut
  <2> HIDE DEF DependentTypes, DependentInv, DependentFacts
  <2> QED
    BY <2>1, <2>2, <2>3, <2>4, <2>5, <2>6, <2>7
<1> QED
  BY <1>3, <1>4 DEF DependentInv

LEMMA AdderStep ==
    ASSUME DependentInv, NEW t \in Adders,
           Dependent!Add(t) \/ Dependent!Reset(t) \/ Dependent!ResetTime(t)
    PROVE  DependentInv'
<1>1. UNCHANGED <<completed, answer, owed>> /\ \A x \in (Askers \cup Adders) \ {t} :
        at'[x] = at[x] /\ seen'[x] = seen[x]
  BY DEF DependentInv, DependentTypes, Dependent!Add, Dependent!Reset,
     Dependent!ResetTime, Dependent!Step
<1>2. DependentTypes'
  <2> USE DependentAssumption DEF DependentInv, DependentTypes, Dependent!Step, Places
  <2>1. CASE Dependent!Add(t)
    <3>1. PICK d \in Dependencies \ list : /\ list' = list \cup {d}
                                          /\ seen' = [seen EXCEPT ![t] = d]
      BY <2>1 DEF Dependent!Add
    <3>2. at' = [at EXCEPT ![t] = "resets"] /\ UNCHANGED <<stamp, satisfied>>
      BY <2>1 DEF Dependent!Add
    <3>3. /\ at' \in [Askers \cup Adders -> Places]
          /\ \A x \in Askers : at'[x] \notin {"resets", "resets time"}
          /\ \A x \in Adders : at'[x] \in {"idle", "resets", "resets time"}
      BY <3>2 DEF Places
    <3>4. seen' \in [Askers \cup Adders -> {"stale", "fresh"} \cup Dependencies]
      BY <3>1
    <3> QED
      BY <1>1, <3>1, <3>2, <3>3, <3>4
  <2>2. CASE Dependent!Reset(t)
    BY <1>1, <2>2 DEF Dependent!Reset
  <2>3. CASE Dependent!ResetTime(t)
    BY <1>1, <2>3 DEF Dependent!ResetTime
  <2> QED
    BY <2>1, <2>2, <2>3
<1>3. CASE Dependent!Add(t)
  <2>1. PICK d \in Dependencies \ list : /\ list' = list \cup {d}
                                        /\ seen' = [seen EXCEPT ![t] = d]
    BY <1>3 DEF Dependent!Add
  <2>2. /\ mutex = "null" /\ mutex' = t /\ at[t] = "idle" /\ satisfied' = satisfied
        /\ at' = [at EXCEPT ![t] = "resets"]
    BY <1>3 DEF Dependent!Add, Dependent!Free, Dependent!Null, Dependent!Step
  <2>3. Dependent!Added = list
    BY <2>2, AddedIsListed, DependentAssumption
  <2>4. Dependent!Added' = list
    <3>1. \A x \in Adders \ {t} : at[x] = "idle"
      BY <2>2, DependentAssumption DEF DependentInv, DependentTypes, DependentFacts
    <3>2. {x \in Adders : at'[x] # "idle"} = {t}
      BY <1>1, <2>2, <3>1 DEF DependentInv, DependentTypes
    <3>3. seen'[t] = d
      BY <2>1 DEF DependentInv, DependentTypes
    <3>4. Dependent!Added' = list' \ {d}
      BY <3>2, <3>3 DEF Dependent!Added
    <3> QED
      BY <2>1, <3>4
  <2>5. at'[t] = "resets" /\ \A x \in Adders \ {t} : at'[x] = "idle"
    BY <1>1, <2>2, DependentAssumption DEF DependentInv, DependentTypes, DependentFacts
  <2>6. \A x \in Askers : at'[x] = at[x] /\ at[x] # "stamps"
    BY <1>1, <2>2, DependentAssumption DEF DependentInv, DependentFacts
  <2>7. satisfied' => Dependent!Added' \subseteq completed'
    BY <1>1, <2>2, <2>3, <2>4 DEF DependentInv, DependentFacts
  <2>8. \A x \in Askers : at'[x] # "idle" => owed'[x] \subseteq Dependent!Added'
    BY <1>1, <2>3, <2>4, <2>6 DEF DependentInv, DependentFacts
  <2>9. \A x \in Askers :
          at'[x] \in {"stamps", "answers"} /\ answer'[x] => owed'[x] \subseteq completed'
    BY <1>1, <2>6 DEF DependentInv, DependentFacts
  <2>10. \A x \in Askers \cup Adders :
           at'[x] \in {"stamps", "resets", "resets time"} => mutex' = x
    BY <1>2, <2>2, <2>5, <2>6 DEF DependentTypes
  <2>11. \A x \in Adders : at'[x] = "resets time" => ~satisfied'
    BY <2>5
  <2>12. DependentFacts'
    BY <2>7, <2>8, <2>9, <2>10, <2>11 DEF DependentFacts
  <2> QED
    BY <1>2, <2>12 DEF DependentInv
<1>4. CASE Dependent!Reset(t)
  <2>1. /\ ~satisfied' /\ UNCHANGED <<list, mutex>> /\ at[t] = "resets"
        /\ at' = [at EXCEPT ![t] = "resets time"] /\ seen' = seen
    BY <1>4 DEF Dependent!Reset, Dependent!Step
  <2>2. Dependent!Added' = Dependent!Added
    <3>1. {x \in Adders : at'[x] # "idle"} = {x \in Adders : at[x] # "idle"}
      BY <1>1, <2>1 DEF DependentInv, DependentTypes
    <3> QED
      BY <2>1, <3>1 DEF Dependent!Added
  <2>3. mutex = t
    BY <2>1 DEF DependentInv, DependentFacts
  <2>4. DependentFacts'
    BY <1>1, <2>1, <2>2, <2>3, DependentAssumption
    DEF DependentInv, DependentTypes, DependentFacts
  <2> QED
    BY <1>2, <2>4 DEF DependentInv
<1>5. CASE Dependent!ResetTime(t)
  <2>1. /\ UNCHANGED <<list, satisfied>> /\ at[t] = "resets time" /\ mutex' = "null"
        /\ at' = [at EXCEPT ![t] = "idle"]
    BY <1>5 DEF Dependent!ResetTime, Dependent!Step, Dependent!Null
  <2>2. mutex = t /\ ~satisfied
    BY <2>1 DEF DependentInv, DependentFacts
  <2>3. {x \in Adders : at'[x] # "idle"} = {}
    BY <1>1, <2>1, <2>2 DEF DependentInv, DependentTypes, DependentFacts
  <2>4. Dependent!Added \subseteq Dependent!Added'
    BY <2>1, <2>3 DEF Dependent!Added
  <2>5. DependentFacts'
    BY <1>1, <2>1, <2>2, <2>4, DependentAssumption
    DEF DependentInv, DependentTypes, DependentFacts
  <2> QED
    BY <1>2, <2>5 DEF DependentInv
<1> QED
  BY <1>3, <1>4, <1>5

LEMMA DependentStep ==
    DependentInv /\ [Dependent!Next]_reliance => DependentInv'
<1> SUFFICES ASSUME DependentInv, [Dependent!Next]_reliance PROVE DependentInv'
  OBVIOUS
<1>1. ASSUME UNCHANGED <<list, at, seen, owed, answer, mutex, satisfied>>,
             completed \subseteq completed', stamp' \in {"stale", "fresh"}
      PROVE  DependentInv'
  <2>1. Dependent!Added' = Dependent!Added
    BY <1>1, AddedStays
  <2> QED
    BY <1>1, <2>1 DEF DependentInv, DependentTypes, DependentFacts
<1>2. stamp \in {"stale", "fresh"}
  BY DEF DependentInv, DependentTypes
<1>3. CASE \/ UNCHANGED reliance
           \/ Dependent!MarkRunning \/ Dependent!Expire
           \/ \E d \in Dependencies : Dependent!Complete(d)
  BY <1>1, <1>2, <1>3
  DEF reliance, Dependent!MarkRunning, Dependent!Expire, Dependent!Complete,
      Dependent!threads
<1> QED
  BY <1>3, AskerStep, AdderStep DEF Dependent!Next

LEMMA DependentTold == DependentInv => Dependent!SatisfiedIsTrue
  BY DEF DependentInv, DependentFacts, Dependent!SatisfiedIsTrue

-----------------------------------------------------------------------------
(* A task that is queued once and whose function returned ends completed,  *)
(* however cancel and mark_timeout race with its executor; and whoever is  *)
(* told that the dependencies of a task are satisfied is told the truth,   *)
(* although the answer may be an old one that was read without the mutex.  *)
THEOREM UnitAnswersAreTrue == MCSpec => []AnswersAreTrue
<1> DEFINE Inv == /\ IInv /\ DependentInv
                  /\ queuedOnce => KeptInv /\ Alone(e1)
<1>1. MCInit => Inv
  <2> SUFFICES ASSUME MCInit PROVE Inv
    OBVIOUS
  <2>1. IInv /\ DependentInv
    BY InitIInv, DependentInit DEF MCInit
  <2>2. KeptInv /\ Alone(e1)
    BY DEF MCInit, Init, KeptInv, Alone
  <2> QED
    BY <2>1, <2>2
<1>2. Inv /\ [TaskStep \/ DependenciesStep]_<<part, queuedOnce, vars, reliance>> => Inv'
  <2> SUFFICES ASSUME Inv, [TaskStep \/ DependenciesStep]_<<part, queuedOnce, vars, reliance>>
               PROVE  Inv'
    OBVIOUS
  <2>1. [Next]_vars /\ [Dependent!Next]_reliance
    BY DEF TaskStep, DependenciesStep
  <2>2. IInv' /\ DependentInv'
    BY <2>1, InductiveStep, DependentStep
  <2>3. ASSUME queuedOnce' PROVE KeptInv' /\ Alone(e1)'
    <3>1. queuedOnce
      BY <2>3 DEF TaskStep, DependenciesStep
    <3>2. CASE TaskStep
      <4>1. Alone(e1)'
        BY <3>1, <3>2 DEF TaskStep, Alone
      <4> QED
        BY <3>1, <3>2, <4>1, KeptStep DEF TaskStep
    <3>3. CASE UNCHANGED vars
      BY <3>1, <3>3 DEF vars, object, history, KeptInv, Alone
    <3> QED
      BY <3>2, <3>3 DEF DependenciesStep
  <2> QED
    BY <2>2, <2>3
<1>3. Inv => AnswersAreTrue
  BY KeptIsSuccess, DependentTold DEF AnswersAreTrue
<1> QED
  BY <1>1, <1>2, <1>3, PTL DEF MCSpec
=============================================================================
