-------------------------------- MODULE Unit --------------------------------
(***************************************************************************)
(* One task object (Asio/model/sched/unit.hpp) and the threads around it:  *)
(* the atomic _state, the promise with its _ready_state flag, the mutex    *)
(* and condition variable that waiters use, and the timeout callback.      *)
(*                                                                         *)
(* The state is changed by compare-and-swap or a plain store WITHOUT the   *)
(* mutex, which is taken only to notify; the promise and the flag are      *)
(* written in further steps, in an order that differs from path to path.   *)
(* Each of these is a step here.  The mutex is held between two steps only *)
(* at wait_sleep, where a waiter has evaluated its predicate and has not   *)
(* joined the condition variable yet.                                      *)
(*                                                                         *)
(* A task may be queued twice, so that several executors run execute on it.*)
(* Its function ends by returning, by throwing a std::exception or by      *)
(* throwing something else; copying a result does not throw.               *)
(***************************************************************************)
EXTENDS Naturals, FiniteSets

CONSTANTS
    Kind,        \* "ordinary", "standard" or "overtime"
    Executors,   \* threads that call execute
    Cancellers,  \* threads that call cancel
    Timers,      \* threads that find the deadline passed and call mark_timeout
    Waiters      \* threads that wait, or fetch the result

Threads == Executors \cup Cancellers \cup Timers \cup Waiters

ASSUME KindAssumption == Kind \in {"ordinary", "standard", "overtime"}
ASSUME RolesDisjoint ==
    /\ Executors \cap Cancellers = {} /\ Executors \cap Timers = {}
    /\ Executors \cap Waiters = {}    /\ Cancellers \cap Timers = {}
    /\ Cancellers \cap Waiters = {}   /\ Timers \cap Waiters = {}

VARIABLES
    state,      \* _state
    promise,    \* what _promise holds, or "none"
    ready,      \* _ready_state
    handled,    \* _timeout_handled
    fetched,    \* _future was given up by get_result
    pc,         \* where each thread is
    runs,       \* history: how often the task's function was called
    returned,   \* history: whether it returned
    callbacks,  \* history: how often the timeout callback was called
    raised      \* history: what each executor's last execute threw

object  == <<state, promise, ready, handled, fetched>>
history == <<runs, returned, callbacks, raised>>
vars    == <<object, pc, history>>

Promised == Kind # "ordinary"
Terminal == {"completed", "cancelled", "timeout", "failed"}

BodyLocations ==        \* running the task; the final state is still to come
    {"body", "set_value", "value_ready", "completed_store", "error_store",
     "set_unknown", "unknown_ready", "unknown_store"}
StoredLocations ==      \* the final state is stored
    {"completed_notify", "error_notify", "set_error", "error_ready",
     "unknown_notify"}
RejectLocations == {"reject", "reject_ready"}
CancelLocations == {"cancel_promise", "cancel_ready", "cancel_notify"}
TimeoutLocations ==
    {"timeout_notify", "timeout_promise", "timeout_ready", "timeout_callback"}
WaitLocations ==
    {"wait_lock", "wait_for_lock", "wait_sleep", "wait_for_sleep", "wait",
     "wait_for", "wait_for_timeout", "get_result"}

StillToNotify ==        \* the state is final, the waiters not yet notified
    {"completed_notify", "error_notify", "unknown_notify", "cancel_promise",
     "cancel_ready", "cancel_notify", "timeout_notify"}
LockFree == \A w \in Waiters : pc[w] \notin {"wait_sleep", "wait_for_sleep"}

TypeOK ==
    /\ state \in {"pending", "running"} \cup Terminal
    /\ promise \in {"none", "value", "failure", "cancelled", "overtime", "rejected"}
    /\ ready \in BOOLEAN
    /\ handled \in BOOLEAN
    /\ fetched \in BOOLEAN
    /\ pc \in [Threads -> {"idle"} \cup BodyLocations \cup StoredLocations
                   \cup RejectLocations \cup CancelLocations
                   \cup TimeoutLocations \cup WaitLocations]
    /\ \A e \in Executors : pc[e] \in {"idle"} \cup BodyLocations
                                \cup StoredLocations \cup RejectLocations
    /\ \A c \in Cancellers : pc[c] \in {"idle"} \cup CancelLocations
    /\ \A t \in Timers : pc[t] \in {"idle"} \cup TimeoutLocations
    /\ \A w \in Waiters : pc[w] \in {"idle"} \cup WaitLocations
    /\ runs \in Nat
    /\ returned \in BOOLEAN
    /\ callbacks \in Nat
    /\ raised \in [Executors -> {"none", "execution_exception", "future_error"}]

Init ==
    /\ state = "pending"
    /\ promise = "none"
    /\ ready = FALSE
    /\ handled = FALSE
    /\ fetched = FALSE
    /\ pc = [t \in Threads |-> "idle"]
    /\ runs = 0
    /\ returned = FALSE
    /\ callbacks = 0
    /\ raised = [e \in Executors |-> "none"]

Step(t, from, to) == pc[t] = from /\ pc' = [pc EXCEPT ![t] = to]

(* A thread moves on and nothing else changes.                             *)
Move(t, from, to) == Step(t, from, to) /\ UNCHANGED <<object, history>>

(* The state is stored; the object's other members stay.                   *)
Store(s) == state' = s /\ UNCHANGED <<promise, ready, handled, fetched>>

(* The first answer stays; std::promise refuses the others.                *)
Satisfy(a) == promise' = IF promise = "none" THEN a ELSE promise

(* _ready_state is stored.                                                 *)
SetReady == ready' = TRUE /\ UNCHANGED <<state, promise, handled, fetched>>

(* Mutant: the waiters are notified without the mutex.                     *)
NotifyAllUnlocked(t, to) ==
    /\ pc' = [x \in Threads |->
                CASE x = t                -> to
                  [] pc[x] = "wait"       -> "wait_lock"
                  [] pc[x] = "wait_for"   -> "wait_for_lock"
                  [] OTHER                -> pc[x]]
    /\ UNCHANGED object

(* The mutex is taken and released, and every sleeping waiter wakes up.    *)
NotifyAll(t, to) ==
    /\ LockFree
    /\ pc' = [x \in Threads |->
                CASE x = t                -> to
                  [] pc[x] = "wait"       -> "wait_lock"
                  [] pc[x] = "wait_for"   -> "wait_for_lock"
                  [] OTHER                -> pc[x]]
    /\ UNCHANGED object

(* execute ends by throwing ex.                                            *)
Raise(e, ex) ==
    /\ raised' = [raised EXCEPT ![e] = ex]
    /\ UNCHANGED <<runs, returned, callbacks>>

-----------------------------------------------------------------------------
(* execute *)

(* mark_running loses the race for the state.                              *)
Rejected(e) ==
    IF Promised
      THEN Move(e, "idle", "reject")
      ELSE Step(e, "idle", "idle") /\ Raise(e, "execution_exception")
             /\ UNCHANGED object

Started(e) ==
    /\ Step(e, "idle", "body")
    /\ Store("running")
    /\ runs' = runs + 1
    /\ UNCHANGED <<returned, callbacks, raised>>

(* Mutant: only a running task is refused.                                 *)
ExecuteUnlessRunning(e) ==
    \/ state # "running" /\ Started(e)
    \/ state = "running" /\ Rejected(e)

Execute(e) ==
    \/ state = "pending" /\ Started(e)
    \/ state # "pending" /\ Rejected(e)

(* The task's function ends in one of three ways.                          *)
Run(e) ==
    /\ UNCHANGED <<object, runs, callbacks, raised>>
    /\ \/ /\ Step(e, "body", IF Promised THEN "set_value" ELSE "completed_store")
          /\ returned' = TRUE
       \/ Step(e, "body", "error_store") /\ UNCHANGED returned
       \/ /\ Step(e, "body", IF Promised THEN "set_unknown" ELSE "error_store")
          /\ UNCHANGED returned

(* A promise that is satisfied already makes set_value throw, inside the   *)
(* try block: the successful run is then treated as a failed one.          *)
SetValue(e) ==
    /\ Step(e, "set_value", IF promise = "none" THEN "value_ready" ELSE "error_store")
    /\ Satisfy("value")
    /\ UNCHANGED <<state, ready, handled, fetched, history>>
ValueReady(e) ==
    Step(e, "value_ready", "completed_store") /\ SetReady /\ UNCHANGED history

(* mark_completed *)
CompletedStore(e) ==
    /\ Step(e, "completed_store", "completed_notify")
    /\ Store("completed")
    /\ UNCHANGED history
CompletedNotify(e) ==
    pc[e] = "completed_notify" /\ NotifyAll(e, "idle") /\ UNCHANGED history

(* mark_failed, in the handler for std::exception: before the promise.     *)
ErrorStore(e) ==
    /\ Step(e, "error_store", "error_notify")
    /\ Store("failed")
    /\ UNCHANGED history

(* A unit_ordinary has no promise and leaves from here.                    *)
ErrorNotify(e) ==
    /\ pc[e] = "error_notify"
    /\ IF Promised
         THEN NotifyAll(e, "set_error") /\ UNCHANGED history
         ELSE NotifyAll(e, "idle") /\ Raise(e, "execution_exception")

(* set_exception without a guard: on a satisfied promise it throws out of  *)
(* the handler, and what the handler had still to do is not done.          *)
SetExceptionOrThrow(e, from, to, a) ==
    /\ \/ /\ promise = "none"
          /\ Step(e, from, to)
          /\ promise' = a
          /\ UNCHANGED history
       \/ /\ promise # "none"
          /\ Step(e, from, "idle")
          /\ Raise(e, "future_error")
          /\ UNCHANGED promise
    /\ UNCHANGED <<state, ready, handled, fetched>>
ReadyAndRaise(e, from) ==
    Step(e, from, "idle") /\ SetReady /\ Raise(e, "execution_exception")

SetError(e)   == SetExceptionOrThrow(e, "set_error", "error_ready", "failure")
ErrorReady(e) == ReadyAndRaise(e, "error_ready")

(* The handler for everything else: the promise before mark_failed.        *)
SetUnknown(e) == SetExceptionOrThrow(e, "set_unknown", "unknown_ready", "failure")
UnknownReady(e) ==
    Step(e, "unknown_ready", "unknown_store") /\ SetReady /\ UNCHANGED history
UnknownStore(e) ==
    /\ Step(e, "unknown_store", "unknown_notify")
    /\ Store("failed")
    /\ UNCHANGED history
UnknownNotify(e) ==
    /\ pc[e] = "unknown_notify"
    /\ NotifyAll(e, "idle")
    /\ Raise(e, "execution_exception")

Reject(e)      == SetExceptionOrThrow(e, "reject", "reject_ready", "rejected")
RejectReady(e) == ReadyAndRaise(e, "reject_ready")

-----------------------------------------------------------------------------
(* cancel *)

(* Mutant: a running task can be cancelled too.                            *)
CancelAlsoRunning(c) ==
    /\ state \in {"pending", "running"}
    /\ Step(c, "idle", IF Promised THEN "cancel_promise" ELSE "cancel_notify")
    /\ Store("cancelled")
    /\ UNCHANGED history

Cancel(c) ==
    /\ state = "pending"
    /\ Step(c, "idle", IF Promised THEN "cancel_promise" ELSE "cancel_notify")
    /\ Store("cancelled")
    /\ UNCHANGED history
CancelPromise(c) ==
    /\ Step(c, "cancel_promise", "cancel_ready")
    /\ Satisfy("cancelled")
    /\ UNCHANGED <<state, ready, handled, fetched, history>>
CancelReady(c) ==
    Step(c, "cancel_ready", "cancel_notify") /\ SetReady /\ UNCHANGED history
CancelNotify(c) ==
    pc[c] = "cancel_notify" /\ NotifyAll(c, "idle") /\ UNCHANGED history

-----------------------------------------------------------------------------
(* mark_timeout: only unit_overtime answers its promise and calls back.    *)

MarkTimeout(t) ==
    /\ state = "pending"
    /\ Step(t, "idle", "timeout_notify")
    /\ Store("timeout")
    /\ UNCHANGED history
(* Mutant: the callback is called before the promise is answered.          *)
TimeoutNotifyThenCallback(t) ==
    /\ pc[t] = "timeout_notify"
    /\ NotifyAll(t, IF Kind = "overtime" THEN "timeout_callback" ELSE "idle")
    /\ UNCHANGED history

(* Mutant: no override; the promise of a late task stays without an answer.*)
TimeoutNotifyOnly(t) ==
    pc[t] = "timeout_notify" /\ NotifyAll(t, "idle") /\ UNCHANGED history

TimeoutNotify(t) ==
    /\ pc[t] = "timeout_notify"
    /\ NotifyAll(t, IF Kind = "overtime" THEN "timeout_promise" ELSE "idle")
    /\ UNCHANGED history
TimeoutPromise(t) ==
    /\ Step(t, "timeout_promise", "timeout_ready")
    /\ Satisfy("overtime")
    /\ UNCHANGED <<state, ready, handled, fetched, history>>
TimeoutReady(t) ==
    Step(t, "timeout_ready", "timeout_callback") /\ SetReady /\ UNCHANGED history

(* handle_timeout claims the callback and calls it.                        *)
HandleTimeout(t) ==
    /\ Step(t, "timeout_callback", "idle")
    /\ handled' = TRUE
    /\ callbacks' = IF handled THEN callbacks ELSE callbacks + 1
    /\ UNCHANGED <<state, promise, ready, fetched, runs, returned, raised>>

-----------------------------------------------------------------------------
(* wait, wait_for, get_result *)

Wait(w)    == Move(w, "idle", "wait_lock")
WaitFor(w) == Move(w, "idle", "wait_for_lock")

WaitLock(w) ==
    /\ LockFree
    /\ \/ state \in Terminal /\ pc[w] \in {"wait_lock", "wait_for_lock"}
          /\ Move(w, pc[w], "idle")
       \/ state \notin Terminal /\ Move(w, "wait_lock", "wait_sleep")
       \/ state \notin Terminal /\ Move(w, "wait_for_lock", "wait_for_sleep")
WaitSleep(w) ==
    Move(w, "wait_sleep", "wait") \/ Move(w, "wait_for_sleep", "wait_for")
SpuriousWakeup(w) ==
    Move(w, "wait", "wait_lock") \/ Move(w, "wait_for", "wait_for_lock")

(* wait_for gives up: it takes the mutex, evaluates the predicate and      *)
(* returns what it says.                                                   *)
WaitTimeout(w)  == Move(w, "wait_for", "wait_for_timeout")
WaitTimedOut(w) == LockFree /\ Move(w, "wait_for_timeout", "idle")

(* get_result blocks in the future until the promise is satisfied; a second*)
(* call finds the future empty and throws at once.                         *)
GetResult(w) ==
    /\ Promised
    /\ ~fetched
    /\ Step(w, "idle", "get_result")
    /\ fetched' = TRUE
    /\ UNCHANGED <<state, promise, ready, handled, history>>
GotResult(w) == promise # "none" /\ Move(w, "get_result", "idle")

-----------------------------------------------------------------------------
Executing(e) ==
    \/ Run(e) \/ SetValue(e) \/ ValueReady(e) \/ CompletedStore(e)
    \/ ErrorStore(e) \/ SetError(e) \/ ErrorReady(e) \/ SetUnknown(e)
    \/ UnknownReady(e) \/ UnknownStore(e) \/ Reject(e) \/ RejectReady(e)
Cancelling(c) == CancelPromise(c) \/ CancelReady(c)
TimingOut(t)  == TimeoutPromise(t) \/ TimeoutReady(t) \/ HandleTimeout(t)
Notifying(t) ==
    \/ CompletedNotify(t) \/ ErrorNotify(t) \/ UnknownNotify(t)
    \/ CancelNotify(t) \/ TimeoutNotify(t)
Waiting(w) == WaitSleep(w) \/ WaitTimeout(w) \/ GotResult(w)

Next ==
    \/ \E e \in Executors : Execute(e) \/ Executing(e)
    \/ \E c \in Cancellers : Cancel(c) \/ Cancelling(c)
    \/ \E t \in Timers : MarkTimeout(t) \/ TimingOut(t)
    \/ \E t \in Executors \cup Cancellers \cup Timers : Notifying(t)
    \/ \E w \in Waiters :
        \/ Wait(w) \/ WaitFor(w) \/ GetResult(w) \/ WaitLock(w)
        \/ SpuriousWakeup(w) \/ WaitTimedOut(w) \/ Waiting(w)

Spec == Init /\ [][Next]_vars

(***************************************************************************)
(* Fairness.  The operating system runs every thread that can run, a thread*)
(* that keeps asking for the mutex gets it, a timed wait has an absolute   *)
(* deadline, and the task's function returns or throws.                    *)
(***************************************************************************)
FairThreads ==
    /\ \A e \in Executors : WF_vars(Executing(e))
    /\ \A c \in Cancellers : WF_vars(Cancelling(c))
    /\ \A t \in Timers : WF_vars(TimingOut(t))
    /\ \A t \in Executors \cup Cancellers \cup Timers : SF_vars(Notifying(t))
    /\ \A w \in Waiters :
        /\ WF_vars(WaitSleep(w)) /\ WF_vars(GotResult(w))
        /\ SF_vars(WaitTimeout(w)) /\ SF_vars(WaitLock(w) \/ WaitTimedOut(w))

-----------------------------------------------------------------------------
(* The task's function is called once at most, however often the task was  *)
(* queued, and never once somebody was told that it is cancelled or late.  *)
RunsOnce ==
    /\ runs <= 1
    /\ state \in {"pending", "cancelled", "timeout"} => runs = 0

(* What the future holds agrees with the state the task ends in, although  *)
(* the two are written in separate steps: a completed task has its value   *)
(* and is marked ready, and no other task has a value in the end.          *)
AnswerMatchesState ==
    /\ state = "completed" /\ Promised => promise = "value" /\ ready
    /\ promise = "value" => state \in {"running", "completed"}
    /\ promise = "failure" => state \in {"running", "failed"}
    /\ promise = "cancelled" => state = "cancelled"
    /\ promise = "overtime" => state = "timeout"
    /\ promise = "rejected" => state # "pending"
    /\ ready => promise # "none"

(* The state is changed without the mutex, and still no waiter sleeps      *)
(* through the end of the task: the thread that ended it has yet to notify.*)
NoWaiterSleepsThrough ==
    state \in Terminal /\ (\E w \in Waiters : pc[w] \in {"wait", "wait_for"})
        => \E t \in Threads : pc[t] \in StillToNotify

(* Nobody changes the end of a task: an executor that is late, a canceller *)
(* and a timer lose against it.                                            *)
TerminalIsFinal == [][(state \in Terminal) => state' = state]_vars

(* The timeout callback is called once at most, for a task whose deadline  *)
(* passed, and after its future has an answer.                             *)
CallbackOnce ==
    /\ callbacks <= 1
    /\ callbacks > 0 => state = "timeout" /\ promise # "none" /\ ready

(* A task that is queued once and whose function returned is completed once*)
(* its executor is through with it: cancel and mark_timeout cannot turn it *)
(* into a failure by satisfying the promise first.                         *)
SuccessIsKept ==
    returned /\ (\A e \in Executors : pc[e] = "idle") => state = "completed"

(* The object, seen by those who hold it, has the life of a task.          *)
Life == INSTANCE TaskLife WITH Answers <- Promised, answer <- promise
ImplementsTaskLife == Life!Spec
=============================================================================
