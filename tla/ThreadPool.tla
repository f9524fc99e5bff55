----------------------------- MODULE ThreadPool -----------------------------
(***************************************************************************)
(* The life of a thread_pool (Asio/model/sched/thread_pool.hpp): the       *)
(* threads that start, stop, pause and resume it, the clients that submit, *)
(* cancel and wait for tasks, the monitor thread and the workers.          *)
(*                                                                         *)
(* start, stop, pause and resume hold _state_mutex, but the state itself   *)
(* is an atomic that everybody else reads without it, and stop(true) gives *)
(* the mutex up while it waits for the tasks.  _tasks_mutex guards the map *)
(* _active_tasks; wait_for_unit holds it, shared, as long as it waits.     *)
(*                                                                         *)
(* The queue, the tasks and the workers are those of RankStandard, Unit    *)
(* and Scheduler with their inner steps taken together: a queue that is    *)
(* not bounded, tasks of the default kind, and a fixed number of workers.  *)
(* Not here: restart and auto_repair, which replace the scheduler without  *)
(* the mutex, resizing, the statistics and the profiler; and the handlers  *)
(* of stop, which lead to "error": closing the queue, waiting, joining and *)
(* clearing the map do not throw when the controllers are no workers.      *)
(***************************************************************************)
EXTENDS Naturals, Sequences, FiniteSets, Functions

CONSTANTS
    Controllers,   \* threads that start, stop, pause and resume
    Clients,       \* threads that submit, cancel and wait
    Waiters,       \* those of them that call wait_for_unit
    Units,         \* tasks, each submitted once at most
    Workers,       \* the worker threads of a scheduler: _initial_threads
    Outcomes,      \* how a task's function ends: "returns", "throws"
    StartFails     \* BOOLEAN: the creation of a thread may fail

ASSUME RolesDisjoint == Controllers \cap Clients = {}
ASSUME WorkersAssumption == IsFiniteSet(Workers) /\ Workers # {}
ASSUME InputAssumption ==
    /\ Outcomes \subseteq {"returns", "throws"} /\ StartFails \in BOOLEAN
    /\ Waiters \subseteq Clients /\ "none" \notin Controllers
ASSUME NoneIsNoTask == "none" \notin Units

VARIABLES
    state,       \* _state
    lock,        \* the controller that holds _state_mutex, or "none"
    queue,       \* _unit_rank
    closed,      \* its _closed
    scheduler,   \* _scheduler: "idle", "running", or "stopping" its workers
    wpc,         \* where each worker is; "none" before it is created
    holding,     \* the task each worker has fetched, or "none"
    ustate,      \* the state of each task, "new" before it is submitted
    active,      \* _active_tasks
    monitor,     \* where the monitor thread is
    pc,          \* where each controller and client is
    arg,         \* the task each client's call is about
    broken       \* history: a start has left workers behind

pool    == <<state, lock, broken>>
rank    == <<queue, closed>>
crew    == <<wpc, holding>>
vars    == <<pool, rank, scheduler, crew, ustate, active, monitor, pc, arg>>

Ended   == {"completed", "failed", "cancelled"}
Alive   == {w \in Workers : wpc[w] \notin {"none", "dead"}}

StopLocations ==          \* inside stop
    {"stop_wait", "stop_relock", "stop_scheduler", "stop_join", "stop_clear",
     "stop_monitor"}
ControllerLocations == {"idle", "start", "clean_up", "resume"} \cup StopLocations
ClientLocations == {"idle", "push", "track", "wait"}

(* Nobody holds _tasks_mutex shared: it can be taken exclusively.          *)
TasksFree == \A t \in Clients : pc[t] # "wait"

TypeOK ==
    /\ state \in {"stopped", "starting", "running", "paused", "stopping", "error"}
    /\ lock \in Controllers \cup {"none"}
    /\ queue \in Seq(Units) /\ closed \in BOOLEAN
    /\ scheduler \in {"idle", "running", "stopping"}
    /\ wpc \in [Workers -> {"none", "check", "fetch", "execute", "run", "dead"}]
    /\ holding \in [Workers -> Units \cup {"none"}]
    /\ ustate \in [Units -> {"new", "checked", "refused", "pending", "running"}
                              \cup Ended]
    /\ active \subseteq Units
    /\ monitor \in {"none", "check", "work", "clean", "done"}
    /\ pc \in [Controllers \cup Clients -> ControllerLocations \cup ClientLocations]
    /\ \A c \in Controllers : pc[c] \in ControllerLocations
    /\ \A t \in Clients : pc[t] \in ClientLocations
    /\ arg \in [Clients -> Units \cup {"none"}]
    /\ broken \in BOOLEAN

Init ==
    /\ state = "stopped" /\ lock = "none"
    /\ queue = <<>> /\ closed = FALSE
    /\ scheduler = "idle"
    /\ wpc = [w \in Workers |-> "none"]
    /\ holding = [w \in Workers |-> "none"]
    /\ ustate = [u \in Units |-> "new"]
    /\ active = {}
    /\ monitor = "none"
    /\ pc = [t \in Controllers \cup Clients |-> "idle"]
    /\ arg = [t \in Clients |-> "none"]
    /\ broken = FALSE

Go(t, from, to) == pc[t] = from /\ pc' = [pc EXCEPT ![t] = to]

-----------------------------------------------------------------------------
(* start *)

(* The workers in ws are created.                                          *)
Create(ws) ==
    /\ wpc' = [w \in Workers |-> IF w \in ws THEN "check" ELSE wpc[w]]
    /\ UNCHANGED holding

(* The scheduler and the monitor thread are started while the state is     *)
(* still "starting".  A thread that cannot be created is the monitor's (or *)
(* the profiler's after it), and the scheduler is stopped again; or one of *)
(* the scheduler's own, which leaves it running; or a worker's, which      *)
(* leaves the workers before it.                                           *)
Start(c) ==
    /\ lock = "none" /\ state = "stopped" /\ pc[c] = "idle"
    /\ \A w \in Workers : wpc[w] = "none"
    /\ scheduler = "idle"
    /\ \/ /\ Create(Workers) /\ scheduler' = "running" /\ monitor' = "check"
          /\ state' = "starting" /\ lock' = c
          /\ Go(c, "idle", "start")
          /\ UNCHANGED broken
       \/ /\ StartFails
          /\ Create(Workers) /\ scheduler' = "stopping"
          /\ monitor' \in {monitor, "check"}
          /\ state' = "starting" /\ lock' = c
          /\ Go(c, "idle", "clean_up")
          /\ UNCHANGED broken
       \/ /\ StartFails
          /\ Create(Workers) /\ scheduler' = "running"
          /\ state' = "error"
          /\ UNCHANGED <<lock, monitor, pc, broken>>
       \/ /\ StartFails
          /\ \E ws \in SUBSET Workers : ws # Workers /\ Create(ws)
          /\ state' = "error" /\ broken' = TRUE
          /\ UNCHANGED <<lock, scheduler, monitor, pc>>
    /\ UNCHANGED <<rank, ustate, active, arg>>

StartDone(c) ==
    /\ Go(c, "start", "idle")
    /\ state' = "running" /\ lock' = "none"
    /\ UNCHANGED <<broken, rank, scheduler, crew, ustate, active, monitor, arg>>

(* The workers that have come to an end go with the scheduler.             *)
Dismiss == wpc' = [w \in Workers |-> "none"] /\ UNCHANGED holding

(* The handler of start: scheduler_ordinary::stop and stop_monitoring.     *)
CleanUpOnError(c) ==
    /\ Alive = {} /\ monitor \in {"none", "done"}
    /\ Go(c, "clean_up", "idle")
    /\ Dismiss
    /\ scheduler' = "idle"
    /\ state' = "error" /\ lock' = "none"
    /\ UNCHANGED <<broken, rank, ustate, active, monitor, arg>>

-----------------------------------------------------------------------------
(* stop, force_shutdown; shutdown is either, after a wait                  *)

(* A pool that is stopped, or that somebody else is stopping, is left      *)
(* alone.  wait_for_completion is chosen freely.                           *)
Stop(c) ==
    /\ lock = "none"
    /\ state \notin {"stopped", "stopping"}
    /\ state' = "stopping" /\ closed' = TRUE
    /\ \/ Go(c, "idle", "stop_wait") /\ UNCHANGED lock
       \/ Go(c, "idle", "stop_scheduler") /\ lock' = c
    /\ UNCHANGED <<broken, queue, scheduler, crew, ustate, active, monitor, arg>>

(* wait_for_all_tasks ends when there are no tasks or its time is over:    *)
(* stop does not care which.                                               *)
StopWaited(c) ==
    /\ Go(c, "stop_wait", "stop_relock")
    /\ UNCHANGED <<pool, rank, scheduler, crew, ustate, active, monitor, arg>>
StopRelock(c) ==
    /\ lock = "none"
    /\ Go(c, "stop_relock", "stop_scheduler")
    /\ lock' = c
    /\ UNCHANGED <<state, broken, rank, scheduler, crew, ustate, active, monitor, arg>>

(* scheduler_ordinary::stop does nothing when it is not running.           *)
StopScheduler(c) ==
    /\ IF scheduler = "running"
         THEN Go(c, "stop_scheduler", "stop_join") /\ scheduler' = "stopping"
         ELSE Go(c, "stop_scheduler", "stop_clear") /\ UNCHANGED scheduler
    /\ UNCHANGED <<pool, rank, crew, ustate, active, monitor, arg>>

(* Mutant: the workers are dismissed before they have come to an end.      *)
StopJoinAtOnce(c) ==
    /\ Go(c, "stop_join", "stop_clear")
    /\ scheduler' = "idle"
    /\ UNCHANGED <<pool, rank, crew, ustate, active, monitor, arg>>

StopJoin(c) ==
    /\ Alive = {}
    /\ Go(c, "stop_join", "stop_clear")
    /\ Dismiss
    /\ scheduler' = "idle"
    /\ UNCHANGED <<pool, rank, ustate, active, monitor, arg>>

(* Mutant: the queue is emptied together with the map.                     *)
StopClearQueue(c) ==
    /\ TasksFree
    /\ Go(c, "stop_clear", "stop_monitor")
    /\ active' = {} /\ queue' = <<>>
    /\ UNCHANGED <<pool, closed, scheduler, crew, ustate, monitor, arg>>
StopClear(c) ==
    /\ TasksFree
    /\ Go(c, "stop_clear", "stop_monitor")
    /\ active' = {}
    /\ UNCHANGED <<pool, rank, scheduler, crew, ustate, monitor, arg>>
StopMonitor(c) ==
    /\ monitor \in {"none", "done"}
    /\ Go(c, "stop_monitor", "idle")
    /\ state' = "stopped" /\ lock' = "none"
    /\ UNCHANGED <<broken, rank, scheduler, crew, ustate, active, monitor, arg>>

-----------------------------------------------------------------------------
(* pause, resume *)

(* The queue is closed; the workers go on with what is in it.              *)
Pause(c) ==
    /\ lock = "none" /\ pc[c] = "idle" /\ state = "running"
    /\ state' = "paused" /\ closed' = TRUE
    /\ UNCHANGED <<lock, broken, queue, scheduler, crew, ustate, active, monitor,
                   pc, arg>>

(* A new queue; the old scheduler is stopped without waiting for its tasks *)
(* and destroyed; the new one is never started.                            *)
Resume(c) ==
    /\ lock = "none" /\ state = "paused"
    /\ Go(c, "idle", "resume")
    /\ lock' = c
    /\ scheduler' = IF scheduler = "running" THEN "stopping" ELSE scheduler
    /\ UNCHANGED <<state, broken, rank, crew, ustate, active, monitor, arg>>
ResumeDone(c) ==
    /\ Alive = {}
    /\ Go(c, "resume", "idle")
    /\ Dismiss
    /\ queue' = <<>> /\ closed' = FALSE
    /\ scheduler' = "idle"
    /\ state' = "running" /\ lock' = "none"
    /\ UNCHANGED <<broken, ustate, active, monitor, arg>>

-----------------------------------------------------------------------------
(* submit, cancel_unit, cancel_all_pending_units, wait_for_unit            *)

Submit(t) ==
    /\ state = "running"
    /\ Go(t, "idle", "push")
    /\ \E u \in Units :
        /\ ustate[u] = "new"
        /\ ustate' = [ustate EXCEPT ![u] = "checked"]
        /\ arg' = [arg EXCEPT ![t] = u]
    /\ UNCHANGED <<pool, rank, scheduler, crew, active, monitor>>

SubmitPush(t) ==
    /\ \/ /\ scheduler # "idle" /\ ~closed
          /\ Go(t, "push", "track")
          /\ queue' = Append(queue, arg[t])
          /\ ustate' = [ustate EXCEPT ![arg[t]] = "pending"]
          /\ UNCHANGED arg
       \/ /\ scheduler = "idle" \/ closed
          /\ Go(t, "push", "idle")
          /\ ustate' = [ustate EXCEPT ![arg[t]] = "refused"]
          /\ arg' = [arg EXCEPT ![t] = "none"]
          /\ UNCHANGED queue
    /\ UNCHANGED <<pool, closed, scheduler, crew, active, monitor>>

(* The task is in the queue already, and may have run.                     *)
SubmitTrack(t) ==
    /\ TasksFree
    /\ Go(t, "track", "idle")
    /\ active' = active \cup {arg[t]}
    /\ arg' = [arg EXCEPT ![t] = "none"]
    /\ UNCHANGED <<pool, rank, scheduler, crew, ustate, monitor>>

(* Those of us that are pending are cancelled; they stay in the queue.     *)
CancelPending(us) ==
    LET hit == {u \in us : ustate[u] = "pending"}
    IN  /\ ustate' = [u \in Units |-> IF u \in hit THEN "cancelled" ELSE ustate[u]]
        /\ active' = active \ hit

CancelUnit(t) ==
    /\ pc[t] = "idle" /\ state = "running" /\ TasksFree
    /\ \E u \in active : CancelPending({u})
    /\ UNCHANGED <<pool, rank, scheduler, crew, monitor, pc, arg>>
CancelAllPendingUnits(t) ==
    /\ pc[t] = "idle" /\ TasksFree
    /\ CancelPending(active)
    /\ UNCHANGED <<pool, rank, scheduler, crew, monitor, pc, arg>>

WaitForUnit(t) ==
    /\ t \in Waiters
    /\ Go(t, "idle", "wait")
    /\ \E u \in active : ustate[u] \notin Ended /\ arg' = [arg EXCEPT ![t] = u]
    /\ UNCHANGED <<pool, rank, scheduler, crew, ustate, active, monitor>>
(* The task has ended, or the time is over.                                *)
WaitDone(t) ==
    /\ Go(t, "wait", "idle")
    /\ arg' = [arg EXCEPT ![t] = "none"]
    /\ UNCHANGED <<pool, rank, scheduler, crew, ustate, active, monitor>>

-----------------------------------------------------------------------------
(* the monitor thread: its loop and cleanup_stale_tasks                    *)

MonitorCheck ==
    /\ monitor = "check"
    /\ monitor' = IF state = "running" THEN "work" ELSE "done"
    /\ UNCHANGED <<pool, rank, scheduler, crew, ustate, active, pc, arg>>

(* The clean-up is due now and then.                                       *)
MonitorWork ==
    /\ monitor = "work" /\ monitor' \in {"check", "clean"}
    /\ UNCHANGED <<pool, rank, scheduler, crew, ustate, active, pc, arg>>

(* Ended tasks leave the map, and so do old ones, which are cancelled if   *)
(* they are still pending.                                                 *)
MonitorClean ==
    /\ monitor = "clean" /\ monitor' = "check"
    /\ TasksFree
    /\ \E old \in SUBSET {u \in active : ustate[u] \notin Ended} :
        /\ ustate' = [u \in Units |->
              IF u \in old /\ ustate[u] = "pending" THEN "cancelled" ELSE ustate[u]]
        /\ active' = {u \in active \ old : ustate[u] \notin Ended}
    /\ UNCHANGED <<pool, rank, scheduler, crew, pc, arg>>

-----------------------------------------------------------------------------
(* the workers *)

WGo(w, from, to) == wpc[w] = from /\ wpc' = [wpc EXCEPT ![w] = to]
OtherThanCrew == <<pool, closed, scheduler, active, monitor, pc, arg>>

CheckStop(w) ==
    /\ WGo(w, "check", IF scheduler = "stopping" THEN "dead" ELSE "fetch")
    /\ UNCHANGED <<holding, queue, ustate, OtherThanCrew>>

Fetch(w) ==
    /\ \/ /\ queue # <<>>
          /\ WGo(w, "fetch", "execute")
          /\ holding' = [holding EXCEPT ![w] = Head(queue)]
          /\ queue' = Tail(queue)
       \/ queue = <<>> /\ WGo(w, "fetch", "check") /\ UNCHANGED <<holding, queue>>
    /\ UNCHANGED <<ustate, OtherThanCrew>>

(* A task that was cancelled throws, and takes the worker with it.         *)
Execute(w) ==
    /\ \/ /\ WGo(w, "execute", "run")
          /\ ustate[holding[w]] = "pending"
          /\ ustate' = [ustate EXCEPT ![holding[w]] = "running"]
          /\ UNCHANGED holding
       \/ /\ WGo(w, "execute", "dead")
          /\ ustate[holding[w]] = "cancelled"
          /\ holding' = [holding EXCEPT ![w] = "none"]
          /\ UNCHANGED ustate
    /\ UNCHANGED <<queue, OtherThanCrew>>

RunEnds(w) ==
    /\ \/ /\ "returns" \in Outcomes
          /\ WGo(w, "run", "check")
          /\ ustate' = [ustate EXCEPT ![holding[w]] = "completed"]
       \/ /\ "throws" \in Outcomes
          /\ WGo(w, "run", "dead")
          /\ ustate' = [ustate EXCEPT ![holding[w]] = "failed"]
    /\ holding' = [holding EXCEPT ![w] = "none"]
    /\ UNCHANGED <<queue, OtherThanCrew>>

-----------------------------------------------------------------------------
Stopping(c) ==
    \/ StopWaited(c) \/ StopRelock(c) \/ StopScheduler(c) \/ StopJoin(c)
    \/ StopClear(c) \/ StopMonitor(c)
Submitting(t) == SubmitPush(t) \/ SubmitTrack(t)
Working(w) == CheckStop(w) \/ Fetch(w) \/ Execute(w) \/ RunEnds(w)

Next ==
    \/ \E c \in Controllers :
        \/ Start(c) \/ StartDone(c) \/ CleanUpOnError(c) \/ Stop(c) \/ Stopping(c)
        \/ Pause(c) \/ Resume(c) \/ ResumeDone(c)
    \/ \E t \in Clients :
        \/ Submit(t) \/ Submitting(t) \/ CancelUnit(t)
        \/ CancelAllPendingUnits(t) \/ WaitForUnit(t) \/ WaitDone(t)
    \/ MonitorCheck \/ MonitorWork \/ MonitorClean
    \/ \E w \in Workers : Working(w)

Spec == Init /\ [][Next]_vars

(***************************************************************************)
(* Fairness.  Every thread that can run does, one that keeps asking for a  *)
(* mutex gets it, timed waits end, tasks end.                              *)
(***************************************************************************)
FairThreads ==
    /\ \A c \in Controllers :
        /\ WF_vars(StartDone(c) \/ CleanUpOnError(c) \/ ResumeDone(c))
        /\ SF_vars(Stopping(c))
    /\ \A t \in Clients : WF_vars(WaitDone(t))
    /\ WF_vars(MonitorCheck \/ MonitorWork) /\ SF_vars(MonitorClean)
    /\ \A w \in Workers : WF_vars(Working(w))
FairSpec == Spec /\ FairThreads

-----------------------------------------------------------------------------
(* When stop has returned nothing of the pool is left running, unless a    *)
(* start failed at a worker before: no worker, no task, no monitor.        *)
StoppedIsQuiet ==
    state = "stopped" /\ ~broken =>
        /\ Alive = {} /\ (\A w \in Workers : holding[w] = "none")
        /\ monitor \in {"none", "done"}
        /\ scheduler = "idle"

(* stop gives the mutex up while it waits; still nobody else moves the     *)
(* pool out of "stopping", and it gets there once for every stop.          *)
OneStopper ==
    Cardinality({c \in Controllers : pc[c] \in StopLocations})
        = IF state = "stopping" THEN 1 ELSE 0

(* A task that was accepted waits in the queue or is with one worker until *)
(* it has ended; stopping, pausing and starting again lose none, only a    *)
(* resume, which replaces the queue, forgets what was in it.               *)
Accepted(u) == u \in Range(queue) \/ \E w \in Workers : holding[w] = u
AcceptedIsKept ==
    [][\A u \in Units :
        (Accepted(u) /\ ~Accepted(u)') =>
            ustate'[u] \in Ended \/ \E c \in Controllers : pc[c] = "resume"]_vars

(* stop returns: neither the waiters that hold _tasks_mutex nor the monitor*)
(* nor the workers keep it for ever.                                       *)
StopReturns == state = "stopping" ~> state # "stopping"

(* "true: resumed" (the comment on resume): a pool that says it is running *)
(* has a scheduler that takes tasks.                                       *)
RunningServes == state = "running" => scheduler = "running"
=============================================================================
