------------------------------ MODULE Scheduler ------------------------------
(***************************************************************************)
(* scheduler_ordinary (Asio/model/sched/scheduling.hpp) and the adaptive   *)
(* workers it owns (Asio/model/sched/worker.hpp).                          *)
(*                                                                         *)
(* Threads: the owner (thread_pool, which starts and stops the scheduler   *)
(* under a mutex of its own), the monitor thread, the scaling thread       *)
(* ("auto"), other threads that scale by hand, and the workers.  They meet *)
(* in _workers and its mutex.  Every scaling operation reads the number of *)
(* workers under one lock, computes what to add or remove from it, and     *)
(* takes the lock again to do so.                                          *)
(*                                                                         *)
(* The queue is a sequence that workers take the front of: what            *)
(* RankStandard implements.  A task returns, throws, or is found too late. *)
(* The smoothed load is not computed: each evaluation finds it in one of   *)
(* Levels; everything else evaluate_scaling looks at is.                   *)
(***************************************************************************)
EXTENDS Integers, Sequences, FiniteSets

CONSTANTS
    MinThreads, MaxThreads,   \* scaling_config
    CoreThreads,              \* the argument of start
    UpStep, DownStep,         \* scale_up_step, scale_down_step
    SizeMod,                  \* 2^w for the width w of std::size_t
    Workers,                  \* worker objects, reused once they are destroyed
    Scalers,                  \* threads that scale by hand
    Asks,                     \* what they call: records [up, n]
    Units,                    \* tasks, each submitted once at most
    Outcomes,                 \* how tasks end: "returns", "throws", "late"
    Levels,                   \* smoothed load: "high", "middle", "low"
    Capacity,                 \* _metrics.queue_capacity
    CreateFails               \* BOOLEAN: the creation of a thread may fail

ASSUME ConfigAssumption ==    \* pool_config::validate
    /\ {MinThreads, MaxThreads, CoreThreads, UpStep, DownStep} \subseteq Nat \ {0}
    /\ MinThreads <= CoreThreads /\ CoreThreads <= MaxThreads
ASSUME SizeAssumption == SizeMod \in Nat /\ SizeMod > MaxThreads
ASSUME InputAssumption ==
    /\ Asks \subseteq [up : BOOLEAN, n : Nat]
    /\ Outcomes \subseteq {"returns", "throws", "late"}
    /\ Levels \subseteq {"high", "middle", "low"}
    /\ Capacity \in Nat \ {0}
    /\ CreateFails \in BOOLEAN
    /\ "auto" \notin Scalers /\ "owner" \notin Scalers /\ "none" \notin Scalers
    /\ "none" \notin Units

VARIABLES
    running,       \* _running
    should_stop,   \* _should_stop
    workers,       \* _workers
    mutex,         \* who holds _workers_mutex across steps, or "none"
    wpc,           \* where each worker's thread is; "none" before it exists
    wstop,         \* worker: _stop
    wstate,        \* worker: _state
    holding,       \* the task each worker has fetched, or "none"
    queue,         \* _unit_rank
    ustate,        \* what became of each task
    owner,         \* where the owner is
    waits,         \* the argument of its stop
    monitor,       \* where the monitor thread is
    metrics,       \* what it last saw: [len, active, total]
    last_len,      \* _last_queue_length
    windows,       \* [up, down]: _up_window_count, _down_window_count
    spc,           \* where each scaling operation is
    ask,           \* which operation: [up, n]
    left           \* how many workers it has still to add or remove

flags  == <<running, should_stop>>
worker == <<wpc, wstop, wstate, holding>>
tasks  == <<queue, ustate>>
watch  == <<monitor, metrics>>
load   == <<last_len, windows>>
ops    == <<spc, ask, left>>
vars   == <<flags, workers, mutex, worker, tasks, owner, waits, watch, load, ops>>

ScalerThreads == Scalers \cup {"auto"}
MinOf(a, b)   == IF a < b THEN a ELSE b
Minus(a, b)   == (a - b) % SizeMod
InWorkers(w)  == \E i \in DOMAIN workers : workers[i] = w
Active        == {i \in DOMAIN workers : wstate[workers[i]] = "running"}
Alive         == {w \in Workers : wpc[w] \notin {"none", "done"}}

Unused        == {w \in Workers : wpc[w] = "none"}

TypeOK ==
    /\ running \in BOOLEAN /\ should_stop \in BOOLEAN
    /\ workers \in Seq(Workers)
    /\ mutex \in ScalerThreads \cup {"none", "owner"}
    /\ wpc \in [Workers -> {"none", "loop", "fetch", "execute", "throw", "end", "done"}]
    /\ wstop \in [Workers -> BOOLEAN]
    /\ wstate \in [Workers -> {"idle", "running", "stopping", "stopped", "error"}]
    /\ holding \in [Workers -> Units \cup {"none"}]
    /\ queue \in Seq(Units)
    /\ ustate \in [Units -> {"new", "submitting", "queued", "held", "ended"}]
    /\ owner \in {"idle", "join_monitor", "join_scaling", "stop_all", "join_one",
                  "join_all"}
    /\ waits \in BOOLEAN
    /\ monitor \in {"none", "loop", "active", "total", "done"}
    /\ metrics \in [len : Nat, active : Nat, total : Nat]
    /\ last_len \in Nat
    /\ windows \in [up : 0..2, down : 0..3]
    /\ spc \in [ScalerThreads -> {"none", "idle", "wait", "evaluate", "read",
                                  "change", "remove", "join", "done"}]
    /\ ask \in [ScalerThreads -> [up : BOOLEAN, n : Nat]]
    /\ left \in [ScalerThreads \cup {"owner"} -> Nat]

Init ==
    /\ running = FALSE /\ should_stop = FALSE
    /\ workers = <<>> /\ mutex = "none"
    /\ wpc = [w \in Workers |-> "none"]
    /\ wstop = [w \in Workers |-> FALSE]
    /\ wstate = [w \in Workers |-> "idle"]
    /\ holding = [w \in Workers |-> "none"]
    /\ queue = <<>> /\ ustate = [u \in Units |-> "new"]
    /\ owner = "idle" /\ waits = FALSE
    /\ monitor = "none" /\ metrics = [len |-> 0, active |-> 0, total |-> 0]
    /\ last_len = 0 /\ windows = [up |-> 0, down |-> 0]
    /\ spc = [s \in ScalerThreads |-> IF s = "auto" THEN "none" ELSE "idle"]
    /\ ask = [s \in ScalerThreads |-> [up |-> FALSE, n |-> 0]]
    /\ left = [s \in ScalerThreads \cup {"owner"} |-> 0]

-----------------------------------------------------------------------------
(* create_workers, under the mutex                                         *)

(* n new workers are started and appended.                                 *)
AddWorkers(n) ==
    /\ mutex = "none"
    /\ \E new \in SUBSET Unused :
        /\ Cardinality(new) = n
        /\ \E order \in [1..n -> new] :
            /\ \A w \in new : \E i \in 1..n : order[i] = w
            /\ workers' = workers \o order
        /\ wpc' = [w \in Workers |-> IF w \in new THEN "loop" ELSE wpc[w]]
        /\ wstate' = [w \in Workers |-> IF w \in new THEN "running" ELSE wstate[w]]
    /\ UNCHANGED <<mutex, wstop, holding>>

(* A worker that cannot be started ends the loop; those before it stay.    *)
CreateWorkers(n, ok) ==
    \/ ok /\ AddWorkers(n)
    \/ ~ok /\ CreateFails /\ \E m \in 0..(n - 1) : AddWorkers(m)

-----------------------------------------------------------------------------
(* start, stop                                                             *)

(* The monitor thread, then the scaling thread.  Where one cannot be made  *)
(* the handler of start gives up, with _running set and the workers there. *)
StartThreads ==
    \/ monitor' = "loop" /\ spc' = [spc EXCEPT !["auto"] = "wait"]
    \/ CreateFails /\ monitor' \in {monitor, "loop"} /\ UNCHANGED spc

(* Taken together: the owner alone starts, nobody but submit reads the     *)
(* flags before the threads are there, and submit then only refuses.       *)
Start ==
    /\ owner = "idle" /\ ~running
    /\ \E ok \in BOOLEAN :
        /\ CreateWorkers(CoreThreads, ok)
        /\ IF ok
             THEN /\ running' = TRUE /\ should_stop' = FALSE
                  /\ StartThreads
             ELSE UNCHANGED <<flags, monitor, spc>>
    /\ UNCHANGED <<tasks, owner, waits, metrics, load, ask, left>>

Stop ==
    /\ owner = "idle" /\ running
    /\ should_stop' = TRUE
    /\ owner' = "join_monitor"
    /\ waits' \in BOOLEAN
    /\ UNCHANGED <<running, workers, mutex, worker, tasks, watch, load, ops>>

JoinMonitor ==
    /\ owner = "join_monitor" /\ monitor \in {"none", "done"}
    /\ owner' = "join_scaling"
    /\ UNCHANGED <<flags, workers, mutex, worker, tasks, waits, watch, load, ops>>

(* stop_all_workers takes the mutex when both threads are joined.          *)
JoinScaling ==
    /\ owner = "join_scaling" /\ spc["auto"] \in {"none", "done"}
    /\ mutex = "none"
    /\ mutex' = "owner"
    /\ owner' = "stop_all"
    /\ left' = [left EXCEPT !["owner"] = 1]
    /\ UNCHANGED <<flags, workers, worker, tasks, waits, watch, load, spc, ask>>

(* worker_ordinary::stop up to its join: the state is stored even if the   *)
(* worker has already stopped.                                             *)
AskToStop(ws) ==
    /\ wstop' = [w \in Workers |-> IF w \in ws THEN TRUE ELSE wstop[w]]
    /\ wstate' = [w \in Workers |-> IF w \in ws THEN "stopping" ELSE wstate[w]]
    /\ UNCHANGED <<wpc, holding>>

(* Worker objects leave _workers and are destroyed.                        *)
Destroy(ws) ==
    /\ wpc' = [w \in Workers |-> IF w \in ws THEN "none" ELSE wpc[w]]
    /\ wstop' = [w \in Workers |-> IF w \in ws THEN FALSE ELSE wstop[w]]
    /\ wstate' = [w \in Workers |-> IF w \in ws THEN "idle" ELSE wstate[w]]
    /\ UNCHANGED holding

(* Mutant: the workers are told to stop and detached.                      *)
StopAllDetached ==
    /\ owner = "stop_all"
    /\ AskToStop({workers[i] : i \in DOMAIN workers})
    /\ workers' = <<>> /\ mutex' = "none"
    /\ running' = FALSE
    /\ owner' = "idle"
    /\ left' = [left EXCEPT !["owner"] = 0]
    /\ UNCHANGED <<should_stop, tasks, waits, watch, load, spc, ask>>

(* stop(true) stops the workers one by one; stop(false) tells them all and *)
(* leaves the joins to their destructors.                                  *)
StopAll ==
    /\ owner = "stop_all"
    /\ \/ /\ left["owner"] <= Len(workers)
          /\ IF waits
               THEN AskToStop({workers[left["owner"]]}) /\ owner' = "join_one"
               ELSE AskToStop({workers[i] : i \in DOMAIN workers})
                      /\ owner' = "join_all"
          /\ UNCHANGED <<flags, workers, mutex, left>>
       \/ /\ left["owner"] > Len(workers)
          /\ Destroy({workers[i] : i \in DOMAIN workers})
          /\ workers' = <<>> /\ mutex' = "none"
          /\ running' = FALSE
          /\ owner' = "idle"
          /\ left' = [left EXCEPT !["owner"] = 0]
          /\ UNCHANGED should_stop
    /\ UNCHANGED <<tasks, waits, watch, load, spc, ask>>

JoinOne ==
    /\ owner = "join_one"
    /\ wpc[workers[left["owner"]]] = "done"
    /\ left' = [left EXCEPT !["owner"] = @ + 1]
    /\ owner' = "stop_all"
    /\ UNCHANGED <<flags, workers, mutex, worker, tasks, waits, watch, load, spc, ask>>

JoinAll ==
    /\ owner = "join_all"
    /\ \A i \in DOMAIN workers : wpc[workers[i]] = "done"
    /\ left' = [left EXCEPT !["owner"] = Len(workers) + 1]
    /\ owner' = "stop_all"
    /\ UNCHANGED <<flags, workers, mutex, worker, tasks, waits, watch, load, spc, ask>>

-----------------------------------------------------------------------------
(* submit_uint: _running is looked at before the queue is.                 *)

Submit(u) ==
    /\ running /\ ustate[u] = "new"
    /\ ustate' = [ustate EXCEPT ![u] = "submitting"]
    /\ UNCHANGED <<flags, workers, mutex, worker, queue, owner, waits, watch, load, ops>>
Push(u) ==
    /\ ustate[u] = "submitting"
    /\ ustate' = [ustate EXCEPT ![u] = "queued"]
    /\ queue' = Append(queue, u)
    /\ UNCHANGED <<flags, workers, mutex, worker, owner, waits, watch, load, ops>>

-----------------------------------------------------------------------------
(* interior_run, get_next_task, execute_task                               *)

AtWorker(w, from, to) == wpc[w] = from /\ wpc' = [wpc EXCEPT ![w] = to]
OtherThanWorkers == <<flags, workers, mutex, owner, waits, watch, load, ops>>

CheckStop(w) ==
    /\ AtWorker(w, "loop", IF wstop[w] THEN "end" ELSE "fetch")
    /\ UNCHANGED <<wstop, wstate, holding, tasks, OtherThanWorkers>>

(* Mutants: the front is looked at and left; pop, which waits for a task.  *)
FetchWithoutPop(w) ==
    /\ \/ /\ queue # <<>>
          /\ AtWorker(w, "fetch", "execute")
          /\ holding' = [holding EXCEPT ![w] = Head(queue)]
          /\ ustate' = [ustate EXCEPT ![Head(queue)] = "held"]
       \/ queue = <<>> /\ AtWorker(w, "fetch", "loop") /\ UNCHANGED <<holding, ustate>>
    /\ UNCHANGED <<wstop, wstate, queue, OtherThanWorkers>>
FetchBlocking(w) ==
    /\ queue # <<>>
    /\ AtWorker(w, "fetch", "execute")
    /\ holding' = [holding EXCEPT ![w] = Head(queue)]
    /\ queue' = Tail(queue)
    /\ ustate' = [ustate EXCEPT ![Head(queue)] = "held"]
    /\ UNCHANGED <<wstop, wstate, OtherThanWorkers>>

(* try_pop_for: the front of the queue, or nothing when its time is over.  *)
Fetch(w) ==
    /\ \/ /\ queue # <<>>
          /\ AtWorker(w, "fetch", "execute")
          /\ holding' = [holding EXCEPT ![w] = Head(queue)]
          /\ queue' = Tail(queue)
          /\ ustate' = [ustate EXCEPT ![Head(queue)] = "held"]
       \/ queue = <<>> /\ AtWorker(w, "fetch", "loop") /\ UNCHANGED <<holding, tasks>>
    /\ UNCHANGED <<wstop, wstate, OtherThanWorkers>>

(* Mutant: a late task goes back into the queue.                           *)
ExecuteTaskUnlessLate(w) ==
    /\ \/ /\ "late" \in Outcomes /\ AtWorker(w, "execute", "loop")
          /\ ustate' = [ustate EXCEPT ![holding[w]] = "queued"]
          /\ queue' = Append(queue, holding[w])
       \/ /\ "returns" \in Outcomes /\ AtWorker(w, "execute", "loop")
          /\ ustate' = [ustate EXCEPT ![holding[w]] = "ended"]
          /\ UNCHANGED queue
       \/ /\ "throws" \in Outcomes /\ AtWorker(w, "execute", "throw")
          /\ ustate' = [ustate EXCEPT ![holding[w]] = "ended"]
          /\ UNCHANGED queue
    /\ holding' = [holding EXCEPT ![w] = "none"]
    /\ UNCHANGED <<wstop, wstate, OtherThanWorkers>>

(* A task that throws throws through execute_task: nobody has set          *)
(* _abnormal_callback.                                                     *)
ExecuteTask(w) ==
    /\ \/ Outcomes \cap {"returns", "late"} # {} /\ AtWorker(w, "execute", "loop")
       \/ "throws" \in Outcomes /\ AtWorker(w, "execute", "throw")
    /\ ustate' = [ustate EXCEPT ![holding[w]] = "ended"]
    /\ holding' = [holding EXCEPT ![w] = "none"]
    /\ UNCHANGED <<wstop, wstate, queue, OtherThanWorkers>>

(* The handler around the loop, and what follows the loop either way.      *)
Catch(w) ==
    /\ AtWorker(w, "throw", "end")
    /\ wstate' = [wstate EXCEPT ![w] = "error"]
    /\ UNCHANGED <<wstop, holding, tasks, OtherThanWorkers>>
EndThread(w) ==
    /\ AtWorker(w, "end", "done")
    /\ wstate' = [wstate EXCEPT ![w] = "stopped"]
    /\ UNCHANGED <<wstop, holding, tasks, OtherThanWorkers>>

-----------------------------------------------------------------------------
(* monitor_loop, update_metrics: three reads of a moving system            *)

OtherThanMonitor == <<flags, workers, mutex, worker, tasks, owner, waits, load, ops>>

MonitorLength ==
    /\ monitor = "loop"
    /\ \/ should_stop /\ monitor' = "done" /\ UNCHANGED metrics
       \/ /\ ~should_stop
          /\ monitor' = "active"
          /\ metrics' = [metrics EXCEPT !.len = Len(queue)]
    /\ UNCHANGED OtherThanMonitor
MonitorActive ==
    /\ monitor = "active" /\ mutex = "none"
    /\ monitor' = "total"
    /\ metrics' = [metrics EXCEPT !.active = Cardinality(Active)]
    /\ UNCHANGED OtherThanMonitor
MonitorTotal ==
    /\ monitor = "total" /\ mutex = "none"
    /\ monitor' = "loop"
    /\ metrics' = [metrics EXCEPT !.total = Len(workers)]
    /\ UNCHANGED OtherThanMonitor

-----------------------------------------------------------------------------
(* scaling_loop, evaluate_scaling                                          *)

At(s, from, to) == spc[s] = from /\ spc' = [spc EXCEPT ![s] = to]
OtherThanOps == <<flags, worker, tasks, owner, waits, watch>>

ScalingWait ==
    /\ At("auto", "wait", IF should_stop THEN "done" ELSE "evaluate")
    /\ UNCHANGED <<workers, mutex, load, ask, left, OtherThanOps>>

TotalThreads == IF metrics.total = 0 THEN 1 ELSE metrics.total
UpWindow(level)   == IF level = "high" THEN MinOf(windows.up + 1, 2) ELSE 0
DownWindow(level) == IF level = "low" THEN MinOf(windows.down + 1, 3) ELSE 0
CanScaleUp(level) == UpWindow(level) >= 2 /\ TotalThreads < MaxThreads
(* queue_util < 0.15, thread_util < 0.30 and no growth                     *)
CanScaleDown(level) ==
    /\ DownWindow(level) >= 3
    /\ TotalThreads > MinThreads
    /\ 100 * metrics.len < 15 * Capacity
    /\ 10 * metrics.active < 3 * TotalThreads
    /\ metrics.len <= last_len

(* The cool-down since the last operation is over, or not.                 *)
Evaluate(cool) ==
    /\ last_len' = metrics.len
    /\ \E level \in Levels :
        LET w == [up |-> UpWindow(level), down |-> DownWindow(level)]
        IN  \/ /\ cool /\ CanScaleUp(level)
               /\ At("auto", "evaluate", "read")
               /\ windows' = [w EXCEPT !.up = 0]
               /\ ask' = [ask EXCEPT !["auto"] = [up |-> TRUE, n |-> UpStep]]
            \/ /\ cool /\ ~CanScaleUp(level) /\ CanScaleDown(level)
               /\ At("auto", "evaluate", "read")
               /\ windows' = [w EXCEPT !.down = 0]
               /\ ask' = [ask EXCEPT !["auto"] = [up |-> FALSE, n |-> DownStep]]
            \/ /\ ~cool \/ (~CanScaleUp(level) /\ ~CanScaleDown(level))
               /\ At("auto", "evaluate", "wait")
               /\ windows' = w
               /\ UNCHANGED ask
    /\ UNCHANGED <<workers, mutex, left, OtherThanOps>>

-----------------------------------------------------------------------------
(* scale_up, scale_down and the manual operations                          *)

ManualScale(s) ==
    /\ At(s, "idle", "read")
    /\ \E a \in Asks : ask' = [ask EXCEPT ![s] = a]
    /\ UNCHANGED <<workers, mutex, left, load, OtherThanOps>>

Back(s) == IF s = "auto" THEN "wait" ELSE "idle"

(* Mutant: as many as asked.                                               *)
ReadCountUnclamped(s) ==
    /\ mutex = "none"
    /\ At(s, "read", "change")
    /\ left' = [left EXCEPT ![s] = ask[s].n]
    /\ UNCHANGED <<workers, mutex, ask, load, OtherThanOps>>

(* get_thread_count, and what is to be done after it: in std::size_t.      *)
ReadCount(s) ==
    LET room == IF ask[s].up THEN Minus(MaxThreads, Len(workers))
                             ELSE Minus(Len(workers), MinThreads)
        n == MinOf(ask[s].n, room)
    IN  /\ mutex = "none"
        /\ At(s, "read", IF n > 0 THEN "change" ELSE Back(s))
        /\ left' = [left EXCEPT ![s] = n]
        /\ UNCHANGED <<workers, mutex, ask, load, OtherThanOps>>

ScaleUp(s) ==
    /\ ask[s].up
    /\ At(s, "change", Back(s))
    /\ \E ok \in BOOLEAN : CreateWorkers(left[s], ok)
    /\ left' = [left EXCEPT ![s] = 0]
    /\ UNCHANGED <<flags, tasks, owner, waits, watch, load, ask>>

ScaleDown(s) ==
    /\ ~ask[s].up
    /\ mutex = "none"
    /\ At(s, "change", "remove")
    /\ mutex' = s
    /\ UNCHANGED <<workers, left, ask, load, OtherThanOps>>

(* The last worker is stopped, joined and removed, as often as asked.      *)
Remove(s) ==
    /\ spc[s] = "remove"
    /\ \/ /\ left[s] > 0 /\ workers # <<>>
          /\ AskToStop({workers[Len(workers)]})
          /\ At(s, "remove", "join")
          /\ UNCHANGED <<mutex, left>>
       \/ /\ left[s] = 0 \/ workers = <<>>
          /\ mutex' = "none"
          /\ left' = [left EXCEPT ![s] = 0]
          /\ At(s, "remove", Back(s))
          /\ UNCHANGED worker
    /\ UNCHANGED <<flags, workers, tasks, owner, waits, watch, load, ask>>
(* Mutant: the worker is detached.                                         *)
DetachRemoved(s) ==
    /\ spc[s] = "join"
    /\ At(s, "join", "remove")
    /\ workers' = SubSeq(workers, 1, Len(workers) - 1)
    /\ left' = [left EXCEPT ![s] = @ - 1]
    /\ UNCHANGED <<flags, mutex, worker, tasks, owner, waits, watch, load, ask>>

JoinRemoved(s) ==
    /\ spc[s] = "join"
    /\ wpc[workers[Len(workers)]] = "done"
    /\ At(s, "join", "remove")
    /\ Destroy({workers[Len(workers)]})
    /\ workers' = SubSeq(workers, 1, Len(workers) - 1)
    /\ left' = [left EXCEPT ![s] = @ - 1]
    /\ UNCHANGED <<flags, mutex, tasks, owner, waits, watch, load, ask>>

-----------------------------------------------------------------------------
Owning == JoinMonitor \/ StopAll \/ JoinOne \/ JoinAll
Working(w) ==
    CheckStop(w) \/ Fetch(w) \/ ExecuteTask(w) \/ Catch(w) \/ EndThread(w)
Monitoring == MonitorLength \/ MonitorActive \/ MonitorTotal
Scaling(s) == ReadCount(s) \/ ScaleUp(s) \/ ScaleDown(s) \/ Remove(s) \/ JoinRemoved(s)

Next ==
    \/ Start \/ Stop \/ JoinScaling \/ Owning
    \/ \E u \in Units : Submit(u) \/ Push(u)
    \/ \E w \in Workers : Working(w)
    \/ Monitoring
    \/ ScalingWait
    \/ \E cool \in BOOLEAN : Evaluate(cool)
    \/ \E s \in Scalers : ManualScale(s)
    \/ \E s \in ScalerThreads : Scaling(s)

Spec == Init /\ [][Next]_vars

(***************************************************************************)
(* Fairness.  Every thread that can run does; a thread that keeps asking   *)
(* for _workers_mutex gets it; a task ends; a wait of the scaling thread   *)
(* lasts a second at most, and a cool-down ends; a worker that keeps       *)
(* fetching meets the queue while it is not empty.                         *)
(***************************************************************************)
FairThreads ==
    /\ WF_vars(Owning) /\ SF_vars(JoinScaling)
    /\ \A u \in Units : WF_vars(Push(u))
    /\ \A w \in Workers : WF_vars(Working(w))
    /\ SF_vars(Monitoring)
    /\ WF_vars(ScalingWait)
    /\ WF_vars(\E cool \in BOOLEAN : Evaluate(cool)) /\ SF_vars(Evaluate(TRUE))
    /\ \A s \in ScalerThreads : SF_vars(Scaling(s))
FairSpec == Spec /\ FairThreads

-----------------------------------------------------------------------------
(* The number of workers stays between its bounds while the scheduler runs *)
(* and nobody but its own scaling thread scales: the metrics it decides by *)
(* are old, and the count is read again before the workers are changed.    *)
ScalingKeepsBounds ==
    running =>
        Len(workers) >= MinThreads /\ Len(workers) <= MaxThreads

(* A task is in one place: on its way, queued, with one worker, or ended.  *)
(* Stopping, removing and losing workers never loses or doubles it.        *)
TaskIsSomewhere ==
    \A u \in Units :
        /\ Cardinality({i \in DOMAIN queue : queue[i] = u})
             = IF ustate[u] = "queued" THEN 1 ELSE 0
        /\ Cardinality({w \in Workers : holding[w] = u})
             = IF ustate[u] = "held" THEN 1 ELSE 0

(* A worker that still runs can be reached: nothing is removed from        *)
(* _workers before its thread is over.                                     *)
NoOrphan == \A w \in Alive : InWorkers(w)

(* When stop has returned no worker is left, whatever was being scaled, if *)
(* nobody scales up by hand after it (scale_up adds workers to a stopped   *)
(* scheduler) and a start that fails fails at its first worker (start      *)
(* leaves the workers it had made).                                        *)
StopEndsWorkers == owner = "idle" /\ should_stop => Alive = {}

(* stop comes back: the joins it makes, and those of a scaling operation it*)
(* has to wait for, end.                                                   *)
StopReturns == owner # "idle" ~> owner = "idle"

(* A task in the queue ends while the scheduler runs, unless every worker  *)
(* has been lost.                                                          *)
QueuedTasksEnd ==
    \A u \in Units :
        ustate[u] = "queued" ~> ustate[u] = "ended" \/ ~running \/ Alive = {}
=============================================================================
