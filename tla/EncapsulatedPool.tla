--------------------------- MODULE EncapsulatedPool ---------------------------
(***************************************************************************)
(* con::thread_pool of Encapsulation/Thread_pool.hpp: workers that fetch   *)
(* tasks from a closable queue, a monitor that adds and removes workers, a *)
(* thread that does so by hand, and the destructor.  The queue is used by  *)
(* what it promises (ClosableQueue): a push goes on when there is room or  *)
(* the queue is closed, a pop when there is a task or it is closed.        *)
(*                                                                         *)
(* _workers_thread begins with MaxThreads empty records; a worker keeps    *)
(* the address of its record, home, which stops being its record as soon   *)
(* as one before it is erased, and is freed memory when the vector grows.  *)
(* What is read there then is a token nobody requests.                     *)
(***************************************************************************)
EXTENDS Naturals, Sequences, FiniteSets, SequencesExt

CONSTANTS
    Tasks,         \* submitted in this order
    Threads,       \* as many workers as can ever be made
    MinThreads, MaxThreads,  \* _min_threads, _max_threads
    CountMod,      \* 2^64
    Added, Removed,  \* how many workers are added and removed by hand
    MaxScalings,   \* by the monitor and by hand together
    MaxToggles     \* how often the queue is closed and opened by hand

None == 0
Free == "free"
Capacity == 2 * MaxThreads     \* of the queue

VARIABLES
    queue, closed, toggles,  \* _tasks
    future,          \* of each task: "none", "pushed", "open", "value", "broken"
    pc, task, token, \* of each worker: where it is, what it runs, its stop token
    counted,         \* as what a worker counts itself: "idle" or "busy"
    home,            \* which record it writes to, 0: none
    slots, room,     \* _workers_thread: for each record its thread; its capacity
    requested,       \* whose stop was requested
    execute, closure,  \* _execute_threads, _closure_threads
    scaler,          \* for "monitor" and "hand" where it is in a change
    scalings,
    holder,          \* of _mutex, when held for longer than a step
    shutdown, dtor   \* _shutdown; where the destructor is

tasksVars == <<queue, closed, toggles, future>>
workerVars == <<pc, task, token, counted, home>>
recordVars == <<slots, room, requested>>
counters == <<execute, closure>>
scalerVars == <<scaler, scalings, holder>>
ending == <<shutdown, dtor>>
vars == <<tasksVars, workerVars, recordVars, counters, scalerVars, ending>>

Plus(a, b) == (a + b) % CountMod
Minus(a, b) == (a + CountMod - b) % CountMod

Resting(where) == [at |-> where, n |-> 0, next |-> 1, removed |-> 0, current |-> 0, joins |-> None]
Scalers == {"monitor", "hand"}

(* The constructor, with one worker to begin with.                         *)
Init == LET t == CHOOSE x \in Threads : \A y \in Threads : x <= y IN
    /\ queue = <<>> /\ closed = FALSE /\ toggles = 0
    /\ future = [u \in Tasks |-> "none"]
    /\ pc = [x \in Threads |-> IF x = t THEN "starts" ELSE "none"]
    /\ task = [x \in Threads |-> None] /\ token = [x \in Threads |-> None]
    /\ counted = [x \in Threads |-> "idle"]
    /\ home = [x \in Threads |-> IF x = t THEN MaxThreads + 1 ELSE 0]
    /\ slots = [i \in 1 .. MaxThreads |-> None] \o <<t>> /\ room = 2 * MaxThreads
    /\ requested = {} /\ execute = 0 /\ closure = 1
    /\ scaler = [s \in Scalers |-> Resting(IF s = "hand" THEN "idle" ELSE "tests")]
    /\ scalings = 0 /\ holder = Free
    /\ shutdown = FALSE /\ dtor = "not called"

-----------------------------------------------------------------------------
(* What the users of the pool call.                                        *)

Goes(t, to) == [pc EXCEPT ![t] = to]
Answer(us, what) == future' = [u \in Tasks |-> IF u \in us THEN what ELSE future[u]]

NextTask == {u \in Tasks : future[u] = "none" /\ \A v \in Tasks : future[v] = "none" => u <= v}
Pushed == {u \in Tasks : future[u] = "pushed"}

(* submit waits in push until there is room; a queue that is closed breaks *)
(* the future, which submit returns all the same.                          *)
Submit ==
    /\ dtor = "not called" /\ Pushed = {}
    /\ NextTask # {} /\ Answer(NextTask, "pushed")
    /\ UNCHANGED <<queue, closed, toggles, workerVars, recordVars, counters, scalerVars, ending>>
EndSubmit == \E u \in Pushed :
    /\ \/ ~closed /\ Len(queue) < Capacity
          /\ queue' = Append(queue, u) /\ Answer({u}, "open")
       \/ closed /\ Answer({u}, "broken") /\ UNCHANGED queue
    /\ UNCHANGED <<closed, toggles, workerVars, recordVars, counters, scalerVars, ending>>

(* close_task_queue, enable_task_queue, clear_task_queue                   *)
Toggle ==
    /\ dtor = "not called" /\ toggles < MaxToggles
    /\ closed' = ~closed /\ toggles' = toggles + 1
    /\ UNCHANGED <<queue, future, workerVars, recordVars, counters, scalerVars, ending>>
Clear ==
    /\ dtor = "not called" /\ queue # <<>>
    /\ queue' = <<>> /\ Answer(Range(queue), "broken")
    /\ UNCHANGED <<closed, toggles, workerVars, recordVars, counters, scalerVars, ending>>

-----------------------------------------------------------------------------
(* thread_task                                                             *)

(* The token is taken from where the record was when the thread was made.  *)
Start(t) ==
    /\ pc[t] = "starts"
    /\ token' = [token EXCEPT ![t] =
            IF home[t] \in DOMAIN slots THEN slots[home[t]] ELSE None]
    /\ pc' = Goes(t, "loops")
    /\ UNCHANGED <<tasksVars, task, counted, home, recordVars, counters, scalerVars, ending>>

Stopped(t) == token[t] # None /\ token[t] \in requested

Loop(t) ==
    /\ pc[t] = "loops" /\ ~Stopped(t) /\ ~shutdown
    /\ pc' = Goes(t, "pops")
    /\ UNCHANGED <<tasksVars, task, token, counted, home, recordVars, counters, scalerVars, ending>>
End(t) ==
    /\ pc[t] = "loops" /\ (Stopped(t) \/ shutdown)
    /\ pc' = Goes(t, "ended")
    /\ IF counted[t] = "idle" THEN closure' = Minus(closure, 1) /\ UNCHANGED execute
       ELSE execute' = Minus(execute, 1) /\ UNCHANGED closure
    /\ UNCHANGED <<tasksVars, task, token, counted, home, recordVars, scalerVars, ending>>

(* A worker that has fetched a task counts as busy until it finds the      *)
(* queue closed and empty.                                                 *)
Fetch(t) ==
    /\ pc[t] = "pops" /\ queue # <<>>
    /\ queue' = Tail(queue) /\ task' = [task EXCEPT ![t] = Head(queue)]
    /\ pc' = Goes(t, "runs") /\ counted' = [counted EXCEPT ![t] = "busy"]
    /\ IF counted[t] = "idle" THEN closure' = Minus(closure, 1) /\ execute' = Plus(execute, 1)
       ELSE UNCHANGED counters
    /\ UNCHANGED <<closed, toggles, future, token, home, recordVars, scalerVars, ending>>
RunEnds(t) ==
    /\ pc[t] = "runs" /\ pc' = Goes(t, "loops")
    /\ Answer({task[t]}, "value") /\ task' = [task EXCEPT ![t] = None]
    /\ UNCHANGED <<queue, closed, toggles, token, counted, home, recordVars, counters, scalerVars, ending>>

FindNothing(t) ==
    /\ pc[t] = "pops" /\ queue = <<>> /\ closed
    /\ pc' = Goes(t, "locks") /\ counted' = [counted EXCEPT ![t] = "idle"]
    /\ IF counted[t] = "busy" THEN execute' = Minus(execute, 1) /\ closure' = Plus(closure, 1)
       ELSE UNCHANGED counters
    /\ UNCHANGED <<tasksVars, task, token, home, recordVars, scalerVars, ending>>

(* The timed wait takes _mutex to begin and to end.                        *)
Wait(t) ==
    /\ pc[t] \in {"locks", "waits"} /\ holder = Free
    /\ pc' = Goes(t, IF pc[t] = "waits" \/ Stopped(t) \/ queue # <<>> \/ shutdown
                     THEN "loops" ELSE "waits")
    /\ UNCHANGED <<tasksVars, task, token, counted, home, recordVars, counters, scalerVars, ending>>

Working(t) ==
    Start(t) \/ Loop(t) \/ End(t) \/ Fetch(t) \/ RunEnds(t) \/ FindNothing(t) \/ Wait(t)

-----------------------------------------------------------------------------
(* Adding and removing workers.                                            *)

Now(s, what) == scaler' = [scaler EXCEPT ![s] = what]
Rests(s) == Resting(IF s = "hand" THEN "idle" ELSE "tests")

(* Whether there are threads left for n more workers.                      *)
Expanding == {s \in Scalers : scaler[s].at = "expands"}
CanMake(n) == n + MapThenSumSet(LAMBDA s : scaler[s].n, Expanding)
                <= Cardinality({t \in Threads : pc[t] = "none"})

(* increase_threads, decrease_threads                                      *)
ByHand(what) ==
    /\ scaler["hand"].at = "idle" /\ dtor = "not called" /\ scalings < MaxScalings
    /\ what = "expands" => CanMake(Added)
    /\ Now("hand", [Resting(what) EXCEPT !.n = IF what = "expands" THEN Added ELSE Removed])
    /\ scalings' = scalings + 1
    /\ UNCHANGED <<tasksVars, workerVars, recordVars, counters, holder, ending>>

MonitorTest ==
    /\ scaler["monitor"].at = "tests"
    /\ Now("monitor", Resting(IF shutdown THEN "ended" ELSE "sleeps"))
    /\ UNCHANGED <<tasksVars, workerVars, recordVars, counters, scalings, holder, ending>>

Lower(a, b) == IF a < b THEN a ELSE b
Total == Plus(execute, closure)

(* What the monitor makes of the counters; after MaxScalings, or without a *)
(* thread left, it sleeps until there is nothing to do or the pool shuts   *)
(* down.                                                                   *)
MonitorDecides ==
    LET waiting == Len(queue)
        grows == waiting > (2 * execute) % CountMod /\ Total < MaxThreads
        shrinks == ~grows /\ waiting < execute /\ Total > MinThreads
        may(w) == scalings < MaxScalings /\ (w.at = "expands" => CanMake(w.n))
        what == IF grows THEN [Resting("expands") EXCEPT !.n = Lower((waiting + 1) \div 2, MaxThreads - Total)]
                ELSE IF shrinks THEN [Resting("shrinks") EXCEPT !.n = Lower(Total - MinThreads, closure)]
                ELSE Resting("tests")
    IN  /\ scaler["monitor"].at = "sleeps"
        /\ \/ what.n > 0 /\ may(what) /\ Now("monitor", what) /\ scalings' = scalings + 1
           \/ what.n = 0 /\ Now("monitor", Resting("tests")) /\ UNCHANGED scalings
           \/ shutdown /\ ~may(what) /\ Now("monitor", Resting("tests")) /\ UNCHANGED scalings
        /\ UNCHANGED <<tasksVars, workerVars, recordVars, counters, holder, ending>>

(* expand_capacity holds _mutex and adds one record and one thread at a    *)
(* time, which start at once; the vector moves when it is full.            *)
Expand(s) ==
    /\ scaler[s].at = "expands" /\ holder \in {Free, s}
    /\ \E t \in Threads :
        /\ pc[t] = "none" /\ \A x \in Threads : pc[x] = "none" => t <= x
        /\ slots' = Append(slots, t)
        /\ room' = IF Len(slots) = room THEN 2 * room ELSE room
        /\ home' = [x \in Threads |-> CASE x = t -> Len(slots) + 1
                                        [] x # t /\ Len(slots) = room -> 0
                                        [] OTHER -> home[x]]
        /\ pc' = Goes(t, "starts")
    /\ closure' = Plus(closure, 1)
    /\ Now(s, IF scaler[s].n = 1 THEN Rests(s) ELSE [scaler[s] EXCEPT !.n = @ - 1])
    /\ holder' = IF scaler[s].n = 1 THEN Free ELSE s
    /\ UNCHANGED <<tasksVars, task, token, counted, requested, execute, scalings, ending>>

(* shrink_capacity                                                         *)
BeginShrink(s) ==
    /\ scaler[s].at = "shrinks"
    /\ \/ shutdown /\ Now(s, Rests(s)) /\ UNCHANGED holder
       \/ ~shutdown /\ holder = Free /\ holder' = s
          /\ Now(s, [scaler[s] EXCEPT !.at = "scans", !.current = Total])
    /\ UNCHANGED <<tasksVars, workerVars, recordVars, counters, scalings, ending>>

(* From the next record on, the first that has been idle for long enough:  *)
(* an empty one always has.                                                *)
Candidates(s) == {i \in scaler[s].next .. Len(slots) :
    /\ scaler[s].removed < scaler[s].n /\ scaler[s].current > MinThreads
    /\ \A j \in scaler[s].next .. i - 1 : slots[j] # None}

After(s, i) == [scaler[s] EXCEPT !.at = "scans", !.next = i, !.removed = @ + 1,
                                 !.current = Minus(@, 1), !.joins = None]
Found(s) == \E i \in Candidates(s) :
    /\ scaler[s].at = "scans"
    /\ \/ /\ slots[i] = None
          /\ slots' = RemoveAt(slots, i)
          /\ closure' = Minus(closure, 1)
          /\ Now(s, After(s, i))
          /\ UNCHANGED requested
       \/ /\ slots[i] # None
          /\ requested' = requested \cup {slots[i]}
          /\ Now(s, [scaler[s] EXCEPT !.at = "joins", !.next = i, !.joins = slots[i]])
          /\ UNCHANGED <<slots, closure>>
    /\ UNCHANGED <<tasksVars, workerVars, room, execute, scalings, holder, ending>>

Joined(s) ==
    LET t == scaler[s].joins
    IN  /\ scaler[s].at = "joins" /\ pc[t] = "ended"
        /\ pc' = Goes(t, "gone") /\ home' = [home EXCEPT ![t] = 0]
        /\ slots' = RemoveAt(slots, scaler[s].next)
        /\ closure' = Minus(closure, 1)
        /\ Now(s, After(s, scaler[s].next))
        /\ UNCHANGED <<tasksVars, task, token, counted, room, requested, execute, scalings,
                       holder, ending>>

(* No record is left that must be taken; those of workers may be too fresh.*)
EndShrink(s) ==
    /\ scaler[s].at = "scans"
    /\ \A i \in Candidates(s) : slots[i] # None
    /\ holder' = Free /\ Now(s, Rests(s))
    /\ UNCHANGED <<tasksVars, workerVars, recordVars, counters, scalings, ending>>

Scaling(s) == Expand(s) \/ BeginShrink(s) \/ Found(s) \/ Joined(s) \/ EndShrink(s)
Monitoring == MonitorTest \/ MonitorDecides \/ Scaling("monitor")

-----------------------------------------------------------------------------
(* ~thread_pool, when no call is under way.                                *)

Destroy ==
    /\ dtor = "not called" /\ dtor' = "joins monitor" /\ shutdown' = TRUE
    /\ scaler["hand"].at = "idle" /\ Pushed = {}
    /\ UNCHANGED <<tasksVars, workerVars, recordVars, counters, scalerVars>>

(* Mutant: the workers are joined while the queue is open. *)
CloseQueueNot ==
    /\ dtor = "joins monitor" /\ scaler["monitor"].at = "ended" /\ dtor' = "collects"
    /\ UNCHANGED <<tasksVars, workerVars, recordVars, counters, scalerVars, shutdown>>

CloseQueue ==
    /\ dtor = "joins monitor" /\ scaler["monitor"].at = "ended" /\ dtor' = "collects"
    /\ closed' = TRUE
    /\ UNCHANGED <<queue, toggles, future, workerVars, recordVars, counters, scalerVars, shutdown>>

Collect ==
    /\ dtor = "collects" /\ dtor' = "joins workers" /\ holder = Free
    /\ requested' = requested \cup (Range(slots) \ {None})
    /\ UNCHANGED <<tasksVars, workerVars, slots, room, counters, scalerVars, shutdown>>

(* All are joined; the tasks that are still queued go with the queue.      *)
EndDestroy ==
    /\ dtor = "joins workers" /\ dtor' = "over"
    /\ \A t \in Range(slots) \ {None} : pc[t] = "ended"
    /\ slots' = <<>> /\ queue' = <<>> /\ Answer(Range(queue), "broken")
    /\ UNCHANGED <<closed, toggles, workerVars, room, requested, counters, scalerVars,
                   shutdown>>

Destroying == CloseQueue \/ Collect \/ EndDestroy

Next ==
    \/ Submit \/ EndSubmit \/ Toggle \/ Clear
    \/ \E t \in Threads : Working(t)
    \/ \E what \in {"expands", "shrinks"} : ByHand(what)
    \/ Monitoring \/ Scaling("hand")
    \/ Destroy \/ Destroying

Spec == Init /\ [][Next]_vars

(* Every thread that can run does.                                         *)
FairSpec ==
    /\ Spec
    /\ \A t \in Threads : WF_vars(Working(t))
    /\ WF_vars(Monitoring) /\ WF_vars(Destroying)

-----------------------------------------------------------------------------
(* The destructor comes to its end, unless a worker is being removed that  *)
(* waits for a task or for the mutex of whoever removes it.  It leaves no  *)
(* worker behind, and every future the pool gave out has an answer, though *)
(* records of workers move and workers may hold the token of another.      *)
Stuck == \E s \in Scalers :
    scaler[s].at = "joins" /\ pc[scaler[s].joins] \in {"pops", "locks", "waits"}
Quiet ==
    /\ \A t \in Threads : pc[t] \in {"none", "ended", "gone"}
    /\ \A u \in Tasks : future[u] \notin {"pushed", "open"}
DestructorReturns == dtor = "joins monitor" ~> (dtor = "over" /\ Quiet) \/ Stuck
=============================================================================
