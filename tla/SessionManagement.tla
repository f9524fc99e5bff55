-------------------------- MODULE SessionManagement --------------------------
(***************************************************************************)
(* session_management (Asio/model/network/session/conversation.hpp): a map *)
(* of sessions behind a mutex, and a clean-up that a timer hands to a      *)
(* thread pool, or runs itself when there is none.  The clean-up collects  *)
(* under the shared lock and removes one session at a time under the       *)
(* unique one; start, stop and whoever adds or removes come in between.    *)
(*                                                                         *)
(* Of a session (module Session) the model has whether it is connected: it *)
(* ends when the peer leaves or close is called, and one that was added    *)
(* while it connects gets its connection, or not, at some time.            *)
(***************************************************************************)
EXTENDS Naturals, FiniteSets

CONSTANTS
    Managers,      \* threads that call start, stop and the rest
    Sessions,
    MaxTasks       \* bound: clean-up tasks that wait

VARIABLES
    running,       \* _running
    pooled,        \* _thread_pool_running
    timer,         \* _cleanup_timer
    tasks,         \* clean-ups handed to the thread pool
    map,           \* _sessions_map
    life,          \* of each session; "joined" is connected after it was added
    at,            \* where each thread is
    inactive       \* what each clean-up has collected

vars == <<running, pooled, timer, tasks, map, life, at, inactive>>

Threads == Managers \cup {"io", "worker"}

TypeOK ==
    /\ running \in BOOLEAN /\ pooled \in BOOLEAN
    /\ timer \in {"off", "armed", "due"} /\ tasks \in 0 .. MaxTasks
    /\ map \subseteq Sessions
    /\ life \in [Sessions -> {"new", "connecting", "joined", "connected", "closed"}]
    /\ at \in [Threads -> {"idle", "store", "pool", "arm", "cancel", "clear",
                           "look", "remove", "sweep"}]
    /\ inactive \in [Threads -> SUBSET Sessions]

(* The constructor makes and starts the thread pool, which may fail.       *)
Init ==
    /\ running = FALSE /\ pooled \in BOOLEAN
    /\ timer = "off" /\ tasks = 0
    /\ map = {}
    /\ life = [s \in Sessions |-> "new"]
    /\ at = [t \in Threads |-> "idle"]
    /\ inactive = [t \in Threads |-> {}]

Go(t, from, to) == at[t] = from /\ at' = [at EXCEPT ![t] = to]
Up(s) == life[s] \in {"joined", "connected"}
Ended(S) == life' = [s \in Sessions |-> IF s \in S THEN "closed" ELSE life[s]]

-----------------------------------------------------------------------------
Start(t) ==
    /\ ~running
    /\ Go(t, "idle", "store")
    /\ UNCHANGED <<running, pooled, timer, tasks, map, life, inactive>>

StartStore(t) ==
    /\ Go(t, "store", "pool")
    /\ running' = TRUE
    /\ UNCHANGED <<pooled, timer, tasks, map, life, inactive>>

(* A thread pool that did not start is tried again.                        *)
StartPool(t) ==
    /\ \/ pooled /\ Go(t, "pool", "arm") /\ UNCHANGED <<running, pooled>>
       \/ ~pooled /\ Go(t, "pool", "arm") /\ pooled' = TRUE /\ UNCHANGED running
       \/ ~pooled /\ Go(t, "pool", "idle") /\ running' = FALSE /\ UNCHANGED pooled
    /\ UNCHANGED <<timer, tasks, map, life, inactive>>

(* _start_cleanup_timer: a wait that was there is cancelled.               *)
StartCleanupTimer(t) ==
    /\ Go(t, "arm", "idle")
    /\ timer' = IF running THEN "armed" ELSE timer
    /\ UNCHANGED <<running, pooled, tasks, map, life, inactive>>

Stop(t) ==
    /\ Go(t, "idle", "cancel")
    /\ running' = FALSE
    /\ UNCHANGED <<pooled, timer, tasks, map, life, inactive>>

(* A callback that waits to be run is not called off.                      *)
StopCancel(t) ==
    /\ Go(t, "cancel", "clear")
    /\ timer' = IF timer = "armed" THEN "off" ELSE timer
    /\ UNCHANGED <<running, pooled, tasks, map, life, inactive>>

ForceCleanup(t) ==
    /\ Go(t, "clear", "idle") \/ (t \in Managers /\ Go(t, "idle", "idle"))
    /\ Ended(map) /\ map' = {}
    /\ UNCHANGED <<running, pooled, timer, tasks, inactive>>

-----------------------------------------------------------------------------
TimerExpires ==
    /\ timer = "armed" /\ timer' = "due"
    /\ UNCHANGED <<running, pooled, tasks, map, life, at, inactive>>

Callback ==
    /\ timer = "due" /\ timer' = "off"
    /\ \/ ~running /\ Go("io", "idle", "idle") /\ UNCHANGED tasks
       \/ running /\ pooled /\ tasks < MaxTasks /\ Go("io", "idle", "arm") /\ tasks' = tasks + 1
       \/ running /\ ~pooled /\ Go("io", "idle", "look") /\ UNCHANGED tasks
    /\ UNCHANGED <<running, pooled, map, life, inactive>>

(* A worker takes a clean-up from the queue of the pool.                   *)
TakeTask ==
    /\ tasks > 0 /\ tasks' = tasks - 1
    /\ Go("worker", "idle", "look")
    /\ UNCHANGED <<running, pooled, timer, map, life, inactive>>

Done(t) == IF t = "io" THEN "arm" ELSE "idle"

(* A clean-up collects those that are not connected, and those that were   *)
(* idle for long.  Whether the manager still runs is tested before, and    *)
(* after it: a stop in between is as good as one later.                    *)
Collect(t) ==
    /\ \/ ~running /\ Go(t, "look", Done(t)) /\ UNCHANGED inactive
       \/ /\ running /\ Go(t, "look", "remove")
          /\ \E idle \in SUBSET {s \in map : Up(s)} :
                inactive' = [inactive EXCEPT ![t] = idle \cup {s \in map : ~Up(s)}]
    /\ UNCHANGED <<running, pooled, timer, tasks, map, life>>

RemoveIfDisconnected(t, s) ==
    LET gone == IF s \in map /\ ~Up(s) THEN {s} ELSE {}
    IN  /\ (at[t] = "remove" /\ running) \/ at[t] = "sweep"
        /\ s \in inactive[t]
        /\ Ended(gone) /\ map' = map \ gone
        /\ inactive' = [inactive EXCEPT ![t] = @ \ {s}]
        /\ UNCHANGED <<running, pooled, timer, tasks, at>>

(* remove_disconnected_sessions is the clean-up by hand: it takes all that *)
(* are not connected, and goes on when the manager stops.                  *)
RemoveDisconnected(t) ==
    /\ Go(t, "idle", "sweep")
    /\ inactive' = [inactive EXCEPT ![t] = {s \in map : ~Up(s)}]
    /\ UNCHANGED <<running, pooled, timer, tasks, map, life>>

CleanupEnds(t) ==
    /\ \/ Go(t, "remove", Done(t)) /\ (~running \/ inactive[t] = {})
       \/ Go(t, "sweep", "idle") /\ inactive[t] = {}
    /\ inactive' = [inactive EXCEPT ![t] = {}]
    /\ UNCHANGED <<running, pooled, timer, tasks, map, life>>

-----------------------------------------------------------------------------
(* Sessions come and go whether the manager runs or not.                   *)
CreateSession(s) ==
    /\ life[s] = "new" /\ life' = [life EXCEPT ![s] = "connected"]
    /\ map' = map \cup {s}
    /\ UNCHANGED <<running, pooled, timer, tasks, at, inactive>>

AddSession(s) ==
    /\ s \notin map /\ map' = map \cup {s}
    /\ IF life[s] = "new" THEN life' = [life EXCEPT ![s] = "connecting"] ELSE UNCHANGED life
    /\ UNCHANGED <<running, pooled, timer, tasks, at, inactive>>

RemoveSession(s) ==
    /\ s \in map /\ map' = map \ {s}
    /\ Ended({s})
    /\ UNCHANGED <<running, pooled, timer, tasks, at, inactive>>

Connects(s) ==
    /\ life[s] = "connecting"
    /\ \E x \in {"joined", "closed"} : life' = [life EXCEPT ![s] = x]
    /\ UNCHANGED <<running, pooled, timer, tasks, map, at, inactive>>

Drops(s) ==
    /\ Up(s) /\ Ended({s})
    /\ UNCHANGED <<running, pooled, timer, tasks, map, at, inactive>>

-----------------------------------------------------------------------------
Cleans(t) == Collect(t) \/ CleanupEnds(t)
             \/ \E s \in Sessions : RemoveIfDisconnected(t, s)
GoesOn(t) == StartStore(t) \/ StartPool(t) \/ StartCleanupTimer(t) \/ StopCancel(t)
             \/ (at[t] = "clear" /\ ForceCleanup(t))

Next ==
    \/ \E t \in Managers : Start(t) \/ Stop(t) \/ ForceCleanup(t) \/ RemoveDisconnected(t)
    \/ \E t \in Threads : Cleans(t) \/ GoesOn(t)
    \/ TimerExpires \/ Callback \/ TakeTask
    \/ \E s \in Sessions : CreateSession(s) \/ AddSession(s) \/ RemoveSession(s)
                           \/ Connects(s) \/ Drops(s)

Spec == Init /\ [][Next]_vars

Fairness ==
    /\ \A t \in Threads : WF_vars(Cleans(t) \/ GoesOn(t))
    /\ WF_vars(TimerExpires) /\ WF_vars(Callback) /\ WF_vars(TakeTask)
FairSpec == Spec /\ Fairness
-----------------------------------------------------------------------------
(* A manager that goes on running gives up each session that has ended.    *)
Lingers(s) == running /\ s \in map
EndedAreRemoved ==
    \A s \in Sessions : (Lingers(s) /\ life[s] = "closed") ~> ~Lingers(s)

(* A session the manager made is not connected behind its back.            *)
ConnectedAreKnown == \A s \in Sessions : life[s] = "connected" => s \in map
=============================================================================
