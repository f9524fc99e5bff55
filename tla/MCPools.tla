------------------------------- MODULE MCPools -------------------------------
(***************************************************************************)
(* The pool of Asio/model/sched and the one of Encapsulation: a behaviour  *)
(* takes one of them and leaves the other as it began.                     *)
(***************************************************************************)
EXTENDS MCThreadPool

VARIABLES
    part,
    tasks, tasksClosed, toggles, future,
    at, task, token, counted, home,
    slots, room, requested,
    execute, closure, scaler, scalings, holder,
    shutdown, dtor

encapsulated ==
    <<tasks, tasksClosed, toggles, future, at, task, token, counted, home, slots, room,
      requested, execute, closure, scaler, scalings, holder, shutdown, dtor>>

Encapsulated == INSTANCE EncapsulatedPool WITH
    Tasks <- {1}, Threads <- 1 .. 3, MinThreads <- 0, MaxThreads <- 1, CountMod <- 8,
    Added <- 1, Removed <- 2, MaxScalings <- 2, MaxToggles <- 1,
    queue <- tasks, closed <- tasksClosed, pc <- at

PoolsInit == part \in {"sched", "encapsulation"} /\ Init /\ Encapsulated!Init

SchedStep == part = "sched" /\ Next /\ UNCHANGED <<part, encapsulated>>
EncapsulatedStep ==
    part = "encapsulation" /\ Encapsulated!Next /\ UNCHANGED <<part, vars>>

(* Nothing is left to do.                                                  *)
AtRest ==
    /\ dtor = "over" \/ Encapsulated!Stuck
    /\ UNCHANGED <<part, vars, encapsulated>>

(* The fairness of either: at the beginning no thread of the first pool    *)
(* can run.                                                                *)
PoolsSpec ==
    /\ PoolsInit /\ [][SchedStep \/ EncapsulatedStep \/ AtRest]_<<part, vars, encapsulated>>
    /\ FairThreads
    /\ \A t \in 1 .. 3 : WF_encapsulated(part = "encapsulation" /\ Encapsulated!Working(t))
    /\ WF_encapsulated(part = "encapsulation" /\ Encapsulated!Monitoring)
    /\ WF_encapsulated(part = "encapsulation" /\ Encapsulated!Destroying)

(* Ending a pool returns and leaves nothing running: stop of the one,      *)
(* whatever the monitor, the waiters and the workers do, and the           *)
(* destructor of the other, unless a worker is being removed that waits.   *)
EndsReturn ==
    \/ part = "sched" /\ state = "stopping"
    \/ part = "encapsulation" /\ dtor = "joins monitor"
    ~>
    \/ part = "sched" /\ state # "stopping"
    \/ dtor = "over" /\ Encapsulated!Quiet
    \/ Encapsulated!Stuck
=============================================================================
