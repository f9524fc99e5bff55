------------------------------ MODULE MCSession ------------------------------
(***************************************************************************)
(* One session, and the manager of sessions.  A behaviour takes one of the *)
(* two parts and leaves the other as it began; the fairness is that of the *)
(* part it takes.                                                          *)
(***************************************************************************)
EXTENDS Naturals, FiniteSets
CONSTANTS u1, m1, s1, s2

VARIABLES
    part,
    secure, state, opened, link, stage, by, called, reads, writes, data, failed,
    heartbeat, place, job, crossed,                                      \* Link
    running, pooled, timer, tasks, map, life, at, inactive         \* Manager

session == <<secure, state, opened, link, stage, by, called, reads, writes, data,
             failed, heartbeat, place, job, crossed>>
manager == <<running, pooled, timer, tasks, map, life, at, inactive>>

Link == INSTANCE Session WITH
    Users <- {u1}, Connects <- {1}, MaxOps <- 1, timer <- heartbeat, at <- place
Manager == INSTANCE SessionManagement WITH
    Managers <- {m1}, Sessions <- {s1, s2}, MaxTasks <- 1

(* A plain session that is still to connect, or a TLS session around a     *)
(* socket that was accepted; either can become all the others.             *)
Init ==
    /\ part \in {"session", "manager"}
    /\ Link!Init /\ secure = opened /\ (part # "session" => ~secure)
    /\ Manager!Init /\ (part # "manager" => pooled)

InSession(A) == part = "session" /\ A /\ UNCHANGED <<part, manager>>
InManager(A) == part = "manager" /\ A /\ UNCHANGED <<part, session>>

SessionStep == InSession(Link!Next)
ManagerStep == InManager(Manager!Next)
Next == SessionStep \/ ManagerStep

all == <<part, session, manager>>
Spec == Init /\ [][Next]_all

(* A thread goes on, but for a write, which has no deadline and waits for  *)
(* the peer to read; connecting ends, and the io_context runs what is      *)
(* ready, however much else is; the manager's timer expires and a worker   *)
(* of its pool takes a clean-up that waits.                                *)
Fairness ==
    /\ \A t \in {u1, "io"} : WF_all(InSession(Link!Step(Link!ByItself(t))))
    /\ SF_all(InSession(Link!Step(Link!Completes(1))))
    /\ WF_all(InSession(Link!Step(Link!ReadEnds)))
    /\ SF_all(InSession(Link!Step(Link!HandleError)))
    /\ SF_all(InSession(Link!Step(Link!HandleRead)))
    /\ \A t \in {m1, "io", "worker"} :
          WF_all(InManager(Manager!Cleans(t) \/ Manager!GoesOn(t)))
    /\ WF_all(InManager(Manager!TimerExpires)) /\ WF_all(InManager(Manager!Callback))
    /\ WF_all(InManager(Manager!TakeTask))

FairSpec == Spec /\ Fairness

-----------------------------------------------------------------------------
(* A session or a connection that has died, and one that is still kept: of *)
(* the part that the behaviour takes.                                      *)
Dying(s) ==
    \/ part = "session" /\ Link!Ended /\ reads + failed > 0
    \/ part = "manager" /\ Manager!Lingers(s) /\ life[s] = "closed"
Kept(s) ==
    \/ part = "session" /\ Link!Ended
    \/ part = "manager" /\ Manager!Lingers(s)

(* What has died is given up: the connection of a session that reads or    *)
(* has to report an error (_handle_error, close), and each session that    *)
(* ended, by a manager that goes on running (_cleanup_inactive_sessions).  *)
DeadAreForgotten == \A s \in {s1, s2} : Dying(s) ~> ~Kept(s)

(* Every connect ends and reports its outcome, once, and no session stays  *)
(* between CONNECTED and DISCONNECTED (async_connect, _handle_error,       *)
(* close).                                                                 *)
SessionSettles == Link!ComesToRest
=============================================================================
