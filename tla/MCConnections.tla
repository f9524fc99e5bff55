---------------------------- MODULE MCConnections ----------------------------
(***************************************************************************)
(* Small sets of threads, sessions and pool objects around a connection    *)
(* pool; or one session that is connected, closed and connected again      *)
(* while operations of before are on their way; or a manager of sessions.  *)
(* A behaviour takes one of the three parts and leaves the others as they  *)
(* began.                                                                  *)
(***************************************************************************)
EXTENDS ConnectionPool, TLC
CONSTANTS
    b1, b2, m1, s1, s2, p1, c1, c2,
    u1,            \* the thread that calls the session
    Calls,         \* that connect it, adopt a socket or shake hands
    MaxOps,        \* bound: its reads, or writes, at a time
    MaxTasks       \* bound: clean-ups of the manager that wait
ASSUME CallerAssumption == u1 # "io"
Symmetry ==
    Permutations(Borrowers) \cup Permutations(Sessions) \cup Permutations(Calls)

VARIABLES
    part,
    secure, state, opened, link, stage, by, called, reads, writes, data, failed,
    heartbeat, place, job, crossed,                                      \* Link
    keeps, pooled, cleanup, tasks, known, life, where, inactive            \* Manager

session == <<secure, state, opened, link, stage, by, called, reads, writes, data,
             failed, heartbeat, place, job, crossed>>
manager == <<keeps, pooled, cleanup, tasks, known, life, where, inactive>>

Link == INSTANCE Session WITH
    Users <- {u1}, Connects <- Calls, timer <- heartbeat, at <- place
Manager == INSTANCE SessionManagement WITH
    running <- keeps, timer <- cleanup, map <- known, at <- where

(* A plain session, still to connect or around a socket that was accepted. *)
MCInit ==
    /\ part \in {"pool", "session", "manager"}
    /\ Init /\ (part # "pool" => named)
    /\ Link!Init /\ ~secure /\ (part # "session" => ~opened)
    /\ Manager!Init /\ (part # "manager" => pooled)

PoolStep == part = "pool" /\ Next /\ UNCHANGED <<part, session, manager>>
SessionStep == part = "session" /\ Link!Next /\ UNCHANGED <<part, vars, manager>>
ManagerStep == part = "manager" /\ Manager!Next /\ UNCHANGED <<part, vars, session>>

(* Every connect was used and nobody is inside the session.                *)
all == <<part, vars, session, manager>>
SessionRests == part = "session" /\ Link!Quiet /\ UNCHANGED all

MCSpec == MCInit /\ [][PoolStep \/ SessionStep \/ ManagerStep \/ SessionRests]_all

-----------------------------------------------------------------------------
(* A plain session at rest and DISCONNECTED has no connection, unless a    *)
(* close and a connect overlapped (close, adopt_socket, async_connect);    *)
(* and no session that create_session made is connected behind the         *)
(* manager's back (remove_session, force_cleanup).                         *)
ClosedIsQuiet == Link!ClosedIsClosed /\ Manager!ConnectedAreKnown
=============================================================================
