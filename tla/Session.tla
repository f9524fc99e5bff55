------------------------------- MODULE Session -------------------------------
(***************************************************************************)
(* session (Asio/model/network/session/fundamental.hpp): one connection,   *)
(* plain or under TLS, as client threads and the thread of the io_context  *)
(* see it.  A step ends where _state is read or written, where the socket  *)
(* is opened or closed, or where an operation is handed to the network.    *)
(*                                                                         *)
(* Each call of async_connect, connect or adopt_socket, and each handshake *)
(* of start, is a member of Connects with a stage of its own: close        *)
(* followed by a new call leaves the old operation on its way.  Completion *)
(* handlers run on "io"; a blocking connect waits on its caller's thread.  *)
(* What is read and written is left out, and whether a connection was idle *)
(* is a choice.                                                            *)
(***************************************************************************)
EXTENDS Naturals, FiniteSets

CONSTANTS
    Users,        \* threads that call the session
    Connects,     \* calls that connect, adopt a socket or begin a handshake
    MaxOps        \* bound: reads, or writes, at a time

VARIABLES
    secure,       \* _config._enable_ssl
    state,        \* _state
    opened,       \* the socket is open
    link,         \* what it is connected to: nothing, a peer, a peer that left
    stage,        \* of each connect
    by,           \* the thread that runs the connect's completions
    called,       \* how often a connect has reported its outcome
    reads, writes,\* operations on the socket
    data, failed, \* completions that wait for "io": bytes read; errors
    timer,        \* the heartbeat
    at, job,      \* where each thread is, and the connect it works for
    crossed       \* of a plain session: a close and a connect were under way at once

vars == <<secure, state, opened, link, stage, by, called, reads, writes, data,
          failed, timer, at, job, crossed>>
socket  == <<opened, link>>
dials   == <<stage, by, called>>
traffic == <<reads, writes, data, failed>>

Threads == Users \cup {"io"}
None == 0
Stages == {"unused", "starting", "resolve", "resolved", "dial", "dialled",
           "refused", "shake", "shaken", "greet", "greeted", "done"}
Locations == {"idle", "set_connecting", "begin", "blocked", "read_and_watch",
              "read", "watch", "set_error", "close", "set_closing", "close_socket",
              "set_closed", "adopt", "set_connected", "write"}

TypeOK ==
    /\ secure \in BOOLEAN /\ opened \in BOOLEAN /\ crossed \in BOOLEAN
    /\ state \in {"DISCONNECTED", "CONNECTING", "CONNECTED", "DISCONNECTING", "ERROR_STATE"}
    /\ link \in {"none", "live", "dead"}
    /\ stage \in [Connects -> Stages] /\ by \in [Connects -> Threads]
    /\ called \in [Connects -> 0 .. 1]
    /\ \A n \in {reads, writes, data, failed} : n \in Nat
    /\ timer \in {"off", "armed", "due"}
    /\ at \in [Threads -> Locations] /\ job \in [Threads -> Connects \cup {None}]

(* The constructors: a session to connect, or one around an accepted socket*)
Init ==
    /\ secure \in BOOLEAN
    /\ \/ state = "DISCONNECTED" /\ opened = FALSE /\ link = "none"
       \/ state = "CONNECTED" /\ opened = TRUE /\ link = "live"
    /\ stage = [c \in Connects |-> "unused"] /\ by = [c \in Connects |-> "io"]
    /\ called = [c \in Connects |-> 0]
    /\ reads = 0 /\ writes = 0 /\ data = 0 /\ failed = 0
    /\ timer = "off"
    /\ at = [t \in Threads |-> "idle"] /\ job = [t \in Threads |-> None]
    /\ crossed = FALSE

Go(t, from, to) == at[t] = from /\ at' = [at EXCEPT ![t] = to]
Closed == state \in {"DISCONNECTED", "DISCONNECTING"}
UnderWay(c) == stage[c] \notin {"unused", "done"}
Report(t, c) ==
    /\ called' = [called EXCEPT ![c] = @ + 1]
    /\ stage' = [stage EXCEPT ![c] = "done"]
    /\ by' = [by EXCEPT ![c] = "io"]
    /\ job' = [job EXCEPT ![t] = None]

(* Closing the socket ends all that is on its way with an error.           *)
Aborted ==
    /\ link' = "none" /\ reads' = 0 /\ writes' = 0
    /\ failed' = failed + reads + writes
Cut(c) == IF stage[c] \in {"dial", "shake", "greet"} THEN "refused" ELSE stage[c]

-----------------------------------------------------------------------------
(* async_connect, connect *)

(* A call on a session that is not disconnected is answered at once.       *)
AlreadyConnected(t, c) ==
    /\ at[t] = "idle" /\ stage[c] = "unused" /\ state # "DISCONNECTED"
    /\ Report(t, c)
    /\ UNCHANGED <<secure, state, socket, traffic, timer, at>>

Call(t, c) ==
    /\ stage[c] = "unused" /\ state = "DISCONNECTED"
    /\ Go(t, "idle", "set_connecting")
    /\ job' = [job EXCEPT ![t] = c]
    /\ stage' = [stage EXCEPT ![c] = "starting"]
    /\ by' \in {[by EXCEPT ![c] = x] : x \in {t, "io"}}
    /\ UNCHANGED <<secure, state, socket, called, traffic, timer>>

SetConnecting(t) ==
    /\ Go(t, "set_connecting", "begin")
    /\ state' = "CONNECTING"
    /\ UNCHANGED <<secure, socket, dials, traffic, timer, job>>

(* connect goes on on its caller's thread, async_connect returns.          *)
HandOver(t) ==
    /\ at[t] = "begin"
    /\ IF by[job[t]] = t THEN Go(t, "begin", "blocked") /\ UNCHANGED job
       ELSE Go(t, "begin", "idle") /\ job' = [job EXCEPT ![t] = None]

BeginResolve(t) ==
    /\ HandOver(t)
    /\ stage' = [stage EXCEPT ![job[t]] = "resolve"]
    /\ UNCHANGED <<secure, state, socket, by, called, traffic, timer>>

(* A literal address is dialled on the socket as it is, which fails on one *)
(* that is in use.                                                         *)
InUse == link # "none" \/ \E c \in Connects : stage[c] = "dial"
BeginDial(t) ==
    /\ HandOver(t)
    /\ stage' = [stage EXCEPT ![job[t]] = IF InUse THEN "refused" ELSE "dial"]
    /\ opened' = TRUE
    /\ UNCHANGED <<secure, state, link, by, called, traffic, timer>>

(* The resolver is a local variable: its end cancels what has not begun.   *)
Resolved(c) ==
    /\ stage[c] = "resolve"
    /\ \E s \in {"resolved", "refused"} : stage' = [stage EXCEPT ![c] = s]
    /\ UNCHANGED <<secure, state, socket, by, called, traffic, timer, at, job>>

(* The thread t that runs the completions of c is free to.                 *)
Runs(t, c) ==
    /\ by[c] = t
    /\ IF t = "io" THEN at[t] = "idle" ELSE at[t] = "blocked" /\ job[t] = c

(* asio::async_connect and asio::connect close the socket, then dial.      *)
HandleResolved(t, c) ==
    /\ Runs(t, c) /\ stage[c] = "resolved"
    /\ opened' = TRUE /\ Aborted
    /\ stage' = [[x \in Connects |-> Cut(x)] EXCEPT ![c] = "dial"]
    /\ UNCHANGED <<secure, state, by, called, data, timer, at, job>>

DialEnds(c) ==
    /\ stage[c] = "dial"
    /\ \/ stage' = [stage EXCEPT ![c] = "dialled"] /\ link' = "live"
       \/ stage' = [stage EXCEPT ![c] = "refused"] /\ UNCHANGED link
    /\ UNCHANGED <<secure, state, opened, by, called, traffic, timer, at, job>>

(* Mutant: the caller is told, the state is forgotten.                     *)
HandleRefusedOnly(t, c) ==
    /\ Runs(t, c) /\ stage[c] = "refused"
    /\ Report(t, c)
    /\ at' = [at EXCEPT ![t] = "idle"]
    /\ UNCHANGED <<secure, state, socket, traffic, timer>>

(* No address, no connection, or no handshake: the socket stays as it is.  *)
HandleRefused(t, c) ==
    /\ Runs(t, c) /\ stage[c] = "refused"
    /\ state' = "DISCONNECTED"
    /\ Report(t, c)
    /\ at' = [at EXCEPT ![t] = "idle"]
    /\ UNCHANGED <<secure, socket, traffic, timer>>

BeginShake(t, c) ==
    /\ Runs(t, c) /\ stage[c] = "dialled" /\ secure
    /\ stage' = [stage EXCEPT ![c] = IF link = "none" THEN "refused" ELSE "shake"]
    /\ UNCHANGED <<secure, state, socket, by, called, traffic, timer, at, job>>

ShakeEnds(c) ==
    /\ stage[c] \in {"shake", "greet"}
    /\ \/ /\ link = "live"
          /\ stage' = [stage EXCEPT ![c] = IF @ = "shake" THEN "shaken" ELSE "greeted"]
       \/ stage' = [stage EXCEPT ![c] = "refused"]
    /\ UNCHANGED <<secure, state, socket, by, called, traffic, timer, at, job>>

HandleConnected(t, c) ==
    /\ Runs(t, c) /\ stage[c] = IF secure THEN "shaken" ELSE "dialled"
    /\ state' = "CONNECTED"
    /\ Report(t, c)
    /\ at' = [at EXCEPT ![t] = "read_and_watch"]
    /\ UNCHANGED <<secure, socket, traffic, timer>>

-----------------------------------------------------------------------------
(* _start_read, _handle_read, the heartbeat *)

StartRead(t) ==
    /\ Go(t, "read_and_watch", "watch") \/ Go(t, "read", "idle")
    /\ \/ /\ state # "CONNECTED"
          /\ UNCHANGED <<reads, failed>>
       \/ /\ state = "CONNECTED" /\ opened
          /\ reads' = reads + 1
          /\ UNCHANGED failed
       \/ /\ state = "CONNECTED" /\ ~opened
          /\ failed' = failed + 1
          /\ UNCHANGED reads
    /\ UNCHANGED <<secure, state, socket, dials, writes, data, timer, job>>

StartHeartbeat(t) ==
    /\ Go(t, "watch", "idle")
    /\ timer' = "armed"
    /\ UNCHANGED <<secure, state, socket, dials, traffic, job>>

(* A socket that dials holds its operations back; one that is open and not *)
(* connected refuses them.                                                 *)
Dialling == \E c \in Connects : stage[c] = "dial"

ReadEnds ==
    /\ reads > 0 /\ ~Dialling
    /\ reads' = reads - 1
    /\ IF link = "live" THEN data' = data + 1 /\ UNCHANGED failed
       ELSE failed' = failed + 1 /\ UNCHANGED data
    /\ UNCHANGED <<secure, state, socket, dials, writes, timer, at, job>>

WriteEnds ==
    /\ writes > 0 /\ ~Dialling
    /\ writes' = writes - 1
    /\ failed' = IF link = "live" THEN failed ELSE failed + 1
    /\ UNCHANGED <<secure, state, socket, dials, reads, data, timer, at, job>>

HandleRead ==
    /\ data > 0
    /\ Go("io", "idle", "read")
    /\ data' = data - 1
    /\ UNCHANGED <<secure, state, socket, dials, reads, writes, failed, timer, job>>

(* Mutant: the error is reported and the connection stays.                 *)
HandleErrorReports ==
    /\ failed > 0
    /\ Go("io", "idle", "idle")
    /\ failed' = failed - 1
    /\ UNCHANGED <<secure, state, socket, dials, reads, writes, data, timer, job>>

(* _handle_error, up to its store: an error of a read or a write.          *)
HandleError ==
    /\ failed > 0
    /\ Go("io", "idle", IF Closed THEN "idle" ELSE "set_error")
    /\ failed' = failed - 1
    /\ UNCHANGED <<secure, state, socket, dials, reads, writes, data, timer, job>>

SetError(t) ==
    /\ Go(t, "set_error", "close")
    /\ state' = "ERROR_STATE"
    /\ UNCHANGED <<secure, socket, dials, traffic, timer, job>>

TimerExpires ==
    /\ timer = "armed" /\ timer' = "due"
    /\ UNCHANGED <<secure, state, socket, dials, traffic, at, job>>

HandleHeartbeat ==
    /\ timer = "due"
    /\ \/ state # "CONNECTED" /\ Go("io", "idle", "idle") /\ timer' = "off"
       \/ state = "CONNECTED" /\ Go("io", "idle", "close") /\ timer' = "off"
       \/ state = "CONNECTED" /\ Go("io", "idle", "idle") /\ timer' = "armed"
    /\ UNCHANGED <<secure, state, socket, dials, traffic, job>>

-----------------------------------------------------------------------------
(* close *)

Close(t) ==
    /\ \/ Go(t, "close", IF Closed THEN "idle" ELSE "set_closing")
       \/ t \in Users /\ ~Closed /\ Go(t, "idle", "set_closing")
    /\ UNCHANGED <<secure, state, socket, dials, traffic, timer, job>>

(* Then the handler goes and the heartbeat stops.                          *)
SetClosing(t) ==
    /\ Go(t, "set_closing", "close_socket")
    /\ state' = "DISCONNECTING"
    /\ timer' = IF timer = "armed" THEN "off" ELSE timer
    /\ UNCHANGED <<secure, socket, dials, traffic, job>>

(* Mutant: the socket is left to its destructor.                           *)
CloseLeavesSocket(t) ==
    /\ Go(t, "close_socket", "set_closed")
    /\ UNCHANGED <<secure, state, socket, dials, traffic, timer, job>>

CloseSocket(t) ==
    /\ Go(t, "close_socket", "set_closed")
    /\ opened' = FALSE /\ Aborted
    /\ stage' = [c \in Connects |-> Cut(c)]
    /\ UNCHANGED <<secure, state, by, called, data, timer, job>>

SetClosed(t) ==
    /\ Go(t, "set_closed", "idle")
    /\ state' = "DISCONNECTED"
    /\ UNCHANGED <<secure, socket, dials, traffic, timer, job>>

-----------------------------------------------------------------------------
(* adopt_socket, start, sending *)

Adopt(t, c) ==
    /\ stage[c] = "unused" /\ state = "DISCONNECTED"
    /\ Go(t, "idle", "adopt")
    /\ stage' = [stage EXCEPT ![c] = "starting"]
    /\ job' = [job EXCEPT ![t] = c]
    /\ UNCHANGED <<secure, state, socket, by, called, traffic, timer>>

(* The socket that was there is closed.                                    *)
AdoptSocket(t) ==
    /\ Go(t, "adopt", "set_connected")
    /\ opened' = TRUE /\ link' = "live"
    /\ reads' = 0 /\ writes' = 0 /\ failed' = failed + reads + writes
    /\ stage' = [c \in Connects |-> Cut(c)]
    /\ UNCHANGED <<secure, state, by, called, data, timer, job>>

(* As a client, under TLS, it shakes hands first.                          *)
SetConnected(t) ==
    /\ Go(t, "set_connected", "idle")
    /\ state' = "CONNECTED" \/ (secure /\ state' = "DISCONNECTED")
    /\ Report(t, job[t])
    /\ UNCHANGED <<secure, socket, traffic, timer>>

Start(t) ==
    /\ t \in Users /\ state = "CONNECTED" /\ reads + data + failed < MaxOps
    /\ Go(t, "idle", "read_and_watch")
    /\ UNCHANGED <<secure, state, socket, dials, traffic, timer, job>>

(* A server under TLS reads when its handshake has ended.                  *)
StartServer(t, c) ==
    /\ at[t] = "idle" /\ secure /\ state = "CONNECTED" /\ stage[c] = "unused"
    /\ stage' = [stage EXCEPT ![c] = IF link = "none" THEN "refused" ELSE "greet"]
    /\ UNCHANGED <<secure, state, socket, by, called, traffic, timer, at, job>>

HandleGreeted(t, c) ==
    /\ Runs(t, c) /\ stage[c] = "greeted"
    /\ Report(t, c)
    /\ at' = [at EXCEPT ![t] = "read_and_watch"]
    /\ UNCHANGED <<secure, state, socket, traffic, timer>>

AsyncSend(t) ==
    /\ t \in Users /\ at[t] = "idle" /\ state = "CONNECTED" /\ writes + failed < MaxOps
    /\ IF opened THEN writes' = writes + 1 /\ UNCHANGED failed
       ELSE failed' = failed + 1 /\ UNCHANGED writes
    /\ UNCHANGED <<secure, state, socket, dials, reads, data, timer, at, job>>

Send(t) ==
    /\ t \in Users /\ state = "CONNECTED"
    /\ Go(t, "idle", "write")
    /\ UNCHANGED <<secure, state, socket, dials, traffic, timer, job>>

SendEnds(t) ==
    /\ \/ link = "live" /\ Go(t, "write", "idle")
       \/ link # "live" /\ Go(t, "write", IF Closed THEN "idle" ELSE "set_error")
    /\ UNCHANGED <<secure, state, socket, dials, traffic, timer, job>>

-----------------------------------------------------------------------------
(* The peer leaves, or the network fails.                                  *)
Drop ==
    /\ link = "live" /\ link' = "dead"
    /\ UNCHANGED <<secure, state, opened, dials, traffic, timer, at, job>>

(* What a thread goes on with once it has begun.                           *)
GoesOn(t) ==
    \/ SetConnecting(t) \/ BeginResolve(t) \/ BeginDial(t)
    \/ StartRead(t) \/ StartHeartbeat(t) \/ SetError(t)
    \/ at[t] = "close" /\ Close(t)
    \/ SetClosing(t) \/ CloseSocket(t) \/ SetClosed(t)
    \/ AdoptSocket(t) \/ SetConnected(t) \/ SendEnds(t)

(* What of it needs nobody else: a write waits for the peer, for ever if   *)
(* need be.                                                                *)
ByItself(t) == at[t] # "write" /\ GoesOn(t)

Completes(c) ==
    \/ Resolved(c) \/ DialEnds(c) \/ ShakeEnds(c)
    \/ \E t \in Threads : HandleResolved(t, c) \/ HandleRefused(t, c)
                          \/ BeginShake(t, c) \/ HandleConnected(t, c)
                          \/ HandleGreeted(t, c)

Closing(t) == at[t] \in {"set_error", "close", "set_closing", "close_socket", "set_closed"}
Overlap ==
    /\ \E t \in Threads : Closing(t)
    /\ \E c \in Connects : UnderWay(c)
Step(A) == A /\ crossed' = (~secure /\ (crossed \/ Overlap'))

Next ==
    \/ \E t \in Users, c \in Connects :
        Step(AlreadyConnected(t, c)) \/ Step(Call(t, c)) \/ Step(Adopt(t, c))
        \/ Step(StartServer(t, c))
    \/ \E c \in Connects : Step(Completes(c))
    \/ \E t \in Threads : Step(GoesOn(t))
    \/ \E t \in Users : Step(Close(t)) \/ Step(Start(t))
                        \/ Step(AsyncSend(t)) \/ Step(Send(t))
    \/ Step(ReadEnds) \/ Step(WriteEnds) \/ Step(HandleRead) \/ Step(HandleError)
    \/ Step(TimerExpires) \/ Step(HandleHeartbeat) \/ Step(Drop)

Spec == Init /\ [][Next]_vars

(* Threads go on, the network answers, and the io_context runs whatever is *)
(* ready, however much else is.                                            *)
Fairness ==
    /\ \A t \in Threads : WF_vars(Step(ByItself(t)))
    /\ \A c \in Connects : SF_vars(Step(Completes(c)))
    /\ WF_vars(Step(ReadEnds)) /\ SF_vars(Step(HandleError)) /\ SF_vars(Step(HandleRead))
FairSpec == Spec /\ Fairness
-----------------------------------------------------------------------------
(* A session does not stay between CONNECTED and DISCONNECTED, and every   *)
(* connect ends and reports its outcome (async_connect, close).            *)
Busy ==
    \/ state \in {"CONNECTING", "DISCONNECTING", "ERROR_STATE"}
    \/ \E c \in Connects : UnderWay(c)
AtRest ==
    /\ state \in {"CONNECTED", "DISCONNECTED"}
    /\ \A c \in Connects : called[c] = IF stage[c] = "unused" THEN 0 ELSE 1
ComesToRest == Busy ~> AtRest

(* A connection that ended is given up when a read, or an error, will tell *)
(* (_handle_read, _handle_error).                                          *)
Ended == state = "CONNECTED" /\ link # "live"
Notices == (Ended /\ reads + failed > 0) ~> ~Ended

(* Nobody is inside the session.                                           *)
Quiet == (\A t \in Threads : at[t] = "idle") /\ \A c \in Connects : ~UnderWay(c)

(* A plain session at rest and DISCONNECTED has no connection, unless a    *)
(* close and a connect overlapped; a failed TLS handshake leaves one.      *)
ClosedIsClosed ==
    Quiet /\ state = "DISCONNECTED" /\ link = "live" => crossed \/ secure
=============================================================================
