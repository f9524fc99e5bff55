----------------------------- MODULE Transponder -----------------------------
(***************************************************************************)
(* transponder (Asio/model/network/business/forwarder.hpp): requests are   *)
(* forwarded to an upstream over sessions of a connection pool, on the     *)
(* caller's thread (forward_sync) or as counted tasks behind a gate        *)
(* (forward_async), each on a thread of its own or on one of a thread pool *)
(* (set_async_executor); stop and shutdown end it.                         *)
(*                                                                         *)
(* Of a session (fundamental.hpp) the model has what a forward touches:    *)
(* its reading, the one buffer that all its reads share, its handler.  The *)
(* pool lends what it has or a new session, or nothing, and goes on doing  *)
(* so after it was stopped (module ConnectionPool).  An answer comes in    *)
(* Chunks pieces, each one read of the socket.  Of the thread pool there   *)
(* are the tasks it has and how many it runs at a time; in what order is   *)
(* left open, and who stops it is shutdown (modules ThreadPool, Scheduler).*)
(***************************************************************************)
EXTENDS Naturals, Sequences, FiniteSets

CONSTANTS
    Requests,     \* each forwarded once
    Counted,      \* those that come through forward_async
    Sessions,
    Chunks,
    MaxTasks,     \* _max_async_tasks
    Workers       \* threads of the pool of set_async_executor

ASSUME ForwardingAssumption ==
    /\ IsFiniteSet(Requests) /\ Counted \subseteq Requests
    /\ "none" \notin Requests \cup Sessions
    /\ Chunks \in Nat \ {0} /\ MaxTasks \in Nat /\ Workers \in Nat

VARIABLES
    pc,           \* where each request is
    stopping,     \* _stopping
    active,       \* _active_tasks
    result,       \* what each request came back with
    using,        \* the session each request has borrowed
    buffer,       \* the pieces its handler has collected
    parsed,       \* the answer its handler has made of them
    closer,       \* where the thread that calls stop or shutdown is
    drained,      \* what shutdown returned
    service,      \* the thread pool: none, or how far its life is
    pooled,       \* requests handed to it
    idle, open,   \* sessions: with the pool; connected
    answers,      \* pieces on their way on each session, as <<request, piece>>
    reads,        \* reads that wait for bytes on each session
    arrived,      \* what _received_data holds, and the handlers it is due to
    handler       \* _on_data: the request it works for

vars == <<pc, stopping, active, result, using, buffer, parsed, closer,
          drained, service, pooled, idle, open, answers, reads, arrived, handler>>
net   == <<idle, open, answers, reads, arrived, handler>>
got   == <<buffer, parsed>>
calls == <<stopping, active, closer, drained>>
work  == <<service, pooled>>

Locations == {"new", "gate", "queued", "pooled", "entered", "borrow", "send", "wait",
              "give_up", "give_back", "leaving", "notify", "done"}
CloserLocations == {"idle", "stop_pool", "look", "asleep", "end", "join", "count", "over"}
Services == {"none", "running", "stopping", "over"}
Whole(r) == [i \in 1 .. Chunks |-> <<r, i>>]
Pieces == Requests \X (1 .. Chunks)

TypeOK ==
    /\ pc \in [Requests -> Locations]
    /\ stopping \in BOOLEAN /\ active \in 0 .. Cardinality(Requests)
    /\ result \in [Requests -> {"none", "answer", "error"}]
    /\ using \in [Requests -> Sessions \cup {"none"}]
    /\ buffer \in [Requests -> Seq(Pieces)] /\ parsed \in [Requests -> Seq(Pieces)]
    /\ closer \in CloserLocations /\ drained \in {"none", "yes", "no"}
    /\ service \in Services /\ pooled \subseteq Requests
    /\ idle \subseteq Sessions /\ open \subseteq Sessions
    /\ answers \in [Sessions -> Seq(Pieces)] /\ reads \in [Sessions -> Nat]
    /\ arrived \in [Sessions -> [piece : Pieces \cup {<<>>}, due : Nat]]
    /\ handler \in [Sessions -> Requests \cup {"none"}]

Init ==
    /\ pc = [r \in Requests |-> "new"]
    /\ stopping = FALSE /\ active = 0
    /\ result = [r \in Requests |-> "none"]
    /\ using = [r \in Requests |-> "none"]
    /\ buffer = [r \in Requests |-> <<>>]
    /\ parsed = [r \in Requests |-> <<>>]
    /\ closer = "idle" /\ drained = "none"
    /\ service \in {"none", "running"} /\ pooled = {}
    /\ idle = {} /\ open = {}
    /\ answers = [s \in Sessions |-> <<>>]
    /\ reads = [s \in Sessions |-> 0]
    /\ arrived = [s \in Sessions |-> [piece |-> <<>>, due |-> 0]]
    /\ handler = [s \in Sessions |-> "none"]

Go(r, from, to) == pc[r] = from /\ pc' = [pc EXCEPT ![r] = to]
Set(f, x, v) == [f EXCEPT ![x] = v]
(* After its answer a counted request still has its guard to run.          *)
End(r) == IF r \in Counted THEN "leaving" ELSE "done"

-----------------------------------------------------------------------------
(* forward_async, forward_sync *)

Come(r) ==
    /\ \/ /\ r \notin Counted
          /\ Go(r, "new", "borrow")
          /\ UNCHANGED result
       \/ /\ r \in Counted /\ ~stopping
          /\ Go(r, "new", "gate")
          /\ UNCHANGED result
       \/ /\ r \in Counted /\ stopping
          /\ Go(r, "new", "done")
          /\ result' = Set(result, r, "error")
    /\ UNCHANGED <<calls, work, using, got, net>>

(* The gate looks at the tasks that have begun.  Then the task goes to the *)
(* pool, if it runs, or to a new thread; either may refuse it with an      *)
(* exception.                                                              *)
Gate(r) ==
    /\ \/ /\ active < MaxTasks /\ service # "running"
          /\ Go(r, "gate", "queued")
          /\ UNCHANGED <<result, pooled>>
       \/ /\ active < MaxTasks /\ service = "running"
          /\ Go(r, "gate", "pooled")
          /\ pooled' = pooled \cup {r}
          /\ UNCHANGED result
       \/ /\ active < MaxTasks \/ stopping
          /\ Go(r, "gate", "done")
          /\ result' = Set(result, r, "error")
          /\ UNCHANGED pooled
    /\ UNCHANGED <<calls, service, using, got, net>>

(* Tasks that the pool's threads run.                                      *)
OnWorkers == {r \in pooled : pc[r] \notin {"pooled", "done"}}

(* The task gets a thread: its own, or one of the pool that is free.       *)
Begins(r, to) ==
    \/ Go(r, "queued", to)
    \/ /\ service # "over" /\ Cardinality(OnWorkers) < Workers
       /\ Go(r, "pooled", to)

(* Mutant: the task looks at _stopping before it counts itself.            *)
LookThenCount(r) ==
    /\ \/ ~stopping /\ Begins(r, "entered") /\ UNCHANGED <<result, active>>
       \/ /\ pc[r] = "entered" /\ pc' = Set(pc, r, "borrow")
          /\ active' = active + 1
          /\ UNCHANGED result
       \/ /\ stopping /\ Begins(r, "done")
          /\ result' = Set(result, r, "error")
          /\ UNCHANGED active
    /\ UNCHANGED <<stopping, closer, drained, work, using, got, net>>

(* The task counts itself, then looks at _stopping.                        *)
CountThenLook(r) ==
    /\ \/ /\ Begins(r, "entered")
          /\ active' = active + 1
          /\ UNCHANGED result
       \/ /\ ~stopping /\ Go(r, "entered", "borrow")
          /\ UNCHANGED <<result, active>>
       \/ /\ stopping /\ Go(r, "entered", "leaving")
          /\ result' = Set(result, r, "error")
          /\ UNCHANGED active
    /\ UNCHANGED <<stopping, closer, drained, work, using, got, net>>

(* Mutant: the guard notifies before it counts down.                       *)
NotifyThenCount(r) ==
    /\ \/ Go(r, "leaving", "notify") /\ UNCHANGED active
       \/ Go(r, "notify", "done") /\ active' = active - 1
    /\ closer' = IF pc[r] = "leaving" /\ closer = "asleep" THEN "look" ELSE closer
    /\ UNCHANGED <<stopping, drained, work, result, using, got, net>>

(* ~Guard: count down; then, with the mutex, notify everybody.             *)
Leave(r) ==
    /\ \/ Go(r, "leaving", "notify") /\ active' = active - 1
       \/ Go(r, "notify", "done") /\ UNCHANGED active
    /\ closer' = IF pc[r] = "notify" /\ closer = "asleep" THEN "look" ELSE closer
    /\ UNCHANGED <<stopping, drained, work, result, using, got, net>>

-----------------------------------------------------------------------------
(* perform_upstream_plain *)

Fail(r, from) ==
    Go(r, from, End(r)) /\ result' = Set(result, r, "error")

(* The session starts to read once more: one read of its own since it was  *)
(* connected, one for every forward that has had it.                       *)
TakeSession(r, s, already) ==
    /\ Go(r, "borrow", "send")
    /\ using' = Set(using, r, s)
    /\ handler' = Set(handler, s, r)
    /\ reads' = Set(reads, s, already + 1)

Borrow(r) ==
    /\ \/ \E s \in idle \cap open :
            /\ TakeSession(r, s, reads[s])
            /\ idle' = idle \ {s}
            /\ UNCHANGED <<result, open>>
       \/ \E s \in Sessions \ (open \cup idle) :
            /\ handler[s] = "none" /\ arrived[s].due = 0 /\ answers[s] = <<>>
            /\ \A x \in Requests : using[x] # s
            /\ TakeSession(r, s, 1)
            /\ open' = open \cup {s}
            /\ UNCHANGED <<result, idle>>
       \/ /\ Fail(r, "borrow")
          /\ UNCHANGED <<using, handler, reads, idle, open>>
    /\ UNCHANGED <<calls, work, got, answers, arrived>>

(* set_reception_processing(nullptr)                                       *)
StopListening(r) == handler' = Set(handler, using[r], "none")

(* The upstream receives the request and will answer, or says nothing.     *)
Send(r) ==
    LET s == using[r]
    IN  /\ \/ /\ s \in open /\ Go(r, "send", "wait")
              /\ \/ answers' = Set(answers, s, answers[s] \o Whole(r))
                 \/ UNCHANGED answers
              /\ UNCHANGED handler
           \/ /\ s \notin open /\ Go(r, "send", "give_up")
              /\ StopListening(r)
              /\ UNCHANGED answers
        /\ UNCHANGED <<calls, work, result, using, got, idle, open, reads, arrived>>

(* Mutant: the request waits without a deadline.                           *)
WaitForEver(r) ==
    /\ parsed[r] # <<>> /\ Go(r, "wait", "give_back")
    /\ StopListening(r)
    /\ UNCHANGED <<calls, work, result, using, got, idle, open, answers, reads,
                   arrived>>

(* The handler has made an answer of what came, or 15 seconds have passed. *)
Wait(r) ==
    /\ \/ parsed[r] # <<>> /\ Go(r, "wait", "give_back")
       \/ parsed[r] = <<>> /\ Go(r, "wait", "give_up")
    /\ StopListening(r)
    /\ UNCHANGED <<calls, work, result, using, got, idle, open, answers, reads,
                   arrived>>

(* close: the handler goes, and the reads with the socket.                 *)
Closed(S) ==
    /\ open' = open \ S
    /\ answers' = [s \in Sessions |-> IF s \in S THEN <<>> ELSE answers[s]]
    /\ reads' = [s \in Sessions |-> IF s \in S THEN 0 ELSE reads[s]]

(* invalidate                                                              *)
GiveUp(r) ==
    LET s == using[r]
    IN  /\ Fail(r, "give_up")
        /\ using' = Set(using, r, "none")
        /\ Closed({s})
        /\ UNCHANGED <<calls, work, got, idle, arrived, handler>>

(* give_back                                                               *)
GiveBack(r) ==
    LET s == using[r]
    IN  /\ Go(r, "give_back", End(r))
        /\ result' = Set(result, r, "answer")
        /\ using' = Set(using, r, "none")
        /\ idle' = IF s \in open THEN idle \cup {s} ELSE idle
        /\ UNCHANGED <<calls, work, got, open, answers, reads, arrived, handler>>

-----------------------------------------------------------------------------
(* the io threads, the upstream *)

(* A read that waits takes the next piece into _received_data, which may   *)
(* still hold a piece that its handler has not seen.                       *)
ReadSome(s) ==
    /\ reads[s] > 0 /\ answers[s] # <<>>
    /\ reads' = Set(reads, s, reads[s] - 1)
    /\ answers' = Set(answers, s, Tail(answers[s]))
    /\ arrived' = Set(arrived, s, [piece |-> Head(answers[s]), due |-> arrived[s].due + 1])
    /\ UNCHANGED <<pc, calls, work, result, using, got, idle, open, handler>>

(* from_string takes whatever has the beginning of an answer for the whole *)
(* of it, and leaves what follows the answer.                              *)
Parse(b) ==
    IF b # <<>> /\ b[1][2] = 1 THEN SubSeq(b, 1, IF Len(b) < Chunks THEN Len(b) ELSE Chunks)
    ELSE <<>>

(* _handle_read: the handler appends what the buffer holds; then the next  *)
(* read.  _on_data is tested, called and reset without a lock; what that   *)
(* race may do, between a test and its call, is left out.                  *)
HandleRead(s) ==
    LET r == handler[s]
        more == IF r = "none" \/ s \notin open THEN {} ELSE {r}
    IN  /\ arrived[s].due > 0
        /\ arrived' = Set(arrived, s, [arrived[s] EXCEPT !.due = @ - 1])
        /\ buffer' = [x \in Requests |->
                        IF x \in more THEN Append(buffer[x], arrived[s].piece) ELSE buffer[x]]
        /\ parsed' = [x \in Requests |->
                        IF x \in more /\ Parse(buffer'[x]) # <<>> THEN Parse(buffer'[x])
                        ELSE parsed[x]]
        /\ reads' = IF s \in open THEN Set(reads, s, reads[s] + 1) ELSE reads
        /\ UNCHANGED <<pc, calls, work, result, using, idle, open, answers, handler>>

(* The connection ends, from outside.                                      *)
Drop(s) ==
    /\ s \in open
    /\ Closed({s})
    /\ handler' = Set(handler, s, "none")
    /\ idle' = idle \ {s}
    /\ UNCHANGED <<pc, calls, work, result, using, got, arrived>>

-----------------------------------------------------------------------------
(* stop, shutdown *)

StopBegins ==
    /\ closer = "idle"
    /\ stopping' = TRUE
    /\ closer' = "stop_pool"
    /\ UNCHANGED <<pc, active, drained, work, result, using, got, net>>

(* _http_pool.stop closes the idle sessions; stop returns, shutdown goes   *)
(* on.                                                                     *)
StopPool ==
    /\ closer = "stop_pool"
    /\ Closed(idle)
    /\ handler' = [s \in Sessions |-> IF s \in idle THEN "none" ELSE handler[s]]
    /\ idle' = {}
    /\ closer' \in {"look", "over"}
    /\ UNCHANGED <<pc, stopping, active, drained, work, result, using, got, arrived>>

(* The loop of shutdown, under the mutex: it ends or it waits.             *)
ShutdownLooks ==
    /\ closer = "look"
    /\ closer' = IF active > 0 THEN "asleep" ELSE "end"
    /\ UNCHANGED <<pc, stopping, active, drained, work, result, using, got, net>>

(* At its deadline shutdown waits no more.                                 *)
ShutdownGivesUp ==
    /\ closer = "asleep"
    /\ closer' = "end"
    /\ UNCHANGED <<pc, stopping, active, drained, work, result, using, got, net>>

(* A pool that runs is shut down: its threads finish what they have begun  *)
(* and are joined, whatever the time; what they have not begun may stay.   *)
ShutdownStopsWorkers ==
    /\ closer = "end"
    /\ \/ /\ service = "running"
          /\ service' = "stopping" /\ closer' = "join"
       \/ /\ service # "running"
          /\ closer' = "count"
          /\ UNCHANGED service
    /\ UNCHANGED <<pc, stopping, active, drained, pooled, result, using, got, net>>

ShutdownJoinsWorkers ==
    /\ closer = "join" /\ OnWorkers = {}
    /\ service' = "over" /\ closer' = "count"
    /\ UNCHANGED <<pc, stopping, active, drained, pooled, result, using, got, net>>

ShutdownReturns ==
    /\ closer = "count"
    /\ closer' = "over"
    /\ drained' = IF active = 0 THEN "yes" ELSE "no"
    /\ UNCHANGED <<pc, stopping, active, work, result, using, got, net>>

-----------------------------------------------------------------------------
Forward(r) ==
    \/ Gate(r) \/ CountThenLook(r) \/ Borrow(r) \/ Send(r) \/ Wait(r)
    \/ GiveUp(r) \/ GiveBack(r) \/ Leave(r)

(* What of it needs nobody else.  The write of send_bytes has no deadline: *)
(* it is over when the upstream reads, or when the connection fails.  A    *)
(* pool that stops owes nothing to what it has not begun.                  *)
ByItself(r) ==
    /\ pc[r] # "send" /\ (pc[r] = "pooled" => service = "running")
    /\ Forward(r)

Close ==
    \/ StopPool \/ ShutdownLooks \/ ShutdownGivesUp \/ ShutdownStopsWorkers
    \/ ShutdownJoinsWorkers \/ ShutdownReturns

Next ==
    \/ \E r \in Requests :
        \/ Come(r) \/ Gate(r) \/ CountThenLook(r) \/ Borrow(r) \/ Send(r)
        \/ Wait(r) \/ GiveUp(r) \/ GiveBack(r) \/ Leave(r)
    \/ \E s \in Sessions : ReadSome(s) \/ HandleRead(s) \/ Drop(s)
    \/ StopBegins \/ StopPool \/ ShutdownLooks \/ ShutdownGivesUp
    \/ ShutdownStopsWorkers \/ ShutdownJoinsWorkers \/ ShutdownReturns

Spec == Init /\ [][Next]_vars

-----------------------------------------------------------------------------
(* No request gets an answer to another one, though sessions are used      *)
(* again and several reads of one session share a buffer                   *)
(* (perform_upstream_plain, _handle_read).                                 *)
OwnAnswer ==
    \A r \in Requests :
        result[r] = "answer" => \A i \in DOMAIN parsed[r] : parsed[r][i][1] = r

(* When shutdown says that nothing is left, no counted request is with the *)
(* upstream, or will be (forward_task, shutdown).                          *)
Upstream == {"borrow", "send", "wait", "give_up", "give_back"}
DrainedIsQuiet ==
    drained = "yes" => \A r \in Counted : pc[r] \notin Upstream

(* Whoever shutdown waits for will wake it up: it does not sleep over the  *)
(* end of the last request until its deadline.                             *)
ShutdownIsWoken ==
    closer = "asleep" /\ active = 0 => \E r \in Counted : pc[r] = "notify"

(* A counted request that was taken gets an answer or an error, even if    *)
(* the upstream never answers, or else stays for ever in the write of its  *)
(* request, the one wait that has no deadline, or behind such writes in    *)
(* the pool, or in a pool that was stopped (perform_upstream_plain,        *)
(* send_bytes, shutdown).                                                  *)
InWrite(r) == pc[r] = "send"
BehindWrites(r) ==
    /\ pc[r] = "pooled"
    /\ service # "running" \/ Cardinality({x \in OnWorkers : InWrite(x)}) >= Workers
RequestsReturn ==
    \A r \in Requests :
        pc[r] \in {"queued", "pooled"} ~>
            (pc[r] = "done" \/ []InWrite(r) \/ []BehindWrites(r))
=============================================================================
