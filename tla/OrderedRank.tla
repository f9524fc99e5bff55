----------------------------- MODULE OrderedRank -----------------------------
(***************************************************************************)
(* rank_priority and rank_deferred (Asio/model/sched/rank.hpp): the task   *)
(* queues kept in a multiset, by priority or by the time a unit is due.    *)
(* Units are numbers, a unit's number its priority or its time.            *)
(*                                                                         *)
(* What is done under the mutex is one step, but for the moment between    *)
(* the predicate of a wait and the sleep ("dozes"), in which nobody else   *)
(* has the mutex and close, which needs none, may come.                    *)
(***************************************************************************)
EXTENDS Integers, Sequences, FiniteSets

CONSTANTS
    Kinds,         \* which of "priority", "deferred" are tried
    Submitters,
    Fetchers,
    Units,         \* numbers
    Capacity,      \* what the queue is made with
    MaxTime,       \* the clock goes no further
    Batches        \* what pop_batch may ask for

VARIABLES
    kind,
    queue,         \* the units in the multiset
    closed, cap,   \* _closed, _max_storage_capacity
    now,           \* the clock
    watching,      \* the background thread of rank_deferred runs
    at,            \* where each thread is
    unit,          \* what a submitter brings, in which mode
    batch,         \* for pop_batch of rank_deferred: how many turns are left
    closer,        \* where the thread that closes is
    fetched, lost, \* units handed out; overwritten or cleared
    fate           \* "well", or "end" once something followed end()

vars == <<kind, queue, closed, cap, now, watching, at, unit, batch, closer,
          fetched, lost, fate>>

Threads == Submitters \cup Fetchers
Modes == {"block", "overwrite", "exception", "drop"}
NoUnit == [u |-> 0, mode |-> "none"]

Init ==
    /\ kind \in Kinds
    /\ queue = {} /\ closed = FALSE /\ cap = Capacity
    /\ now = 0 /\ watching = (kind = "deferred")
    /\ at = [t \in Threads |-> "idle"]
    /\ unit = [t \in Threads |-> NoUnit]
    /\ batch = [t \in Threads |-> 0]
    /\ closer = "idle"
    /\ fetched = {} /\ lost = {} /\ fate = "well"

(* comparator: ascending priorities, descending times.                     *)
Least(S) == CHOOSE x \in S : \A y \in S : x <= y
Greatest(S) == CHOOSE x \in S : \A y \in S : x >= y
First == IF kind = "priority" THEN Least(queue) ELSE Greatest(queue)
Last == IF kind = "priority" THEN Greatest(queue) ELSE Least(queue)
Due(u) == u <= now

Sleepers(what) == {t \in Threads : at[t] = what}
Asleep(doze) ==
    CASE doze = "dozes to pop" -> "asleep to pop"
      [] doze = "dozes for a time" -> "asleep for a time"
      [] doze = "dozes for units" -> "asleep for units"
      [] doze = "dozes in a batch" -> "asleep in a batch"
      [] OTHER -> "asleep to push"
Dozes == {"dozes to pop", "dozes for a time", "dozes for units", "dozes in a batch",
          "dozes to push"}
MutexFree == fate = "well" /\ \A t \in Threads : at[t] \notin Dozes
Moved(t, to) == [at EXCEPT ![t] = to]
Woken(what) ==
    CASE what = "asleep to pop" -> "pops again"
      [] what = "asleep for a time" -> "tries again"
      [] what = "asleep for units" -> "collects again"
      [] what = "asleep in a batch" -> "goes on"
      [] OTHER -> "pushes again"

ForUnits == {"asleep to pop", "asleep for a time", "asleep for units", "asleep in a batch"}
ForRoom == {"asleep to push"}

(* notify_one by t, which goes on at "to"; notify_all.                     *)
NotifyOne(whats, moved) ==
    LET S == {t \in Threads : at[t] \in whats}
    IN  \/ S = {} /\ at' = moved
        \/ \E s \in S : at' = [moved EXCEPT ![s] = Woken(at[s])]
NotifyAll(whats) ==
    at' = [t \in Threads |-> IF at[t] \in whats THEN Woken(at[t]) ELSE at[t]]

Steady == UNCHANGED <<kind, closed, cap, now, watching, closer, fate>>

-----------------------------------------------------------------------------
(* internal_push, enqueue_with_backpressure *)

(* A closed queue refuses; rank_priority refuses a unit past its deadline. *)
(* A batch (internal_push_batch) is such pushes one after the other.       *)
Push(t, u, mode) ==
    /\ at[t] = "idle" /\ ~closed /\ fate = "well"
    /\ u \notin queue \cup fetched \cup lost
    /\ \A s \in Submitters : unit[s].u # u
    /\ at' = Moved(t, "pushes")
    /\ unit' = [unit EXCEPT ![t] = [u |-> u, mode |-> mode]]
    /\ UNCHANGED <<queue, batch, fetched, lost>> /\ Steady

Insert(t, kept) ==
    /\ queue' = kept \cup {unit[t].u}
    /\ lost' = lost \cup (queue \ kept)
    /\ at' = Moved(t, "tells of a unit")
    /\ unit' = [unit EXCEPT ![t] = NoUnit]

Refuse(t) ==
    /\ at' = Moved(t, "idle")
    /\ unit' = [unit EXCEPT ![t] = NoUnit]
    /\ UNCHANGED <<queue, lost>>

Full == cap # 0 /\ Cardinality(queue) >= cap

Enqueue(t) ==
    LET mode == unit[t].mode
    IN  /\ at[t] = "pushes" /\ MutexFree
        /\ \/ ~Full /\ Insert(t, queue)
           \/ Full /\ mode = "overwrite" /\ Insert(t, queue \ {Last})
           \/ Full /\ mode \in {"drop", "exception"} /\ Refuse(t)
           \/ Full /\ mode = "block" /\ closed /\ Refuse(t)
           \/ /\ Full /\ mode = "block" /\ ~closed
              /\ at' = Moved(t, "dozes to push")
              /\ UNCHANGED <<queue, unit, lost>>
        /\ UNCHANGED <<batch, fetched>> /\ Steady

(* After a wake-up: the bound counts as it is now, also if it has become 0.*)
EnqueueAgain(t) ==
    /\ at[t] = "pushes again" /\ MutexFree
    /\ \/ closed /\ Refuse(t)
       \/ ~closed /\ Cardinality(queue) < cap /\ Insert(t, queue)
       \/ /\ ~closed /\ Cardinality(queue) >= cap
          /\ at' = Moved(t, "dozes to push")
          /\ UNCHANGED <<queue, unit, lost>>
    /\ UNCHANGED <<batch, fetched>> /\ Steady

TellOfUnit(t) ==
    /\ at[t] = "tells of a unit"
    /\ NotifyOne(ForUnits, Moved(t, "idle"))
    /\ UNCHANGED <<queue, unit, batch, fetched, lost>> /\ Steady

TellOfRoom(t) ==
    /\ at[t] = "tells of room"
    /\ NotifyOne(ForRoom, Moved(t, "idle"))
    /\ UNCHANGED <<queue, unit, batch, fetched, lost>> /\ Steady

FallAsleep(t) ==
    /\ at[t] \in Dozes
    /\ at' = Moved(t, Asleep(at[t]))
    /\ UNCHANGED <<queue, unit, batch, fetched, lost>> /\ Steady

(* A wait ends for no reason.                                              *)
Spurious(t) ==
    /\ at[t] \in ForUnits \cup ForRoom
    /\ at' = Moved(t, Woken(at[t]))
    /\ UNCHANGED <<queue, unit, batch, fetched, lost>> /\ Steady

-----------------------------------------------------------------------------
(* fetching *)

TakeFirst(t, to) ==
    /\ queue' = queue \ {First}
    /\ fetched' = fetched \cup {First}
    /\ at' = Moved(t, to)
    /\ UNCHANGED <<unit, lost>>

Moves(t, to) == at' = Moved(t, to) /\ UNCHANGED <<queue, fetched, unit, lost>>

FollowEnd(t) ==
    /\ fate' = "end" /\ Moves(t, "idle")
    /\ UNCHANGED <<kind, closed, cap, now, watching, closer, batch>>

(* internal_pop of rank_priority waits for a unit or the close.            *)
PopByPriority(t) ==
    /\ kind = "priority" /\ at[t] \in {"idle", "pops again"} /\ MutexFree
    /\ \/ queue # {} /\ TakeFirst(t, "tells of room")
       \/ queue = {} /\ closed /\ Moves(t, "idle")
       \/ queue = {} /\ ~closed /\ Moves(t, "dozes to pop")
    /\ UNCHANGED batch /\ Steady

(* internal_pop of rank_deferred waits once, for whatever notification.    *)
PopDeferred(t) ==
    /\ kind = "deferred" /\ at[t] = "idle" /\ MutexFree
    /\ Moves(t, IF queue = {} /\ closed THEN "idle" ELSE "dozes to pop")
    /\ UNCHANGED batch /\ Steady
PopDeferredAgain(t) ==
    /\ kind = "deferred" /\ at[t] = "pops again" /\ MutexFree
    /\ \/ queue # {} /\ TakeFirst(t, "tells of room") /\ UNCHANGED batch /\ Steady
       \/ queue = {} /\ FollowEnd(t)

(* internal_try_pop: rank_deferred looks at the time.                      *)
TryPop(t) ==
    /\ at[t] = "idle" /\ MutexFree /\ queue # {}
    /\ kind = "deferred" => First < now
    /\ TakeFirst(t, "tells of room")
    /\ UNCHANGED batch /\ Steady

(* internal_try_pop_for: a wait with the same predicate, and a deadline;   *)
(* rank_deferred does not look whether the close or a unit has ended it,   *)
(* nor at the time.                                                        *)
TryPopFor(t) ==
    /\ at[t] \in {"idle", "tries again"} /\ MutexFree
    /\ \/ queue # {} /\ TakeFirst(t, "tells of room") /\ UNCHANGED batch /\ Steady
       \/ queue = {} /\ closed /\ kind = "deferred" /\ FollowEnd(t)
       \/ queue = {} /\ closed /\ kind = "priority" /\ Moves(t, "idle") /\ UNCHANGED batch /\ Steady
       \/ queue = {} /\ ~closed /\ Moves(t, "dozes for a time") /\ UNCHANGED batch /\ Steady
TimedOut(t) ==
    /\ at[t] = "asleep for a time" /\ MutexFree
    /\ \/ queue # {} /\ TakeFirst(t, "tells of room") /\ UNCHANGED batch /\ Steady
       \/ queue = {} /\ ~closed /\ Moves(t, "idle") /\ UNCHANGED batch /\ Steady

(* internal_pop_batch of rank_priority waits as internal_pop does, then    *)
(* takes what is there, up to count, and notifies once.  The count is read *)
(* when units are taken: it is chosen there, not kept through the wait.    *)
TakeLeast(t, n) ==
    /\ \E S \in SUBSET queue :
        /\ Cardinality(S) = n /\ \A x \in S, y \in queue \ S : x < y
        /\ queue' = queue \ S
        /\ fetched' = fetched \cup S
    /\ at' = Moved(t, IF n > 0 THEN "tells of room" ELSE "idle")
    /\ UNCHANGED <<unit, lost>>

Smaller(m, n) == IF m < n THEN m ELSE n

PopBatch(t, count) ==
    /\ kind = "priority" /\ at[t] \in {"idle", "collects again"} /\ MutexFree
    /\ \/ queue # {} /\ TakeLeast(t, Smaller(count, Cardinality(queue)))
       \/ queue = {} /\ closed /\ Moves(t, "idle")
       \/ queue = {} /\ ~closed /\ Moves(t, "dozes for units")
    /\ UNCHANGED batch /\ Steady

(* internal_pop_batch of rank_deferred: as many turns as units were there, *)
(* in each a unit that is due or one wait.                                 *)
BeginBatch(t, count) ==
    LET n == Smaller(count, Cardinality(queue))
    IN  /\ kind = "deferred" /\ at[t] = "idle" /\ MutexFree /\ n > 0
        /\ batch' = [batch EXCEPT ![t] = n]
        /\ Moves(t, "goes on")
        /\ Steady
TurnOfBatch(t) ==
    /\ at[t] = "goes on" /\ MutexFree
    /\ \/ /\ batch[t] = 0 \/ queue = {}
          /\ Moves(t, "tells of room")
          /\ batch' = [batch EXCEPT ![t] = 0]
       \/ /\ batch[t] > 0 /\ queue # {}
          /\ batch' = [batch EXCEPT ![t] = @ - 1]
          /\ \/ Due(First) /\ TakeFirst(t, "goes on")
             \/ ~Due(First) /\ Moves(t, "dozes in a batch")
    /\ Steady

-----------------------------------------------------------------------------
(* internal_close, internal_clear, the background thread, the clock *)

Close ==
    /\ closer = "idle" /\ fate = "well"
    /\ closed' = TRUE /\ cap' = 0 /\ closer' = "tells of units"
    /\ UNCHANGED <<kind, queue, now, watching, at, unit, batch, fetched, lost, fate>>
CloseTells ==
    /\ \/ closer = "tells of units" /\ NotifyAll(ForUnits) /\ closer' = "tells of room"
       \/ closer = "tells of room" /\ NotifyAll(ForRoom) /\ closer' = "over"
    /\ UNCHANGED <<kind, queue, closed, cap, now, watching, unit, batch, fetched, lost, fate>>

(* clear opens the queue again, and without a bound; nobody is told.       *)
Clear ==
    /\ closer \in {"idle", "over"} /\ MutexFree
    /\ closed' = FALSE /\ cap' = 0
    /\ queue' = {} /\ lost' = lost \cup queue
    /\ UNCHANGED <<kind, now, watching, at, unit, batch, closer, fetched, fate>>

(* background_detection looks at the first unit, which is due last; it     *)
(* ends for good when it sees the close.                                   *)
Background ==
    /\ watching /\ fate = "well"
    /\ \/ closed /\ watching' = FALSE /\ UNCHANGED at
       \/ /\ ~closed /\ MutexFree /\ queue # {} /\ Due(First)
          /\ NotifyOne(ForUnits, at)
          /\ UNCHANGED watching
    /\ UNCHANGED <<kind, queue, closed, cap, now, unit, batch, closer, fetched, lost, fate>>

Tick ==
    /\ now < MaxTime /\ kind = "deferred" /\ fate = "well"
    /\ now' = now + 1
    /\ UNCHANGED <<kind, queue, closed, cap, watching, at, unit, batch, closer,
                   fetched, lost, fate>>

Next ==
    \/ \E t \in Submitters :
        \/ \E u \in Units, mode \in Modes : Push(t, u, mode)
        \/ Enqueue(t) \/ EnqueueAgain(t)
    \/ \E t \in Threads :
        TellOfUnit(t) \/ TellOfRoom(t) \/ FallAsleep(t) \/ Spurious(t)
    \/ \E t \in Fetchers :
        \/ PopByPriority(t) \/ PopDeferred(t) \/ PopDeferredAgain(t) \/ TryPop(t)
        \/ TryPopFor(t) \/ TimedOut(t) \/ TurnOfBatch(t)
        \/ \E n \in Batches : PopBatch(t, n) \/ BeginBatch(t, n)
    \/ Close \/ CloseTells \/ Clear \/ Background \/ Tick

Spec == Init /\ [][Next]_vars

-----------------------------------------------------------------------------
(* A unit is handed out at most once, and never one that has been          *)
(* overwritten or cleared (enqueue_with_backpressure, the pops).           *)
HandedOutOnce ==
    queue \cap fetched = {} /\ queue \cap lost = {} /\ fetched \cap lost = {}

(* While units are in the queue of rank_priority, no fetcher sleeps, in a  *)
(* pop, a pop with a deadline or a batch, unless for each unit somebody is *)
(* awake to take it or about to tell of it: no notification is lost        *)
(* between the sleeps, deadlines, batches, clears and closes.              *)
SleepForUnits ==
    Sleepers("asleep to pop") \cup Sleepers("asleep for a time") \cup Sleepers("asleep for units")
Underway ==
    Sleepers("pops again") \cup Sleepers("tries again") \cup Sleepers("collects again")
        \cup Sleepers("tells of a unit")

NoUnitSleptThrough ==
    kind = "priority" /\ SleepForUnits # {} => Cardinality(queue) <= Cardinality(Underway)
=============================================================================
