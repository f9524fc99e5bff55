---------------------------- MODULE RankStandard ----------------------------
(***************************************************************************)
(* The bounded FIFO task queue rank_standard (Asio/model/sched/rank.hpp):  *)
(* a deque behind one mutex, the condition variables _judge_full_cv and    *)
(* _judge_empty_cv, and the atomics _closed and _max_storage_capacity,     *)
(* which close and set_max_size write WITHOUT the mutex.                   *)
(*                                                                         *)
(* A thread is at a named location.  What the code does between taking the *)
(* mutex and giving it back is one step, except where it goes to sleep:    *)
(* evaluating a wait predicate and joining the condition variable are two  *)
(* steps, since close can store _closed and notify between them.  The      *)
(* mutex is held exactly at the two *_sleep locations.                     *)
(*                                                                         *)
(* Inputs: units are not null, and set_max_size is given a positive size,  *)
(* as its only caller (thread_pool::set_rank_max_size) does.               *)
(***************************************************************************)
EXTENDS Integers, Sequences, FiniteSets

CONSTANTS
    Producers,     \* threads that submit units
    Consumers,     \* worker threads that fetch units
    Controllers,   \* threads that close, clear or resize the queue
    Units,         \* the units that may be submitted, each at most once
    InitialCap,    \* make_rank_standard(max_capacity); 0 is unbounded
    NewCaps,       \* the arguments of set_max_size
    Modes,         \* the backpressure modes producers use
    PopCalls,      \* the fetch operations consumers use
    BatchCounts,   \* the arguments of pop_batch
    PushBatches,   \* BOOLEAN: producers also call push_batch
    Controls       \* the operations of controllers

Threads == Producers \cup Consumers \cup Controllers

ASSUME ThreadsDisjoint ==
    /\ Producers \cap Consumers = {}
    /\ Producers \cap Controllers = {}
    /\ Consumers \cap Controllers = {}
ASSUME InputsAssumption ==
    /\ InitialCap \in Nat
    /\ NewCaps \subseteq Nat \ {0}
    /\ BatchCounts \subseteq Nat
    /\ Modes \subseteq {"block", "overwrite", "exception", "drop"}
    /\ PopCalls \subseteq {"pop", "try_pop", "try_pop_for", "pop_batch"}
    /\ PushBatches \in BOOLEAN
    /\ Controls \subseteq {"close", "clear", "set_max_size"}

VARIABLES
    closed,                 \* _closed
    max_storage_capacity,   \* _max_storage_capacity
    rank_unit_standard,     \* _rank_unit_standard, front first
    pc,                     \* where each thread is
    todo,                   \* units a producer still has to push, current first
    mode,                   \* backpressure mode of a producer's call
    call,                   \* the fetch operation a consumer is in
    count,                  \* how many units that operation asks for
    result,                 \* history: what push answered for each unit
    accepts,                \* history: how many units were enqueued so far
    ticket,                 \* history: which enqueue was the unit's, or 0
    delivered,              \* history: units handed to consumers, in order
    lost,                   \* history: units overwritten or cleared
    missed                  \* history: threads about to sleep when _closed was set

store   == <<closed, max_storage_capacity, rank_unit_standard>>
producing == <<todo, mode>>
consuming == <<call, count>>
history == <<result, accepts, ticket, delivered, lost, missed>>
vars    == <<store, pc, producing, consuming, history>>

Asleep  == {"wait_full", "wait_empty"}
Holding == {"push_sleep", "pop_sleep"}
ProducerLocations ==
    {"idle", "push_check", "push_lock", "push_sleep", "wait_full",
     "push_relock", "push_notify"}
ConsumerLocations ==
    {"idle", "pop_lock", "pop_sleep", "wait_empty", "pop_relock",
     "pop_timeout", "pop_notify"}
ControllerLocations == {"idle", "close_empty", "close_full"}

Size     == Len(rank_unit_standard)
Bounded  == max_storage_capacity # 0
HasRoom  == ~(Bounded /\ Size >= max_storage_capacity)
LockFree == \A t \in Threads : pc[t] \notin Holding
Enqueued == {u \in Units : ticket[u] > 0}

(* Condition variables: where a woken waiter resumes, and the locations    *)
(* that notify_one and notify_all may leave behind.                        *)
Resume(w) == IF w = "wait_full" THEN "push_relock" ELSE "pop_relock"
NotifyOne(at, w) ==
    LET waiting == {t \in Threads : at[t] = w}
    IN  IF waiting = {} THEN {at}
        ELSE {[at EXCEPT ![t] = Resume(w)] : t \in waiting}
NotifyAll(at, w) ==
    [t \in Threads |-> IF at[t] = w THEN Resume(w) ELSE at[t]]

TypeOK ==
    /\ closed \in BOOLEAN
    /\ max_storage_capacity \in Nat
    /\ rank_unit_standard \in Seq(Units)
    /\ pc \in [Threads -> ProducerLocations \cup ConsumerLocations
                            \cup ControllerLocations]
    /\ \A p \in Producers : pc[p] \in ProducerLocations
    /\ \A c \in Consumers : pc[c] \in ConsumerLocations
    /\ \A k \in Controllers : pc[k] \in ControllerLocations
    /\ todo \in [Producers -> Seq(Units)]
    /\ mode \in [Producers -> Modes \cup {"none"}]
    /\ call \in [Consumers -> PopCalls \cup {"none"}]
    /\ count \in [Consumers -> Nat]
    /\ result \in [Units -> {"unsubmitted", "pending", "true", "false", "throw"}]
    /\ accepts \in Nat
    /\ ticket \in [Units -> Nat]
    /\ delivered \in Seq(Units)
    /\ lost \subseteq Units
    /\ missed \subseteq Threads

Init ==
    /\ closed = FALSE
    /\ max_storage_capacity = InitialCap
    /\ rank_unit_standard = <<>>
    /\ pc = [t \in Threads |-> "idle"]
    /\ todo = [p \in Producers |-> <<>>]
    /\ mode = [p \in Producers |-> "none"]
    /\ call = [c \in Consumers |-> "none"]
    /\ count = [c \in Consumers |-> 0]
    /\ result = [u \in Units |-> "unsubmitted"]
    /\ accepts = 0
    /\ ticket = [u \in Units |-> 0]
    /\ delivered = <<>>
    /\ lost = {}
    /\ missed = {}

-----------------------------------------------------------------------------
(* push, push_batch *)

Fresh == {u \in Units : result[u] = "unsubmitted"}

(* A call of push, or of push_batch, that got past its entry checks.       *)
BeginPush(p, us, m) ==
    /\ todo' = [todo EXCEPT ![p] = us]
    /\ mode' = [mode EXCEPT ![p] = m]
    /\ pc' = [pc EXCEPT ![p] = "push_check"]
    /\ result' = [u \in Units |->
                    IF \E i \in DOMAIN us : us[i] = u THEN "pending" ELSE result[u]]
    /\ UNCHANGED <<store, consuming, accepts, ticket, delivered, lost, missed>>

Push(p) ==
    /\ pc[p] = "idle"
    /\ \E u \in Fresh, m \in Modes : BeginPush(p, <<u>>, m)

(* push with a deadline that has already passed enqueues nothing.          *)
PushTooLate(p) ==
    /\ pc[p] = "idle"
    /\ \E u \in Fresh : result' = [result EXCEPT ![u] = "false"]
    /\ UNCHANGED <<store, pc, producing, consuming, accepts, ticket, delivered,
                   lost, missed>>

(* push_batch looks at _closed once for the whole batch; each of its units *)
(* is then pushed like a single one.                                       *)
PushBatch(p) ==
    /\ PushBatches
    /\ pc[p] = "idle"
    /\ \E u, v \in Fresh, m \in Modes :
        /\ u # v
        /\ \/ ~closed /\ BeginPush(p, <<u, v>>, m)
           \/ /\ closed
              /\ result' = [result EXCEPT ![u] = "false", ![v] = "false"]
              /\ UNCHANGED <<store, pc, producing, consuming, accepts, ticket,
                             delivered, lost, missed>>

(* The call moves on to its next unit, or returns.                         *)
Advanced(p) == IF Len(todo[p]) > 1 THEN "push_check" ELSE "idle"
Advance(p) ==
    /\ todo' = [todo EXCEPT ![p] = Tail(@)]
    /\ mode' = IF Len(todo[p]) > 1 THEN mode ELSE [mode EXCEPT ![p] = "none"]

Refuse(p) ==
    /\ result' = [result EXCEPT ![Head(todo[p])] = "false"]
    /\ Advance(p)
    /\ pc' = [pc EXCEPT ![p] = Advanced(p)]
    /\ UNCHANGED <<store, consuming, accepts, ticket, delivered, lost, missed>>

(* A throw leaves push_batch at once: the rest of the batch is not tried.  *)
Throw(p) ==
    /\ result' = [u \in Units |->
                    IF \E i \in DOMAIN todo[p] : todo[p][i] = u
                      THEN "throw" ELSE result[u]]
    /\ todo' = [todo EXCEPT ![p] = <<>>]
    /\ mode' = [mode EXCEPT ![p] = "none"]
    /\ pc' = [pc EXCEPT ![p] = "idle"]
    /\ UNCHANGED <<store, consuming, accepts, ticket, delivered, lost, missed>>

(* push_back on what is left of the queue, then the mutex is released; the *)
(* notification comes after.                                               *)
EnqueueOn(p, q) ==
    /\ rank_unit_standard' = Append(q, Head(todo[p]))
    /\ accepts' = accepts + 1
    /\ ticket' = [ticket EXCEPT ![Head(todo[p])] = accepts + 1]
    /\ result' = [result EXCEPT ![Head(todo[p])] = "true"]
    /\ pc' = [pc EXCEPT ![p] = "push_notify"]
    /\ UNCHANGED <<closed, max_storage_capacity, producing, consuming, delivered,
                   missed>>

Enqueue(p) == EnqueueOn(p, rank_unit_standard) /\ UNCHANGED lost

(* Mutant: the evicted unit is the oldest, and the new one takes its place.*)
OverwriteOldestInPlace(p) ==
    /\ rank_unit_standard' = <<Head(todo[p])>> \o Tail(rank_unit_standard)
    /\ accepts' = accepts + 1
    /\ ticket' = [ticket EXCEPT ![Head(todo[p])] = accepts + 1]
    /\ result' = [result EXCEPT ![Head(todo[p])] = "true"]
    /\ lost' = lost \cup {Head(rank_unit_standard)}
    /\ pc' = [pc EXCEPT ![p] = "push_notify"]
    /\ UNCHANGED <<closed, max_storage_capacity, producing, consuming, delivered,
                   missed>>

(* overwrite evicts the newest unit.                                       *)
Overwrite(p) ==
    /\ EnqueueOn(p, SubSeq(rank_unit_standard, 1, Size - 1))
    /\ lost' = lost \cup {rank_unit_standard[Size]}

GoTo(t, location) ==
    /\ pc' = [pc EXCEPT ![t] = location]
    /\ UNCHANGED <<store, producing, consuming, history>>

(* _judge_full_cv.wait(lock, block_func) and what follows it: the predicate*)
(* compares with _max_storage_capacity even when that is 0.                *)
AwaitRoom(p) ==
    \/ closed /\ Refuse(p)
    \/ ~closed /\ Size < max_storage_capacity /\ Enqueue(p)
    \/ ~closed /\ Size >= max_storage_capacity /\ GoTo(p, "push_sleep")

(* internal_push reads _closed before the mutex is taken.                  *)
PushCheck(p) ==
    /\ pc[p] = "push_check"
    /\ \/ closed /\ Refuse(p)
       \/ ~closed /\ GoTo(p, "push_lock")

PushLock(p) ==
    /\ pc[p] = "push_lock"
    /\ LockFree
    /\ \/ HasRoom /\ Enqueue(p)
       \/ ~HasRoom /\ mode[p] = "block" /\ AwaitRoom(p)
       \/ ~HasRoom /\ mode[p] = "overwrite" /\ Overwrite(p)
       \/ ~HasRoom /\ mode[p] = "exception" /\ Throw(p)
       \/ ~HasRoom /\ mode[p] = "drop" /\ Refuse(p)

PushSleep(p) == pc[p] = "push_sleep" /\ GoTo(p, "wait_full")

PushRelock(p) == pc[p] = "push_relock" /\ LockFree /\ AwaitRoom(p)

(* Mutant: a unit is enqueued without a notification.                      *)
PushNotifyNobody(p) ==
    /\ pc[p] = "push_notify"
    /\ Advance(p)
    /\ pc' = [pc EXCEPT ![p] = Advanced(p)]
    /\ UNCHANGED <<store, consuming, history>>

PushNotify(p) ==
    /\ pc[p] = "push_notify"
    /\ Advance(p)
    /\ pc' \in NotifyOne([pc EXCEPT ![p] = Advanced(p)], "wait_empty")
    /\ UNCHANGED <<store, consuming, history>>

-----------------------------------------------------------------------------
(* pop, try_pop, try_pop_for, pop_batch *)

Return(c, at) ==
    /\ call' = [call EXCEPT ![c] = "none"]
    /\ count' = [count EXCEPT ![c] = 0]
    /\ pc' = at

TakeFront(n) ==
    /\ delivered' = delivered \o SubSeq(rank_unit_standard, 1, n)
    /\ rank_unit_standard' = SubSeq(rank_unit_standard, n + 1, Size)
    /\ UNCHANGED <<closed, max_storage_capacity, producing, result, accepts,
                   ticket, lost, missed>>

ReturnNull(c) ==
    /\ Return(c, [pc EXCEPT ![c] = "idle"])
    /\ UNCHANGED <<store, producing, history>>

(* Mutant: pop does not tell the submitters about the free place.          *)
TakeAndNotifyNobody(c) == TakeFront(1) /\ Return(c, [pc EXCEPT ![c] = "idle"])

(* pop and try_pop notify before the mutex is released: nobody can run in  *)
(* between.                                                                *)
TakeAndNotify(c) ==
    /\ TakeFront(1)
    /\ \E at \in NotifyOne([pc EXCEPT ![c] = "idle"], "wait_full") : Return(c, at)

(* Mutant: the last unit of the deque is taken.                            *)
TakeNewestThenNotify(c) ==
    /\ delivered' = Append(delivered, rank_unit_standard[Size])
    /\ rank_unit_standard' = SubSeq(rank_unit_standard, 1, Size - 1)
    /\ pc' = [pc EXCEPT ![c] = "pop_notify"]
    /\ UNCHANGED <<closed, max_storage_capacity, producing, consuming, result,
                   accepts, ticket, lost, missed>>

(* try_pop_for and pop_batch release it first; a batch of none at all      *)
(* notifies nobody.                                                        *)
TakeThenNotify(c) ==
    LET n == IF count[c] < Size THEN count[c] ELSE Size
    IN  /\ TakeFront(n)
        /\ \/ n = 0 /\ Return(c, [pc EXCEPT ![c] = "idle"])
           \/ /\ n > 0
              /\ pc' = [pc EXCEPT ![c] = "pop_notify"]
              /\ UNCHANGED consuming

TakeFor(c) ==
    \/ call[c] = "pop" /\ TakeAndNotify(c)
    \/ call[c] \in {"try_pop_for", "pop_batch"} /\ TakeThenNotify(c)

Call(c, op, n) ==
    /\ op \in PopCalls
    /\ pc[c] = "idle"
    /\ call' = [call EXCEPT ![c] = op]
    /\ count' = [count EXCEPT ![c] = n]
    /\ pc' = [pc EXCEPT ![c] = "pop_lock"]
    /\ UNCHANGED <<store, producing, history>>

Pop(c)       == Call(c, "pop", 1)
TryPopFor(c) == Call(c, "try_pop_for", 1)
PopBatch(c)  == \E n \in BatchCounts : Call(c, "pop_batch", n)

TryPop(c) ==
    /\ "try_pop" \in PopCalls
    /\ pc[c] = "idle"
    /\ LockFree
    /\ Size > 0
    /\ TakeAndNotify(c)

(* _judge_empty_cv.wait with its predicate, and what follows it.           *)
PopLock(c) ==
    /\ pc[c] \in {"pop_lock", "pop_relock"}
    /\ LockFree
    /\ \/ Size > 0 /\ TakeFor(c)
       \/ Size = 0 /\ closed /\ ReturnNull(c)
       \/ Size = 0 /\ ~closed /\ GoTo(c, "pop_sleep")

PopSleep(c) == pc[c] = "pop_sleep" /\ GoTo(c, "wait_empty")

(* wait_for gives up: it takes the mutex and evaluates the predicate once. *)
PopTimeout(c) ==
    /\ call[c] = "try_pop_for"
    /\ pc[c] = "wait_empty"
    /\ GoTo(c, "pop_timeout")
PopTimedOut(c) ==
    /\ pc[c] = "pop_timeout"
    /\ LockFree
    /\ \/ Size > 0 /\ TakeThenNotify(c)
       \/ Size = 0 /\ ReturnNull(c)

(* Mutant: try_pop_for frees a place and notifies nobody.                  *)
PopNotifyNobody(c) ==
    /\ pc[c] = "pop_notify"
    /\ Return(c, [pc EXCEPT ![c] = "idle"])
    /\ UNCHANGED <<store, producing, history>>

PopNotify(c) ==
    /\ pc[c] = "pop_notify"
    /\ \E at \in NotifyOne([pc EXCEPT ![c] = "idle"], "wait_full") : Return(c, at)
    /\ UNCHANGED <<store, producing, history>>

-----------------------------------------------------------------------------
(* close, clear, set_max_size *)

(* internal_close does not take the mutex.  missed records who has already *)
(* seen the predicate false and is not asleep yet.                         *)
Close(k) ==
    /\ "close" \in Controls
    /\ pc[k] = "idle"
    /\ closed' = TRUE
    /\ missed' = {t \in Threads : pc[t] \in Holding}
    /\ pc' = [pc EXCEPT ![k] = "close_empty"]
    /\ UNCHANGED <<max_storage_capacity, rank_unit_standard, producing, consuming,
                   result, accepts, ticket, delivered, lost>>

CloseEmpty(k) ==
    /\ pc[k] = "close_empty"
    /\ pc' = NotifyAll([pc EXCEPT ![k] = "close_full"], "wait_empty")
    /\ UNCHANGED <<store, producing, consuming, history>>

(* Mutant: close wakes one blocked submitter only.                         *)
CloseFullNotifyOne(k) ==
    /\ pc[k] = "close_full"
    /\ pc' \in NotifyOne([pc EXCEPT ![k] = "idle"], "wait_full")
    /\ UNCHANGED <<store, producing, consuming, history>>
CloseFull(k) ==
    /\ pc[k] = "close_full"
    /\ pc' = NotifyAll([pc EXCEPT ![k] = "idle"], "wait_full")
    /\ UNCHANGED <<store, producing, consuming, history>>

(* internal_clear reopens the queue, unbounds it and wakes nobody.         *)
Clear(k) ==
    /\ "clear" \in Controls
    /\ pc[k] = "idle"
    /\ LockFree
    /\ closed' = FALSE
    /\ max_storage_capacity' = 0
    /\ lost' = lost \cup {rank_unit_standard[i] : i \in 1..Size}
    /\ rank_unit_standard' = <<>>
    /\ missed' = {}
    /\ UNCHANGED <<pc, producing, consuming, result, accepts, ticket, delivered>>

SetMaxSize(k) ==
    /\ "set_max_size" \in Controls
    /\ pc[k] = "idle"
    /\ \E n \in NewCaps \ {max_storage_capacity} : max_storage_capacity' = n
    /\ UNCHANGED <<closed, rank_unit_standard, pc, producing, consuming, history>>

(* A condition variable may wake a waiter for no reason.                   *)
SpuriousWakeup(t) ==
    /\ pc[t] \in Asleep
    /\ GoTo(t, Resume(pc[t]))

-----------------------------------------------------------------------------
Pushing(p) ==
    \/ PushCheck(p) \/ PushLock(p) \/ PushSleep(p) \/ PushRelock(p)
    \/ PushNotify(p)
Fetching(c) ==
    \/ PopLock(c) \/ PopSleep(c) \/ PopTimeout(c) \/ PopTimedOut(c)
    \/ PopNotify(c)
Closing(k) == CloseEmpty(k) \/ CloseFull(k)

Next ==
    \/ \E p \in Producers : Push(p) \/ PushTooLate(p) \/ PushBatch(p) \/ Pushing(p)
    \/ \E c \in Consumers :
        Pop(c) \/ TryPop(c) \/ TryPopFor(c) \/ PopBatch(c) \/ Fetching(c)
    \/ \E k \in Controllers :
        Close(k) \/ Clear(k) \/ SetMaxSize(k) \/ Closing(k)
    \/ \E t \in Threads : SpuriousWakeup(t)

Spec == Init /\ [][Next]_vars

(***************************************************************************)
(* Fairness.  The operating system runs every thread that can run; a thread*)
(* that keeps asking for the mutex gets it sometime; a timed wait has an   *)
(* absolute deadline, which spurious wakeups do not postpone; and, for     *)
(* LivelyWorkers, a worker that is not in the queue comes back to fetch.   *)
(***************************************************************************)
FairThreads ==
    /\ \A p \in Producers :
        /\ WF_vars(PushCheck(p) \/ PushSleep(p) \/ PushNotify(p))
        /\ SF_vars(PushLock(p) \/ PushRelock(p))
    /\ \A c \in Consumers :
        /\ WF_vars(PopSleep(c) \/ PopNotify(c))
        /\ SF_vars(PopLock(c) \/ PopTimedOut(c)) /\ SF_vars(PopTimeout(c))
    /\ \A k \in Controllers : WF_vars(Closing(k))
LivelyWorkers == \A c \in Consumers : WF_vars(Pop(c) \/ TryPopFor(c))

FairSpec == Spec /\ FairThreads
LivelySpec == FairSpec /\ LivelyWorkers

-----------------------------------------------------------------------------
InQueue(u)     == \E i \in 1..Size : rank_unit_standard[i] = u
IsDelivered(u) == \E i \in DOMAIN delivered : delivered[i] = u
At(location)   == {t \in Threads : pc[t] = location}

(* Units leave the queue in the order in which they entered it, none of    *)
(* them twice: whoever the submitters and workers are, and however their   *)
(* calls interleave with overwriting, batches, clear and close.            *)
FifoDelivery ==
    LET run == delivered \o rank_unit_standard
    IN  \A i, j \in DOMAIN run : i < j => ticket[run[i]] < ticket[run[j]]

(* A queue never grows beyond the capacity it has at that moment, although *)
(* a blocked submitter looked at the queue long before it is let in.       *)
GrowsWithinCapacity ==
    [][Size' > Size => max_storage_capacity = 0 \/ Size' <= max_storage_capacity]_vars

(* No worker sleeps through a unit: while one is asleep on _judge_empty_cv *)
(* every queued unit has a worker on its way to it, or a notification that *)
(* its submitter still has to send.                                        *)
NoUnitSleptThrough ==
    At("wait_empty") # {} =>
        Size <= Cardinality(At("pop_relock")) + Cardinality(At("push_notify"))

(* No submitter sleeps through a free place: the same for _judge_full_cv.  *)
(* It needs fetches of one unit, a queue that is not closed, and a capacity*)
(* nobody changes.                                                         *)
NoRoomSleptThrough ==
    At("wait_full") # {} /\ ~closed =>
        max_storage_capacity - Size
            <= Cardinality(At("push_relock")) + Cardinality(At("pop_notify"))

(* Nobody sleeps next to what it waits for.                                *)
NobodySleptThrough == NoUnitSleptThrough /\ NoRoomSleptThrough

(* close stores the flag without the mutex, so it can leave a thread asleep*)
(* for ever: but only one that had found its predicate false before the    *)
(* store and went to sleep after the notification.                         *)
CloseStrandsOnlyRacers ==
    closed /\ (\A k \in Controllers : pc[k] = "idle")
        => At("wait_empty") \cup At("wait_full") \subseteq missed

(* Every timed fetch returns, close or no close.                           *)
TimedFetchReturns ==
    \A c \in Consumers : call[c] = "try_pop_for" ~> pc[c] = "idle"

(* While workers keep fetching, a unit that was accepted is fetched or lost*)
(* to an overwrite, even if the queue is closed meanwhile.                 *)
AcceptedIsFetched ==
    \A u \in Units : result[u] = "true" ~> IsDelivered(u) \/ u \in lost

(* While workers keep fetching, a submitter that went to sleep on a full   *)
(* queue does not sleep for ever, even if close missed it.  That is all it *)
(* says: woken, it may find the queue full again and go back to sleep, as  *)
(* often as others take the room first.                                    *)
BlockedPushReturns ==
    \A p \in Producers : pc[p] = "wait_full" ~> pc[p] # "wait_full"

(* Timed fetches and blocked submitters come back.                         *)
WaitsEnd == TimedFetchReturns /\ BlockedPushReturns

(* The queue, seen from outside, is the channel the thread pool relies on. *)
Channel == INSTANCE TaskChannel WITH
    waiting <- rank_unit_standard, handed <- delivered, discarded <- lost
ImplementsChannel == Channel!Spec
=============================================================================
