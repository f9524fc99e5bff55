# A verification project for CodeLab-MultiLang

The repository is a collection of C++ libraries, programs and exercises. The
part with logic of its own, and with threads, is `src/Asio/model`: a thread pool
(`sched`), lock-wrapped containers (`concurrent`), containers written by hand
(`container`) and a network layer (`network`) that uses the thread pool; beside
it stands the small thread pool of `src/Encapsulation`. This project models them
as TLA+ modules, checks the models with TLC on small instances, and proves with
TLAPS, for every instance, the main safety properties of the task queues, the
task object, the scheduler, the pool's life, sessions and their pool, the
transponder, the locked and the waiting containers and those that own memory by
hand.

Paths below are relative to `src/Asio/model` unless they say otherwise.

## 1. Inventory

### The thread pool (`sched`)

| Component | State | Operations | What is hard |
|---|---|---|---|
| task queue, `rank.hpp` | a list (FIFO), multiset (priority) or set (deferred), `_closed`, a capacity, a mutex, two condition variables | `push` with four backpressure modes and with a deadline, `push_batch`, `pop`, `try_pop`, `try_pop_for`, `pop_batch`, `clear`, `close`, `set_max_size` | `_closed` is written and read without the mutex; every notification wakes one thread; batches |
| task object, `unit.hpp` | atomic `_state`, a promise, a ready flag, a mutex and a condition variable, a timeout callback; dependencies and a kept answer about them | `execute`, `cancel`, `mark_timeout`, `handle_timeout`, `wait`, `wait_for`, `get_result`; `add_dependency`, `are_dependencies_satisfied`, `wait_for_dependencies` | state, promise and flag are written in separate steps, in an order that differs from path to path, outside the mutex |
| worker, `worker.hpp` | thread, stop flag, state | `start`, `stop`, the fetch loop, `detach` | a task that throws ends the thread |
| scheduler, `scheduling.hpp` | the list of workers and its mutex, flags, metrics, a monitor thread, a scaling thread | `start`, `stop`, `submit_uint`, scaling by itself and by hand | counts are read under one lock and used under another; joins happen with the lock held |
| thread pool, `thread_pool.hpp` | `_state`, `_state_mutex`, the map `_active_tasks` and its mutex, monitor and profiler threads | `start`, `stop`, `pause`, `resume`, `restart`, `auto_repair`, `submit*`, `cancel*`, `wait*`, resizing | `stop` gives its mutex up while it waits; the state is read without it |

A submitter calls `thread_pool::submit`, which tests the pool's state, lets the
scheduler push the task into the queue and puts it into `_active_tasks`. The
workers fetch from the queue and call `execute`. The scheduler's scaling thread
adds and removes workers by the length of the queue. Clients hold the task
object (or its future) to wait for it or cancel it.

What makes it correct: the queue delivers what it accepts, once and in order,
and nobody sleeps next to work; a task runs once at most and its future agrees
with its final state; the number of workers keeps its bounds, and no thread is
left unowned; a stop ends, one at a time, and leaves nothing running.

### The network layer (`network`)

| Component | State | Operations | What is hard |
|---|---|---|---|
| session, `session/fundamental.hpp` | `_state`, a socket, plain or under TLS, one buffer, the callbacks, a heartbeat timer | `async_connect` and `connect` by name and by address, `adopt_socket`, `start`, `async_write`, `send`, `close` | completions of an old operation arrive after `close` and a new connect, and each sets `_state` without looking |
| session_management, `session/conversation.hpp` | the map of sessions and its mutex, a clean-up timer, a thread pool or none | `start`, `stop`, `add_session`, `create_session`, `remove_session`, the clean-up | clean-up and late additions against `stop` |
| connection_pool, same file | per endpoint a queue of idle sessions, a map of lent ones, a mutex and a condition variable; a health-check timer | `borrow`, `try_borrow`, `give_back`, `invalidate`, preheating, the health check, `start`, `stop`, `add_endpoint`, `remove_endpoint` | `borrow` connects with the lock released |
| transponder, `business/forwarder.hpp` | `_stopping`, a count of tasks, a condition variable | `forward_sync`, `forward_async`, `stop`, `shutdown` | a gate on a count that tasks raise only when they run; reads that share a buffer |
| messages, `agreement` | header, body and the text they were last turned into | setters, `to_string`, `from_string`, `to_json`, `from_json`, copies, moves | the kept text against the setters; what one side writes and the other refuses |
| `crypt` | none | calls into a library | — |

A transponder borrows a session from the connection pool for each request,
sends, waits for the reads to collect an answer, and gives the session back or
invalidates it. Completions, timers and the pool's health check run on the
thread of the `io_context`.

What makes it correct: a session is lent to one borrower at a time, the number
of sessions keeps its maximum up to what is being connected, a borrower returns;
a closed session stays closed and every connect reports once; what died is
forgotten; a request gets its own answer; shutdown says "drained" only when it
is.

### Containers (`concurrent`, `container`) and `src/Encapsulation`

* **Locked containers**: fifteen classes with a standard container and a
  `shared_mutex`. Hard: methods on two objects. Correct: nobody touches what
  another writes, ordered swaps do not wait in a circle.
* **Waiting containers**: `concurrent_stack`, `concurrent_queue`,
  `concurrent_priority_queue`, and a ring between two semaphores. Hard: `swap`
  moves elements and bounds from under those who wait.
* **Containers by hand**: three search trees, a hash table, a heap, list,
  string, vector, four smart pointers. Sequential; hard are rotations,
  repainting, rehashing, shifting in place and the ownership of memory.
* **Encapsulation**: a closable queue and a pool whose workers keep references
  into a vector that grows and shrinks.

Everything else is exercises, samples, user interfaces, assets and third-party
code; `src/Linux/tcp_internet/module` is an older copy of `sched`.
`PROJECT.json` lists all of it under "components", and under "hazards" what in
this code is hard to test, each at its line.

## 2. Modules

| Module | Models | Checked in |
|---|---|---|
| `TaskChannel` | abstract: what the pool relies on in its queue | refined by `RankStandard` |
| `RankStandard` | `rank_standard`, every operation, submitters, workers, controllers | `MCRankStandard`, `RankStandard_proofs` |
| `OrderedRank` | `rank_priority` and `rank_deferred` | `MCContainers`, `Containers_proofs` |
| `TaskLife` | abstract: the life of a task and its answer | refined by `Unit` |
| `Unit` | `unit_ordinary`, `unit_standard`, `unit_overtime` under executors, cancellers, timers, waiters | `MCUnit`, `Unit_proofs` |
| `Reliance` | the dependencies of a `unit_reliance` and the kept answer about them | `MCUnit`, `Unit_proofs` |
| `Scheduler` | `scheduler_ordinary` with its adaptive workers | `MCScheduler`, `Scheduler_proofs` |
| `ThreadPool` | the life of a `thread_pool` | `MCThreadPool`, `MCPools`, `ThreadPool_proofs` |
| `ClosableQueue` | `pros_cons_queue` of Encapsulation | `MCContainers`, `Containers_proofs` |
| `EncapsulatedPool` | `con::thread_pool` of Encapsulation | `MCPools` |
| `LeaseBook` | abstract: who has each session | refined by `ConnectionPool` |
| `ConnectionPool` | `connection_pool` | `MCConnections`, `MCNetwork`, `ConnectionPool_proofs` |
| `Transponder` | the transponder, and of the sessions it uses the reads, the buffer and the handler | `MCNetwork`, itself, `Transponder_proofs` |
| `Session` | one session | `MCSession`, `MCConnections`, `ConnectionPool_proofs` |
| `SessionManagement` | the manager of sessions | `MCSession`, `MCConnections`, `ConnectionPool_proofs` |
| `SharedContainers` | the locks of every method of the fifteen locked containers | `MCContainers`, `SharedContainers_proofs` |
| `BlockingContainers` | the waiting containers | `MCContainers`, `Containers_proofs` |
| `AnnularQueue` | the ring between two semaphores | `MCContainers`, `Containers_proofs` |
| `SimulatedTrees`, `SimulatedHash`, `SimulatedHeap` | trees, hash table, heap: the algorithms | `MCContainers` |
| `SimulatedList`, `SimulatedString`, `SimulatedVector` | nodes, characters, elements under every edit | `MCContainers` |
| `SimulatedBuffers`, `SimulatedPointers` | who owns which memory | `MCContainers`, `Containers_proofs` |
| `ProtocolMessages` | the custom messages | `MCContainers` |

`MCRankStandard`, `MCScheduler` and `MCThreadPool` only name model values and
symmetries. `MCUnit`, `MCPools`, `MCConnections`, `MCNetwork`, `MCSession` and
`MCContainers` put components side by side that do not act on each other:
`part`, chosen at the start, says which of them a behaviour is about, the other
components stay as they began (in one initial state, so that nothing is explored
twice), and a property of such a module is the conjunction of what it asks of
each part. A property of a component is written in its own module.
`MCContainers` takes two of its groups from `MCWaiting` (the containers at which
threads wait) and `MCMemory` (those that own memory by hand). These two have the
constants, specifications and properties that the theorems are about, with any
threads, objects and blocks; `MCContainers` adds the parts whose modules have
recursive operators, which a module with theorems cannot use. So do `MCUnit` and
`MCConnections` with theirs: what is fixed in `unit_life.cfg` and
`connections.cfg` is a constant in the theorems.

Each module is built on the promises of the one before. `Scheduler` and
`ThreadPool` use the queue as a sequence whose front is fetched in one step,
which is what `TaskChannel` says and `RankStandard` implements; they take a
task's start and end as the single steps of `TaskLife`. `Transponder` uses the
pool as `LeaseBook` describes it: it lends what is idle, or a new session, or
nothing. `SessionManagement` uses a session as something that connects, or not,
and ends. `EncapsulatedPool` uses `ClosableQueue` by what its waits promise.

**RankStandard.** `pc` says where each thread is; a location ends where the
mutex is released or where `_closed` is read or written outside it. A push is
`Push` (call), `PushCheck` (the test of `_closed` before the mutex), `PushLock`
(the critical section, with the four backpressure modes as its disjuncts),
`PushSleep`/`PushRelock` (the wait on `_judge_full_cv`: a thread that found its
predicate false holds the mutex until it sleeps), `PushNotify`. Fetches are
alike. `close` is three steps: the flag, and two notifications. Condition
variables wake one sleeper, or all, or anybody spuriously. `ticket`,
`delivered`, `lost`, `accepts`, `result`, `missed` are history.

**OrderedRank.** The same protocol over a set: `rank_priority` hands out
`begin()`, the lowest priority first, and `rank_deferred` the latest unit, which
waits if it is not due. `pop_batch` sleeps in `rank_priority` until there are
units or the queue is closed (`"dozes for units"`, `"collects again"`); in
`rank_deferred` it takes what is there. What is done under the mutex is one
step, but for the moment between a predicate and its sleep, when only `close`
can come. A fetch that follows `end()` ends the run with the fate "end".

**Unit.** Each atomic access to the state, each use of the promise, each store
to the ready flag and each notification is a step. A task may be fetched by
several executors, which is what submitting it twice does. The function returns,
throws a `std::exception`, or throws something else. **Reliance** splits
`are_dependencies_satisfied` at its two atomics and at the mutex between them;
the kept answer expires at any time.

**Scheduler.** The owner starts and stops; a start may fail at a worker, or at
the thread of the monitor or of the scaling (`StartThreads`), which leaves the
flag `_running` set. The owner, `monitor`, the scaling thread (`"auto"`),
threads that scale by hand and the workers interleave. A scaling operation is
`Evaluate` or `ManualScale`, `ReadCount` (under the lock), `ScaleUp` or
`ScaleDown`/`Remove` (under the lock again), with joins as steps of their own
while the lock is held. Differences are taken modulo `SizeMod`, as `size_t`
does. The smoothed load is drawn from `Levels` instead of computed; windows and
cool-down are kept.

**ThreadPool.** `Stop` is split where the code releases or waits: the state and
the queue; the unlocked wait; the mutex again; the scheduler; the join; the map;
the monitor. `Resume` is split around the join of the old workers. Clients hold
`_tasks_mutex` shared while they are at `"wait"`, and the monitor waits for that
mutex whenever it cleans (`MonitorClean`). A start fails in one of three places:
at a thread of the monitor or the profiler, after which everything is cleaned up
(`CleanUpOnError`); at the scheduler's own threads, which leaves the scheduler
running in a pool in the state "error"; or at a worker. `broken` records the
last; the workers made before stay alive, as in the code, and such a pool is
stopped but not started a second time (a later start would add workers to the
left-over ones). The handlers of `stop` are left out: nothing that it calls
throws as long as no worker calls it.

**EncapsulatedPool.** `slots` is `_workers_thread`, which begins with `max`
empty records; a worker's `home` is the record its reference points to: another
worker's after an erase, freed memory after a growth, where it reads a token
that nobody sets. Adding a worker, joining one that is removed, and each step of
the destructor are steps of their own.

**ConnectionPool.** A call looks its pool up, then takes the pool's mutex: two
steps, between which the endpoint may be removed. `Look` is one turn of
`borrow`'s loop under the mutex, `BorrowConnect` and `BorrowCheck` the connect
without it and the insertion, `BorrowWake` the end of its wait. `Refill` is
preheating, with `_map_mutex` held shared (`reading`). `named` says whether the
endpoint is known by a host name, which `give_back` cannot find again. Sessions
die at any time.

**Transponder.** Each request is a thread: the gate, the count, the second look
at `_stopping`, borrowing, sending, waiting, and the guard that lowers the count
and notifies. The thread is its own, or one of the thread pool that was given to
the transponder; such a request waits (`"pooled"`) until one of `Workers` is
free, and `shutdown` stops and joins them. `Send` is the write of the request,
which ends when the upstream has read it or the connection has failed, or never:
the code gives it no deadline. A forward adds one read loop to the session, as
`start()` does, all reads share one buffer, and a forward that gives up leaves
its answer on the way.

**Session.** Each call of `async_connect`, `connect`, `adopt_socket` and `start`
(under TLS) has a stage of its own, so that a completion of an old one can
arrive after `close` and a new one. `called` counts the reports of each.
`crossed` is history: a close and a connect overlapped. **SessionManagement**
collects under the shared lock and removes one session at a time under the
unique one.

**SharedContainers.** A method is a record: which objects it locks, shared or
not, in which order, and what it reads and writes inside. `bare` says what it
writes without a lock: the source of the two moves of
`concurrent_unordered_multiset`. Threads call methods of one class on several
objects and interleave lock by lock. Of the containers' elements nothing is
kept.

**The containers by hand** are pure algorithms with one action per method. A
node of a tree is named by its key; an operation that would follow a null
pointer or never ends gives the structure a fate, after which nothing more is
asked of it. `SimulatedVector`, `SimulatedString` and `SimulatedList` keep a
reference beside the block or the nodes: the sequence or text that the
description at the head of the file promises for the edit. Where the code is
known to do something else, a fate names the case, nothing more is asked of that
object, and section 6 lists it. `SimulatedHash` keeps what was put in and what
its list shows in the same way. `SimulatedBuffers` and `SimulatedPointers` keep
who refers to which memory and which memory is freed.

**ProtocolMessages.** A string is one of a few classes by what the reader can
tell apart (words, length, surrounding blanks); writing and reading are modelled
by what they make of each class.

## 3. Runs

| Run | Instance | What it shows |
|---|---|---|
| `rank_policies` | 2 submitters, 1 worker, all modes, batches, clear, close, capacity 1 to 2 | units leave in order (`FifoDelivery`) and the queue implements `TaskChannel` (`ImplementsChannel`) |
| `rank_liveness` | 2 blocking submitters, 1 worker, 1 controller that closes, 3 units, capacity 1 | no notification is lost (`NobodySleptThrough`); `close` strands only a thread caught between its predicate and its sleep (`CloseStrandsOnlyRacers`); timed fetches and blocked submitters return (`WaitsEnd`), accepted units are fetched (`AcceptedIsFetched`) |
| `unit_life` | 2 executors, canceller, timer, 2 waiters, `unit_overtime`; or 2 threads that ask for the dependencies of a task and 1 that adds | one run, one answer that agrees with the end, one callback (`RunsOnce`, `AnswerMatchesState`, `CallbackOnce`); waiters wake (`NoWaiterSleepsThrough`, `AskersHear`); success and satisfaction are told truly (`AnswersAreTrue`); the object implements `TaskLife` |
| `sched_scaling` | 1 to 2 workers, steps of 2, every task throws | the scaling thread keeps the bounds (`ScalingKeepsBounds`), no task is lost or doubled (`TaskIsSomewhere`) |
| `sched_stop` | a thread that scales down by hand, failing creation of any thread, tasks that throw or are late | stop returns and ends the workers (`StopReturns`, `StopEndsWorkers`), no thread is unowned (`NoOrphan`), queued tasks end (`QueuedTasksEnd`) |
| `pool_lifecycle` | 2 controllers, 1 client, 2 tasks, 2 workers, a start that fails in each of its places; or the Encapsulation pool with 0 to 1 workers kept, 3 threads, 1 task | a stop leaves nothing running (`StoppedIsQuiet`) and loses no task (`AcceptedIsKept`); stop, and the destructor, return (`EndsReturn`) |
| `pool_resume` | 1 controller, 1 client | *violated*: a resumed pool serves (`RunningServes`) |
| `connections` | 2 borrowers, 1 manager, 2 sessions, an endpoint with minimum and maximum 1; or 1 session with 2 connects and 1 calling thread; or a manager with 2 sessions | what is lent is known (`LentAreKnown`), the maximum is passed by the connecting borrowers at most (`FewAboveMaximum`), the pool implements `LeaseBook`; nothing is connected behind the back of who closed it (`ClosedIsQuiet`) |
| `network_live` | 1 borrower, 1 manager, 2 sessions; or 2 requests over 1 session, answers of 2 pieces, 1 task at a time, on own threads or on the 1 of a pool | a borrow returns (`BorrowReturns`), dead sessions are forgotten (`ZombiesForgotten`); requests return, or stay in a write or behind one (`RequestsReturn`), shutdown is woken (`ShutdownIsWoken`) and tells the truth (`DrainedIsQuiet`) |
| `network_answers` | 3 requests over 1 session, answers of 2 pieces | *violated*: each request gets its own answer (`OwnAnswer`) |
| `session_live` | 1 session, plain or under TLS, 1 connect, 1 thread beside the `io_context`'s; or a manager with 2 sessions | what died is given up (`DeadAreForgotten`), every connect reports and comes to rest (`SessionSettles`) |
| `containers` | one of fourteen parts, see below | contents and texts are as described but for the named exceptions (`ContentsAreKept`), a ring keeps order and an ordered queue hands a unit out once (`OrderIsKept`), memory has one owner (`MemoryHasOneOwner`), writers are alone but at the source of two moves (`WritersAreAlone`), ordered swaps have no circle (`NoCircle`), nobody sleeps through (`NobodySleepsThrough`), a push keeps the colours (`PushKeepsColours`) |

**Bounds and why they are enough.** A capacity of one makes a queue full and
empty in turn; two threads on each side make a notification that reaches the
wrong one possible, and three units let one be queued, one be blocked and one be
late; one worker is enough for what `rank_liveness` asks, because
`NobodySleptThrough` is proved for any number. Two executors, a canceller and a
timer are every pair of writers of a task's state; a task of `unit_life` may be
queued once or twice, since keeping one's success is only promised to the first
kind. Scaling between one and two workers with steps of two meets both bounds,
and the third worker object of `sched_scaling` would be needed only if the upper
one failed. Two controllers are what overlapping stops need.

A connection pool of one session, with two borrowers, makes the second one wait,
connect beside the first or find what the first left; two sessions in all let
one die while the other is used. The transponder's requests share one session,
so that an answer given up can meet the next request, and answers of two pieces
let two reads interleave; a wrong answer needs a third request. One thread in
the pool of threads lets a request wait behind the write of another. A session's
two connects let the completion of the first arrive during the second;
`session_live` has one, followed by an `adopt_socket`, a handshake or a `close`
that overlaps it. One thread calls the session: with two, `ClosedIsQuiet` would
not hold (section 6).

In `containers`, the trees have six keys, which is what the deepest case of a
repaint and every double rotation need; the hash table has four nodes and grows
twice; the heap has seven elements, three full levels; strings and vectors have
three and four places, lists four nodes beside the head; two objects own memory,
which makes self-assignment, exchange and copies possible; three smart pointers
share two things; two threads meet in two locked containers, the smallest
circle, and three in two waiting ones or at a ring of three slots, whose
counters wrap at eight; four threads, two of each kind, share a closable queue
of two; the ordered queues have two submitters, two fetchers and room for one;
two messages differ in one field or one value.

Every bound is a constant in a configuration or in the `INSTANCE`s of an `MC`
module; the actions have no others. The state spaces are finite because a unit,
a task or a request is submitted once, because a worker or session object that
nobody refers to is used again, and because counts wrap as in the code.

Deadlock is checked in `connections` and in the pool runs, where `SessionRests`
and `AtRest` say when a session and the Encapsulation pool have nothing left to
do. It is not in the others, where the system may stop: all units are used up, a
structure has met its fate, or a thread that `close` missed sleeps for ever,
which is what `CloseStrandsOnlyRacers` describes exactly.

**What the violated runs show.** `pool_resume`: `resume` makes a scheduler and
does not start it. The pool says that it is running and refuses every task.
`network_answers`: each forward adds a read loop to the pooled session, and all
of them read into one buffer. A piece handed over late is read from a buffer
that the next answer has already overwritten, so that a request can be given the
answer of another. With answers that come in one read this cannot happen, which
is proved.

## 4. Fairness

Fairness asks for what an operating system gives. Every thread that can run does
(weak fairness on its steps); a thread that keeps asking for a mutex gets it
(strong fairness on taking a lock); timed waits have absolute deadlines, which
spurious wake-ups do not postpone; tasks end. Nobody is obliged to submit,
cancel, pause, stop, close or connect.

* `LivelySpec` of `RankStandard` adds that workers come back to fetch; `MCSpec`
  of `MCUnit`, that a pending task is handed to a worker.
* `Scheduler` asks that a cool-down ends and that a worker that keeps fetching
  meets the queue while it is not empty.
* `ThreadPool` lets one client call `wait_for_unit` (`Waiters`). With two, calls
  that overlap without end hold `_tasks_mutex` shared for ever, and under a
  mutex that prefers readers `stop` never gets it: TLC finds that behaviour at
  once. Whether it can happen depends on the platform's `shared_mutex`.
* `MCPools` asks the same of the workers, the monitor and the destructor of the
  Encapsulation pool.
* `MCNetwork`: connection attempts end, a borrow's wait ends at its deadline and
  its last turn is not starved of the mutex, timers fire. The threads of
  requests go on, and a running thread pool lets a free thread take what waits;
  the upstream owes nothing. The waits for an answer have a deadline. The write
  of a request has none, so that no fairness is asked of it: `RequestsReturn`
  says that a request comes back or stays in its write, or in the queue of a
  pool whose threads are all in such writes or which was stopped.
* `MCSession`: the network answers a connect, one way or the other (strong
  fairness, since an open socket may be closed under it); a blocking write owes
  nothing, as above; the `io_context` runs a completion that is ready however
  much else is, and the manager's timer and thread pool work.

## 5. Proofs

Eight modules prove, for every value of the constants:

| Theorem | Property | On an instance |
|---|---|---|
| `RankTypeOK` | `TypeOK` of `RankStandard` | — |
| `RankImplementsChannel` | `RankStandard` implements `TaskChannel` | `rank_policies` |
| `FifoAlways` | `FifoDelivery` | `rank_policies` |
| `CapacityKept` | the queue never grows beyond its capacity of that moment (`GrowsWithinCapacity`) | — |
| `StrandedRaced` | `CloseStrandsOnlyRacers` | `rank_liveness` |
| `UnitsAreNotSleptThrough`, `RoomIsNotSleptThrough`, `NobodySleepsNextToIt` | the two halves of `NobodySleptThrough`, and both | `rank_liveness` |
| `UnitTypeOK` | `TypeOK` of `Unit` | — |
| `UnitRunsOnce`, `UnitAnswers`, `UnitWakesWaiters`, `UnitCallsBackOnce` | `RunsOnce`, `AnswerMatchesState`, `NoWaiterSleepsThrough`, `CallbackOnce` | `unit_life` |
| `UnitEndIsFinal` | no step changes the end of a task (`TerminalIsFinal`) | part of `ImplementsTaskLife` |
| `UnitImplementsTaskLife` | `Unit` implements `TaskLife` | `unit_life` |
| `UnitAnswersAreTrue` | `AnswersAreTrue`: a success is kept, satisfaction is told truly | `unit_life` |
| `SchedulerTypeOK` | `TypeOK` of `Scheduler` | — |
| `WorkersAreOwned` | `NoOrphan` | `sched_stop` |
| `WorkersAreJoined` | a worker object is destroyed only after its thread ended | — |
| `StopLeavesNobody`, `StoppedPoolsRest` | the step that returns from `stop` leaves no worker; none comes before the next start (`StopEndsWorkers`) | `sched_stop` |
| `TasksAreKept` | `TaskIsSomewhere` | `sched_scaling` |
| `OwnScalingKeepsBounds` | `ScalingKeepsBounds` | `sched_scaling` |
| `PoolTypeOK` | `TypeOK` of `ThreadPool` | — |
| `PoolOneStopper` | one controller is inside `stop` (`OneStopper`) | — |
| `PoolStoppedIsQuiet` | `StoppedIsQuiet` | `pool_lifecycle` |
| `PoolAcceptedIsKept` | `AcceptedIsKept` (an action property) | `pool_lifecycle` |
| `ConnectionPoolTypeOK` | `TypeOK` of `ConnectionPool` | — |
| `LentSessionsAreKnown` | `LentAreKnown` | `connections` |
| `PoolIsALeaseBook` | `ConnectionPool` implements `LeaseBook` | `connections` |
| `MaximumIsPassedByFew` | `FewAboveMaximum` | `connections` |
| `SessionsCloseQuietly` | `ClosedIsQuiet`: of a session, and of the manager | `connections` |
| `TransponderTypeOK` | `TypeOK` of `Transponder` | — |
| `TransponderDrains`, `TransponderWakes` | `DrainedIsQuiet`, `ShutdownIsWoken` | `network_live` |
| `TransponderHolders` | a session has one holder, and reads for it alone | — |
| `TransponderOwnAnswer` | `OwnAnswer`, when an answer comes in one read | `network_answers` |
| `LockedWritersAreAlone` | `WritersAreAlone` | `containers` |
| `OrderedLocksDoNotCircle` | `NoCircle` | `containers` |
| `NobodySleepsBesideWork` | `NobodySleepsThrough` | `containers` |
| `OrderIsAlwaysKept` | `OrderIsKept`: of the ring, and of the ordered task queues | `containers` |
| `MemoryIsOwnedOnce` | `MemoryHasOneOwner` | `containers` |

**Assumptions.** Those the modules name: roles of threads are disjoint, names
such as "none" name no thread or session, inputs have their types,
configurations satisfy what `pool_config::validate` asks. What is counted is
finite: worker places, borrowers, sessions, requests. A theorem that needs more
says so:

* `UnitsAreNotSleptThrough` needs finitely many threads and no `pop_batch` of
  zero, which would use up a notification and take nothing.
  `RoomIsNotSleptThrough` needs that units are fetched one by one and that
  nobody calls `set_max_size`: a batch frees several places and wakes one
  submitter, a larger capacity wakes nobody.
* `StoppedPoolsRest` needs that nobody scales up by hand and that a start that
  fails has made no worker; `OwnScalingKeepsBounds`, that only the scaling
  thread scales and that workers can be created. Section 6 says what happens
  otherwise.
* `TransponderOwnAnswer` needs answers of one piece (`Chunks = 1`); with two,
  the run `network_answers` is the counterexample.
* `UnitAnswersAreTrue` needs that who asks for the dependencies of a task and
  who adds to them are different threads (`DependentAssumption`).
* `SessionsCloseQuietly` has one thread that calls the session, beside the one
  of the `io_context`. With two it is false: a connect that the first thread has
  begun is refused to the second, which stores DISCONNECTED over it.
* `NobodySleepsBesideWork` needs that nobody calls `pop_batch` for no units,
  which would use up a notification (`BatchAssumption`). It and
  `OrderIsAlwaysKept` need finitely many threads, numbers for units and
  capacities, and a ring of one slot at least whose count does not wrap below
  its length (`WaitingAssumption`; the constructor makes one slot of a capacity
  of zero, and the count is a `size_t`). `RingKeepsOrder` says nothing of a ring
  after a `clear` that came on a ring with free slots or beside another call:
  `clear` then gives back too many permits. `MemoryIsOwnedOnce` needs finitely
  many pointers that count, and that null is no block, object or counter
  (`MemoryAssumption`).
* The theorems about locked containers take objects to be numbers, which are
  their addresses; `LockedWritersAreAlone` says nothing of the object that a
  move of a `concurrent_unordered_multiset` empties, of which the code takes no
  lock; `OrderedLocksDoNotCircle` needs finitely many threads.

**The arguments.**

*The queue* (`RankStandard_proofs`). `FifoDelivery` says that the delivered
units followed by the queue have rising tickets. It is not inductive: one has to
know that those tickets are below the next to be given, and that a unit which a
submitter still carries is not among them. With this every step appends the
newest ticket, drops an element, or moves the front across the border. Capacity
follows from the guard each enqueue is under *at that moment*: a submitter that
slept is let in by the predicate it evaluates after it has the mutex again.
`CloseStrandsOnlyRacers` needs to know where the closing thread is: between its
flag and its two notifications a sleeper may be there without having raced;
after them only one that was at its predicate when the flag was stored.

*The queue as a channel.* A step of the queue brings one unit in, takes some
from the front, drops the newest to make room, empties it, or leaves the
contents as they are: each action is shown to have one of these effects on queue
and history, and each effect to be a step of `TaskChannel` or none.

*Sleeping at the queue* (the same module). The invariant counts: while anybody
sleeps for units, there are at most as many units as threads that are awake on
their way to one or still owe a notification (`UnitsCovered`); the same for
places (`RoomCovered`). It needs that who is about to sleep found nothing and
keeps the mutex until it sleeps (`FoundNone`, `FoundFull`), and what fetches
asked for (`AskingFor`). One lemma about numbers (`Covers`) says when a step
keeps such an inequality: sleepers do not grow, and the units grow by no more
than the threads on their way. Every step but falling asleep is an instance of
it.

*The task* (`Unit_proofs`). The invariant ties each program counter to what it
implies of state, promise, flag and counters: who has moved the state to
"running" is the only one that runs; who has ended the task is the only one that
has still to notify. From it follow the state properties, each action property,
and the refinement: a step of the object either leaves state and promise alone
or is a step of `TaskLife`. For `SuccessIsKept`, `KeptInv` says of a task that
is queued once that its promise is empty as long as its one executor runs the
function and until it stores the value: cancellers and timers answer only a task
they found pending. A function that returned has its executor on the way to
"completed", or is there. For `SatisfiedIsTrue`, `DependentInv` says that a kept
answer is true of everything added so far, which holds because who adds, resets
and examines does so under the mutex; an asker that reads the answer without it
is owed only what had been added when it asked.

*The scheduler* (`Scheduler_proofs`). `StructInv` says that `_workers_mutex` is
held across steps by the thread that removes workers or by the owner while it
stops them (`MutexInv`), that the workers that exist are exactly those in
`_workers`, each once (`OwnedInv`), and what a join has passed (`JoinInv`).
`NoOrphan` is a part of it, and so is what a destroyed worker was. To
`StopEndsWorkers` it adds where the scaling thread is while the owner stops
workers (`StoppedInv`): it was joined before, so only others could add any.
`TaskInv` gives a task that is fetched one worker, and a queued one its place in
the queue. `RoomInv` carries the count that the scaling thread read across the
moment at which it holds no lock: what it has still to add or remove fits the
workers there are, because nobody else changes their number.

*The pool's life* (`ThreadPool_proofs`). `stop` gives the mutex up while it
waits for the running tasks, so the mutex alone does not keep a second
controller out: the state "stopping" does. The invariant ties each program
counter both to the mutex and to the state: whoever is inside `stop` keeps it at
"stopping", and is the only one. For `StoppedIsQuiet` one also has to know that
the scheduler is "stopping" only while a controller joins its workers, that an
idle scheduler has no workers unless a start failed at a worker, and that only a
worker which executes holds a task; the locations of `stop` carry "the scheduler
is idle" from the join to the last assignment. `AcceptedIsKept` follows from the
same invariant in two lemmas: what leaves the queue goes to a worker that had no
task (`LeavesQueue`; only `resume` replaces the queue), and a worker lets go of
its task only when the task has ended (`LetGo`).

*The connection pool* (`ConnectionPool_proofs`). Every session is in one place:
in one queue, once, or in one hand, or under way in one thread (`Apart`).
`LentInv` adds that open sessions in a hand are among the lent ones. The actions
are many and the ways in which they move sessions few: `Effect` lists them (a
session is connected, lent, lands, comes back, is admitted or released, or
nothing but losses happen), one lemma shows that each action has one of these
effects, and the invariant, the refinement and the count are proved effect by
effect. In `LeaseBook` a session's lessee is a function of hands, open sessions
and queues (`LesseeOf`), so each effect changes it as one step of the book. For
`FewAboveMaximum`, the open sessions and those being connected are counted
together: a borrower joins the count only where the pool is below its maximum
(`ArrivesBelow`), and afterwards each turns into one session at most.

*Sessions and their manager* (`ConnectionPool_proofs`, at its end). Either
nobody connects, and a live connection has a state that says so and nobody about
to store DISCONNECTED over it (`Resting`); or one connect is under way and
nobody closes, and the state or the place of its caller tells how far it is
(`Calling`). A close that begins meanwhile sets `crossed`, after which nothing
is claimed. Every step of the session is one of four kinds (a call, a
completion, a step of a thread, something that happens by itself), and each kind
is shown to keep each of the two situations or to lead from one to the other.
The manager's half is inductive as it stands once types are added.

*The transponder* (`Transponder_proofs`). The counter is the number of the tasks
between their first statement and their guard (`CountInv`); a task counts itself
before it looks at `_stopping`, and `shutdown` stores `_stopping` before it
looks at the counter, so one of the two sees the other (`CloseInv`). A session's
handler works only for the request that has it and still waits (`HolderInv`).
For one-piece answers an open session has one piece at most, for the request
that still has the session (`PieceInv`).

*Locked containers* (`SharedContainers_proofs`). Each method of each class is
*proper*: it locks what it reads, locks for itself what it writes or not at all,
and, when it orders by address, never the same object twice. Going through the
fifteen classes is a proof of its own (`Classed`). A call then keeps this for
the objects it is called with, in either order of locks (`Called`,
`TurnedRound`), and two threads never have locks that exclude each other
(`Apart`). In a circle every thread would have one lock by address and want a
greater object than the one it has (`Climbs`); a finite circle has a thread that
wants the greatest (`Highest`, by well-founded induction on a number), and
nobody in it can block that thread.

*The waiting containers* (`Containers_proofs`). The counting argument of the
queue, once more and in general: sleepers S wait for n things, and W are on
their way (`Covered`: if S is not empty, n is at most the number of W). A step
keeps this if nobody is left asleep, or if it changes n, S and W in one of four
ways that balance (`Keeps`, `KeepsCovered`). Stack, queues, ordered queues and
closable queue are then a matter of saying, for each action and each object,
which way it is. `swap` needs more: until it has told everybody at both objects
they are exempt (`Telling`), and afterwards nobody sleeps there.

*The order of the ring* (`Containers_proofs`). The invariant says where the
elements stand, from `_consume` on and up to `_produce`, and counts permits:
each slot has a permit of `_sem_free`, a thread that took one and has not stored
yet, an element, or a thread that took its element and has not released it; and
the elements have permits of `_sem_used`, threads that stored and have not
released, or threads that may take (`Balanced`). So who may store finds a slot
without an element, and who may take finds an element, however many threads are
between the semaphores and the mutex. A `clear` breaks the balance for a while,
which is why it has to be alone (`ClearsAlone`).

*Units of the ordered queues* (the same module). `HandedOutOnce` is not
inductive: a unit that a blocked submitter still brings must be neither in the
queue nor handed out nor lost, and no second submitter may bring it
(`BroughtOnce`). That what a fetch takes is in the queue is a lemma about
`Greatest` and `Least`, by well-founded induction on the number of units.

*Memory with one owner* (`Containers_proofs`). The invariant adds to `OneOwner`
the types, that a destroyed object has no block, and that a vector without a
block has size and capacity zero. All operations change one object or two
(`OneBufferChanges`, `TwoBuffersChange`): what they put there has the block that
was there, a fresh one, none, or the other one's. A new block is fresh because
`room` has every block in use as its domain. For pointers the invariant says,
per kind, that objects have one owner (`SoleWell`) or that owners of one object
share one counter, which counts them (`SharedWell`); the lemmas
`SharedConstruct`, `SharedRelease`, `SharedMove` and their like say what making,
giving up, copying and moving a pointer does to these counts.

**Only model-checked.** Everything under fairness, which is out of the prover's
reach with `ENABLED`: `WaitsEnd`, `AcceptedIsFetched`, `AskersHear`,
`StopReturns`, `QueuedTasksEnd`, `EndsReturn`, `BorrowReturns`,
`ZombiesForgotten`, `RequestsReturn`, `DeadAreForgotten`, `SessionSettles`. Of
the safety properties: `ContentsAreKept` and `PushKeepsColours` of the
containers by hand and of the messages, and the Encapsulation pool. What the
recursive operators of `SimulatedTrees` compute for every tree is out of reach,
as induction over data is; a property that names them cannot be stated in a
module with theorems.

## 6. What was found besides

Seen while modelling, and not the subject of a run. Where a stronger property
than the one checked was tried, TLC refuted it.

*Task queue* (`sched/rank.hpp`)

* `push` tests `_closed` before the mutex (`:322`), so a unit can enter a queue
  after `close` returned (comment at `:217`). `pop_batch` frees several places
  and wakes one submitter (`:388`).
* `rank_priority`: the documentation says that a higher priority leaves first
  (`:459`); with `<` and `begin()` the lowest does (`:475`), and overwriting
  erases the highest. `clear` sets the capacity to 0 and wakes nobody (`:661`).
  `pop_batch` of no units waits for one, takes nothing and uses the notification
  up (`:594`).
* `rank_deferred`: its comparator puts the latest first (`:706`); a fetch waits
  once, without a predicate, and follows `end()` if the set is empty then
  (`:871`, `:924`); its background thread reads the set without the mutex
  (`:801`) and ends for good at `close`.

*Task object* (`sched/unit.hpp`)

* `execute` on a task that was cancelled in the queue throws `std::future_error`
  (`:469`), not the documented `execution_exception` (`:163`).
* `unit_standard` inherits `mark_timeout` and does not answer its promise when a
  deadline passes (`:243`); `unit_overtime` does.
* `unit_reliance`: the constructor from a list removes every dependency that is
  not null (`:711`), a null one is never satisfied; `_dependency_cv` is never
  notified; no worker asks.

*Scheduler* (`sched/scheduling.hpp`, `sched/worker.hpp`)

* Two threads that scale down by hand read the same count and remove too much;
  fewer than `min_threads` stay, and the next difference wraps around (`:254`,
  `:231`). Scaling up by hand while `stop` runs leaves workers in a stopped
  scheduler (`:234`).
* An idle scheduler does not shrink: the load is the number of workers whose
  state is running over all (`:164`), and an idle worker's state is running.
* A failed start leaves the workers it made (`:96`, `:299`); `stop` does nothing
  on a scheduler that is not running, and a later start adds to them.
* A start whose own thread cannot be created returns false with `_running` set
  and its workers at work (`:99`–`:116`): a second start is refused.
* A task that throws ends its worker, which stays in `_workers`
  (`worker.hpp:282`): fewer than `min_threads` are alive.
* `wait_for_stop` does not compile; a `stop` that races a `start` of the same
  worker is lost; the untimed pop of `worker_ordinary` lets `stop(true)` join
  for ever (`worker.hpp:131`).

*Pool* (`sched/thread_pool.hpp`)

* `scale_up` calls `manual_scale_downs` (`:1249`). `stop` then `start` runs with
  the closed queue; only `initialize` makes a new one.
* A start that fails at the scheduler's own threads leaves a pool in the state
  "error" over a scheduler that runs; `stop` stops it.
* The monitor thread starts before the state is "running" and leaves its loop
  when it sees another (`:622`). If it loses that race, `_active_tasks` is never
  cleaned and `stop(true)` waits for its whole timeout.
* `stop` gives its mutex up: a second stop returns true while the first goes on.
  A submitter may track its task after `stop` cleared the map.
* `wait_for_all_tasks` looks at the map and at the queue; a task fetched and not
  tracked yet is in neither. `wait_for_unit` holds `_tasks_mutex` as long as it
  waits (`:1151`): meanwhile nobody submits, cancels or cleans up; its default
  of `milliseconds::max()`, added to the present time, overflows.
* `pause` closes the queue and the workers go on with what is in it; `resume`
  drops what is left (`AcceptedIsKept` makes this its one exception).

*Network* (`network`)

* Connection pool: `give_back` and `invalidate` look the pool up by the resolved
  address, which fails for one known by name (`session/conversation.hpp:1166`);
  the maximum is not tested again after the connect (`:1115`); preheating drops
  an open session when it finds no room; `stop` closes idle sessions only;
  `_map_mutex` is held shared through connects.
* Transponder: `send_bytes` writes without a deadline
  (`session/fundamental.hpp:886`–`:897`); `_write_timeout` (`:118`) is read
  nowhere. An upstream that stops reading holds a request, and a thread of the
  pool with it, for ever; `shutdown` then joins that thread whatever its
  timeout, once the pool's own wait is over (`business/forwarder.hpp:237`). The
  handler is set and reset on connected sessions, against the warning at
  `set_reception_processing` (`session/fundamental.hpp:452`), while another
  thread tests and calls it (`:299`–`:302`).
* Transponder: the gate counts tasks that have begun, not those handed over
  (`business/forwarder.hpp:93`); a dropped connection is noticed at the
  deadline; an answer that comes in pieces can count as whole after the first
  (`http.hpp:320`).
* Session: `close` during a connect, then the completion, sets CONNECTED. Two
  threads that connect at once may both pass the test for DISCONNECTED; one
  dials, the other is refused and stores DISCONNECTED over a live connection. An
  old read's completion closes a new connection. A failed handshake leaves the
  socket open.
* Manager: a session idle for ten minutes is collected and not removed; the
  clean-up drops sessions that are connecting; sessions are accepted after
  `stop`.
* Messages: a status text of several words is written and refused on reading
  (`response_header::from_string`); header and body are taken over before
  `verify_integrity` fails; a reference from `header()` makes the kept text
  stale; JSON loses the header.

*Containers* (`concurrent`, `container`, `src/Encapsulation`)

* `swap`, copy assignment and `merge` of the locked containers lock the two
  objects as written, whatever the notes about avoiding deadlock say
  (`concurrent_map.hpp:350`); only `concurrent_multimap` orders by address and
  `concurrent_multiset` uses `std::lock`, which is why `NoCircle` is about
  those. Both moves of `concurrent_unordered_multiset` empty their source
  without its lock (`concurrent_unordered_multiset.hpp:109`–`:110`, `:113`).
* `pop` of `concurrent_deque` spins while it holds the lock (`:145`); `clear` of
  the ring releases as many permits as it has slots (`:283`).
* By hand: `balance_tree` can lose its balance and follow null; `red_black` can
  crash or hang after pops, and its `pop` returns false; a hash table loses a
  chain when its head is popped; `vector` of capacity 0 writes outside; a
  moved-from string keeps its size; move assignment leaks; `list += itself` does
  not end; `expired()` of a weak pointer is never true; `shared_ptr` copy
  assignment does not compile; a `priority_queue` destroys its vector twice.
* What the descriptions of the containers by hand promise and the code does not
  do, each a fate in the models: a string made without arguments holds a blank,
  although it is said to be empty (`simulate_string.hpp:77`), and so does the
  front of what `reverse` and `reverse_sub_string` return (`:115`, `:117`);
  `resize` of a string within its capacity leaves the part it grew by unfilled
  (`:61`); a copy of a string ends at an embedded `'\0'`; `size_adjust` does not
  lengthen a vector (`simulate_vector.hpp:53`) and `resize` does not cut one;
  once a pop has lost a chain, a hash table takes a hidden key a second time, so
  that its list shows it twice (`simulate_base.hpp:1342`), and cannot pop it; a
  moved-from list has no sentinel although it is said to get a new one
  (`simulate_list.hpp:78`, `:130`).
* Encapsulation: `clear` of the queue wakes no blocked submitter; the pool
  counts a leaving worker twice, and `submit` ignores a refused push;
  `set_min_threads` and `set_max_threads` lock their mutex twice; the destructor
  can hang on a worker that is being removed.

## 7. What is not modelled

`PROJECT.json` says for each component what is left out and why. In short:
statistics, profiling, events, names, tags, the load formula and the bytes of
messages, which no property is about; `restart`, `auto_repair` and resizing
through the facade, which replace objects that others use, a data race; adapters
over the containers; calls into libraries (JSON, HTTP, cryptography); the
handlers of `stop` in `thread_pool.hpp` (`:223`–`:244`), which nothing reaches;
what the race of two threads on a session's handler may do between its test and
its call; in which order a thread pool takes what the transponder gives it; by
which priority an ordered queue hands out (section 6 says what the code does).
The rest of the repository, more than half of its lines, is exercises and
samples, each a program of its own that nothing else uses, and older copies of
files that are modelled in their newer form.

Time is a choice: a deadline may pass at any step. The memory model is
sequential consistency: the code uses acquire and release on the flags the
models read, and relaxed order only for counters and for the test of the monitor
loop.

## 8. Plan

1. Proofs: what list, string, vector and hash table keep, as their modules
   declare no recursive operator; the destructor of the Encapsulation pool.
2. `ThreadPool`: resizing through the facade, and `restart`, once it is said
   what it may race with.
3. `OrderedRank` as a refinement of a channel without order; `push_batch` of
   `rank_deferred` (that of `rank_priority` is pushes one after another).
4. `Session` and `Transponder`: the test and the call of a handler in two steps.
