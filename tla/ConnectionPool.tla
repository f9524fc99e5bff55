--------------------------- MODULE ConnectionPool ---------------------------
(***************************************************************************)
(* connection_pool (Asio/model/network/session/conversation.hpp): threads  *)
(* borrow sessions of one endpoint, give them back or invalidate them; a   *)
(* timer on the io thread checks and refills the endpoint; others start    *)
(* and stop the pool, add and remove the endpoint.                         *)
(*                                                                         *)
(* The mutex of the endpoint is held only between waits: each critical     *)
(* section is one step, and what another thread may do while a connection  *)
(* is made, or after a function has looked up its endpoint, is visible.    *)
(* _map_mutex is held, shared, through the refill of a health check and of *)
(* start (reading); whoever needs it alone waits.                          *)
(*                                                                         *)
(* A session keeps itself alive while it reads, so it is open until one    *)
(* side closes it, whoever has dropped its pointer.  A closed session that *)
(* nothing refers to may be used again as a new one.                       *)
(***************************************************************************)
EXTENDS Naturals, Sequences, FiniteSets

CONSTANTS
    Borrowers,     \* threads that borrow, one session at a time
    Managers,      \* threads that start, stop, add and remove
    Sessions,
    Pools,         \* objects endpoint_pool, one per time the endpoint is added
    Min, Max       \* min_connections, max_connections

ASSUME RolesAssumption ==
    /\ Borrowers \cap Managers = {} /\ "io" \notin Borrowers \cup Managers
    /\ IsFiniteSet(Borrowers)
ASSUME NobodyAssumption ==
    /\ "none" \notin Sessions \cup Pools
    /\ Borrowers \cap {"nobody", "pool"} = {}
ASSUME LimitsAssumption ==
    /\ Min \in Nat /\ Max \in Nat /\ Min <= Max
    /\ IsFiniteSet(Sessions)

VARIABLES
    running,   \* _running
    timer,     \* _check_timer is armed
    current,   \* the endpoint's pool in _endpoint_pools, or "none"
    named,     \* the endpoint is known by a host name, not by its address
    idle,      \* remaining_available of each pool
    lent,      \* weak_reference_collection and weak_reference_mapping
    open,      \* the sessions that are connected
    held,      \* the session each borrower has, or "none"
    pc,        \* where each thread is
    at,        \* the pool its call works on, or "none"
    made,      \* the session it has just connected, or "none"
    need,      \* how many sessions its refill has still to make
    unused,    \* pool objects that no add_endpoint has made yet
    reading    \* threads that hold _map_mutex shared

shelf  == <<idle, lent>>
map    == <<running, timer, current, unused, named>>
work   == <<at, made, need, reading>>
vars   == <<map, shelf, open, held, pc, work>>

Threads == Borrowers \cup Managers \cup {"io"}
Items(q) == {q[i] : i \in DOMAIN q}

BorrowLocations == {"look", "connect", "check", "asleep"}
RefillLocations == {"preheat", "warm", "warm_add"}
Locations ==
    {"idle", "give", "invalidate", "arm", "start_lock", "stop_cancel",
     "stop_close", "tick"} \cup BorrowLocations \cup RefillLocations

TypeOK ==
    /\ running \in BOOLEAN /\ timer \in BOOLEAN /\ named \in BOOLEAN
    /\ current \in Pools \cup {"none"}
    /\ idle \in [Pools -> Seq(Sessions)]
    /\ lent \in [Pools -> SUBSET Sessions]
    /\ open \subseteq Sessions
    /\ held \in [Borrowers -> Sessions \cup {"none"}]
    /\ pc \in [Threads -> Locations]
    /\ at \in [Threads -> Pools \cup {"none"}]
    /\ made \in [Threads -> Sessions \cup {"none"}]
    /\ need \in [Threads -> Nat]
    /\ unused \subseteq Pools
    /\ reading \subseteq Threads

Init ==
    /\ running = FALSE /\ timer = FALSE /\ current = "none"
    /\ named \in BOOLEAN
    /\ idle = [p \in Pools |-> <<>>]
    /\ lent = [p \in Pools |-> {}]
    /\ open = {}
    /\ held = [b \in Borrowers |-> "none"]
    /\ pc = [t \in Threads |-> "idle"]
    /\ at = [t \in Threads |-> "none"]
    /\ made = [t \in Threads |-> "none"]
    /\ need = [t \in Threads |-> 0]
    /\ unused = Pools /\ reading = {}

Go(t, from, to) == pc[t] = from /\ pc' = [pc EXCEPT ![t] = to]
Set(f, t, v) == [f EXCEPT ![t] = v]

(* _connected_total_locked counts the open sessions, idle and lent.        *)
Total(i, l) ==
    Cardinality({n \in DOMAIN i : i[n] \in open}) + Cardinality(l \cap open)

Asleep(p) == {b \in Borrowers : pc[b] = "asleep" /\ at[b] = p}

(* Thread t goes on at "to" and wakes up, with notify_one, somebody who    *)
(* waits at p; with notify_all, everybody.                                 *)
NotifyOne(t, from, to, p) ==
    IF Asleep(p) = {} THEN Go(t, from, to)
    ELSE /\ pc[t] = from
         /\ \E b \in Asleep(p) : pc' = [pc EXCEPT ![t] = to, ![b] = "look"]
NotifyAll(t, from, to, p) ==
    /\ pc[t] = from
    /\ pc' = [x \in Threads |->
                IF x = t THEN to ELSE IF x \in Asleep(p) THEN "look" ELSE pc[x]]

(* A session that nothing refers to any more.                              *)
Unreferenced(s) ==
    /\ s \notin open
    /\ \A p \in Pools : s \notin Items(idle[p]) /\ s \notin lent[p]
    /\ \A b \in Borrowers : held[b] # s
    /\ \A t \in Threads : made[t] # s

(* _create_session_sync: a new session that is connected, or nothing.      *)
Connecting(t, from, to) ==
    /\ Go(t, from, to)
    /\ \/ /\ \E s \in Sessions :
               /\ Unreferenced(s)
               /\ made' = Set(made, t, s)
               /\ open' = open \cup {s}
       \/ UNCHANGED <<made, open>>

(* A connection ends: the other side, an error, or the heartbeat.          *)
SessionDrops(s) ==
    /\ s \in open
    /\ open' = open \ {s}
    /\ UNCHANGED <<map, shelf, held, pc, work>>

-----------------------------------------------------------------------------
(* borrow, try_borrow *)

Borrow(b) ==
    /\ current # "none" /\ held[b] = "none"
    /\ Go(b, "idle", "look")
    /\ at' = Set(at, b, current)
    /\ UNCHANGED <<map, shelf, open, held, made, need, reading>>

(* Mutant: the session is handed out without an entry among the lent.      *)
HandOut(b, s, p) == held' = Set(held, b, s) /\ UNCHANGED lent

(* Session s of pool p is lent to b, whose call ends.                      *)
LendTo(b, s, p) ==
    /\ lent' = Set(lent, p, lent[p] \cup {s})
    /\ held' = Set(held, b, s)

(* The call of b ends.                                                     *)
EndBorrow(b, from) ==
    /\ Go(b, from, "idle")
    /\ at' = Set(at, b, "none")
    /\ made' = Set(made, b, "none")

(* Mutant: the loop starts again at once.                                  *)
LookAgain(b, from) ==
    Go(b, from, "look") /\ made' = Set(made, b, "none") /\ UNCHANGED at

(* At the end of a turn of the loop: the deadline has passed, or b waits.  *)
GiveUp(b, from) == EndBorrow(b, from)

Sleep(b, from) ==
    /\ Go(b, from, "asleep")
    /\ made' = Set(made, b, "none")
    /\ UNCHANGED at

(* The first of the idle sessions, and the others.                         *)
Front(p) == IF idle[p] = <<>> THEN "none" ELSE Head(idle[p])
Rest(p) == IF idle[p] = <<>> THEN <<>> ELSE Tail(idle[p])

(* The turn of the loop up to the first wait: an idle session that is      *)
(* connected is lent, one that is not is dropped, and below the maximum a  *)
(* new one is made without the mutex.                                      *)
LookLeaving(b, rest) ==
    LET p == at[b]
        front == Front(p)
    IN  /\ idle' = Set(idle, p, rest)
        /\ \/ /\ front \in open
              /\ LendTo(b, front, p)
              /\ EndBorrow(b, "look")
           \/ /\ front \notin open
              /\ \/ /\ Total(rest, lent[p]) < Max
                    /\ Go(b, "look", "connect")
                    /\ UNCHANGED <<at, made>>
                 \/ Total(rest, lent[p]) >= Max /\ GiveUp(b, "look")
                 \/ Total(rest, lent[p]) >= Max /\ Sleep(b, "look")
              /\ UNCHANGED <<lent, held>>
        /\ UNCHANGED <<map, open, need, reading>>

(* Mutant: the loop forgets to take the front off the queue.               *)
LookKeepsFront(b) == pc[b] = "look" /\ LookLeaving(b, idle[at[b]])

Look(b) == pc[b] = "look" /\ LookLeaving(b, Rest(at[b]))

BorrowConnect(b) ==
    /\ Connecting(b, "connect", "check")
    /\ UNCHANGED <<map, shelf, held, at, need, reading>>

(* With the mutex again.  The maximum is not looked at a second time.      *)
BorrowCheck(b) ==
    /\ pc[b] = "check"
    /\ \/ /\ made[b] \in open
          /\ LendTo(b, made[b], at[b])
          /\ EndBorrow(b, "check")
       \/ /\ made[b] \notin open
          /\ GiveUp(b, "check") \/ Sleep(b, "check")
          /\ UNCHANGED <<lent, held>>
    /\ UNCHANGED <<map, idle, open, need, reading>>

(* wait_until ends: at the deadline, or for no reason.                      *)
BorrowWake(b) ==
    /\ Go(b, "asleep", "look")
    /\ UNCHANGED <<map, shelf, open, held, work>>

TryBorrow(b) ==
    LET p == current
        front == Front(p)
    IN  /\ pc[b] = "idle" /\ held[b] = "none"
        /\ p # "none" /\ idle[p] # <<>>
        /\ idle' = Set(idle, p, Rest(p))
        /\ IF front \in open THEN LendTo(b, front, p) ELSE UNCHANGED <<lent, held>>
        /\ UNCHANGED <<map, open, pc, work>>

-----------------------------------------------------------------------------
(* give_back, invalidate: the pool is looked up by the address of the peer *)

Found == IF named THEN "none" ELSE current

(* Without a pool the session is closed.                                   *)
GoToPool(b, to) ==
    /\ held[b] # "none"
    /\ \/ /\ Found # "none"
          /\ Go(b, "idle", to)
          /\ at' = Set(at, b, Found)
          /\ UNCHANGED <<open, held>>
       \/ /\ Found = "none" /\ pc[b] = "idle"
          /\ open' = open \ {held[b]}
          /\ held' = Set(held, b, "none")
          /\ UNCHANGED <<pc, at>>
    /\ UNCHANGED <<map, shelf, made, need, reading>>

GiveBack(b) == GoToPool(b, "give")
Invalidate(b) == GoToPool(b, "invalidate")

(* Who is woken by notify_one may as well have woken up by itself before:  *)
(* the step includes the notification, after the mutex is released.  The   *)
(* refill comes next.                                                      *)
GiveBackLocked(b) ==
    LET p == at[b]
        s == held[b]
    IN  /\ NotifyOne(b, "give", "preheat", p)
        /\ lent' = Set(lent, p, lent[p] \ {s})
        /\ idle' = IF s \in open THEN Set(idle, p, Append(idle[p], s)) ELSE idle
        /\ held' = Set(held, b, "none")
        /\ UNCHANGED <<map, open, work>>

InvalidateLocked(b) ==
    LET p == at[b]
        s == held[b]
    IN  /\ NotifyOne(b, "invalidate", "preheat", p)
        /\ lent' = Set(lent, p, lent[p] \ {s})
        /\ open' = open \ {s}
        /\ held' = Set(held, b, "none")
        /\ UNCHANGED <<map, idle, work>>

-----------------------------------------------------------------------------
(* _preheat_pool *)

(* The refill of t ends; the io thread goes on to arm its timer.           *)
EndRefill(t, from) ==
    /\ Go(t, from, IF t = "io" THEN "arm" ELSE "idle")
    /\ at' = Set(at, t, "none")
    /\ reading' = reading \ {t}

Preheat(t) ==
    LET total == Total(idle[at[t]], lent[at[t]])
    IN  /\ pc[t] = "preheat"
        /\ \/ /\ total < Min
              /\ Go(t, "preheat", "warm")
              /\ need' = Set(need, t, Min - total)
              /\ UNCHANGED <<at, reading>>
           \/ /\ total >= Min
              /\ EndRefill(t, "preheat")
              /\ UNCHANGED need
        /\ UNCHANGED <<map, shelf, open, held, made>>

PreheatConnect(t) ==
    /\ Connecting(t, "warm", "warm_add")
    /\ UNCHANGED <<map, shelf, held, at, need, reading>>

(* With the mutex again the maximum counts once more: a session too many   *)
(* is dropped, still open.                                                 *)
AddBelow(t, limit) ==
    LET p == at[t]
        total == Total(idle[p], lent[p])
    IN  /\ pc[t] = "warm_add"
        /\ made' = Set(made, t, "none")
        /\ need' = Set(need, t, need[t] - 1)
        /\ \/ /\ made[t] \in open /\ total < limit
              /\ idle' = Set(idle, p, Append(idle[p], made[t]))
              /\ \/ /\ need[t] > 1
                    /\ NotifyOne(t, "warm_add", "warm", p)
                    /\ UNCHANGED <<at, reading>>
                 \/ /\ need[t] <= 1
                    /\ NotifyOne(t, "warm_add", IF t = "io" THEN "arm" ELSE "idle", p)
                    /\ at' = Set(at, t, "none")
                    /\ reading' = reading \ {t}
           \/ /\ made[t] \notin open \/ total >= limit
              /\ \/ /\ need[t] > 1
                    /\ Go(t, "warm_add", "warm")
                    /\ UNCHANGED <<at, reading>>
                 \/ need[t] <= 1 /\ EndRefill(t, "warm_add")
              /\ UNCHANGED idle
        /\ UNCHANGED <<map, lent, open, held>>

(* Mutant: one session more than the maximum.                              *)
AddUpToMaximum(t) == AddBelow(t, Max + 1)

PreheatAdd(t) == AddBelow(t, Max)

-----------------------------------------------------------------------------
(* the health check, on the io thread *)

(* The timer's callback does nothing once the pool is stopped.             *)
TimerFires ==
    /\ timer /\ pc["io"] = "idle"
    /\ timer' = FALSE
    /\ pc' = IF running THEN Set(pc, "io", "tick") ELSE pc
    /\ UNCHANGED <<running, current, unused, named, shelf, open, held, work>>

(* What is left of queue q without the closed sessions.                    *)
InOrder(r, q) ==
    \A i, j \in DOMAIN r : i < j =>
        \E k, l \in DOMAIN q : k < l /\ q[k] = r[i] /\ q[l] = r[j]
Survivors(q) ==
    {r \in UNION {[1 .. n -> Items(q)] : n \in 0 .. Len(q)} :
        Items(r) = Items(q) \cap open /\ InOrder(r, q)}

(* _health_check_tick forgets the closed sessions, idle and lent.          *)
Forget(alive) ==
    \/ /\ current = "none"
       /\ Go("io", "tick", "arm")
       /\ UNCHANGED <<map, shelf, open, held, work>>
    \/ /\ current # "none"
       /\ Go("io", "tick", "preheat")
       /\ at' = Set(at, "io", current)
       /\ reading' = reading \cup {"io"}
       /\ \E q \in Survivors(idle[current]) : idle' = Set(idle, current, q)
       /\ lent' = Set(lent, current, lent[current] \cap alive)
       /\ UNCHANGED <<map, open, held, made, need>>

(* Mutant: the check forgets none of the lent sessions.                    *)
TickIdleOnly == Forget(Sessions)

Tick == Forget(open)

(* _schedule_next_check, also the second step of start.                    *)
ScheduleNextCheck(t) ==
    /\ Go(t, "arm", IF t = "io" THEN "idle" ELSE "start_lock")
    /\ timer' = (timer \/ running)
    /\ UNCHANGED <<running, current, unused, named, shelf, open, held, work>>

-----------------------------------------------------------------------------
(* start, stop, add_endpoint, remove_endpoint *)

Start(m) ==
    /\ ~running
    /\ running' = TRUE
    /\ Go(m, "idle", "arm")
    /\ UNCHANGED <<timer, current, unused, named, shelf, open, held, work>>

StartPreheat(m) ==
    \/ /\ current = "none"
       /\ Go(m, "start_lock", "idle")
       /\ UNCHANGED <<map, shelf, open, held, work>>
    \/ /\ current # "none"
       /\ Go(m, "start_lock", "preheat")
       /\ at' = Set(at, m, current)
       /\ reading' = reading \cup {m}
       /\ UNCHANGED <<map, shelf, open, held, made, need>>

Stop(m) ==
    /\ running
    /\ running' = FALSE
    /\ Go(m, "idle", "stop_cancel")
    /\ UNCHANGED <<timer, current, unused, named, shelf, open, held, work>>

(* The callback is cancelled unless it is queued already.                  *)
StopCancel(m) ==
    /\ Go(m, "stop_cancel", "stop_close")
    /\ timer' \in {FALSE, timer}
    /\ UNCHANGED <<running, current, unused, named, shelf, open, held, work>>

(* The idle sessions are closed and everybody who waits is notified.       *)
CloseIdle(m, from) ==
    /\ open' = open \ Items(idle[current])
    /\ idle' = Set(idle, current, <<>>)
    /\ NotifyAll(m, from, "idle", current)

StopClose(m) ==
    /\ reading = {}
    /\ \/ current # "none" /\ CloseIdle(m, "stop_close")
       \/ /\ current = "none" /\ Go(m, "stop_close", "idle")
          /\ UNCHANGED <<open, idle>>
    /\ UNCHANGED <<map, lent, held, work>>

(* A new pool object, refilled after _map_mutex is released.               *)
AddEndpoint(m) ==
    /\ reading = {} /\ current = "none"
    /\ \E p \in unused :
        /\ current' = p
        /\ unused' = unused \ {p}
        /\ Go(m, "idle", "preheat")
        /\ at' = Set(at, m, p)
    /\ UNCHANGED <<running, timer, named, shelf, open, held, made, need, reading>>

RemoveEndpoint(m) ==
    /\ reading = {} /\ current # "none"
    /\ CloseIdle(m, "idle")
    /\ current' = "none"
    /\ UNCHANGED <<running, timer, unused, named, lent, held, work>>

-----------------------------------------------------------------------------
Refill(t) == Preheat(t) \/ PreheatConnect(t) \/ PreheatAdd(t)

Next ==
    \/ \E b \in Borrowers :
        \/ Borrow(b) \/ Look(b) \/ BorrowConnect(b)
        \/ BorrowCheck(b) \/ BorrowWake(b) \/ TryBorrow(b)
        \/ GiveBack(b) \/ Invalidate(b) \/ GiveBackLocked(b)
        \/ InvalidateLocked(b)
    \/ \E t \in Threads : Preheat(t) \/ PreheatConnect(t) \/ PreheatAdd(t)
    \/ TimerFires \/ Tick
    \/ \E t \in Managers \cup {"io"} : ScheduleNextCheck(t)
    \/ \E m \in Managers :
        \/ Start(m) \/ StartPreheat(m) \/ Stop(m) \/ StopCancel(m)
        \/ StopClose(m) \/ AddEndpoint(m) \/ RemoveEndpoint(m)
    \/ \E s \in Sessions : SessionDrops(s)

Spec == Init /\ [][Next]_vars

-----------------------------------------------------------------------------
(* The pool counts what it has lent: an open session that a borrower has   *)
(* is among the lent ones of a pool, where a health check finds it.        *)
LentAreKnown ==
    \A b \in Borrowers : held[b] \in open => \E p \in Pools : held[b] \in lent[p]

(* max_connections is passed by no more than one session per borrower, the *)
(* ones that looked before the others were in (borrow, _preheat_pool); for *)
(* an endpoint that was not removed and added again, which takes what was  *)
(* lent by the pool before.                                                *)
Counting(p) == open \cap (Items(idle[p]) \cup lent[p])
Landing(p) == {b \in Borrowers : pc[b] \in {"connect", "check"} /\ at[b] = p}
FewAboveMaximum ==
    \A p \in Pools :
        unused = Pools \ {p} =>
            Cardinality(Counting(p)) + Cardinality(Landing(p))
                <= Max + Cardinality(Borrowers)

(* The pool is a book of leases.                                           *)
Lessee(s) ==
    IF \E b \in Borrowers : held[b] = s /\ s \in open
    THEN CHOOSE b \in Borrowers : held[b] = s
    ELSE IF s \in open /\ \E p \in Pools : s \in Items(idle[p])
    THEN "pool" ELSE "nobody"
Book == INSTANCE LeaseBook WITH lessee <- [s \in Sessions |-> Lessee(s)]
ImplementsLeaseBook == Book!Spec

(* A borrow ends, with a session or without (deadline of borrow).          *)
BorrowReturns == \A b \in Borrowers : pc[b] = "look" ~> pc[b] = "idle"

(* In a pool that goes on running, the health check forgets, again and     *)
(* again, every session that died while it was lent: what is never given   *)
(* back does not fill weak_reference_collection.                           *)
ZombiesForgotten ==
    \A p \in Pools :
        <>[](running /\ current = p) => []<>(lent[p] \subseteq open)
=============================================================================
