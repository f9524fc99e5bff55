-------------------------- MODULE BlockingContainers --------------------------
(***************************************************************************)
(* The containers of Asio/model/concurrent that make their callers wait:   *)
(* concurrent_stack and concurrent_priority_queue, with room for max_cap   *)
(* elements (0: without a bound), and concurrent_queue, which has no bound.*)
(* A method under _access_mutex is one step; of the elements only their    *)
(* number is kept.                                                         *)
(***************************************************************************)
EXTENDS Naturals, FiniteSets

CONSTANTS
    Kinds,        \* which of "stack", "priority_queue", "queue" are tried
    Threads,
    Objects,
    Capacities,   \* what a stack or priority_queue is made with
    MaxItems      \* no push beyond this number

VARIABLES
    kind,
    items,        \* how many elements each object has
    maxCap,       \* _max_cap
    at            \* for each thread what it is in and with which object

vars == <<kind, items, maxCap, at>>

In(what, o) == [what |-> what, on |-> {o}]
Idle == [what |-> "idle", on |-> {}]

Init ==
    /\ kind \in Kinds
    /\ items = [o \in Objects |-> 0]
    /\ maxCap \in [Objects -> IF kind = "queue" THEN {0} ELSE Capacities]
    /\ at = [t \in Threads |-> Idle]

Being(what, o) == {t \in Threads : at[t] = In(what, o)}
Bounded(o) == maxCap[o] # 0

-----------------------------------------------------------------------------
(* Condition variables.  moved is at after the caller has moved.           *)

Woken(what) == IF what = "waits to pop" THEN "pops again" ELSE "pushes again"

NotifyOne(what, o, moved) ==
    \/ /\ Being(what, o) = {}
       /\ at' = moved
    \/ \E u \in Being(what, o) : at' = [moved EXCEPT ![u] = In(Woken(what), o)]

NotifyAll(whats, objects, moved) ==
    at' = [t \in Threads |->
            IF \E w \in whats, o \in objects : t \in Being(w, o)
            THEN [what |-> Woken(at[t].what), on |-> at[t].on] ELSE moved[t]]

(* A wait may end without a notification.                                  *)
Spurious(t) ==
    /\ at[t].what \in {"waits to pop", "waits to push"}
    /\ at' = [at EXCEPT ![t].what = Woken(@)]
    /\ UNCHANGED <<kind, items, maxCap>>

-----------------------------------------------------------------------------
Moved(t, to) == [at EXCEPT ![t] = to]

Put(t, o) ==
    /\ items[o] < MaxItems
    /\ items' = [items EXCEPT ![o] = @ + 1]
    /\ NotifyOne("waits to pop", o, Moved(t, Idle))

Sleep(t, what, o) == at' = Moved(t, In(what, o)) /\ UNCHANGED items

(* push, emplace: without a bound there is no wait.                        *)
Push(t, o) ==
    /\ at[t] = Idle
    /\ \/ (Bounded(o) => items[o] < maxCap[o]) /\ Put(t, o)
       \/ Bounded(o) /\ items[o] >= maxCap[o] /\ Sleep(t, "waits to push", o)
    /\ UNCHANGED <<kind, maxCap>>

(* The wait looks at the bound only, which may have become 0 by a swap.    *)
PushAgain(t, o) ==
    /\ at[t] = In("pushes again", o)
    /\ \/ items[o] < maxCap[o] /\ Put(t, o)
       \/ items[o] >= maxCap[o] /\ Sleep(t, "waits to push", o)
    /\ UNCHANGED <<kind, maxCap>>

(* Mutant: the place that has become free is not told. *)
TakeQuietly(t, o) ==
    /\ items' = [items EXCEPT ![o] = @ - 1]
    /\ at' = Moved(t, Idle)

Take(t, o) ==
    /\ items' = [items EXCEPT ![o] = @ - 1]
    /\ \/ Bounded(o) /\ NotifyOne("waits to push", o, Moved(t, Idle))
       \/ ~Bounded(o) /\ at' = Moved(t, Idle)

(* pop, and its wait after it has been woken                               *)
Pop(t, o) ==
    /\ at[t] \in {Idle, In("pops again", o)}
    /\ \/ items[o] > 0 /\ Take(t, o)
       \/ items[o] = 0 /\ Sleep(t, "waits to pop", o)
    /\ UNCHANGED <<kind, maxCap>>

TryPop(t, o) ==
    /\ at[t] = Idle /\ items[o] > 0
    /\ Take(t, o)
    /\ UNCHANGED <<kind, maxCap>>

Clear(t, o) ==
    /\ at[t] = Idle
    /\ items' = [items EXCEPT ![o] = 0]
    /\ NotifyAll({IF kind = "queue" THEN "waits to pop" ELSE "waits to push"}, {o}, at)
    /\ UNCHANGED <<kind, maxCap>>

(* swap: all are told, after the two mutexes have been released.           *)
Swap(t, o, p) ==
    /\ kind # "queue" /\ at[t] = Idle /\ o # p
    /\ items' = [items EXCEPT ![o] = items[p], ![p] = items[o]]
    /\ maxCap' = [maxCap EXCEPT ![o] = maxCap[p], ![p] = maxCap[o]]
    /\ at' = Moved(t, [what |-> "tells", on |-> {o, p}])
    /\ UNCHANGED kind

Tell(t) ==
    /\ at[t].what = "tells"
    /\ NotifyAll({"waits to pop", "waits to push"}, at[t].on, Moved(t, Idle))
    /\ UNCHANGED <<kind, items, maxCap>>

Next ==
    \E t \in Threads :
        \/ Spurious(t) \/ Tell(t)
        \/ \E o \in Objects :
            \/ Push(t, o) \/ PushAgain(t, o) \/ Pop(t, o) \/ TryPop(t, o) \/ Clear(t, o)
            \/ \E p \in Objects : Swap(t, o, p)

Spec == Init /\ [][Next]_vars

-----------------------------------------------------------------------------
(* Whoever sleeps has cause to: for each element there is one awake that   *)
(* came to take it, for each free place one that came to fill it, though   *)
(* pushes and pops wake one only and swaps move elements and bounds away   *)
(* from under those who wait.  A swap that has not told yet is left to     *)
(* finish, and a waiter whose bound has gone is not woken by anyone.       *)
Telling(o) == \E t \in Threads : at[t].what = "tells" /\ o \in at[t].on

NobodySleepsThrough ==
    \A o \in Objects : ~Telling(o) =>
        /\ Being("waits to pop", o) # {}
            => items[o] <= Cardinality(Being("pops again", o))
        /\ Being("waits to push", o) # {} /\ Bounded(o)
            => maxCap[o] <= items[o] + Cardinality(Being("pushes again", o))
=============================================================================
