---------------------------- MODULE ClosableQueue ----------------------------
(***************************************************************************)
(* con::pros_cons_queue of Encapsulation/Syncs.hpp: a bounded queue that   *)
(* can be closed, opened again and cleared.  A method holds _access_mutex  *)
(* in one step and notifies in a later one.  Of what is queued only the    *)
(* number is kept; a try_push or try_pop that fails changes nothing.       *)
(***************************************************************************)
EXTENDS Naturals, FiniteSets

CONSTANTS Threads, Capacity

VARIABLES
    length,         \* of _shared_queue
    closed,         \* _close_id
    cleared,        \* a clear left room that sleeping submitters are not told of
    at              \* where each thread is

vars == <<length, closed, cleared, at>>

Init ==
    /\ length = 0 /\ closed = FALSE /\ cleared = FALSE
    /\ at = [t \in Threads |-> "idle"]

Being(what) == {t \in Threads : at[t] = what}
Goes(t, to) == at' = [at EXCEPT ![t] = to]

(* push: while (full and not closed) wait.                                 *)
Enqueue(t) ==
    /\ ~closed /\ length < Capacity
    /\ length' = length + 1 /\ Goes(t, "tells one to pop")
Push(t) ==
    /\ at[t] \in {"idle", "pushes"}
    /\ \/ Enqueue(t)
       \/ ~closed /\ length = Capacity /\ Goes(t, "sleeps to push") /\ UNCHANGED length
       \/ closed /\ Goes(t, "idle") /\ UNCHANGED length
    /\ UNCHANGED <<closed, cleared>>
TryPush(t) == at[t] = "idle" /\ Enqueue(t) /\ UNCHANGED <<closed, cleared>>

(* pop hands out what is left after a close; try_pop does not.             *)
Dequeue(t) ==
    /\ length > 0
    /\ length' = length - 1 /\ Goes(t, "tells one to push")
Pop(t) ==
    /\ at[t] \in {"idle", "pops"}
    /\ \/ Dequeue(t)
       \/ length = 0 /\ ~closed /\ Goes(t, "sleeps to pop") /\ UNCHANGED length
       \/ length = 0 /\ closed /\ Goes(t, "idle") /\ UNCHANGED length
    /\ UNCHANGED <<closed, cleared>>
TryPop(t) == at[t] = "idle" /\ ~closed /\ Dequeue(t) /\ UNCHANGED <<closed, cleared>>

Asleep == {"sleeps to pop", "sleeps to push"}
Woken(what) == IF what = "sleeps to pop" THEN "pops" ELSE "pushes"

(* Those who sleep on the one condition variable or on the other.          *)
Listening(t) == Being(IF at[t] = "tells one to pop" THEN "sleeps to pop" ELSE "sleeps to push")

(* notify_one, after the unlock                                            *)
TellOne(t) ==
    /\ at[t] \in {"tells one to pop", "tells one to push"}
    /\ \/ Listening(t) = {} /\ Goes(t, "idle")
       \/ \E u \in Listening(t) : at' = [at EXCEPT ![t] = "idle", ![u] = Woken(at[u])]
    /\ UNCHANGED <<length, closed, cleared>>

(* close and enable, which leave alone what is so already, and their       *)
(* notifications                                                           *)
Toggle(t) ==
    /\ at[t] = "idle" /\ closed' = ~closed /\ Goes(t, "tells all")
    /\ UNCHANGED <<length, cleared>>
TellAll(t) ==
    /\ at[t] = "tells all" /\ cleared' = FALSE
    /\ at' = [u \in Threads |->
                IF u = t THEN "idle" ELSE IF at[u] \in Asleep THEN Woken(at[u]) ELSE at[u]]
    /\ UNCHANGED <<length, closed>>

(* clear tells nobody.                                                     *)
Clear(t) ==
    /\ at[t] = "idle" /\ length' = 0
    /\ cleared' = (cleared \/ Being("sleeps to push") # {})
    /\ UNCHANGED <<closed, at>>

Spurious(t) ==
    /\ at[t] \in Asleep /\ Goes(t, Woken(at[t]))
    /\ UNCHANGED <<length, closed, cleared>>

Next == \E t \in Threads :
    \/ Push(t) \/ TryPush(t) \/ Pop(t) \/ TryPop(t)
    \/ TellOne(t) \/ Toggle(t) \/ TellAll(t) \/ Clear(t) \/ Spurious(t)

Spec == Init /\ [][Next]_vars

-----------------------------------------------------------------------------
(* No thread sleeps that has cause to go on, unless a thread that closes   *)
(* or opens has yet to tell everybody: after a close nobody does; before,  *)
(* somebody is on the way for each item and for each place.  Only clear    *)
(* leaves submitters asleep beside the room it made.                       *)
NobodySleepsThrough == Being("tells all") = {} =>
    /\ closed => \A t \in Threads : at[t] \notin Asleep
    /\ Being("sleeps to pop") # {} => length <=
        Cardinality(Being("pops")) + Cardinality(Being("tells one to pop"))
    /\ Being("sleeps to push") # {} /\ ~cleared => Capacity - length <=
        Cardinality(Being("pushes")) + Cardinality(Being("tells one to push"))
=============================================================================
