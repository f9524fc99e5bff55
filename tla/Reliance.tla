------------------------------- MODULE Reliance -------------------------------
(***************************************************************************)
(* The dependencies of a unit_reliance (Asio/model/sched/unit.hpp): a list *)
(* under a mutex, and the answer of the last look at it, kept for a while  *)
(* in two atomics that are read without the mutex.  No worker asks: a task *)
(* is run whatever it depends on.                                          *)
(***************************************************************************)
EXTENDS FiniteSets

CONSTANTS
    Askers,        \* threads that ask, or wait, for the dependencies
    Adders,        \* threads that add one
    Dependencies   \* the tasks it may depend on

Null == "null"

VARIABLES
    own,           \* whether the task itself is "pending" or "running"
    list,          \* _dependency_list
    completed,     \* the dependencies that have ended well; others may never
    satisfied,     \* _dependencies_satisfied
    stamp,         \* _last_check_time: "fresh" or "stale"
    mutex,         \* who holds _dependency_mutex across steps, or Null
    at,            \* where each thread is
    seen,          \* asker: what it made of _last_check_time, adder: what it adds
    answer,        \* asker: what it is about to return
    owed           \* history: the dependencies there were when it asked

vars == <<own, list, completed, satisfied, stamp, mutex, at, seen, answer, owed>>
threads == <<at, seen, answer, owed>>

(* The constructors: one dependency is taken as it is; of a list only the  *)
(* null pointers are kept.                                                 *)
Init ==
    /\ own = "pending"
    /\ list \in {{}, {Null}} \cup {{d} : d \in Dependencies}
    /\ completed = {} /\ satisfied = FALSE /\ stamp = "stale" /\ mutex = Null
    /\ at = [t \in Askers \cup Adders |-> "idle"]
    /\ seen = [t \in Askers \cup Adders |-> "stale"]
    /\ answer = [t \in Askers |-> FALSE]
    /\ owed = [t \in Askers |-> {}]

Step(t, from, to) == at[t] = from /\ at' = [at EXCEPT ![t] = to]
Hears(t, b) == answer' = [answer EXCEPT ![t] = b]
Free == mutex = Null
AllCompleted == list \subseteq completed

-----------------------------------------------------------------------------
(* are_dependencies_satisfied                                              *)

(* Dependencies whose addition has returned.                               *)
Added == list \ {seen[t] : t \in {x \in Adders : at[x] # "idle"}}

(* A time that is stored after the clock was read looks stale: the         *)
(* difference wraps.                                                       *)
Ask(t) ==
    /\ Step(t, "idle", "looks")
    /\ \E s \in {stamp, "stale"} : seen' = [seen EXCEPT ![t] = s]
    /\ owed' = [owed EXCEPT ![t] = Added]
    /\ UNCHANGED <<own, list, completed, satisfied, stamp, mutex, answer>>
Look(t) ==
    /\ IF satisfied /\ seen[t] = "fresh"
       THEN Step(t, "looks", "answers") /\ Hears(t, TRUE)
       ELSE Step(t, "looks", "locks") /\ UNCHANGED answer
    /\ seen' = [seen EXCEPT ![t] = "stale"]
    /\ UNCHANGED <<own, list, completed, satisfied, stamp, mutex, owed>>

(* The second look and the examination of the list, under the mutex.       *)
Examine(t) ==
    /\ Free
    /\ \/ /\ satisfied /\ stamp = "fresh"
          /\ Step(t, "locks", "answers") /\ Hears(t, TRUE)
          /\ UNCHANGED <<satisfied, mutex>>
       \/ /\ ~(satisfied /\ stamp = "fresh")
          /\ Step(t, "locks", "stamps") /\ Hears(t, AllCompleted)
          /\ satisfied' = AllCompleted /\ mutex' = t
    /\ UNCHANGED <<own, list, completed, stamp, seen, owed>>
Stamp(t) ==
    /\ Step(t, "stamps", "answers")
    /\ stamp' = "fresh" /\ mutex' = Null
    /\ UNCHANGED <<own, list, completed, satisfied, seen, answer, owed>>
Return(t) ==
    /\ Step(t, "answers", "idle")
    /\ seen' = [seen EXCEPT ![t] = "stale"] /\ owed' = [owed EXCEPT ![t] = {}]
    /\ Hears(t, FALSE)
    /\ UNCHANGED <<own, list, completed, satisfied, stamp, mutex>>

(* wait_for_dependencies: nobody notifies _dependency_cv, so that it waits *)
(* for its timeout unless all is done at once.                             *)
WaitFor(t) ==
    /\ Free
    /\ owed' = [owed EXCEPT ![t] = Added]
    /\ Step(t, "idle", IF AllCompleted THEN "answers" ELSE "waits")
    /\ Hears(t, AllCompleted)
    /\ UNCHANGED <<own, list, completed, satisfied, stamp, mutex, seen>>
TimeOut(t) ==
    /\ Free
    /\ Step(t, "waits", "answers") /\ Hears(t, AllCompleted)
    /\ UNCHANGED <<own, list, completed, satisfied, stamp, mutex, seen, owed>>

-----------------------------------------------------------------------------
(* add_dependency                                                          *)

(* Mutant: the answer that is kept is not reset.                           *)
AddOnly(t) == \E d \in Dependencies \ list :
    /\ Free /\ own = "pending" /\ at[t] = "idle"
    /\ list' = list \cup {d}
    /\ UNCHANGED <<own, completed, satisfied, stamp, mutex, threads>>

Add(t) == \E d \in Dependencies \ list :
    /\ Free /\ own = "pending"
    /\ Step(t, "idle", "resets") /\ mutex' = t
    /\ list' = list \cup {d} /\ seen' = [seen EXCEPT ![t] = d]
    /\ UNCHANGED <<own, completed, satisfied, stamp, answer, owed>>

Reset(t) ==
    /\ Step(t, "resets", "resets time") /\ satisfied' = FALSE
    /\ UNCHANGED <<own, list, completed, stamp, mutex, seen, answer, owed>>
ResetTime(t) ==
    /\ Step(t, "resets time", "idle") /\ stamp' = "stale" /\ mutex' = Null
    /\ seen' = [seen EXCEPT ![t] = "stale"]
    /\ UNCHANGED <<own, list, completed, satisfied, answer, owed>>

-----------------------------------------------------------------------------
(* What goes on besides.                                                   *)

(* A worker runs the task, whatever it depends on.                         *)
MarkRunning ==
    /\ own = "pending" /\ own' = "running"
    /\ UNCHANGED <<list, completed, satisfied, stamp, mutex, threads>>
Complete(d) ==
    /\ d \notin completed /\ completed' = completed \cup {d}
    /\ UNCHANGED <<own, list, satisfied, stamp, mutex, threads>>
(* CACHE_VALIDITY milliseconds go by.                                      *)
Expire ==
    /\ stamp = "fresh" /\ stamp' = "stale"
    /\ UNCHANGED <<own, list, completed, satisfied, mutex, threads>>

Next ==
    \/ \E t \in Askers :
        \/ Ask(t) \/ Look(t) \/ Examine(t) \/ Stamp(t) \/ Return(t)
        \/ WaitFor(t) \/ TimeOut(t)
    \/ \E t \in Adders : Add(t) \/ Reset(t) \/ ResetTime(t)
    \/ \E d \in Dependencies : Complete(d)
    \/ MarkRunning \/ Expire

Spec == Init /\ [][Next]_vars

-----------------------------------------------------------------------------
(* A thread that is told that all dependencies are satisfied asked when    *)
(* every one that had been added has completed since, or had before,       *)
(* although the answer may be an old one that was read without the mutex.  *)
SatisfiedIsTrue == \A t \in Askers :
    at[t] = "answers" /\ answer[t] => owed[t] \subseteq completed
=============================================================================
