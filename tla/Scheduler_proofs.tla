--------------------------- MODULE Scheduler_proofs ---------------------------
(***************************************************************************)
(* Proofs about Scheduler, for any numbers of workers, scaling threads and *)
(* tasks and any configuration: who holds _workers_mutex, which workers    *)
(* are in _workers, that none is destroyed before its thread is over, that *)
(* stop leaves none, and that no task is lost or doubled.                  *)
(***************************************************************************)
EXTENDS Scheduler, FiniteSetTheorems, SequenceTheorems, TLAPS

USE ConfigAssumption, SizeAssumption, InputAssumption

LockedBySpc == {"remove", "join"}
LockedByOwner == {"stop_all", "join_one", "join_all"}

(* _workers_mutex is held across steps by one thread: the one that removes *)
(* workers, or the owner while it stops them all.                          *)
MutexInv ==
    /\ \A s \in ScalerThreads : spc[s] \in LockedBySpc <=> mutex = s
    /\ owner \in LockedByOwner <=> mutex = "owner"

(* The workers that exist are those in _workers, each once.                *)
OwnedInv ==
    /\ \A i, j \in DOMAIN workers : workers[i] = workers[j] => i = j
    /\ \A w \in Workers : wpc[w] # "none" <=> InWorkers(w)

(* Who joins has somebody to join; what stop has passed is over.           *)
JoinInv ==
    /\ \A s \in ScalerThreads : spc[s] = "join" => left[s] > 0 /\ workers # <<>>
    /\ owner \in LockedByOwner =>
         /\ left["owner"] >= 1
         /\ \A i \in DOMAIN workers : i < left["owner"] => wpc[workers[i]] = "done"
    /\ owner = "join_one" => left["owner"] <= Len(workers)

StructInv == TypeOK /\ MutexInv /\ OwnedInv /\ JoinInv

-----------------------------------------------------------------------------
(* Workers come, go on and are over *)

(* No worker comes or goes, and none that is over goes on.                 *)
SameWorkers ==
    \A w \in Workers : /\ wpc'[w] = "none" <=> wpc[w] = "none"
                       /\ wpc[w] = "done" => wpc'[w] = "done"

(* Nobody locks, unlocks or gets anywhere with a join.                     *)
SameLocks ==
    /\ UNCHANGED <<workers, mutex>>
    /\ \A s \in ScalerThreads :
         /\ spc'[s] \in LockedBySpc <=> spc[s] \in LockedBySpc
         /\ spc'[s] = "join" => spc[s] = "join" /\ left'[s] = left[s]
    /\ owner' \in LockedByOwner <=> owner \in LockedByOwner
    /\ owner' \in LockedByOwner => owner' = owner /\ left'["owner"] = left["owner"]

LEMMA LockNames ==
    /\ "auto" \in ScalerThreads /\ "owner" \notin ScalerThreads /\ "none" \notin ScalerThreads
    /\ Scalers \subseteq ScalerThreads
    /\ \A s \in ScalerThreads : s # "owner" /\ s # "none"
  BY DEF ScalerThreads

(* The type invariant, by the part of the scheduler it is about.           *)
OwnerTypes ==
    /\ running \in BOOLEAN /\ should_stop \in BOOLEAN
    /\ mutex \in ScalerThreads \cup {"none", "owner"}
    /\ owner \in {"idle", "join_monitor", "join_scaling", "stop_all", "join_one", "join_all"}
    /\ waits \in BOOLEAN
WorkerTypes ==
    /\ workers \in Seq(Workers)
    /\ wpc \in [Workers -> {"none", "loop", "fetch", "execute", "throw", "end", "done"}]
    /\ wstop \in [Workers -> BOOLEAN]
    /\ wstate \in [Workers -> {"idle", "running", "stopping", "stopped", "error"}]
    /\ holding \in [Workers -> Units \cup {"none"}]
TaskTypes ==
    /\ queue \in Seq(Units)
    /\ ustate \in [Units -> {"new", "submitting", "queued", "held", "ended"}]
WatchTypes ==
    /\ monitor \in {"none", "loop", "active", "total", "done"}
    /\ metrics \in [len : Nat, active : Nat, total : Nat]
LoadTypes == last_len \in Nat /\ windows \in [up : 0..2, down : 0..3]
OpTypes ==
    /\ spc \in [ScalerThreads -> {"none", "idle", "wait", "evaluate", "read",
                                  "change", "remove", "join", "done"}]
    /\ ask \in [ScalerThreads -> [up : BOOLEAN, n : Nat]]
    /\ left \in [ScalerThreads \cup {"owner"} -> Nat]

AllTypes == OwnerTypes /\ WorkerTypes /\ TaskTypes /\ WatchTypes /\ LoadTypes /\ OpTypes

LEMMA TypeParts == (TypeOK <=> AllTypes) /\ (TypeOK' <=> AllTypes')
<1>1. TypeOK <=> AllTypes
  BY Zenon DEF TypeOK, AllTypes, OwnerTypes, WorkerTypes, TaskTypes, WatchTypes, LoadTypes, OpTypes
<1>2. TypeOK' <=> AllTypes'
  BY Zenon DEF TypeOK, AllTypes, OwnerTypes, WorkerTypes, TaskTypes, WatchTypes, LoadTypes, OpTypes
<1> QED
  BY <1>1, <1>2

(* What a step leaves alone keeps its type.                                *)
LEMMA KeptTypes ==
    ASSUME TypeOK
    PROVE  /\ UNCHANGED <<flags, mutex, owner, waits>> => OwnerTypes'
           /\ UNCHANGED <<workers, worker>> => WorkerTypes'
           /\ UNCHANGED tasks => TaskTypes'
           /\ UNCHANGED watch => WatchTypes'
           /\ UNCHANGED load => LoadTypes'
           /\ UNCHANGED ops => OpTypes'
<1>1. AllTypes
  BY TypeParts
<1>2. UNCHANGED <<flags, mutex, owner, waits>> => OwnerTypes'
  BY <1>1 DEF AllTypes, OwnerTypes, flags
<1>3. UNCHANGED <<workers, worker>> => WorkerTypes'
  BY <1>1 DEF AllTypes, WorkerTypes, worker
<1>4. UNCHANGED tasks => TaskTypes'
  BY <1>1 DEF AllTypes, TaskTypes, tasks
<1>5. UNCHANGED watch => WatchTypes'
  BY <1>1 DEF AllTypes, WatchTypes, watch
<1>6. UNCHANGED load => LoadTypes'
  BY <1>1 DEF AllTypes, LoadTypes, load
<1>7. UNCHANGED ops => OpTypes'
  BY <1>1 DEF AllTypes, OpTypes, ops
<1> QED
  BY <1>2, <1>3, <1>4, <1>5, <1>6, <1>7

(* One pointwise change of a function.                                     *)
LEMMA PlaceTypes ==
    ASSUME TypeOK
    PROVE  /\ \A s \in ScalerThreads :
                \A to \in {"none", "idle", "wait", "evaluate", "read", "change", "remove",
                           "join", "done"} :
                  [spc EXCEPT ![s] = to]
                    \in [ScalerThreads -> {"none", "idle", "wait", "evaluate", "read",
                                           "change", "remove", "join", "done"}]
           /\ \A w \in Workers :
                \A to \in {"none", "loop", "fetch", "execute", "throw", "end", "done"} :
                  [wpc EXCEPT ![w] = to]
                    \in [Workers -> {"none", "loop", "fetch", "execute", "throw", "end", "done"}]
           /\ \A s \in ScalerThreads \cup {"owner"} : \A n \in Nat :
                [left EXCEPT ![s] = n] \in [ScalerThreads \cup {"owner"} -> Nat]
           /\ \A s, r \in ScalerThreads : \A to :
                [spc EXCEPT ![s] = to][r] = IF r = s THEN to ELSE spc[r]
           /\ \A s, r \in ScalerThreads \cup {"owner"} : \A n :
                [left EXCEPT ![s] = n][r] = IF r = s THEN n ELSE left[r]
<1>1. /\ wpc \in [Workers -> {"none", "loop", "fetch", "execute", "throw", "end", "done"}]
      /\ OpTypes
  BY TypeParts DEF AllTypes, WorkerTypes
<1> QED
  BY <1>1 DEF OpTypes

LEMMA QuietStep ==
    ASSUME StructInv, SameWorkers, SameLocks
    PROVE  MutexInv' /\ OwnedInv' /\ JoinInv'
<1>t. TypeOK /\ MutexInv /\ OwnedInv /\ JoinInv
  BY DEF StructInv
<1>1. MutexInv'
  BY <1>t DEF SameLocks, MutexInv
<1>2. OwnedInv'
  BY <1>t DEF SameLocks, SameWorkers, OwnedInv, InWorkers
<1>3. \A i \in DOMAIN workers : workers[i] \in Workers
  BY <1>t DEF TypeOK
<1>4. JoinInv'
  BY <1>t, <1>3 DEF SameLocks, SameWorkers, JoinInv, LockedByOwner
<1> QED
  BY <1>1, <1>2, <1>4

(* n workers are appended: they were not there before.                     *)
LEMMA Added ==
    ASSUME TypeOK, OwnedInv, NEW n \in Nat, AddWorkers(n)
    PROVE  /\ workers' \in Seq(Workers) /\ Len(workers') = Len(workers) + n
           /\ \A i \in DOMAIN workers : i \in DOMAIN workers' /\ workers'[i] = workers[i]
           /\ wpc' \in [Workers -> {"none", "loop", "fetch", "execute", "throw", "end", "done"}]
           /\ wstate' \in [Workers -> {"idle", "running", "stopping", "stopped", "error"}]
           /\ OwnedInv'
           /\ \A w \in Workers : wpc'[w] = wpc[w] \/ (wpc[w] = "none" /\ wpc'[w] = "loop")
           /\ UNCHANGED <<mutex, wstop, holding>> /\ mutex = "none"
<1>1. PICK new \in SUBSET Unused :
        /\ Cardinality(new) = n
        /\ \E order \in [1..n -> new] :
            /\ \A w \in new : \E i \in 1..n : order[i] = w
            /\ workers' = workers \o order
        /\ wpc' = [w \in Workers |-> IF w \in new THEN "loop" ELSE wpc[w]]
        /\ wstate' = [w \in Workers |-> IF w \in new THEN "running" ELSE wstate[w]]
  BY DEF AddWorkers
<1>2. PICK order \in [1..n -> new] :
        /\ \A w \in new : \E i \in 1..n : order[i] = w
        /\ workers' = workers \o order
  BY <1>1
<1>3. \A i, j \in 1..n : order[i] = order[j] => i = j
  <2>1. IsFiniteSet(1..n) /\ Cardinality(1..n) = n
    <3>1. IsFiniteSet(1..n) /\ Cardinality(1..n) = IF 1 > n THEN 0 ELSE n - 1 + 1
      BY FS_Interval
    <3> QED
      BY <3>1
  <2>2. order \in Surjection(1..n, new)
    BY <1>2 DEF Surjection
  <2>3. order \in Injection(1..n, new)
    BY <1>1, <2>1, <2>2, FS_Surjection
  <2>4. \A i, j \in 1..n : order[i] = order[j] => i = j
    BY <2>3 DEF Injection, IsInjective
  <2> QED
    BY <2>4
<1>4. new \subseteq Workers /\ \A w \in new : wpc[w] = "none"
  BY <1>1 DEF Unused
<1>5. order \in Seq(Workers) /\ Len(order) = n /\ DOMAIN order = 1..n
  BY <1>2, <1>4
<1>6. /\ workers \in Seq(Workers) /\ Len(workers) \in Nat
      /\ workers' \in Seq(Workers) /\ Len(workers') = Len(workers) + n
      /\ DOMAIN workers = 1..Len(workers) /\ DOMAIN workers' = 1..(Len(workers) + n)
      /\ \A i \in 1..Len(workers) : i \in 1..(Len(workers) + n) /\ workers'[i] = workers[i]
      /\ \A i \in 1..n :
           /\ Len(workers) + i \in 1..(Len(workers) + n)
           /\ workers'[Len(workers) + i] = order[i]
  <2>1. workers \in Seq(Workers) /\ Len(workers) \in Nat /\ DOMAIN workers = 1..Len(workers)
    BY DEF TypeOK
  <2>2. /\ workers' \in Seq(Workers) /\ Len(workers') = Len(workers) + n
        /\ \A i \in 1..(Len(workers) + n) :
             workers'[i] = IF i <= Len(workers) THEN workers[i] ELSE order[i - Len(workers)]
    <3>1. /\ workers \o order \in Seq(Workers)
          /\ Len(workers \o order) = Len(workers) + Len(order)
          /\ \A i \in 1..(Len(workers) + Len(order)) :
               (workers \o order)[i]
                 = IF i <= Len(workers) THEN workers[i] ELSE order[i - Len(workers)]
      BY <1>5, <2>1, ConcatProperties, Zenon
    <3> QED
      BY <1>2, <1>5, <3>1
  <2>3. DOMAIN workers' = 1..(Len(workers) + n)
    BY <2>2
  <2>4. \A i \in 1..Len(workers) : i \in 1..(Len(workers) + n) /\ workers'[i] = workers[i]
    BY <2>1, <2>2
  <2>5. ASSUME NEW i \in 1..n
        PROVE  /\ Len(workers) + i \in 1..(Len(workers) + n)
               /\ workers'[Len(workers) + i] = order[i]
    <3>1. /\ Len(workers) + i \in 1..(Len(workers) + n) /\ ~(Len(workers) + i <= Len(workers))
          /\ (Len(workers) + i) - Len(workers) = i
      BY <2>1
    <3> QED
      BY <2>2, <3>1
  <2> QED
    BY <2>1, <2>2, <2>3, <2>4, <2>5
<1>7. \A i \in 1..(Len(workers) + n) :
         i \in 1..Len(workers) \/ \E k \in 1..n : i = Len(workers) + k
  <2> SUFFICES ASSUME NEW i \in 1..(Len(workers) + n), i \notin 1..Len(workers)
               PROVE  \E k \in 1..n : i = Len(workers) + k
    OBVIOUS
  <2>1. i - Len(workers) \in 1..n /\ i = Len(workers) + (i - Len(workers))
    BY <1>6
  <2> QED
    BY <2>1
<1>8. \A i \in 1..Len(workers) : workers[i] \notin new
  BY <1>4, <1>6 DEF OwnedInv, InWorkers
<1>9. \A i, j \in DOMAIN workers' : workers'[i] = workers'[j] => i = j
  <2> SUFFICES ASSUME NEW i \in 1..(Len(workers) + n), NEW j \in 1..(Len(workers) + n),
                      workers'[i] = workers'[j]
               PROVE  i = j
    BY <1>6
  <2>1. CASE i \in 1..Len(workers) /\ j \in 1..Len(workers)
    BY <1>6, <2>1 DEF OwnedInv
  <2>2. ASSUME NEW k \in 1..n, i = Len(workers) + k, j \in 1..Len(workers)
        PROVE  FALSE
    <3>1. workers'[i] = order[k] /\ order[k] \in new
      BY <1>2, <1>6, <2>2
    <3>2. workers'[j] = workers[j] /\ workers[j] \notin new
      BY <1>6, <1>8, <2>2
    <3> QED
      BY <3>1, <3>2
  <2>3. ASSUME NEW k \in 1..n, j = Len(workers) + k, i \in 1..Len(workers)
        PROVE  FALSE
    <3>1. workers'[j] = order[k] /\ order[k] \in new
      BY <1>2, <1>6, <2>3
    <3>2. workers'[i] = workers[i] /\ workers[i] \notin new
      BY <1>6, <1>8, <2>3
    <3> QED
      BY <3>1, <3>2
  <2>4. ASSUME NEW k \in 1..n, NEW l \in 1..n, i = Len(workers) + k, j = Len(workers) + l
        PROVE  i = j
    <3>1. order[k] = order[l]
      BY <1>6, <2>4
    <3>2. k = l
      BY <1>3, <3>1
    <3> QED
      BY <2>4, <3>2
  <2> QED
    BY <1>7, <2>1, <2>2, <2>3, <2>4
<1>10. \A w \in Workers : InWorkers(w)' <=> InWorkers(w) \/ w \in new
  <2>1. ASSUME NEW w \in Workers, NEW i \in DOMAIN workers', workers'[i] = w
        PROVE  InWorkers(w) \/ w \in new
    <3>1. CASE i \in 1..Len(workers)
      BY <1>6, <2>1, <3>1 DEF InWorkers
    <3>2. ASSUME NEW k \in 1..n, i = Len(workers) + k
          PROVE  w \in new
      <4>1. workers'[i] = order[k]
        BY <1>6, <3>2
      <4> QED
        BY <1>2, <2>1, <4>1
    <3>3. i \in 1..(Len(workers) + n)
      BY <1>6
    <3> QED
      BY <1>7, <3>1, <3>2, <3>3
  <2>2. ASSUME NEW w \in Workers, InWorkers(w)
        PROVE  \E i \in DOMAIN workers' : workers'[i] = w
    BY <1>6, <2>2 DEF InWorkers
  <2>3. ASSUME NEW w \in new
        PROVE  \E i \in DOMAIN workers' : workers'[i] = w
    <3>1. PICK k \in 1..n : order[k] = w
      BY <1>2
    <3>2. Len(workers) + k \in DOMAIN workers' /\ workers'[Len(workers) + k] = w
      BY <1>6, <3>1
    <3> QED
      BY <3>2
  <2> QED
    BY <2>1, <2>2, <2>3 DEF InWorkers
<1>11. /\ wpc' \in [Workers -> {"none", "loop", "fetch", "execute", "throw", "end", "done"}]
       /\ wstate' \in [Workers -> {"idle", "running", "stopping", "stopped", "error"}]
  BY <1>1 DEF TypeOK
<1>12. OwnedInv'
  BY <1>1, <1>4, <1>9, <1>10 DEF OwnedInv
<1>13. \A w \in Workers : wpc'[w] = wpc[w] \/ (wpc[w] = "none" /\ wpc'[w] = "loop")
  BY <1>1, <1>4
<1>14. UNCHANGED <<mutex, wstop, holding>> /\ mutex = "none"
  BY DEF AddWorkers
<1>15. \A i \in DOMAIN workers : i \in DOMAIN workers' /\ workers'[i] = workers[i]
  BY <1>6
<1> QED
  BY <1>6, <1>11, <1>12, <1>13, <1>14, <1>15

(* A worker object is destroyed only after its thread is over.             *)
OverFirst == \A w \in Workers : wpc'[w] = "none" => wpc[w] \in {"none", "done"}

(* Workers leave _workers: ws of them stay, the others are destroyed.      *)
LEMMA Destroyed ==
    ASSUME TypeOK, NEW ws \in SUBSET Workers, Destroy(ws)
    PROVE  /\ wpc' \in [Workers -> {"none", "loop", "fetch", "execute", "throw", "end", "done"}]
           /\ wstop' \in [Workers -> BOOLEAN]
           /\ wstate' \in [Workers -> {"idle", "running", "stopping", "stopped", "error"}]
           /\ holding' = holding
           /\ \A w \in Workers : wpc'[w] = IF w \in ws THEN "none" ELSE wpc[w]
  BY DEF Destroy, TypeOK

LEMMA Asked ==
    ASSUME TypeOK, NEW ws, AskToStop(ws)
    PROVE  /\ UNCHANGED <<wpc, holding>>
           /\ wstop' \in [Workers -> BOOLEAN]
           /\ wstate' \in [Workers -> {"idle", "running", "stopping", "stopped", "error"}]
  BY DEF AskToStop, TypeOK

LEMMA CreatedWorkers ==
    ASSUME StructInv, NEW n \in Nat, NEW ok, CreateWorkers(n, ok)
    PROVE  \E m \in 0..n : AddWorkers(m) /\ (ok => m = n)
  BY DEF CreateWorkers

(* After workers were added nobody has the mutex, and nobody joins.        *)
LEMMA AddingStep ==
    ASSUME StructInv, NEW n \in Nat, AddWorkers(n),
           \A s \in ScalerThreads : spc'[s] \in LockedBySpc => spc'[s] = spc[s],
           owner' = owner
    PROVE  MutexInv' /\ OwnedInv' /\ JoinInv' /\ OverFirst
<1>t. TypeOK /\ MutexInv /\ OwnedInv
  BY DEF StructInv
<1>1. /\ OwnedInv' /\ mutex = "none" /\ mutex' = "none"
      /\ \A w \in Workers : wpc'[w] = wpc[w] \/ (wpc[w] = "none" /\ wpc'[w] = "loop")
  BY <1>t, Added
<1>2. /\ \A s \in ScalerThreads : spc[s] \notin LockedBySpc
      /\ owner \notin LockedByOwner
  BY <1>t, <1>1, LockNames DEF MutexInv
<1>3. \A s \in ScalerThreads : spc'[s] \notin LockedBySpc
  BY <1>2
<1>4. MutexInv'
  BY <1>1, <1>2, <1>3, LockNames DEF MutexInv
<1>5. JoinInv'
  BY <1>2, <1>3 DEF JoinInv, LockedBySpc, LockedByOwner
<1>6. OverFirst
  BY <1>1 DEF OverFirst
<1> QED
  BY <1>1, <1>4, <1>5, <1>6

LEMMA OwnerStep ==
    ASSUME StructInv, Start \/ Stop \/ JoinMonitor \/ JoinScaling \/ StopAll \/ JoinOne \/ JoinAll
    PROVE  StructInv' /\ OverFirst
<1>t. TypeOK /\ MutexInv /\ OwnedInv /\ JoinInv
  BY DEF StructInv
<1>w. /\ Len(workers) \in Nat /\ DOMAIN workers = 1..Len(workers)
      /\ \A i \in DOMAIN workers : workers[i] \in Workers
  BY <1>t DEF TypeOK
<1>q. ASSUME wpc' = wpc PROVE SameWorkers /\ OverFirst
  BY <1>q DEF SameWorkers, OverFirst
<1>1. CASE Start
  <2>1. PICK ok \in BOOLEAN :
          /\ CreateWorkers(CoreThreads, ok)
          /\ IF ok
               THEN /\ running' = TRUE /\ should_stop' = FALSE
                    /\ StartThreads
               ELSE UNCHANGED <<flags, monitor, spc>>
    BY <1>1 DEF Start
  <2>2. CoreThreads \in Nat /\ UNCHANGED <<tasks, owner, waits, metrics, load, ask, left>>
    BY <1>1 DEF Start
  <2>3. PICK m \in 0..CoreThreads : AddWorkers(m)
    BY <2>1, <2>2, CreatedWorkers
  <2>4. /\ workers' \in Seq(Workers)
        /\ wpc' \in [Workers -> {"none", "loop", "fetch", "execute", "throw", "end", "done"}]
        /\ wstate' \in [Workers -> {"idle", "running", "stopping", "stopped", "error"}]
        /\ UNCHANGED <<mutex, wstop, holding>>
    BY <1>t, <2>3, Added
  <2>5. /\ spc' \in [ScalerThreads -> {"none", "idle", "wait", "evaluate", "read",
                                       "change", "remove", "join", "done"}]
        /\ running' \in BOOLEAN /\ should_stop' \in BOOLEAN
        /\ monitor' \in {"none", "loop", "active", "total", "done"}
        /\ \A s \in ScalerThreads : spc'[s] \in LockedBySpc => spc'[s] = spc[s]
    <3>1. CASE ok
      <4>1. spc' = [spc EXCEPT !["auto"] = "wait"] \/ spc' = spc
        BY <2>1, <3>1 DEF StartThreads
      <4>2. CASE spc' = spc
        BY <1>t, <2>1, <3>1, <4>2 DEF StartThreads, TypeOK
      <4>3. CASE spc' = [spc EXCEPT !["auto"] = "wait"]
        <5>1. spc' \in [ScalerThreads -> {"none", "idle", "wait", "evaluate", "read",
                                          "change", "remove", "join", "done"}]
          BY <1>t, <4>3, LockNames, PlaceTypes
        <5>2. \A s \in ScalerThreads : spc'[s] = IF s = "auto" THEN "wait" ELSE spc[s]
          BY <1>t, <4>3, LockNames, PlaceTypes
        <5>3. \A s \in ScalerThreads : spc'[s] \in LockedBySpc => spc'[s] = spc[s]
          BY <5>2 DEF LockedBySpc
        <5>4. monitor' \in {"none", "loop", "active", "total", "done"}
          BY <1>t, <2>1, <3>1 DEF StartThreads, TypeOK
        <5> QED
          BY <2>1, <3>1, <5>1, <5>3, <5>4
      <4> QED
        BY <4>1, <4>2, <4>3
    <3>2. CASE ~ok
      BY <1>t, <2>1, <3>2 DEF TypeOK, flags
    <3> QED
      BY <3>1, <3>2
  <2>6. TypeOK'
    <3>1. WorkerTypes' /\ OwnerTypes' /\ OpTypes' /\ WatchTypes'
      BY <1>t, <2>2, <2>4, <2>5, TypeParts
         DEF AllTypes, WorkerTypes, OwnerTypes, OpTypes, WatchTypes
    <3> QED
      BY <1>t, <2>2, <3>1, TypeParts, KeptTypes DEF AllTypes
  <2>7. MutexInv' /\ OwnedInv' /\ JoinInv' /\ OverFirst
    BY <2>2, <2>3, <2>5, AddingStep
  <2> QED
    BY <2>6, <2>7 DEF StructInv
<1>2. CASE Stop \/ JoinMonitor
  <2>1. /\ UNCHANGED <<running, workers, mutex, worker, tasks, watch, load, ops>>
        /\ should_stop' \in BOOLEAN /\ waits' \in BOOLEAN
        /\ owner \in {"idle", "join_monitor"} /\ owner' \in {"join_monitor", "join_scaling"}
    BY <1>t, <1>2 DEF Stop, JoinMonitor, flags, TypeOK
  <2>2. TypeOK'
    <3>1. OwnerTypes'
      BY <1>t, <2>1, TypeParts DEF AllTypes, OwnerTypes
    <3> QED
      BY <1>t, <2>1, <3>1, TypeParts, KeptTypes DEF AllTypes
  <2>3. SameLocks
    BY <2>1 DEF SameLocks, LockedByOwner, ops
  <2>4. SameWorkers /\ OverFirst
    BY <1>q, <2>1 DEF worker
  <2> QED
    BY <2>2, <2>3, <2>4, QuietStep DEF StructInv
<1>3. CASE JoinScaling
  <2>1. /\ mutex = "none" /\ mutex' = "owner" /\ owner' = "stop_all"
        /\ left' = [left EXCEPT !["owner"] = 1]
        /\ UNCHANGED <<flags, workers, worker, tasks, waits, watch, load, spc, ask>>
    BY <1>3 DEF JoinScaling
  <2>2. TypeOK'
    <3>1. OwnerTypes'
      BY <1>t, <2>1, TypeParts DEF AllTypes, OwnerTypes, flags
    <3>2. OpTypes'
      BY <1>t, <2>1, TypeParts DEF AllTypes, OpTypes
    <3> QED
      BY <1>t, <2>1, <3>1, <3>2, TypeParts, KeptTypes DEF AllTypes
  <2>3. left'["owner"] = 1 /\ \A s \in ScalerThreads : left'[s] = left[s]
    BY <1>t, <2>1, LockNames DEF TypeOK
  <2>4. \A s \in ScalerThreads : spc[s] \notin LockedBySpc
    BY <1>t, <2>1, LockNames DEF MutexInv
  <2>5. MutexInv'
    BY <2>1, <2>4, LockNames DEF MutexInv, LockedByOwner
  <2>6. OwnedInv'
    BY <1>t, <2>1 DEF OwnedInv, InWorkers, worker
  <2>7. JoinInv'
    BY <1>w, <2>1, <2>3, <2>4 DEF JoinInv, LockedBySpc
  <2>8. OverFirst
    BY <1>q, <2>1 DEF worker
  <2> QED
    BY <2>2, <2>5, <2>6, <2>7, <2>8 DEF StructInv
<1>4. CASE StopAll /\ left["owner"] <= Len(workers)
  <2>1. /\ owner = "stop_all" /\ owner' \in {"join_one", "join_all"}
        /\ \E ws : AskToStop(ws)
        /\ UNCHANGED <<flags, workers, mutex, left, tasks, waits, watch, load, spc, ask>>
    <3>1. Len(workers) \in Nat /\ left["owner"] \in Nat
      BY <1>t DEF TypeOK
    <3>2. ~(left["owner"] > Len(workers))
      BY <1>4, <3>1
    <3> QED
      BY <1>4, <3>2 DEF StopAll
  <2>2. /\ UNCHANGED <<wpc, holding>> /\ wstop' \in [Workers -> BOOLEAN]
        /\ wstate' \in [Workers -> {"idle", "running", "stopping", "stopped", "error"}]
    BY <1>t, <2>1, Asked
  <2>3. TypeOK'
    <3>1. OwnerTypes'
      BY <1>t, <2>1, TypeParts DEF AllTypes, OwnerTypes, flags
    <3>2. WorkerTypes'
      BY <1>t, <2>1, <2>2, TypeParts DEF AllTypes, WorkerTypes
    <3>3. UNCHANGED ops
      BY <2>1 DEF ops
    <3> QED
      BY <1>t, <2>1, <3>1, <3>2, <3>3, TypeParts, KeptTypes DEF AllTypes
  <2>4. MutexInv' /\ OwnedInv'
    BY <1>t, <2>1, <2>2 DEF MutexInv, OwnedInv, InWorkers, LockedByOwner
  <2>5. JoinInv'
    BY <1>t, <1>4, <2>1, <2>2 DEF JoinInv, LockedByOwner
  <2> QED
    BY <1>q, <2>2, <2>3, <2>4, <2>5 DEF StructInv
<1>5. CASE StopAll /\ left["owner"] > Len(workers)
  <2>0. left["owner"] \in Nat /\ ~(left["owner"] <= Len(workers))
    BY <1>t, <1>w, <1>5 DEF TypeOK
  <2>1. /\ owner = "stop_all" /\ owner' = "idle"
        /\ Destroy({workers[i] : i \in DOMAIN workers})
        /\ workers' = <<>> /\ mutex' = "none" /\ running' = FALSE
        /\ left' = [left EXCEPT !["owner"] = 0]
        /\ UNCHANGED <<should_stop, tasks, waits, watch, load, spc, ask>>
    BY <1>5, <2>0 DEF StopAll
  <2> DEFINE ws == {workers[i] : i \in DOMAIN workers}
  <2>2. ws \in SUBSET Workers
    BY <1>w
  <2>3. /\ wpc' \in [Workers -> {"none", "loop", "fetch", "execute", "throw", "end", "done"}]
        /\ wstop' \in [Workers -> BOOLEAN]
        /\ wstate' \in [Workers -> {"idle", "running", "stopping", "stopped", "error"}]
        /\ holding' = holding
        /\ \A w \in Workers : wpc'[w] = IF w \in ws THEN "none" ELSE wpc[w]
    BY <1>t, <2>1, <2>2, Destroyed
  <2>4. workers' \in Seq(Workers) /\ left' \in [ScalerThreads \cup {"owner"} -> Nat]
    BY <1>t, <2>1 DEF TypeOK
  <2>5. TypeOK'
    <3>1. OwnerTypes'
      BY <1>t, <2>1, TypeParts DEF AllTypes, OwnerTypes
    <3>2. WorkerTypes'
      BY <1>t, <2>3, <2>4, TypeParts DEF AllTypes, WorkerTypes
    <3>3. OpTypes'
      BY <1>t, <2>1, <2>4, TypeParts DEF AllTypes, OpTypes
    <3> QED
      BY <1>t, <2>1, <3>1, <3>2, <3>3, TypeParts, KeptTypes DEF AllTypes
  <2>6. \A s \in ScalerThreads : spc[s] \notin LockedBySpc
    BY <1>t, <2>1, LockNames DEF MutexInv, LockedByOwner
  <2>7. MutexInv'
    BY <2>1, <2>6, LockNames DEF MutexInv, LockedByOwner
  <2>8. \A w \in Workers : wpc[w] # "none" => w \in ws
    BY <1>t DEF OwnedInv, InWorkers
  <2>9. \A w \in Workers : wpc'[w] = "none"
    BY <2>3, <2>8
  <2>10. OwnedInv'
    BY <2>1, <2>9 DEF OwnedInv, InWorkers
  <2>11. JoinInv'
    BY <2>1, <2>6 DEF JoinInv, LockedBySpc, LockedByOwner
  <2>12. \A i \in DOMAIN workers : wpc[workers[i]] = "done"
    <3>1. \A i \in DOMAIN workers : i < left["owner"]
      BY <1>w, <1>5, <2>0
    <3> QED
      BY <1>t, <2>1, <3>1 DEF JoinInv, LockedByOwner
  <2>13. OverFirst
    BY <2>8, <2>12 DEF OverFirst
  <2> QED
    BY <2>5, <2>7, <2>10, <2>11, <2>13 DEF StructInv
<1>6. CASE JoinOne \/ JoinAll
  <2> DEFINE n == IF owner = "join_one" THEN left["owner"] + 1 ELSE Len(workers) + 1
  <2>1. /\ owner \in {"join_one", "join_all"} /\ owner' = "stop_all"
        /\ left' = [left EXCEPT !["owner"] = n]
        /\ UNCHANGED <<flags, workers, mutex, worker, tasks, waits, watch, load, spc, ask>>
    BY <1>6 DEF JoinOne, JoinAll
  <2>2. left["owner"] \in Nat /\ n \in Nat /\ n >= 1
    <3>1. left["owner"] \in Nat
      BY <1>t DEF TypeOK
    <3> QED
      BY <1>w, <3>1
  <2>3. /\ left' \in [ScalerThreads \cup {"owner"} -> Nat] /\ left'["owner"] = n
        /\ \A s \in ScalerThreads : left'[s] = left[s]
    BY <1>t, <2>1, <2>2, LockNames, PlaceTypes
  <2>4. TypeOK'
    <3>1. OwnerTypes'
      BY <1>t, <2>1, TypeParts DEF AllTypes, OwnerTypes, flags
    <3>2. OpTypes'
      BY <1>t, <2>1, <2>3, TypeParts DEF AllTypes, OpTypes
    <3> QED
      BY <1>t, <2>1, <3>1, <3>2, TypeParts, KeptTypes DEF AllTypes
  <2>5. MutexInv' /\ OwnedInv'
    BY <1>t, <2>1 DEF MutexInv, OwnedInv, InWorkers, LockedByOwner, worker
  <2>6. ASSUME NEW i \in DOMAIN workers, i < n
        PROVE  wpc[workers[i]] = "done"
    <3>1. CASE JoinAll
      BY <3>1 DEF JoinAll
    <3>2. CASE JoinOne
      <4>1. owner = "join_one" /\ wpc[workers[left["owner"]]] = "done"
        BY <3>2 DEF JoinOne
      <4>2. i < left["owner"] \/ i = left["owner"]
        BY <1>w, <2>2, <2>6, <4>1
      <4> QED
        BY <1>t, <4>1, <4>2 DEF JoinInv, LockedByOwner
    <3> QED
      BY <1>6, <3>1, <3>2
  <2>7. JoinInv'
    <3>1. \A s \in ScalerThreads : spc'[s] = "join" => left'[s] > 0 /\ workers' # <<>>
      BY <1>t, <2>1, <2>3 DEF JoinInv
    <3>2. /\ left'["owner"] >= 1
          /\ \A i \in DOMAIN workers' : i < left'["owner"] => wpc'[workers'[i]] = "done"
      BY <2>1, <2>2, <2>3, <2>6 DEF worker
    <3> QED
      BY <2>1, <3>1, <3>2 DEF JoinInv
  <2> QED
    BY <1>q, <2>1, <2>4, <2>5, <2>7 DEF StructInv, worker
<1> QED
  <2>1. left["owner"] <= Len(workers) \/ left["owner"] > Len(workers)
    BY <1>t, <1>w DEF TypeOK
  <2> QED
    BY <1>1, <1>2, <1>3, <1>4, <1>5, <1>6, <2>1

LEMMA TaskStep ==
    ASSUME StructInv, NEW u \in Units, Submit(u) \/ Push(u)
    PROVE  StructInv' /\ OverFirst
<1>t. TypeOK
  BY DEF StructInv
<1>1. UNCHANGED <<flags, workers, mutex, worker, owner, waits, watch, load, ops>>
  BY DEF Submit, Push
<1>2. queue' \in Seq(Units) /\ ustate' \in [Units -> {"new", "submitting", "queued", "held", "ended"}]
  <2>1. queue' = queue \/ queue' = Append(queue, u)
    BY DEF Submit, Push
  <2>2. Append(queue, u) \in Seq(Units)
    BY <1>t DEF TypeOK
  <2>3. ustate' \in [Units -> {"new", "submitting", "queued", "held", "ended"}]
    <3>1. \/ ustate' = [ustate EXCEPT ![u] = "submitting"]
          \/ ustate' = [ustate EXCEPT ![u] = "queued"]
      BY DEF Submit, Push
    <3> QED
      BY <1>t, <3>1, TypeParts DEF AllTypes, TaskTypes
  <2> QED
    BY <1>t, <2>1, <2>2, <2>3, TypeParts DEF AllTypes, TaskTypes
<1>3. TypeOK'
  BY <1>t, <1>1, <1>2, TypeParts, KeptTypes DEF AllTypes, TaskTypes
<1>4. SameWorkers /\ SameLocks /\ OverFirst
  BY <1>1 DEF SameWorkers, SameLocks, OverFirst, worker, ops
<1> QED
  BY <1>3, <1>4, QuietStep DEF StructInv

LEMMA WorkerStep ==
    ASSUME StructInv, NEW w \in Workers, Working(w)
    PROVE  StructInv' /\ OverFirst
<1>t. TypeOK
  BY DEF StructInv
<1>1. PICK from \in {"loop", "fetch", "execute", "throw", "end"},
           to \in {"loop", "fetch", "execute", "throw", "end", "done"} :
              AtWorker(w, from, to)
  BY DEF Working, CheckStop, Fetch, ExecuteTask, Catch, EndThread
<1>2. UNCHANGED <<wstop, flags, workers, mutex, owner, waits, watch, load, ops>>
  BY DEF Working, CheckStop, Fetch, ExecuteTask, Catch, EndThread, OtherThanWorkers
<1>3. wstate' \in [Workers -> {"idle", "running", "stopping", "stopped", "error"}]
  <2>1. \/ wstate' = wstate \/ wstate' = [wstate EXCEPT ![w] = "error"]
        \/ wstate' = [wstate EXCEPT ![w] = "stopped"]
    BY DEF Working, CheckStop, Fetch, ExecuteTask, Catch, EndThread
  <2> QED
    BY <1>t, <2>1, TypeParts DEF AllTypes, WorkerTypes
<1>4. /\ queue' \in Seq(Units) /\ holding' \in [Workers -> Units \cup {"none"}]
      /\ ustate' \in [Units -> {"new", "submitting", "queued", "held", "ended"}]
  <2>1. CASE CheckStop(w) \/ Catch(w) \/ EndThread(w)
    BY <1>t, <2>1 DEF CheckStop, Catch, EndThread, TypeOK, tasks
  <2>2. CASE Fetch(w)
    <3>1. CASE queue = <<>>
      BY <1>t, <2>2, <3>1 DEF Fetch, TypeOK, tasks
    <3>2. CASE queue # <<>>
      <4>1. Head(queue) \in Units /\ Tail(queue) \in Seq(Units)
        BY <1>t, <3>2 DEF TypeOK
      <4>2. /\ holding' = [holding EXCEPT ![w] = Head(queue)] /\ queue' = Tail(queue)
            /\ ustate' = [ustate EXCEPT ![Head(queue)] = "held"]
        BY <2>2, <3>2 DEF Fetch
      <4> QED
        BY <1>t, <4>1, <4>2 DEF TypeOK
    <3> QED
      BY <3>1, <3>2
  <2>3. CASE ExecuteTask(w)
    BY <1>t, <2>3 DEF ExecuteTask, TypeOK
  <2> QED
    BY <2>1, <2>2, <2>3 DEF Working
<1>p. wpc' \in [Workers -> {"none", "loop", "fetch", "execute", "throw", "end", "done"}]
  <2>1. wpc' = [wpc EXCEPT ![w] = to]
    BY <1>1 DEF AtWorker
  <2> QED
    BY <1>t, <2>1, PlaceTypes
<1>5. TypeOK'
  <2>1. WorkerTypes'
    BY <1>t, <1>p, <1>2, <1>3, <1>4, TypeParts DEF AllTypes, WorkerTypes
  <2> QED
    BY <1>t, <1>2, <1>4, <2>1, TypeParts, KeptTypes DEF AllTypes, TaskTypes
<1>6. SameWorkers /\ OverFirst
  BY <1>t, <1>1 DEF AtWorker, SameWorkers, OverFirst, TypeOK
<1>7. SameLocks
  BY <1>2 DEF SameLocks, ops
<1> QED
  BY <1>5, <1>6, <1>7, QuietStep DEF StructInv

LEMMA MonitorStep ==
    ASSUME StructInv, Monitoring
    PROVE  StructInv' /\ OverFirst
<1>t. TypeOK
  BY DEF StructInv
<1>1. UNCHANGED OtherThanMonitor /\ monitor' \in {"loop", "active", "total", "done"}
  BY DEF Monitoring, MonitorLength, MonitorActive, MonitorTotal
<1>2. Len(queue) \in Nat /\ Len(workers) \in Nat /\ Cardinality(Active) \in Nat
  <2>1. Len(workers) \in Nat /\ DOMAIN workers = 1..Len(workers)
    BY <1>t DEF TypeOK
  <2>2. IsFiniteSet(1..Len(workers))
    BY <2>1, FS_Interval
  <2>3. Active \in SUBSET (1..Len(workers))
    BY <2>1 DEF Active
  <2>4. Cardinality(Active) \in Nat
    BY <2>2, <2>3, FS_Subset, FS_CardinalityType
  <2> QED
    BY <1>t, <2>1, <2>4 DEF TypeOK
<1>3. metrics' \in [len : Nat, active : Nat, total : Nat]
  <2>1. metrics \in [len : Nat, active : Nat, total : Nat]
    BY <1>t DEF TypeOK
  <2>2. \/ metrics' = metrics
        \/ metrics' = [metrics EXCEPT !.len = Len(queue)]
        \/ metrics' = [metrics EXCEPT !.active = Cardinality(Active)]
        \/ metrics' = [metrics EXCEPT !.total = Len(workers)]
    BY DEF Monitoring, MonitorLength, MonitorActive, MonitorTotal
  <2>3. \A n \in Nat :
          /\ [metrics EXCEPT !.len = n] \in [len : Nat, active : Nat, total : Nat]
          /\ [metrics EXCEPT !.active = n] \in [len : Nat, active : Nat, total : Nat]
          /\ [metrics EXCEPT !.total = n] \in [len : Nat, active : Nat, total : Nat]
    BY <2>1
  <2> QED
    BY <1>2, <2>1, <2>2, <2>3
<1>4. TypeOK'
  <2>1. WatchTypes'
    BY <1>1, <1>3 DEF WatchTypes
  <2> QED
    BY <1>t, <1>1, <2>1, TypeParts, KeptTypes DEF AllTypes, OtherThanMonitor
<1>5. SameWorkers /\ SameLocks /\ OverFirst
  BY <1>1 DEF SameWorkers, SameLocks, OverFirst, OtherThanMonitor, worker, ops
<1> QED
  BY <1>4, <1>5, QuietStep DEF StructInv

(* scale-up and scale-down in size_t stay in it.                           *)
LEMMA MinusType ==
    ASSUME NEW a \in Int, NEW b \in Int
    PROVE  Minus(a, b) \in Nat
  BY DEF Minus

LEMMA DecideStep ==
    ASSUME StructInv, \/ ScalingWait \/ \E cool \in BOOLEAN : Evaluate(cool)
                      \/ \E s \in Scalers : ManualScale(s)
    PROVE  StructInv' /\ OverFirst
<1>t. TypeOK
  BY DEF StructInv
<1>1. UNCHANGED <<workers, mutex, left, OtherThanOps>>
  BY DEF ScalingWait, Evaluate, ManualScale
<1>2. \E s \in ScalerThreads, from \in {"wait", "evaluate", "idle"},
        to \in {"done", "evaluate", "read", "wait"} : At(s, from, to)
  BY LockNames DEF ScalingWait, Evaluate, ManualScale
<1>3. PICK s \in ScalerThreads, from \in {"wait", "evaluate", "idle"},
        to \in {"done", "evaluate", "read", "wait"} : At(s, from, to)
  BY <1>2
<1>4. ask' \in [ScalerThreads -> [up : BOOLEAN, n : Nat]]
  <2>1. CASE ScalingWait
    BY <1>t, <2>1 DEF ScalingWait, TypeOK
  <2>2. ASSUME NEW cool \in BOOLEAN, Evaluate(cool)
        PROVE  ask' \in [ScalerThreads -> [up : BOOLEAN, n : Nat]]
    <3>1. \E a \in [up : BOOLEAN, n : Nat] : ask' = ask \/ ask' = [ask EXCEPT !["auto"] = a]
      <4>1. /\ [up |-> TRUE, n |-> UpStep] \in [up : BOOLEAN, n : Nat]
            /\ [up |-> FALSE, n |-> DownStep] \in [up : BOOLEAN, n : Nat]
        OBVIOUS
      <4>2. \/ ask' = ask
            \/ ask' = [ask EXCEPT !["auto"] = [up |-> TRUE, n |-> UpStep]]
            \/ ask' = [ask EXCEPT !["auto"] = [up |-> FALSE, n |-> DownStep]]
        BY <2>2 DEF Evaluate
      <4> QED
        BY <4>1, <4>2
    <3>2. PICK a \in [up : BOOLEAN, n : Nat] : ask' = ask \/ ask' = [ask EXCEPT !["auto"] = a]
      BY <3>1
    <3>3. [ask EXCEPT !["auto"] = a] \in [ScalerThreads -> [up : BOOLEAN, n : Nat]]
      BY <1>t DEF TypeOK
    <3> QED
      BY <1>t, <3>2, <3>3 DEF TypeOK
  <2>3. ASSUME NEW r \in Scalers, ManualScale(r)
        PROVE  ask' \in [ScalerThreads -> [up : BOOLEAN, n : Nat]]
    <3>1. PICK a \in Asks : ask' = [ask EXCEPT ![r] = a]
      BY <2>3 DEF ManualScale
    <3>2. a \in [up : BOOLEAN, n : Nat]
      OBVIOUS
    <3> QED
      BY <1>t, <3>1, <3>2 DEF TypeOK
  <2> QED
    BY <2>1, <2>2, <2>3
<1>5. last_len' \in Nat /\ windows' \in [up : 0..2, down : 0..3]
  <2>1. CASE UNCHANGED load
    BY <1>t, <2>1 DEF load, TypeOK
  <2>2. ASSUME NEW cool \in BOOLEAN, Evaluate(cool)
        PROVE  last_len' \in Nat /\ windows' \in [up : 0..2, down : 0..3]
    <3>1. last_len' \in Nat
      BY <1>t, <2>2 DEF Evaluate, TypeOK
    <3>2. windows.up \in 0..2 /\ windows.down \in 0..3
      BY <1>t DEF TypeOK
    <3>3. \A level \in Levels : UpWindow(level) \in 0..2 /\ DownWindow(level) \in 0..3
      BY <3>2 DEF UpWindow, DownWindow, MinOf
    <3>4. PICK level \in Levels :
            LET w == [up |-> UpWindow(level), down |-> DownWindow(level)]
            IN  windows' \in {w, [w EXCEPT !.up = 0], [w EXCEPT !.down = 0]}
      BY <2>2 DEF Evaluate
    <3> QED
      BY <3>1, <3>3, <3>4
  <2> QED
    BY <2>1, <2>2 DEF ScalingWait, ManualScale
<1>6. TypeOK'
  <2>1. spc' = [spc EXCEPT ![s] = to]
    BY <1>3 DEF At
  <2>2. spc' \in [ScalerThreads -> {"none", "idle", "wait", "evaluate", "read",
                                    "change", "remove", "join", "done"}]
    BY <1>t, <2>1, PlaceTypes
  <2> QED
    <3>1. OpTypes'
      BY <1>t, <1>1, <1>4, <2>2, TypeParts DEF AllTypes, OpTypes
    <3> QED
      BY <1>t, <1>1, <1>5, <3>1, TypeParts, KeptTypes DEF AllTypes, LoadTypes, OtherThanOps
<1>7. SameWorkers /\ OverFirst
  BY <1>1 DEF SameWorkers, OverFirst, OtherThanOps, worker
<1>8. SameLocks
  <2>1. spc[s] \notin LockedBySpc /\ to \notin LockedBySpc
    BY <1>3 DEF At, LockedBySpc
  <2>2. \A r \in ScalerThreads : spc'[r] = IF r = s THEN to ELSE spc[r]
    BY <1>t, <1>3, PlaceTypes DEF At
  <2> QED
    BY <1>1, <2>1, <2>2 DEF SameLocks, LockedBySpc, OtherThanOps
<1> QED
  BY <1>6, <1>7, <1>8, QuietStep DEF StructInv

LEMMA CountStep ==
    ASSUME StructInv, NEW s \in ScalerThreads, ReadCount(s)
    PROVE  StructInv' /\ OverFirst
<1>t. TypeOK /\ s # "owner"
  BY LockNames DEF StructInv
<1> DEFINE room == IF ask[s].up THEN Minus(MaxThreads, Len(workers))
                                ELSE Minus(Len(workers), MinThreads)
           n == MinOf(ask[s].n, room)
<1>1. n \in Nat
  <2>1. room \in Nat
    BY <1>t, MinusType DEF TypeOK
  <2>2. ask[s].n \in Nat
    BY <1>t DEF TypeOK
  <2> QED
    BY <2>1, <2>2 DEF MinOf
<1>2. /\ At(s, "read", IF n > 0 THEN "change" ELSE Back(s))
      /\ left' = [left EXCEPT ![s] = n]
      /\ UNCHANGED <<workers, mutex, ask, load, OtherThanOps>>
  BY DEF ReadCount
<1> HIDE DEF n
<1>3. PICK to \in {"change", "wait", "idle"} : At(s, "read", to)
  BY <1>2 DEF Back
<1>4. TypeOK'
  <2>1. spc' = [spc EXCEPT ![s] = to]
    BY <1>3 DEF At
  <2>2. /\ spc' \in [ScalerThreads -> {"none", "idle", "wait", "evaluate", "read",
                                       "change", "remove", "join", "done"}]
        /\ left' \in [ScalerThreads \cup {"owner"} -> Nat]
    BY <1>t, <1>1, <1>2, <2>1, PlaceTypes
  <2> QED
    <3>1. OpTypes'
      BY <1>t, <1>2, <2>2, TypeParts DEF AllTypes, OpTypes
    <3> QED
      BY <1>t, <1>2, <3>1, TypeParts, KeptTypes DEF AllTypes, OtherThanOps
<1>5. SameWorkers /\ OverFirst
  BY <1>2 DEF SameWorkers, OverFirst, OtherThanOps, worker
<1>6. SameLocks
  <2>1. spc[s] \notin LockedBySpc /\ to \notin LockedBySpc
    BY <1>3 DEF At, LockedBySpc
  <2>2. \A r \in ScalerThreads : spc'[r] = IF r = s THEN to ELSE spc[r]
    BY <1>t, <1>3, PlaceTypes DEF At
  <2>3. \A r \in (ScalerThreads \cup {"owner"}) \ {s} : left'[r] = left[r]
    BY <1>t, <1>2, PlaceTypes
  <2>4. "owner" \in (ScalerThreads \cup {"owner"}) \ {s}
    BY <1>t
  <2> QED
    BY <1>2, <2>1, <2>2, <2>3, <2>4 DEF SameLocks, LockedBySpc, OtherThanOps
<1> QED
  BY <1>4, <1>5, <1>6, QuietStep DEF StructInv

LEMMA UpStepSound ==
    ASSUME StructInv, NEW s \in ScalerThreads, ScaleUp(s)
    PROVE  StructInv' /\ OverFirst
<1>t. TypeOK /\ OwnedInv /\ left[s] \in Nat
  BY DEF StructInv, TypeOK
<1>1. /\ At(s, "change", Back(s)) /\ left' = [left EXCEPT ![s] = 0]
      /\ UNCHANGED <<flags, tasks, owner, waits, watch, load, ask>>
      /\ \E ok \in BOOLEAN : CreateWorkers(left[s], ok)
  BY DEF ScaleUp
<1>2. PICK m \in 0..left[s] : AddWorkers(m)
  BY <1>t, <1>1, CreatedWorkers
<1>3. PICK to \in {"wait", "idle"} : At(s, "change", to)
  BY <1>1 DEF Back
<1>4. \A r \in ScalerThreads : spc'[r] \in LockedBySpc => spc'[r] = spc[r]
  BY <1>t, <1>3, PlaceTypes DEF At, LockedBySpc
<1>5. /\ workers' \in Seq(Workers)
      /\ wpc' \in [Workers -> {"none", "loop", "fetch", "execute", "throw", "end", "done"}]
      /\ wstate' \in [Workers -> {"idle", "running", "stopping", "stopped", "error"}]
      /\ UNCHANGED <<mutex, wstop, holding>>
  BY <1>t, <1>2, Added
<1>6. TypeOK'
  <2>1. spc' = [spc EXCEPT ![s] = to] /\ 0 \in Nat
    BY <1>3 DEF At
  <2>2. /\ spc' \in [ScalerThreads -> {"none", "idle", "wait", "evaluate", "read",
                                       "change", "remove", "join", "done"}]
        /\ left' \in [ScalerThreads \cup {"owner"} -> Nat]
    BY <1>t, <1>1, <2>1, PlaceTypes
  <2> QED
    <3>1. WorkerTypes'
      BY <1>t, <1>5, TypeParts DEF AllTypes, WorkerTypes
    <3>2. OpTypes'
      BY <1>t, <1>1, <2>2, TypeParts DEF AllTypes, OpTypes
    <3> QED
      BY <1>t, <1>1, <1>5, <3>1, <3>2, TypeParts, KeptTypes DEF AllTypes
<1>7. MutexInv' /\ OwnedInv' /\ JoinInv' /\ OverFirst
  <2>1. m \in Nat
    BY <1>t
  <2> QED
    BY <1>1, <1>2, <1>4, <2>1, AddingStep
<1> QED
  BY <1>6, <1>7 DEF StructInv

LEMMA DownStepSound ==
    ASSUME StructInv, NEW s \in ScalerThreads, ScaleDown(s) \/ Remove(s) \/ JoinRemoved(s)
    PROVE  StructInv' /\ OverFirst
<1>t. /\ TypeOK /\ MutexInv /\ OwnedInv /\ JoinInv
      /\ s # "owner" /\ s # "none" /\ s \in ScalerThreads \cup {"owner"}
  BY LockNames DEF StructInv
<1>w. /\ Len(workers) \in Nat /\ DOMAIN workers = 1..Len(workers)
      /\ \A i \in DOMAIN workers : workers[i] \in Workers
      /\ left[s] \in Nat
  BY <1>t DEF TypeOK
<1>q. ASSUME wpc' = wpc PROVE OverFirst
  BY <1>q DEF OverFirst
<1>1. CASE ScaleDown(s)
  <2>1. /\ mutex = "none" /\ mutex' = s /\ At(s, "change", "remove")
        /\ UNCHANGED <<workers, left, ask, load, OtherThanOps>>
    BY <1>1 DEF ScaleDown
  <2>2. TypeOK'
    <3>1. OpTypes' /\ OwnerTypes'
      BY <1>t, <2>1, TypeParts, PlaceTypes
         DEF AllTypes, OpTypes, OwnerTypes, At, OtherThanOps, flags
    <3> QED
      BY <1>t, <2>1, <3>1, TypeParts, KeptTypes DEF AllTypes, OtherThanOps
  <2>3. /\ spc'[s] = "remove"
        /\ \A r \in ScalerThreads \ {s} : spc'[r] = spc[r]
    BY <1>t, <2>1 DEF At, TypeOK
  <2>4. /\ \A r \in ScalerThreads : spc[r] \notin LockedBySpc
        /\ owner \notin LockedByOwner
    BY <1>t, <2>1, LockNames DEF MutexInv
  <2>5. MutexInv'
    BY <1>t, <2>1, <2>3, <2>4, LockNames DEF MutexInv, LockedBySpc, OtherThanOps
  <2>6. OwnedInv'
    BY <1>t, <2>1 DEF OwnedInv, InWorkers, OtherThanOps, worker
  <2>7. JoinInv'
    BY <2>1, <2>3, <2>4 DEF JoinInv, LockedBySpc, LockedByOwner, OtherThanOps
  <2> QED
    BY <1>q, <2>1, <2>2, <2>5, <2>6, <2>7 DEF StructInv, OtherThanOps, worker
<1>l. CASE spc[s] \in LockedBySpc
  <2>1. /\ mutex = s /\ owner \notin LockedByOwner
        /\ \A r \in ScalerThreads \ {s} : spc[r] \notin LockedBySpc
    BY <1>t, <1>l DEF MutexInv
  <2>2. CASE Remove(s) /\ left[s] > 0 /\ workers # <<>>
    <3>0. ~(left[s] = 0 \/ workers = <<>>)
      BY <1>w, <2>2
    <3>1. /\ AskToStop({workers[Len(workers)]})
          /\ At(s, "remove", "join")
          /\ UNCHANGED <<mutex, left, flags, workers, tasks, owner, waits, watch, load, ask>>
      BY <2>2, <3>0 DEF Remove
    <3>2. /\ UNCHANGED <<wpc, holding>> /\ wstop' \in [Workers -> BOOLEAN]
          /\ wstate' \in [Workers -> {"idle", "running", "stopping", "stopped", "error"}]
      BY <1>t, <3>1, Asked
    <3>3. TypeOK'
      <4>1. OpTypes'
        BY <1>t, <3>1, TypeParts, PlaceTypes DEF AllTypes, OpTypes, At
      <4>2. WorkerTypes'
        BY <1>t, <3>1, <3>2, TypeParts DEF AllTypes, WorkerTypes
      <4> QED
        BY <1>t, <3>1, <4>1, <4>2, TypeParts, KeptTypes DEF AllTypes
    <3>4. spc'[s] = "join" /\ \A r \in ScalerThreads \ {s} : spc'[r] = spc[r]
      BY <1>t, <3>1 DEF At, TypeOK
    <3>5. MutexInv'
      BY <1>t, <1>l, <3>1, <3>4 DEF MutexInv, LockedBySpc
    <3>6. OwnedInv'
      BY <1>t, <3>1, <3>2 DEF OwnedInv, InWorkers
    <3>7. JoinInv'
      BY <2>1, <2>2, <3>1, <3>4 DEF JoinInv, LockedBySpc, LockedByOwner
    <3> QED
      BY <1>q, <3>2, <3>3, <3>5, <3>6, <3>7 DEF StructInv
  <2>3. CASE Remove(s) /\ (left[s] = 0 \/ workers = <<>>)
    <3>0. ~(left[s] > 0 /\ workers # <<>>)
      BY <1>w, <2>3
    <3>1. /\ mutex' = "none" /\ left' = [left EXCEPT ![s] = 0]
          /\ At(s, "remove", Back(s))
          /\ UNCHANGED <<worker, flags, workers, tasks, owner, waits, watch, load, ask>>
      BY <2>3, <3>0 DEF Remove
    <3>2. PICK to \in {"wait", "idle"} : At(s, "remove", to)
      BY <3>1 DEF Back
    <3>3. TypeOK'
      <4>1. spc' = [spc EXCEPT ![s] = to] /\ 0 \in Nat
        BY <3>2 DEF At
      <4>2. OpTypes'
        BY <1>t, <3>1, <4>1, TypeParts, PlaceTypes DEF AllTypes, OpTypes
      <4>3. OwnerTypes'
        BY <1>t, <3>1, TypeParts DEF AllTypes, OwnerTypes, flags
      <4> QED
        BY <1>t, <3>1, <4>2, <4>3, TypeParts, KeptTypes DEF AllTypes
    <3>4. spc'[s] = to /\ \A r \in ScalerThreads \ {s} : spc'[r] = spc[r]
      BY <1>t, <3>2 DEF At, TypeOK
    <3>5. \A r \in ScalerThreads : spc'[r] \notin LockedBySpc
      BY <2>1, <3>4 DEF LockedBySpc
    <3>6. MutexInv'
      BY <2>1, <3>1, <3>5, LockNames DEF MutexInv
    <3>7. OwnedInv'
      BY <1>t, <3>1 DEF OwnedInv, InWorkers, worker
    <3>8. JoinInv'
      BY <2>1, <3>1, <3>5 DEF JoinInv, LockedBySpc, LockedByOwner
    <3> QED
      BY <1>q, <3>1, <3>3, <3>6, <3>7, <3>8 DEF StructInv, worker
  <2>4. CASE JoinRemoved(s)
    <3> DEFINE last == workers[Len(workers)]
               rest == SubSeq(workers, 1, Len(workers) - 1)
    <3>1. /\ spc[s] = "join" /\ wpc[last] = "done" /\ At(s, "join", "remove")
          /\ Destroy({last}) /\ workers' = rest /\ left' = [left EXCEPT ![s] = left[s] - 1]
          /\ UNCHANGED <<flags, mutex, tasks, owner, waits, watch, load, ask>>
      BY <2>4 DEF JoinRemoved
    <3>2. left[s] > 0 /\ workers # <<>> /\ Len(workers) >= 1
      BY <1>t, <1>w, <3>1 DEF JoinInv, TypeOK
    <3>3. last \in Workers /\ Len(workers) \in DOMAIN workers
      BY <1>w, <3>2
    <3>4. /\ wpc' \in [Workers -> {"none", "loop", "fetch", "execute", "throw", "end", "done"}]
          /\ wstop' \in [Workers -> BOOLEAN]
          /\ wstate' \in [Workers -> {"idle", "running", "stopping", "stopped", "error"}]
          /\ holding' = holding
          /\ \A w \in Workers : wpc'[w] = IF w \in {last} THEN "none" ELSE wpc[w]
      BY <1>t, <3>1, <3>3, Destroyed
    <3>5. /\ rest \in Seq(Workers) /\ Len(rest) = Len(workers) - 1
          /\ \A i \in 1..(Len(workers) - 1) : rest[i] = workers[i]
      <4>1. workers \in Seq(Workers)
        BY <1>t, TypeParts DEF AllTypes, WorkerTypes
      <4> QED
        BY <1>w, <3>2, <4>1
    <3>6. /\ DOMAIN workers' = 1..(Len(workers) - 1) /\ workers' \in Seq(Workers)
          /\ \A i \in 1..(Len(workers) - 1) : i \in DOMAIN workers /\ workers'[i] = workers[i]
      BY <1>w, <3>1, <3>5
    <3>7. left' \in [ScalerThreads \cup {"owner"} -> Nat]
      <4>1. left[s] - 1 \in Nat
        BY <1>w, <3>2
      <4> QED
        BY <1>t, <3>1, <4>1, PlaceTypes
    <3>8. TypeOK'
      <4>1. WorkerTypes'
        BY <1>t, <3>4, <3>6, TypeParts DEF AllTypes, WorkerTypes
      <4>2. OpTypes'
        BY <1>t, <3>1, <3>7, TypeParts, PlaceTypes DEF AllTypes, OpTypes, At
      <4> QED
        BY <1>t, <3>1, <4>1, <4>2, TypeParts, KeptTypes DEF AllTypes
    <3>9. spc'[s] = "remove" /\ \A r \in ScalerThreads \ {s} : spc'[r] = spc[r]
      BY <1>t, <3>1 DEF At, TypeOK
    <3>10. MutexInv'
      BY <1>t, <1>l, <3>1, <3>9 DEF MutexInv, LockedBySpc
    <3>11. \A i \in 1..(Len(workers) - 1) : workers[i] # last
      BY <1>t, <1>w, <3>3 DEF OwnedInv
    <3>12. ASSUME NEW w \in Workers
           PROVE  InWorkers(w)' <=> InWorkers(w) /\ w # last
      <4>1. ASSUME NEW i \in DOMAIN workers, workers[i] = w, w # last
            PROVE  i \in 1..(Len(workers) - 1)
        <5>1. i # Len(workers)
          BY <4>1
        <5> QED
          BY <1>w, <5>1
      <4> QED
        BY <3>6, <3>11, <4>1 DEF InWorkers
    <3>13. OwnedInv'
      <4>1. \A i, j \in DOMAIN workers' : workers'[i] = workers'[j] => i = j
        BY <1>t, <3>6 DEF OwnedInv
      <4>2. \A w \in Workers : wpc'[w] # "none" <=> InWorkers(w)'
        BY <1>t, <3>4, <3>12 DEF OwnedInv
      <4> QED
        BY <4>1, <4>2 DEF OwnedInv
    <3>14. JoinInv'
      BY <2>1, <3>1, <3>9 DEF JoinInv, LockedBySpc, LockedByOwner
    <3>15. OverFirst
      BY <3>1, <3>4 DEF OverFirst
    <3> QED
      BY <3>8, <3>10, <3>13, <3>14, <3>15 DEF StructInv
  <2>5. left[s] = 0 \/ workers = <<>> \/ (left[s] > 0 /\ workers # <<>>)
    BY <1>w
  <2> QED
    BY <1>1, <2>2, <2>3, <2>4, <2>5
<1> QED
  BY <1>1, <1>l DEF Remove, JoinRemoved, LockedBySpc

LEMMA StructStep == StructInv /\ [Next]_vars => StructInv' /\ OverFirst
<1> SUFFICES ASSUME StructInv, [Next]_vars PROVE StructInv' /\ OverFirst
  OBVIOUS
<1>1. CASE UNCHANGED vars
  <2>1. TypeOK'
    BY <1>1, TypeParts, KeptTypes DEF StructInv, AllTypes, vars
  <2>2. SameWorkers /\ SameLocks /\ OverFirst
    BY <1>1 DEF SameWorkers, SameLocks, OverFirst, vars, worker, ops
  <2> QED
    BY <2>1, <2>2, QuietStep DEF StructInv
<1>2. CASE Next
  BY <1>2, OwnerStep, TaskStep, WorkerStep, MonitorStep, DecideStep, CountStep, UpStepSound,
     DownStepSound DEF Next, Owning, Scaling
<1> QED
  BY <1>1, <1>2

LEMMA StructInit == Init => StructInv
<1> SUFFICES ASSUME Init PROVE StructInv
  OBVIOUS
<1>1. TypeOK
  <2>1. /\ workers \in Seq(Workers) /\ queue \in Seq(Units)
        /\ mutex \in ScalerThreads \cup {"none", "owner"}
    BY DEF Init
  <2>2. /\ running \in BOOLEAN /\ should_stop \in BOOLEAN /\ waits \in BOOLEAN
        /\ owner \in {"idle", "join_monitor", "join_scaling", "stop_all", "join_one", "join_all"}
        /\ monitor \in {"none", "loop", "active", "total", "done"} /\ last_len \in Nat
    BY DEF Init
  <2>3. /\ wpc \in [Workers -> {"none", "loop", "fetch", "execute", "throw", "end", "done"}]
        /\ wstop \in [Workers -> BOOLEAN]
        /\ wstate \in [Workers -> {"idle", "running", "stopping", "stopped", "error"}]
        /\ holding \in [Workers -> Units \cup {"none"}]
        /\ ustate \in [Units -> {"new", "submitting", "queued", "held", "ended"}]
    BY DEF Init
  <2>4. /\ metrics \in [len : Nat, active : Nat, total : Nat]
        /\ windows \in [up : 0..2, down : 0..3]
    BY DEF Init
  <2>5. /\ spc \in [ScalerThreads -> {"none", "idle", "wait", "evaluate", "read",
                                      "change", "remove", "join", "done"}]
        /\ ask \in [ScalerThreads -> [up : BOOLEAN, n : Nat]]
        /\ left \in [ScalerThreads \cup {"owner"} -> Nat]
    BY DEF Init
  <2> QED
    BY <2>1, <2>2, <2>3, <2>4, <2>5 DEF TypeOK
<1>2. \A s \in ScalerThreads : spc[s] \notin LockedBySpc
  BY DEF Init, LockedBySpc
<1>3. MutexInv
  BY <1>2, LockNames DEF Init, MutexInv, LockedByOwner
<1>4. OwnedInv
  BY DEF Init, OwnedInv, InWorkers
<1>5. JoinInv
  BY <1>2 DEF Init, JoinInv, LockedBySpc, LockedByOwner
<1> QED
  BY <1>1, <1>3, <1>4, <1>5 DEF StructInv

(* Every variable has its type, however many threads scale.                *)
THEOREM SchedulerTypeOK == Spec => []TypeOK
<1>1. StructInv => TypeOK
  BY DEF StructInv
<1> QED
  BY <1>1, StructInit, StructStep, PTL DEF Spec

(* A worker whose thread runs is in _workers, where stop finds it: scaling *)
(* up, scaling down, stopping and failing never lose one.                  *)
THEOREM WorkersAreOwned == Spec => []NoOrphan
<1>1. StructInv => NoOrphan
  BY DEF StructInv, OwnedInv, NoOrphan, Alive
<1> QED
  BY <1>1, StructInit, StructStep, PTL DEF Spec

(* No worker object is destroyed while its thread runs: scale-down and     *)
(* stop, waiting or not, have joined it before.                            *)
THEOREM WorkersAreJoined == Spec => [][OverFirst]_vars
  BY StructInit, StructStep, PTL DEF Spec

-----------------------------------------------------------------------------
(* When stop returns *)

(* Stop comes back to its caller with _workers empty and the pool at rest. *)
StopLeavesNone ==
    owner # "idle" /\ owner' = "idle" =>
        workers' = <<>> /\ ~running' /\ \A w \in Workers : wpc'[w] = "none"

LEMMA LastStepOfStop ==
    ASSUME StructInv, [Next]_vars, owner # "idle", owner' = "idle"
    PROVE  StopAll /\ workers' = <<>> /\ running' = FALSE
<1>1. CASE UNCHANGED vars
  BY <1>1 DEF vars
<1>2. CASE Next
  <2>1. CASE StopAll
    <3>1. left["owner"] > Len(workers) => workers' = <<>> /\ running' = FALSE
      <4>1. left["owner"] \in Nat /\ Len(workers) \in Nat
        BY DEF StructInv, TypeOK
      <4> QED
        BY <2>1, <4>1 DEF StopAll
    <3>2. left["owner"] <= Len(workers) => owner' # "idle"
      <4>1. left["owner"] \in Nat /\ Len(workers) \in Nat
        BY DEF StructInv, TypeOK
      <4> QED
        BY <2>1, <4>1 DEF StopAll
    <3>3. left["owner"] <= Len(workers) \/ left["owner"] > Len(workers)
      BY DEF StructInv, TypeOK
    <3> QED
      BY <2>1, <3>1, <3>2, <3>3
  <2>2. CASE Start \/ Stop \/ JoinMonitor \/ JoinScaling \/ JoinOne \/ JoinAll
    BY <2>2 DEF Start, Stop, JoinMonitor, JoinScaling, JoinOne, JoinAll
  <2>3. ASSUME NEW u \in Units, Submit(u) \/ Push(u)
        PROVE  FALSE
    BY <2>3 DEF Submit, Push
  <2>4. ASSUME NEW w \in Workers, Working(w)
        PROVE  FALSE
    BY <2>4 DEF Working, CheckStop, Fetch, ExecuteTask, Catch, EndThread, OtherThanWorkers
  <2>5. CASE Monitoring
    BY <2>5 DEF Monitoring, MonitorLength, MonitorActive, MonitorTotal, OtherThanMonitor
  <2>6. ASSUME \/ ScalingWait \/ \E cool \in BOOLEAN : Evaluate(cool)
               \/ \E s \in Scalers : ManualScale(s)
        PROVE  FALSE
    BY <2>6 DEF ScalingWait, Evaluate, ManualScale, OtherThanOps
  <2>7. ASSUME NEW s \in ScalerThreads, Scaling(s)
        PROVE  FALSE
    BY <2>7 DEF Scaling, ReadCount, ScaleUp, ScaleDown, Remove, JoinRemoved, OtherThanOps
  <2> QED
    BY <1>2, <2>1, <2>2, <2>3, <2>4, <2>5, <2>6, <2>7 DEF Next, Owning
<1> QED
  BY <1>1, <1>2

(* Whatever was being scaled, by whom, and whatever failed: when stop      *)
(* returns every worker's thread is over and every worker object is gone.  *)
THEOREM StopLeavesNobody == Spec => [][StopLeavesNone]_vars
<1>1. StructInv /\ [Next]_vars => StructInv' /\ StopLeavesNone
  <2> SUFFICES ASSUME StructInv, [Next]_vars, owner # "idle", owner' = "idle"
               PROVE  workers' = <<>> /\ ~running' /\ \A w \in Workers : wpc'[w] = "none"
    BY StructStep DEF StopLeavesNone
  <2>1. workers' = <<>> /\ running' = FALSE
    BY LastStepOfStop
  <2>2. StructInv'
    BY StructStep
  <2>3. \A w \in Workers : ~InWorkers(w)'
    BY <2>1 DEF InWorkers
  <2> QED
    BY <2>1, <2>2, <2>3 DEF StructInv, OwnedInv
<1> QED
  BY <1>1, StructInit, PTL DEF Spec

-----------------------------------------------------------------------------
(* Between a stop and the next start *)

(* Nobody scales up by hand, and a start that fails has made no worker.    *)
NobodyAddsLater ==
    (\A a \in Asks : ~a.up) /\ (CreateFails => CoreThreads = 1)

StoppedInv ==
    /\ \A s \in Scalers : ~ask[s].up
    /\ owner \in LockedByOwner => spc["auto"] \in {"none", "done"}
    /\ owner = "idle" /\ should_stop => spc["auto"] \in {"none", "done"} /\ workers = <<>>

LEMMA StoppedStep ==
    ASSUME NobodyAddsLater, StructInv, StoppedInv, [Next]_vars
    PROVE  StoppedInv'
<1>t. TypeOK /\ JoinInv /\ "auto" \in ScalerThreads /\ "auto" \notin Scalers
  BY LockNames DEF StructInv
<1>1. ASSUME UNCHANGED <<owner, should_stop, workers, ask, spc>>
      PROVE  StoppedInv'
  BY <1>1 DEF StoppedInv
<1>2. CASE Start
  <2>1. PICK ok \in BOOLEAN :
          /\ CreateWorkers(CoreThreads, ok)
          /\ IF ok
               THEN /\ running' = TRUE /\ should_stop' = FALSE
                    /\ StartThreads
               ELSE UNCHANGED <<flags, monitor, spc>>
    BY <1>2 DEF Start
  <2>2. owner = "idle" /\ owner' = "idle" /\ ask' = ask
    BY <1>2 DEF Start
  <2>3. CASE ok
    BY <2>1, <2>2, <2>3 DEF StoppedInv, LockedByOwner
  <2>4. CASE ~ok
    <3>1. CreateFails /\ CoreThreads = 1 /\ CoreThreads - 1 = 0
      BY <2>1, <2>4 DEF CreateWorkers, NobodyAddsLater
    <3>2. PICK m \in 0..(CoreThreads - 1) : AddWorkers(m)
      BY <2>1, <2>4 DEF CreateWorkers
    <3>3. m = 0 /\ m \in Nat
      BY <3>1, <3>2
    <3>4. workers' \in Seq(Workers) /\ Len(workers') = Len(workers) + m
      BY <1>t, <3>2, <3>3, Added DEF StructInv
    <3>5. workers = <<>> => workers' = <<>>
      BY <3>3, <3>4
    <3> QED
      BY <2>1, <2>2, <2>4, <3>5 DEF StoppedInv, LockedByOwner, flags
  <2> QED
    BY <2>3, <2>4
<1>3. CASE Stop \/ JoinMonitor
  BY <1>3 DEF Stop, JoinMonitor, StoppedInv, LockedByOwner, ops
<1>4. CASE JoinScaling
  BY <1>4 DEF JoinScaling, StoppedInv
<1>5. CASE StopAll \/ JoinOne \/ JoinAll
  <2>1. /\ UNCHANGED <<spc, ask>>
        /\ owner \in LockedByOwner
    BY <1>5 DEF StopAll, JoinOne, JoinAll, LockedByOwner
  <2>2. owner' = "idle" => workers' = <<>>
    BY <2>1, LastStepOfStop DEF LockedByOwner
  <2> QED
    BY <2>1, <2>2 DEF StoppedInv
<1>6. ASSUME NEW u \in Units, Submit(u) \/ Push(u)
      PROVE  StoppedInv'
  BY <1>1, <1>6 DEF Submit, Push, flags, ops
<1>7. ASSUME NEW w \in Workers, Working(w)
      PROVE  StoppedInv'
  BY <1>1, <1>7 DEF Working, CheckStop, Fetch, ExecuteTask, Catch, EndThread, OtherThanWorkers,
                    flags, ops
<1>8. CASE Monitoring
  BY <1>1, <1>8 DEF Monitoring, MonitorLength, MonitorActive, MonitorTotal, OtherThanMonitor,
                    flags, ops
<1>9. ASSUME \/ ScalingWait \/ \E cool \in BOOLEAN : Evaluate(cool)
             \/ Scaling("auto")
      PROVE  StoppedInv'
  <2>1. UNCHANGED <<owner, should_stop>> /\ spc["auto"] \notin {"none", "done"}
    BY <1>9 DEF ScalingWait, Evaluate, Scaling, ReadCount, ScaleUp, ScaleDown, Remove,
                JoinRemoved, At, OtherThanOps, flags
  <2>2. \A s \in Scalers : ask'[s].up = ask[s].up
    <3>1. ask' = ask \/ \E a \in [up : BOOLEAN, n : Nat] : ask' = [ask EXCEPT !["auto"] = a]
      <4>1. /\ [up |-> TRUE, n |-> UpStep] \in [up : BOOLEAN, n : Nat]
            /\ [up |-> FALSE, n |-> DownStep] \in [up : BOOLEAN, n : Nat]
        OBVIOUS
      <4> QED
        BY <1>9, <4>1 DEF ScalingWait, Evaluate, Scaling, ReadCount, ScaleUp, ScaleDown, Remove,
                          JoinRemoved
    <3> QED
      <4>1. ask \in [ScalerThreads -> [up : BOOLEAN, n : Nat]]
        BY <1>t, TypeParts DEF AllTypes, OpTypes
      <4> QED
        BY <1>t, <3>1, <4>1, LockNames
  <2> QED
    BY <2>1, <2>2 DEF StoppedInv
<1>10. ASSUME NEW s \in Scalers, ManualScale(s)
       PROVE  StoppedInv'
  <2>1. PICK a \in Asks : ask' = [ask EXCEPT ![s] = a]
    BY <1>10 DEF ManualScale
  <2>2. \A r \in Scalers : ~ask'[r].up
    BY <1>t, <2>1, LockNames DEF StoppedInv, NobodyAddsLater, TypeOK
  <2>3. spc'["auto"] = spc["auto"] /\ UNCHANGED <<owner, should_stop, workers>>
    BY <1>t, <1>10 DEF ManualScale, At, TypeOK, OtherThanOps, flags
  <2> QED
    BY <2>2, <2>3 DEF StoppedInv
<1>11. ASSUME NEW s \in Scalers, Scaling(s)
       PROVE  StoppedInv'
  <2>1. ~ask[s].up
    BY DEF StoppedInv
  <2>2. spc'["auto"] = spc["auto"] /\ UNCHANGED <<owner, should_stop, ask>>
    BY <1>t, <1>11, LockNames
       DEF Scaling, ReadCount, ScaleUp, ScaleDown, Remove, JoinRemoved, At, TypeOK,
           OtherThanOps, flags
  <2>3. workers' = workers \/ workers # <<>>
    BY <1>t, <1>11, <2>1, LockNames
       DEF Scaling, ReadCount, ScaleUp, ScaleDown, Remove, JoinRemoved, JoinInv
  <2> QED
    BY <2>2, <2>3 DEF StoppedInv
<1>12. CASE UNCHANGED vars
  BY <1>1, <1>12 DEF vars, flags, ops
<1> QED
  BY <1>2, <1>3, <1>4, <1>5, <1>6, <1>7, <1>8, <1>9, <1>10, <1>11, <1>12
     DEF Next, Owning, ScalerThreads

(* Between a stop and the next start no worker runs, if nobody scales up   *)
(* by hand after the stop and a start that fails fails at its first worker.*)
THEOREM StoppedPoolsRest ==
    ASSUME NobodyAddsLater
    PROVE  Spec => []StopEndsWorkers
<1>1. Init => StructInv /\ StoppedInv
  BY StructInit DEF Init, StoppedInv, LockedByOwner, ScalerThreads
<1>2. StructInv /\ StoppedInv /\ [Next]_vars => StructInv' /\ StoppedInv'
  BY StructStep, StoppedStep
<1>3. StructInv /\ StoppedInv => StopEndsWorkers
  BY DEF StructInv, OwnedInv, StoppedInv, StopEndsWorkers, InWorkers, Alive
<1> QED
  BY <1>1, <1>2, <1>3, PTL DEF Spec

-----------------------------------------------------------------------------
(* No task is lost or doubled *)

(* A worker has a task exactly while it executes one, and nobody else has  *)
(* that task.                                                              *)
HeldInv ==
    /\ \A w \in Workers : holding[w] # "none" <=> wpc[w] = "execute"
    /\ \A w \in Workers : holding[w] # "none" => ustate[holding[w]] = "held"
    /\ \A v, w \in Workers : holding[v] = holding[w] /\ holding[v] # "none" => v = w
    /\ \A u \in Units : ustate[u] = "held" => \E w \in Workers : holding[w] = u

(* The queue holds the queued tasks, each once.                            *)
QueuedInv ==
    /\ \A i \in DOMAIN queue : ustate[queue[i]] = "queued"
    /\ \A i, j \in DOMAIN queue : queue[i] = queue[j] => i = j
    /\ \A u \in Units : ustate[u] = "queued" => \E i \in DOMAIN queue : queue[i] = u

TaskInv == HeldInv /\ QueuedInv

(* Creating, stopping and destroying workers leaves the tasks alone: those *)
(* that come have none, those that go have none left.                      *)
LEMMA ComingAndGoing ==
    ASSUME StructInv, OverFirst, TaskInv, UNCHANGED <<holding, tasks>>,
           \A w \in Workers : \/ wpc'[w] = wpc[w] \/ wpc'[w] = "none"
                              \/ wpc[w] = "none" /\ wpc'[w] = "loop"
    PROVE  TaskInv'
<1>1. \A w \in Workers : wpc'[w] = "execute" <=> wpc[w] = "execute"
  BY DEF OverFirst
<1>2. HeldInv'
  BY <1>1 DEF TaskInv, HeldInv, tasks
<1>3. QueuedInv'
  BY DEF TaskInv, QueuedInv, tasks
<1> QED
  BY <1>2, <1>3 DEF TaskInv

LEMMA AppendedQueue ==
    ASSUME NEW q \in Seq(Units), NEW u \in Units
    PROVE  /\ Append(q, u) \in Seq(Units)
           /\ DOMAIN Append(q, u) = DOMAIN q \cup {Len(q) + 1} /\ Len(q) + 1 \notin DOMAIN q
           /\ Append(q, u)[Len(q) + 1] = u
           /\ \A i \in DOMAIN q : Append(q, u)[i] = q[i]
<1>1. /\ Append(q, u) \in Seq(Units) /\ Len(Append(q, u)) = Len(q) + 1
      /\ \A i \in 1..Len(q) : Append(q, u)[i] = q[i]
      /\ Append(q, u)[Len(q) + 1] = u
  BY AppendProperties
<1>2. /\ Len(q) \in Nat /\ DOMAIN q = 1..Len(q)
      /\ DOMAIN Append(q, u) = 1..(Len(q) + 1)
  BY <1>1
<1> QED
  BY <1>1, <1>2

LEMMA ShortenedQueue ==
    ASSUME NEW q \in Seq(Units), q # <<>>
    PROVE  /\ Head(q) = q[1] /\ 1 \in DOMAIN q /\ Head(q) \in Units
           /\ Tail(q) \in Seq(Units)
           /\ \A i \in DOMAIN Tail(q) : i + 1 \in DOMAIN q /\ Tail(q)[i] = q[i + 1] /\ i + 1 # 1
           /\ \A i \in DOMAIN q : i = 1 \/ (i - 1 \in DOMAIN Tail(q) /\ Tail(q)[i - 1] = q[i])
<1>1. /\ Tail(q) \in Seq(Units) /\ Len(Tail(q)) = Len(q) - 1 /\ Head(q) = q[1]
      /\ \A i \in 1..(Len(q) - 1) : Tail(q)[i] = q[i + 1]
  BY HeadTailProperties
<1>2. /\ Len(q) \in Nat /\ Len(q) >= 1 /\ DOMAIN q = 1..Len(q)
      /\ DOMAIN Tail(q) = 1..(Len(q) - 1)
  BY <1>1
<1>3. Head(q) \in Units
  BY <1>1, <1>2
<1>4. \A i \in 1..Len(q) : i = 1 \/ (i - 1 \in 1..(Len(q) - 1) /\ (i - 1) + 1 = i)
  BY <1>2
<1>5. \A i \in 1..(Len(q) - 1) : i + 1 \in 1..Len(q) /\ i + 1 # 1
  BY <1>2
<1>6. \A i \in 1..Len(q) : i = 1 \/ (i - 1 \in 1..(Len(q) - 1) /\ Tail(q)[i - 1] = q[i])
  BY <1>1, <1>4
<1>7. 1 \in DOMAIN q
  BY <1>2
<1>8. \A i \in DOMAIN Tail(q) : i + 1 \in DOMAIN q /\ Tail(q)[i] = q[i + 1] /\ i + 1 # 1
  BY <1>1, <1>2, <1>5
<1>9. \A i \in DOMAIN q : i = 1 \/ (i - 1 \in DOMAIN Tail(q) /\ Tail(q)[i - 1] = q[i])
  BY <1>2, <1>6
<1> QED
  BY <1>1, <1>3, <1>7, <1>8, <1>9

LEMMA SubmittedStep ==
    ASSUME StructInv, TaskInv, NEW u \in Units, Submit(u) \/ Push(u)
    PROVE  TaskInv'
<1>t. /\ queue \in Seq(Units) /\ wpc' = wpc /\ holding' = holding
      /\ ustate \in [Units -> {"new", "submitting", "queued", "held", "ended"}]
      /\ holding \in [Workers -> Units \cup {"none"}]
  BY DEF StructInv, TypeOK, Submit, Push, worker
<1>1. \A i \in DOMAIN queue : queue[i] \in Units
  BY <1>t
<1>2. ustate[u] \in {"new", "submitting"}
  BY DEF Submit, Push
<1>3. /\ ustate'[u] \in {"submitting", "queued"}
      /\ \A v \in Units \ {u} : ustate'[v] = ustate[v]
  BY <1>t DEF Submit, Push
<1>4. HeldInv'
  <2>1. \A w \in Workers : holding[w] # u
    BY <1>2 DEF TaskInv, HeldInv
  <2>2. \A w \in Workers : holding[w] # "none" => ustate'[holding[w]] = "held"
    BY <1>t, <1>3, <2>1 DEF TaskInv, HeldInv
  <2>3. \A v \in Units : ustate'[v] = "held" => \E w \in Workers : holding[w] = v
    BY <1>3 DEF TaskInv, HeldInv
  <2> QED
    BY <1>t, <2>2, <2>3 DEF TaskInv, HeldInv
<1>5. \A i \in DOMAIN queue : queue[i] # u /\ ustate'[queue[i]] = "queued"
  BY <1>1, <1>2, <1>3 DEF TaskInv, QueuedInv
<1>6. CASE Submit(u)
  <2>1. queue' = queue /\ ustate'[u] = "submitting"
    BY <1>t, <1>6 DEF Submit
  <2> QED
    BY <1>3, <1>4, <1>5, <2>1 DEF TaskInv, QueuedInv
<1>7. CASE Push(u)
  <2>1. queue' = Append(queue, u) /\ ustate'[u] = "queued"
    BY <1>t, <1>7 DEF Push
  <2>2. /\ DOMAIN queue' = DOMAIN queue \cup {Len(queue) + 1}
        /\ Len(queue) + 1 \notin DOMAIN queue
        /\ queue'[Len(queue) + 1] = u
        /\ \A i \in DOMAIN queue : queue'[i] = queue[i]
    BY <1>t, <2>1, AppendedQueue
  <2>3. \A i \in DOMAIN queue' : ustate'[queue'[i]] = "queued"
    BY <1>5, <2>1, <2>2
  <2>4. \A i, j \in DOMAIN queue' : queue'[i] = queue'[j] => i = j
    BY <1>5, <2>2 DEF TaskInv, QueuedInv
  <2>5. \A v \in Units : ustate'[v] = "queued" => \E i \in DOMAIN queue' : queue'[i] = v
    BY <1>3, <2>2 DEF TaskInv, QueuedInv
  <2> QED
    BY <1>4, <2>3, <2>4, <2>5 DEF TaskInv, QueuedInv
<1> QED
  BY <1>6, <1>7

LEMMA WorkedStep ==
    ASSUME StructInv, TaskInv, NEW w \in Workers, Working(w)
    PROVE  TaskInv'
<1>t. /\ queue \in Seq(Units)
      /\ wpc \in [Workers -> {"none", "loop", "fetch", "execute", "throw", "end", "done"}]
      /\ ustate \in [Units -> {"new", "submitting", "queued", "held", "ended"}]
      /\ holding \in [Workers -> Units \cup {"none"}]
      /\ \A i \in DOMAIN queue : queue[i] \in Units
  BY DEF StructInv, TypeOK
<1>1. ASSUME UNCHANGED <<holding, tasks>>, wpc[w] # "execute", wpc'[w] # "execute",
             \A v \in Workers \ {w} : wpc'[v] = wpc[v]
      PROVE  TaskInv'
  <2>1. \A v \in Workers : wpc'[v] = "execute" <=> wpc[v] = "execute"
    BY <1>1
  <2>2. HeldInv'
    BY <1>1, <2>1 DEF TaskInv, HeldInv, tasks
  <2> QED
    BY <1>1, <2>2 DEF TaskInv, QueuedInv, tasks
<1>2. CASE CheckStop(w) \/ Catch(w) \/ EndThread(w)
  BY <1>t, <1>1, <1>2 DEF CheckStop, Catch, EndThread, AtWorker
<1>3. CASE Fetch(w) /\ queue = <<>>
  <2>1. AtWorker(w, "fetch", "loop") /\ UNCHANGED <<holding, tasks>>
    BY <1>3 DEF Fetch
  <2> QED
    BY <1>t, <1>1, <2>1 DEF AtWorker
<1>4. CASE Fetch(w) /\ queue # <<>>
  <2> DEFINE u == Head(queue)
  <2>1. /\ AtWorker(w, "fetch", "execute") /\ holding' = [holding EXCEPT ![w] = u]
        /\ queue' = Tail(queue) /\ ustate' = [ustate EXCEPT ![u] = "held"]
    BY <1>4 DEF Fetch
  <2>2. /\ u = queue[1] /\ 1 \in DOMAIN queue /\ u \in Units
        /\ \A i \in DOMAIN queue' :
             i + 1 \in DOMAIN queue /\ queue'[i] = queue[i + 1] /\ i + 1 # 1
        /\ \A i \in DOMAIN queue :
             i = 1 \/ (i - 1 \in DOMAIN queue' /\ queue'[i - 1] = queue[i])
        /\ queue' \in Seq(Units)
    BY <1>t, <1>4, <2>1, ShortenedQueue
  <2> HIDE DEF u
  <2>3. ustate[u] = "queued" /\ u # "none"
    BY <2>2 DEF TaskInv, QueuedInv
  <2>4. /\ ustate'[u] = "held" /\ \A v \in Units \ {u} : ustate'[v] = ustate[v]
        /\ holding'[w] = u /\ \A v \in Workers \ {w} : holding'[v] = holding[v]
        /\ wpc'[w] = "execute" /\ \A v \in Workers \ {w} : wpc'[v] = wpc[v]
        /\ wpc[w] = "fetch"
    BY <1>t, <2>1, <2>2 DEF AtWorker
  <2>5. \A v \in Workers : holding[v] # u
    BY <2>3 DEF TaskInv, HeldInv
  <2>6. HeldInv'
    <3>1. \A v \in Workers : holding'[v] # "none" <=> wpc'[v] = "execute"
      BY <2>3, <2>4 DEF TaskInv, HeldInv
    <3>2. \A v \in Workers : holding'[v] # "none" => ustate'[holding'[v]] = "held"
      BY <1>t, <2>4, <2>5 DEF TaskInv, HeldInv
    <3>3. \A v, x \in Workers : holding'[v] = holding'[x] /\ holding'[v] # "none" => v = x
      BY <2>4, <2>5 DEF TaskInv, HeldInv
    <3>4. \A v \in Units : ustate'[v] = "held" => \E x \in Workers : holding'[x] = v
      <4> SUFFICES ASSUME NEW v \in Units, ustate'[v] = "held"
                   PROVE  \E x \in Workers : holding'[x] = v
        OBVIOUS
      <4>1. CASE v = u
        BY <2>4, <4>1
      <4>2. CASE v # u
        <5>1. PICK x \in Workers : holding[x] = v
          BY <2>4, <4>2 DEF TaskInv, HeldInv
        <5>2. holding[w] = "none"
          BY <2>4 DEF TaskInv, HeldInv
        <5> QED
          BY <2>4, <5>1, <5>2
      <4> QED
        BY <4>1, <4>2
    <3> QED
      BY <3>1, <3>2, <3>3, <3>4 DEF HeldInv
  <2>7. QueuedInv'
    <3>1. \A i \in DOMAIN queue : i # 1 => queue[i] # u
      BY <2>2 DEF TaskInv, QueuedInv
    <3>2. \A i \in DOMAIN queue' : ustate'[queue'[i]] = "queued"
      <4>1. ASSUME NEW i \in DOMAIN queue'
            PROVE  /\ queue'[i] \in Units \ {u}
                   /\ ustate[queue'[i]] = "queued"
        BY <1>t, <2>2, <3>1, <4>1 DEF TaskInv, QueuedInv
      <4> QED
        BY <2>4, <4>1
    <3>3. \A i, j \in DOMAIN queue' : queue'[i] = queue'[j] => i = j
      <4> SUFFICES ASSUME NEW i \in DOMAIN queue', NEW j \in DOMAIN queue', queue'[i] = queue'[j]
                   PROVE  i = j
        OBVIOUS
      <4>1. i + 1 = j + 1
        BY <2>2 DEF TaskInv, QueuedInv
      <4>2. i \in Int /\ j \in Int
        BY <2>2
      <4> QED
        BY <4>1, <4>2
    <3>4. \A v \in Units : ustate'[v] = "queued" => \E i \in DOMAIN queue' : queue'[i] = v
      <4> SUFFICES ASSUME NEW v \in Units, ustate'[v] = "queued"
                   PROVE  \E i \in DOMAIN queue' : queue'[i] = v
        OBVIOUS
      <4>1. v # u /\ ustate[v] = "queued"
        BY <2>4
      <4>2. PICK i \in DOMAIN queue : queue[i] = v
        BY <4>1 DEF TaskInv, QueuedInv
      <4> QED
        BY <2>2, <4>1, <4>2
    <3> QED
      BY <3>2, <3>3, <3>4 DEF QueuedInv
  <2> QED
    BY <2>6, <2>7 DEF TaskInv
<1>5. CASE ExecuteTask(w)
  <2> DEFINE u == holding[w]
  <2>1. /\ wpc[w] = "execute" /\ \E to \in {"loop", "throw"} : wpc' = [wpc EXCEPT ![w] = to]
        /\ ustate' = [ustate EXCEPT ![u] = "ended"]
        /\ holding' = [holding EXCEPT ![w] = "none"] /\ queue' = queue
    BY <1>5 DEF ExecuteTask, AtWorker
  <2>2. u # "none" /\ u \in Units /\ ustate[u] = "held"
    BY <1>t, <2>1 DEF TaskInv, HeldInv
  <2>3. /\ wpc'[w] \in {"loop", "throw"} /\ \A v \in Workers \ {w} : wpc'[v] = wpc[v]
        /\ ustate'[u] = "ended" /\ \A v \in Units \ {u} : ustate'[v] = ustate[v]
        /\ holding'[w] = "none" /\ \A v \in Workers \ {w} : holding'[v] = holding[v]
    BY <1>t, <2>1, <2>2
  <2>4. \A v \in Workers \ {w} : holding[v] # u
    BY <2>2 DEF TaskInv, HeldInv
  <2>5. holding[w] = u
    OBVIOUS
  <2> HIDE DEF u
  <2>6. HeldInv'
    <3>1. \A v \in Workers : holding'[v] # "none" <=> wpc'[v] = "execute"
      BY <2>3 DEF TaskInv, HeldInv
    <3>2. \A v \in Workers : holding'[v] # "none" => ustate'[holding'[v]] = "held"
      BY <1>t, <2>3, <2>4 DEF TaskInv, HeldInv
    <3>3. \A v, x \in Workers : holding'[v] = holding'[x] /\ holding'[v] # "none" => v = x
      BY <2>3 DEF TaskInv, HeldInv
    <3>4. \A v \in Units : ustate'[v] = "held" => \E x \in Workers : holding'[x] = v
      <4> SUFFICES ASSUME NEW v \in Units, ustate'[v] = "held"
                   PROVE  \E x \in Workers : holding'[x] = v
        OBVIOUS
      <4>1. v # u /\ ustate[v] = "held"
        BY <2>3
      <4>2. PICK x \in Workers : holding[x] = v
        BY <4>1 DEF TaskInv, HeldInv
      <4> QED
        BY <2>3, <2>5, <4>1, <4>2
    <3> QED
      BY <3>1, <3>2, <3>3, <3>4 DEF HeldInv
  <2>7. QueuedInv'
    <3>1. \A i \in DOMAIN queue : queue[i] # u
      BY <2>2 DEF TaskInv, QueuedInv
    <3>2. \A i \in DOMAIN queue : ustate'[queue[i]] = "queued"
      BY <1>t, <2>3, <3>1 DEF TaskInv, QueuedInv
    <3>3. \A v \in Units : ustate'[v] = "queued" => ustate[v] = "queued"
      BY <2>3
    <3> QED
      BY <2>1, <3>2, <3>3 DEF TaskInv, QueuedInv
  <2> QED
    BY <2>6, <2>7 DEF TaskInv
<1> QED
  BY <1>2, <1>3, <1>4, <1>5 DEF Working

LEMMA TaskInvStep ==
    ASSUME StructInv, TaskInv, [Next]_vars
    PROVE  TaskInv'
<1>1. StructInv' /\ OverFirst
  BY StructStep
<1>t. TypeOK /\ OwnedInv
  BY DEF StructInv
<1>2. ASSUME UNCHANGED <<worker, tasks>>
      PROVE  TaskInv'
  BY <1>1, <1>2, ComingAndGoing DEF worker
<1>3. ASSUME NEW n \in Nat, AddWorkers(n), UNCHANGED tasks
      PROVE  TaskInv'
  <2>1. /\ \A w \in Workers : wpc'[w] = wpc[w] \/ (wpc[w] = "none" /\ wpc'[w] = "loop")
        /\ holding' = holding
    BY <1>t, <1>3, Added
  <2> QED
    BY <1>1, <1>3, <2>1, ComingAndGoing
<1>4. CASE Start
  <2>1. PICK ok \in BOOLEAN : CreateWorkers(CoreThreads, ok)
    BY <1>4 DEF Start
  <2>2. UNCHANGED tasks /\ CoreThreads \in Nat
    BY <1>4 DEF Start
  <2>3. PICK m \in 0..CoreThreads : AddWorkers(m)
    BY <2>1, <2>2, CreatedWorkers
  <2> QED
    BY <1>3, <2>2, <2>3
<1>5. ASSUME NEW s \in ScalerThreads, ScaleUp(s)
      PROVE  TaskInv'
  <2>1. PICK ok \in BOOLEAN : CreateWorkers(left[s], ok)
    BY <1>5 DEF ScaleUp
  <2>2. UNCHANGED tasks /\ left[s] \in Nat
    BY <1>t, <1>5 DEF ScaleUp, TypeOK
  <2>3. PICK m \in 0..left[s] : AddWorkers(m)
    BY <2>1, <2>2, CreatedWorkers
  <2> QED
    BY <1>3, <2>2, <2>3
<1>6. ASSUME NEW ws, AskToStop(ws), UNCHANGED tasks
      PROVE  TaskInv'
  BY <1>1, <1>6, ComingAndGoing DEF AskToStop
<1>7. ASSUME NEW ws, Destroy(ws), UNCHANGED tasks
      PROVE  TaskInv'
  <2>1. /\ \A w \in Workers : wpc'[w] = wpc[w] \/ wpc'[w] = "none"
        /\ holding' = holding
    BY <1>7 DEF Destroy
  <2> QED
    BY <1>1, <1>7, <2>1, ComingAndGoing
<1>8. CASE Stop \/ JoinMonitor \/ JoinScaling \/ JoinOne \/ JoinAll
  BY <1>2, <1>8 DEF Stop, JoinMonitor, JoinScaling, JoinOne, JoinAll
<1>9. CASE StopAll
  BY <1>6, <1>7, <1>9 DEF StopAll
<1>10. CASE Monitoring
  BY <1>2, <1>10 DEF Monitoring, MonitorLength, MonitorActive, MonitorTotal, OtherThanMonitor
<1>11. CASE \/ ScalingWait \/ \E cool \in BOOLEAN : Evaluate(cool)
            \/ \E s \in Scalers : ManualScale(s)
  BY <1>2, <1>11 DEF ScalingWait, Evaluate, ManualScale, OtherThanOps
<1>12. ASSUME NEW s \in ScalerThreads, ReadCount(s) \/ ScaleDown(s)
       PROVE  TaskInv'
  BY <1>2, <1>12 DEF ReadCount, ScaleDown, OtherThanOps
<1>13. ASSUME NEW s \in ScalerThreads, Remove(s)
       PROVE  TaskInv'
  BY <1>2, <1>6, <1>13 DEF Remove
<1>14. ASSUME NEW s \in ScalerThreads, JoinRemoved(s)
       PROVE  TaskInv'
  BY <1>7, <1>14 DEF JoinRemoved
<1>15. CASE UNCHANGED vars
  BY <1>2, <1>15 DEF vars
<1>16. ASSUME NEW u \in Units, Submit(u) \/ Push(u)
       PROVE  TaskInv'
  BY <1>16, SubmittedStep
<1>17. ASSUME NEW w \in Workers, Working(w)
       PROVE  TaskInv'
  BY <1>17, WorkedStep
<1> QED
  BY <1>4, <1>5, <1>8, <1>9, <1>10, <1>11, <1>12, <1>13, <1>14, <1>15, <1>16, <1>17
     DEF Next, Owning, Scaling

LEMMA TasksArePlaced == TypeOK /\ TaskInv => TaskIsSomewhere
<1> SUFFICES ASSUME TypeOK, TaskInv, NEW u \in Units
             PROVE  /\ Cardinality({i \in DOMAIN queue : queue[i] = u})
                         = IF ustate[u] = "queued" THEN 1 ELSE 0
                    /\ Cardinality({w \in Workers : holding[w] = u})
                         = IF ustate[u] = "held" THEN 1 ELSE 0
  BY DEF TaskIsSomewhere
<1> DEFINE Q == {i \in DOMAIN queue : queue[i] = u}
           H == {w \in Workers : holding[w] = u}
<1>0. Cardinality({}) = 0
  BY FS_EmptySet
<1>1. Cardinality(Q) = IF ustate[u] = "queued" THEN 1 ELSE 0
  <2>1. CASE ustate[u] = "queued"
    <3>1. PICK i \in DOMAIN queue : queue[i] = u
      BY <2>1 DEF TaskInv, QueuedInv
    <3>2. Q = {i}
      BY <3>1 DEF TaskInv, QueuedInv
    <3>3. Cardinality({i}) = 1
      BY FS_Singleton
    <3> QED
      BY <2>1, <3>2, <3>3
  <2>2. CASE ustate[u] # "queued"
    <3>1. Q = {}
      BY <2>2 DEF TaskInv, QueuedInv
    <3> QED
      BY <1>0, <2>2, <3>1
  <2> QED
    BY <2>1, <2>2
<1>2. Cardinality(H) = IF ustate[u] = "held" THEN 1 ELSE 0
  <2>1. CASE ustate[u] = "held"
    <3>1. PICK w \in Workers : holding[w] = u
      BY <2>1 DEF TaskInv, HeldInv
    <3>2. H = {w}
      BY <3>1 DEF TaskInv, HeldInv
    <3>3. Cardinality({w}) = 1
      BY FS_Singleton
    <3> QED
      BY <2>1, <3>2, <3>3
  <2>2. CASE ustate[u] # "held"
    <3>1. H = {}
      BY <2>2 DEF TaskInv, HeldInv
    <3> QED
      BY <1>0, <2>2, <3>1
  <2> QED
    BY <2>1, <2>2
<1> QED
  BY <1>1, <1>2

(* Every task is in one place: on its way, in the queue once, with one     *)
(* worker, or ended.  Workers that are removed, stopped or ended by an     *)
(* exception take none with them and hand none out twice.                  *)
THEOREM TasksAreKept == Spec => []TaskIsSomewhere
<1>1. Init => StructInv /\ TaskInv
  BY StructInit DEF Init, TaskInv, HeldInv, QueuedInv
<1>2. StructInv /\ TaskInv /\ [Next]_vars => StructInv' /\ TaskInv'
  BY StructStep, TaskInvStep
<1>3. StructInv /\ TaskInv => TaskIsSomewhere
  BY TasksArePlaced DEF StructInv
<1> QED
  BY <1>1, <1>2, <1>3, PTL DEF Spec

-----------------------------------------------------------------------------
(* The number of workers *)

(* Only the scheduler's own thread scales, and every worker can be created.*)
OwnScalingOnly == Scalers = {} /\ CreateFails = FALSE

Removing == {"change", "remove", "join"}

(* What the scaling thread has left to do fits the workers there are, from *)
(* the moment it has counted them to the last one it removes.              *)
RoomInv ==
    /\ ~running => workers = <<>> /\ spc["auto"] \in {"none", "done"}
    /\ running => MinThreads <= Len(workers) /\ Len(workers) <= MaxThreads
    /\ owner \in LockedByOwner => spc["auto"] \in {"none", "done"}
    /\ spc["auto"] = "change" /\ ask["auto"].up => Len(workers) + left["auto"] <= MaxThreads
    /\ spc["auto"] \in Removing /\ ~ask["auto"].up => MinThreads + left["auto"] <= Len(workers)
    /\ spc["auto"] \in {"remove", "join"} => ~ask["auto"].up

LEMMA MinusBelow ==
    ASSUME NEW a \in Nat, NEW b \in Nat, b <= a, a < SizeMod
    PROVE  Minus(a, b) = a - b
  BY DEF Minus

LEMMA ButLast ==
    ASSUME NEW s \in Seq(Workers), s # <<>>
    PROVE  Len(SubSeq(s, 1, Len(s) - 1)) = Len(s) - 1
<1>1. /\ Len(s) \in Nat /\ Len(s) >= 1 /\ DOMAIN s = 1..Len(s)
      /\ \A i \in DOMAIN s : s[i] \in Workers
  OBVIOUS
<1>2. /\ SubSeq(s, 1, Len(s) - 1) \in Seq(Workers)
      /\ Len(SubSeq(s, 1, Len(s) - 1)) = Len(s) - 1
      /\ \A i \in 1..(Len(s) - 1) : SubSeq(s, 1, Len(s) - 1)[i] = s[i]
  BY <1>1
<1> QED
  BY <1>2

LEMMA RoomStep ==
    ASSUME OwnScalingOnly, StructInv, RoomInv, [Next]_vars
    PROVE  RoomInv'
<1>t. /\ TypeOK /\ MutexInv /\ JoinInv /\ ScalerThreads = {"auto"}
      /\ Len(workers) \in Nat /\ left["auto"] \in Nat /\ "auto" # "owner"
  BY DEF StructInv, TypeOK, ScalerThreads, OwnScalingOnly
<1>c. /\ MinThreads \in Nat \ {0} /\ MaxThreads \in Nat /\ CoreThreads \in Nat
      /\ MinThreads <= CoreThreads /\ CoreThreads <= MaxThreads /\ MaxThreads < SizeMod
      /\ SizeMod \in Nat
  OBVIOUS
<1>1. ASSUME UNCHANGED <<running, workers>>, spc'["auto"] = spc["auto"],
             left'["auto"] = left["auto"], ask'["auto"] = ask["auto"],
             owner' \in LockedByOwner => spc["auto"] \in {"none", "done"}
      PROVE  RoomInv'
  BY <1>1 DEF RoomInv
<1>2. CASE Start
  <2>1. PICK ok \in BOOLEAN :
          /\ CreateWorkers(CoreThreads, ok)
          /\ IF ok
               THEN /\ running' = TRUE /\ should_stop' = FALSE
                    /\ StartThreads
               ELSE UNCHANGED <<flags, monitor, spc>>
    BY <1>2 DEF Start
  <2>2. owner = "idle" /\ owner' = "idle" /\ ~running
    BY <1>2 DEF Start
  <2>3. ok /\ AddWorkers(CoreThreads)
    BY <2>1 DEF CreateWorkers, OwnScalingOnly
  <2>4. Len(workers') = Len(workers) + CoreThreads
    BY <1>t, <1>c, <2>3, Added DEF StructInv
  <2>5. Len(workers') = CoreThreads
    BY <1>c, <2>2, <2>4 DEF RoomInv
  <2>6. running' = TRUE /\ spc'["auto"] = "wait"
    BY <1>t, <2>1, <2>3 DEF TypeOK, StartThreads, OwnScalingOnly
  <2> QED
    BY <1>c, <2>2, <2>5, <2>6 DEF RoomInv, LockedByOwner, Removing
<1>3. CASE Stop \/ JoinMonitor
  BY <1>1, <1>3 DEF Stop, JoinMonitor, LockedByOwner, flags, ops
<1>4. CASE JoinScaling
  <2>1. left'["auto"] = left["auto"] /\ spc["auto"] \in {"none", "done"}
    BY <1>t, <1>4 DEF JoinScaling, TypeOK
  <2> QED
    BY <1>1, <1>4, <2>1 DEF JoinScaling, flags
<1>5. CASE StopAll \/ JoinOne \/ JoinAll
  <2>1. UNCHANGED <<spc, ask>> /\ owner \in LockedByOwner
    BY <1>5 DEF StopAll, JoinOne, JoinAll, LockedByOwner
  <2>2. spc["auto"] \in {"none", "done"}
    BY <2>1 DEF RoomInv
  <2>3. \/ UNCHANGED <<running, workers>>
        \/ workers' = <<>> /\ running' = FALSE
    BY <1>5 DEF StopAll, JoinOne, JoinAll, flags
  <2> QED
    BY <2>1, <2>2, <2>3 DEF RoomInv, Removing
<1>6. ASSUME NEW u \in Units, Submit(u) \/ Push(u)
      PROVE  RoomInv'
  BY <1>1, <1>6 DEF Submit, Push, flags, ops, RoomInv
<1>7. ASSUME NEW w \in Workers, Working(w)
      PROVE  RoomInv'
  BY <1>1, <1>7 DEF Working, CheckStop, Fetch, ExecuteTask, Catch, EndThread, OtherThanWorkers,
                    flags, ops, RoomInv
<1>8. CASE Monitoring
  BY <1>1, <1>8 DEF Monitoring, MonitorLength, MonitorActive, MonitorTotal, OtherThanMonitor,
                    flags, ops, RoomInv
<1>9. CASE ScalingWait \/ \E cool \in BOOLEAN : Evaluate(cool)
  <2>1. /\ UNCHANGED <<running, workers, owner>> /\ spc["auto"] \in {"wait", "evaluate"}
        /\ spc'["auto"] \in {"done", "evaluate", "read", "wait"}
    <3>1. /\ UNCHANGED <<running, workers, owner>>
          /\ \E from \in {"wait", "evaluate"}, to \in {"done", "evaluate", "read", "wait"} :
               At("auto", from, to)
      BY <1>9 DEF ScalingWait, Evaluate, OtherThanOps, flags
    <3> QED
      BY <1>t, <3>1, PlaceTypes DEF At
  <2> QED
    BY <2>1 DEF RoomInv, Removing
<1>10. CASE ReadCount("auto")
  <2> DEFINE room == IF ask["auto"].up THEN Minus(MaxThreads, Len(workers))
                                       ELSE Minus(Len(workers), MinThreads)
             n == MinOf(ask["auto"].n, room)
  <2>1. /\ At("auto", "read", IF n > 0 THEN "change" ELSE Back("auto"))
        /\ left' = [left EXCEPT !["auto"] = n]
        /\ UNCHANGED <<workers, mutex, ask, load, OtherThanOps>>
    BY <1>10 DEF ReadCount
  <2>2. running /\ MinThreads <= Len(workers) /\ Len(workers) <= MaxThreads
    BY <2>1 DEF RoomInv, At
  <2>3. room = IF ask["auto"].up THEN MaxThreads - Len(workers) ELSE Len(workers) - MinThreads
    <3>1. Minus(MaxThreads, Len(workers)) = MaxThreads - Len(workers)
      BY <1>t, <1>c, <2>2, MinusBelow
    <3>2. Minus(Len(workers), MinThreads) = Len(workers) - MinThreads
      <4>1. Len(workers) < SizeMod
        BY <1>t, <1>c, <2>2
      <4> QED
        BY <1>t, <1>c, <2>2, <4>1, MinusBelow
    <3> QED
      BY <3>1, <3>2
  <2>4. n <= room /\ n \in Nat /\ room \in Nat
    <3>1. room \in Nat
      BY <1>t, <1>c, <2>2, <2>3
    <3>2. ask["auto"].n \in Nat
      BY <1>t DEF TypeOK
    <3> QED
      BY <3>1, <3>2 DEF MinOf
  <2>5. left'["auto"] = n /\ spc'["auto"] \in {"change", "wait"}
    BY <1>t, <2>1 DEF At, Back, TypeOK
  <2> HIDE DEF n
  <2>6. ask["auto"].up => Len(workers) + n <= MaxThreads
    BY <1>t, <1>c, <2>3, <2>4
  <2>7. ~ask["auto"].up => MinThreads + n <= Len(workers)
    BY <1>t, <1>c, <2>3, <2>4
  <2>8. UNCHANGED <<running, owner, workers, ask>>
    BY <2>1 DEF OtherThanOps, flags
  <2>9. owner \notin LockedByOwner
    BY <2>1 DEF RoomInv, At
  <2> QED
    BY <2>2, <2>5, <2>6, <2>7, <2>8, <2>9 DEF RoomInv
<1>11. CASE ScaleUp("auto")
  <2>1. /\ spc["auto"] = "change" /\ ask["auto"].up /\ spc'["auto"] = "wait"
        /\ UNCHANGED <<running, owner>>
        /\ \E ok \in BOOLEAN : CreateWorkers(left["auto"], ok)
    BY <1>t, <1>11 DEF ScaleUp, At, Back, TypeOK, flags
  <2>2. AddWorkers(left["auto"])
    BY <2>1 DEF CreateWorkers, OwnScalingOnly
  <2>3. Len(workers') = Len(workers) + left["auto"]
    BY <1>t, <2>2, Added DEF StructInv
  <2> QED
    BY <1>t, <1>c, <2>1, <2>3 DEF RoomInv, Removing
<1>12. CASE ScaleDown("auto")
  <2>1. /\ spc["auto"] = "change" /\ ~ask["auto"].up /\ spc'["auto"] = "remove"
        /\ UNCHANGED <<running, owner, workers, ask, left>>
    BY <1>t, <1>12 DEF ScaleDown, At, TypeOK, OtherThanOps, flags
  <2> QED
    BY <2>1 DEF RoomInv, Removing
<1>13. CASE Remove("auto")
  <2>1. /\ spc["auto"] = "remove" /\ spc'["auto"] \in {"join", "wait"}
        /\ spc'["auto"] = "join" => left'["auto"] = left["auto"]
        /\ UNCHANGED <<running, owner, workers, ask>>
    BY <1>t, <1>13 DEF Remove, At, Back, TypeOK, flags
  <2> QED
    BY <2>1 DEF RoomInv, Removing
<1>14. CASE JoinRemoved("auto")
  <2>1. /\ spc["auto"] = "join" /\ spc'["auto"] = "remove"
        /\ left'["auto"] = left["auto"] - 1 /\ UNCHANGED <<running, owner, ask>>
        /\ workers' = SubSeq(workers, 1, Len(workers) - 1)
    BY <1>t, <1>14 DEF JoinRemoved, At, TypeOK, flags
  <2>2. Len(workers) >= 1 /\ left["auto"] >= 1 /\ running
    BY <1>t, <2>1 DEF JoinInv, RoomInv, TypeOK
  <2>3. Len(workers') = Len(workers) - 1
    <3>1. workers \in Seq(Workers)
      BY <1>t DEF TypeOK
    <3>2. Len(SubSeq(workers, 1, Len(workers) - 1)) = Len(workers) - 1
      <4>1. workers # <<>>
        BY <1>t, <2>2
      <4> QED
        BY <3>1, <4>1, ButLast
    <3> QED
      BY <2>1, <3>2
  <2>4. ~ask["auto"].up
    BY <2>1 DEF RoomInv
  <2> QED
    BY <1>t, <1>c, <2>1, <2>2, <2>3, <2>4 DEF RoomInv, Removing
<1>15. CASE UNCHANGED vars
  BY <1>1, <1>15 DEF vars, flags, ops, RoomInv
<1> QED
  BY <1>t, <1>2, <1>3, <1>4, <1>5, <1>6, <1>7, <1>8, <1>9, <1>10, <1>11, <1>12, <1>13, <1>14,
     <1>15 DEF Next, Owning, Scaling, OwnScalingOnly

(* The scaling thread keeps the number of workers between its bounds: the  *)
(* metrics it decides by are old, the count it then reads is not, and what *)
(* it computes in size_t never wraps.                                      *)
THEOREM OwnScalingKeepsBounds ==
    ASSUME OwnScalingOnly
    PROVE  Spec => []ScalingKeepsBounds
<1>1. Init => StructInv /\ RoomInv
  <2>1. "auto" \in ScalerThreads
    BY LockNames
  <2> QED
    BY <2>1, StructInit DEF Init, RoomInv, LockedByOwner, Removing
<1>2. StructInv /\ RoomInv /\ [Next]_vars => StructInv' /\ RoomInv'
  BY StructStep, RoomStep
<1>3. StructInv /\ RoomInv => ScalingKeepsBounds
  BY DEF RoomInv, ScalingKeepsBounds
<1> QED
  BY <1>1, <1>2, <1>3, PTL DEF Spec
=============================================================================
