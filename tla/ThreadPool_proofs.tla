------------------------- MODULE ThreadPool_proofs -------------------------
(***************************************************************************)
(* Proofs about ThreadPool: types, one stop at a time, that nothing is left*)
(* running once stop has returned and that no task is lost before it has   *)
(* ended, for any number of threads, workers and tasks.                    *)
(***************************************************************************)
EXTENDS ThreadPool, FiniteSetTheorems, TLAPS

(* Whoever is there holds _state_mutex.                                    *)
LockedLocations ==
    {"start", "clean_up", "resume", "stop_scheduler", "stop_join", "stop_clear", "stop_monitor"}

(* The mutex is held exactly by the controller whose place says so, and the*)
(* state is what that place left behind.                                   *)
LockInv ==
    \A c \in Controllers :
        /\ pc[c] \in LockedLocations <=> lock = c
        /\ pc[c] \in {"start", "clean_up"} => state = "starting"
        /\ pc[c] = "resume" => state = "paused"

(* A controller inside stop keeps the state at "stopping", even without the*)
(* mutex, and this keeps the others out.                                   *)
StopperInv ==
    /\ \A c \in Controllers : pc[c] \in StopLocations => state = "stopping"
    /\ \A c, d \in Controllers :
        pc[c] \in StopLocations /\ pc[d] \in StopLocations => c = d
    /\ state = "stopping" => \E c \in Controllers : pc[c] \in StopLocations

(* Where the scheduler is: its workers are being joined only by whoever has*)
(* asked them to stop, and an idle one has no workers.                     *)
SchedulerInv ==
    /\ scheduler = "stopping" =>
        \E c \in Controllers : pc[c] \in {"clean_up", "stop_join", "resume"}
    /\ \A c \in Controllers :
        pc[c] \in {"stop_clear", "stop_monitor"} => scheduler = "idle"
    /\ state = "stopped" => scheduler = "idle"
    /\ scheduler = "idle" /\ ~broken => \A w \in Workers : wpc[w] = "none"

CrewInv ==
    /\ \A w \in Workers : wpc[w] \in {"execute", "run"} \/ holding[w] = "none"
    /\ state = "stopped" => monitor \in {"none", "done"}

(* A client that submits has a task at hand.                               *)
ArgInv ==
    \A t \in Clients : pc[t] \in {"push", "track"} => arg[t] \in Units

IInv == TypeOK /\ LockInv /\ StopperInv /\ SchedulerInv /\ CrewInv /\ ArgInv

USE RolesDisjoint, WorkersAssumption, InputAssumption

-----------------------------------------------------------------------------
(* Types                                                                   *)

LEMMA GoType ==
    ASSUME TypeOK, NEW t \in Controllers \cup Clients, NEW from, NEW to,
           Go(t, from, to),
           \/ t \in Controllers /\ to \in ControllerLocations
           \/ t \in Clients /\ to \in ClientLocations
    PROVE  /\ pc' \in [Controllers \cup Clients ->
                          ControllerLocations \cup ClientLocations]
           /\ \A c \in Controllers : pc'[c] \in ControllerLocations
           /\ \A c \in Clients : pc'[c] \in ClientLocations
  BY DEF Go, TypeOK, ControllerLocations, ClientLocations

LEMMA StartType == ASSUME TypeOK, NEW c \in Controllers, Start(c) PROVE TypeOK'
<1>1. \/ Go(c, "idle", "start")
      \/ Go(c, "idle", "clean_up")
      \/ UNCHANGED pc
  BY DEF Start
<1>2. /\ pc' \in [Controllers \cup Clients ->
                     ControllerLocations \cup ClientLocations]
      /\ \A d \in Controllers : pc'[d] \in ControllerLocations
      /\ \A d \in Clients : pc'[d] \in ClientLocations
  BY <1>1, GoType DEF TypeOK, ControllerLocations, ClientLocations, StopLocations
<1>3. /\ wpc' \in [Workers -> {"none", "check", "fetch", "execute", "run", "dead"}]
      /\ holding' = holding
  BY DEF TypeOK, Start, Create
<1>4. /\ state' \in {"starting", "error"} /\ lock' \in Controllers \cup {"none"}
      /\ scheduler' \in {"idle", "running", "stopping"} /\ broken' \in BOOLEAN
      /\ monitor' \in {"none", "check", "work", "clean", "done"}
  BY DEF TypeOK, Start
<1>5. UNCHANGED <<rank, ustate, active, arg>>
  BY DEF Start
<1> QED
  BY <1>2, <1>3, <1>4, <1>5 DEF TypeOK, rank, Ended

LEMMA StartDoneType == ASSUME TypeOK, NEW c \in Controllers, StartDone(c) PROVE TypeOK'
<1>1. \/ Go(c, "start", "idle")
  BY DEF StartDone
<1>2. /\ pc' \in [Controllers \cup Clients ->
                     ControllerLocations \cup ClientLocations]
      /\ \A d \in Controllers : pc'[d] \in ControllerLocations
      /\ \A d \in Clients : pc'[d] \in ClientLocations
  BY <1>1, GoType DEF ControllerLocations, ClientLocations, StopLocations
<1> QED
  BY <1>2 DEF TypeOK, StartDone, pool, rank, crew, Ended

LEMMA CleanUpOnErrorType ==
    ASSUME TypeOK, NEW c \in Controllers, CleanUpOnError(c) PROVE TypeOK'
<1>1. \/ Go(c, "clean_up", "idle")
  BY DEF CleanUpOnError
<1>2. /\ pc' \in [Controllers \cup Clients ->
                     ControllerLocations \cup ClientLocations]
      /\ \A d \in Controllers : pc'[d] \in ControllerLocations
      /\ \A d \in Clients : pc'[d] \in ClientLocations
  BY <1>1, GoType DEF ControllerLocations, ClientLocations, StopLocations
<1> QED
  BY <1>2 DEF TypeOK, CleanUpOnError, Dismiss, pool, rank, crew, Ended

LEMMA StopType == ASSUME TypeOK, NEW c \in Controllers, Stop(c) PROVE TypeOK'
<1>1. \/ Go(c, "idle", "stop_wait")
      \/ Go(c, "idle", "stop_scheduler")
  BY DEF Stop
<1>2. /\ pc' \in [Controllers \cup Clients ->
                     ControllerLocations \cup ClientLocations]
      /\ \A d \in Controllers : pc'[d] \in ControllerLocations
      /\ \A d \in Clients : pc'[d] \in ClientLocations
  BY <1>1, GoType DEF ControllerLocations, ClientLocations, StopLocations
<1> QED
  BY <1>2 DEF TypeOK, Stop, pool, rank, crew, Ended

LEMMA StopWaitedType == ASSUME TypeOK, NEW c \in Controllers, StopWaited(c) PROVE TypeOK'
<1>1. \/ Go(c, "stop_wait", "stop_relock")
  BY DEF StopWaited
<1>2. /\ pc' \in [Controllers \cup Clients ->
                     ControllerLocations \cup ClientLocations]
      /\ \A d \in Controllers : pc'[d] \in ControllerLocations
      /\ \A d \in Clients : pc'[d] \in ClientLocations
  BY <1>1, GoType DEF ControllerLocations, ClientLocations, StopLocations
<1> QED
  BY <1>2 DEF TypeOK, StopWaited, pool, rank, crew, Ended

LEMMA StopRelockType == ASSUME TypeOK, NEW c \in Controllers, StopRelock(c) PROVE TypeOK'
<1>1. \/ Go(c, "stop_relock", "stop_scheduler")
  BY DEF StopRelock
<1>2. /\ pc' \in [Controllers \cup Clients ->
                     ControllerLocations \cup ClientLocations]
      /\ \A d \in Controllers : pc'[d] \in ControllerLocations
      /\ \A d \in Clients : pc'[d] \in ClientLocations
  BY <1>1, GoType DEF ControllerLocations, ClientLocations, StopLocations
<1> QED
  BY <1>2 DEF TypeOK, StopRelock, pool, rank, crew, Ended

LEMMA StopSchedulerType == ASSUME TypeOK, NEW c \in Controllers, StopScheduler(c) PROVE TypeOK'
<1>1. \/ Go(c, "stop_scheduler", "stop_join")
      \/ Go(c, "stop_scheduler", "stop_clear")
  BY DEF StopScheduler
<1>2. /\ pc' \in [Controllers \cup Clients ->
                     ControllerLocations \cup ClientLocations]
      /\ \A d \in Controllers : pc'[d] \in ControllerLocations
      /\ \A d \in Clients : pc'[d] \in ClientLocations
  BY <1>1, GoType DEF ControllerLocations, ClientLocations, StopLocations
<1> QED
  BY <1>2 DEF TypeOK, StopScheduler, pool, rank, crew, Ended

LEMMA StopJoinType == ASSUME TypeOK, NEW c \in Controllers, StopJoin(c) PROVE TypeOK'
<1>1. \/ Go(c, "stop_join", "stop_clear")
  BY DEF StopJoin
<1>2. /\ pc' \in [Controllers \cup Clients ->
                     ControllerLocations \cup ClientLocations]
      /\ \A d \in Controllers : pc'[d] \in ControllerLocations
      /\ \A d \in Clients : pc'[d] \in ClientLocations
  BY <1>1, GoType DEF ControllerLocations, ClientLocations, StopLocations
<1> QED
  BY <1>2 DEF TypeOK, StopJoin, Dismiss, pool, rank, crew, Ended

LEMMA StopClearType == ASSUME TypeOK, NEW c \in Controllers, StopClear(c) PROVE TypeOK'
<1>1. \/ Go(c, "stop_clear", "stop_monitor")
  BY DEF StopClear
<1>2. /\ pc' \in [Controllers \cup Clients ->
                     ControllerLocations \cup ClientLocations]
      /\ \A d \in Controllers : pc'[d] \in ControllerLocations
      /\ \A d \in Clients : pc'[d] \in ClientLocations
  BY <1>1, GoType DEF ControllerLocations, ClientLocations, StopLocations
<1> QED
  BY <1>2 DEF TypeOK, StopClear, pool, rank, crew, Ended

LEMMA StopMonitorType == ASSUME TypeOK, NEW c \in Controllers, StopMonitor(c) PROVE TypeOK'
<1>1. \/ Go(c, "stop_monitor", "idle")
  BY DEF StopMonitor
<1>2. /\ pc' \in [Controllers \cup Clients ->
                     ControllerLocations \cup ClientLocations]
      /\ \A d \in Controllers : pc'[d] \in ControllerLocations
      /\ \A d \in Clients : pc'[d] \in ClientLocations
  BY <1>1, GoType DEF ControllerLocations, ClientLocations, StopLocations
<1> QED
  BY <1>2 DEF TypeOK, StopMonitor, pool, rank, crew, Ended

LEMMA PauseType == ASSUME TypeOK, NEW c \in Controllers, Pause(c) PROVE TypeOK'
  BY DEF TypeOK, Pause, pool, rank, crew, Ended

LEMMA ResumeType == ASSUME TypeOK, NEW c \in Controllers, Resume(c) PROVE TypeOK'
<1>1. \/ Go(c, "idle", "resume")
  BY DEF Resume
<1>2. /\ pc' \in [Controllers \cup Clients ->
                     ControllerLocations \cup ClientLocations]
      /\ \A d \in Controllers : pc'[d] \in ControllerLocations
      /\ \A d \in Clients : pc'[d] \in ClientLocations
  BY <1>1, GoType DEF ControllerLocations, ClientLocations, StopLocations
<1> QED
  BY <1>2 DEF TypeOK, Resume, pool, rank, crew, Ended

LEMMA ResumeDoneType == ASSUME TypeOK, NEW c \in Controllers, ResumeDone(c) PROVE TypeOK'
<1>1. \/ Go(c, "resume", "idle")
  BY DEF ResumeDone
<1>2. /\ pc' \in [Controllers \cup Clients ->
                     ControllerLocations \cup ClientLocations]
      /\ \A d \in Controllers : pc'[d] \in ControllerLocations
      /\ \A d \in Clients : pc'[d] \in ClientLocations
  BY <1>1, GoType DEF ControllerLocations, ClientLocations, StopLocations
<1>3. queue' = <<>> /\ <<>> \in Seq(Units)
  BY DEF ResumeDone
<1> QED
  BY <1>2, <1>3 DEF TypeOK, ResumeDone, Dismiss, pool, rank, crew, Ended

LEMMA SubmitType == ASSUME TypeOK, NEW t \in Clients, Submit(t) PROVE TypeOK'
<1>1. \/ Go(t, "idle", "push")
  BY DEF Submit
<1>2. /\ pc' \in [Controllers \cup Clients ->
                     ControllerLocations \cup ClientLocations]
      /\ \A d \in Controllers : pc'[d] \in ControllerLocations
      /\ \A d \in Clients : pc'[d] \in ClientLocations
  BY <1>1, GoType DEF ControllerLocations, ClientLocations, StopLocations
<1>3. PICK u \in Units :
        /\ ustate' = [ustate EXCEPT ![u] = "checked"]
        /\ arg' = [arg EXCEPT ![t] = u]
  BY DEF Submit
<1>4. /\ ustate' \in [Units -> {"new", "checked", "refused", "pending", "running"}
                                 \cup Ended]
      /\ arg' \in [Clients -> Units \cup {"none"}]
  BY <1>3 DEF TypeOK
<1> QED
  BY <1>2, <1>4 DEF TypeOK, Submit, pool, rank, crew

LEMMA SubmitPushType ==
    ASSUME TypeOK, NEW t \in Clients, SubmitPush(t), arg[t] \in Units
    PROVE  TypeOK'
<1>1. \/ Go(t, "push", "track")
      \/ Go(t, "push", "idle")
  BY DEF SubmitPush
<1>2. /\ pc' \in [Controllers \cup Clients ->
                     ControllerLocations \cup ClientLocations]
      /\ \A d \in Controllers : pc'[d] \in ControllerLocations
      /\ \A d \in Clients : pc'[d] \in ClientLocations
  BY <1>1, GoType DEF ControllerLocations, ClientLocations, StopLocations
<1>3. queue' \in Seq(Units)
  <2>1. queue \in Seq(Units)
    BY DEF TypeOK
  <2>2. queue' = Append(queue, arg[t]) \/ queue' = queue
    BY DEF SubmitPush
  <2> QED
    BY <2>1, <2>2
<1>4. ustate' \in [Units -> {"new", "checked", "refused", "pending", "running"}
                              \cup Ended]
  BY DEF SubmitPush, TypeOK
<1>5. arg' \in [Clients -> Units \cup {"none"}]
  BY DEF SubmitPush, TypeOK
<1> QED
  BY <1>2, <1>3, <1>4, <1>5 DEF TypeOK, SubmitPush, pool, crew

LEMMA SubmitTrackType ==
    ASSUME TypeOK, NEW t \in Clients, SubmitTrack(t), arg[t] \in Units
    PROVE  TypeOK'
<1>1. \/ Go(t, "track", "idle")
  BY DEF SubmitTrack
<1>2. /\ pc' \in [Controllers \cup Clients ->
                     ControllerLocations \cup ClientLocations]
      /\ \A d \in Controllers : pc'[d] \in ControllerLocations
      /\ \A d \in Clients : pc'[d] \in ClientLocations
  BY <1>1, GoType DEF ControllerLocations, ClientLocations, StopLocations
<1>3. active' \subseteq Units /\ arg' \in [Clients -> Units \cup {"none"}]
  BY DEF SubmitTrack, TypeOK
<1> QED
  BY <1>2, <1>3 DEF TypeOK, SubmitTrack, pool, rank, crew, Ended

LEMMA CancelUnitType == ASSUME TypeOK, NEW t \in Clients, CancelUnit(t) PROVE TypeOK'
  BY DEF TypeOK, CancelUnit, CancelPending, pool, rank, crew, Ended

LEMMA CancelAllPendingUnitsType == ASSUME TypeOK, NEW t \in Clients, CancelAllPendingUnits(t) PROVE TypeOK'
  BY DEF TypeOK, CancelAllPendingUnits, CancelPending, pool, rank, crew, Ended

LEMMA WaitForUnitType == ASSUME TypeOK, NEW t \in Clients, WaitForUnit(t) PROVE TypeOK'
<1>1. \/ Go(t, "idle", "wait")
  BY DEF WaitForUnit
<1>2. /\ pc' \in [Controllers \cup Clients ->
                     ControllerLocations \cup ClientLocations]
      /\ \A d \in Controllers : pc'[d] \in ControllerLocations
      /\ \A d \in Clients : pc'[d] \in ClientLocations
  BY <1>1, GoType DEF ControllerLocations, ClientLocations, StopLocations
<1>3. PICK u \in active : arg' = [arg EXCEPT ![t] = u]
  BY DEF WaitForUnit
<1>4. arg' \in [Clients -> Units \cup {"none"}]
  BY <1>3 DEF TypeOK
<1> QED
  BY <1>2, <1>4 DEF TypeOK, WaitForUnit, pool, rank, crew, Ended

LEMMA WaitDoneType == ASSUME TypeOK, NEW t \in Clients, WaitDone(t) PROVE TypeOK'
<1>1. \/ Go(t, "wait", "idle")
  BY DEF WaitDone
<1>2. /\ pc' \in [Controllers \cup Clients ->
                     ControllerLocations \cup ClientLocations]
      /\ \A d \in Controllers : pc'[d] \in ControllerLocations
      /\ \A d \in Clients : pc'[d] \in ClientLocations
  BY <1>1, GoType DEF ControllerLocations, ClientLocations, StopLocations
<1> QED
  BY <1>2 DEF TypeOK, WaitDone, pool, rank, crew, Ended

LEMMA MonitorCheckType == ASSUME TypeOK, MonitorCheck PROVE TypeOK'
  BY DEF TypeOK, MonitorCheck, pool, rank, crew, Ended

LEMMA MonitorWorkType == ASSUME TypeOK, MonitorWork PROVE TypeOK'
  BY DEF TypeOK, MonitorWork, pool, rank, crew, Ended

LEMMA MonitorCleanType == ASSUME TypeOK, MonitorClean PROVE TypeOK'
  BY DEF TypeOK, MonitorClean, pool, rank, crew, Ended

LEMMA CheckStopType == ASSUME TypeOK, NEW w \in Workers, CheckStop(w) PROVE TypeOK'
  BY DEF TypeOK, CheckStop, WGo, OtherThanCrew, pool, rank, Ended

LEMMA FetchType == ASSUME TypeOK, NEW w \in Workers, Fetch(w) PROVE TypeOK'
<1>1. queue # <<>> => Head(queue) \in Units /\ Tail(queue) \in Seq(Units)
  BY DEF TypeOK
<1>2. /\ queue' \in Seq(Units)
      /\ holding' \in [Workers -> Units \cup {"none"}]
  BY <1>1 DEF TypeOK, Fetch
<1>3. wpc' \in [Workers -> {"none", "check", "fetch", "execute", "run", "dead"}]
  BY DEF TypeOK, Fetch, WGo
<1> QED
  BY <1>2, <1>3 DEF TypeOK, Fetch, OtherThanCrew, pool, Ended

LEMMA ExecuteType == ASSUME TypeOK, NEW w \in Workers, Execute(w) PROVE TypeOK'
  BY DEF TypeOK, Execute, WGo, OtherThanCrew, pool, rank, Ended

LEMMA RunEndsType == ASSUME TypeOK, NEW w \in Workers, RunEnds(w) PROVE TypeOK'
<1>1. wpc' \in [Workers -> {"none", "check", "fetch", "execute", "run", "dead"}]
  BY DEF TypeOK, RunEnds, WGo
<1>2. holding' \in [Workers -> Units \cup {"none"}]
  BY DEF TypeOK, RunEnds
<1>3. ustate' \in [Units -> {"new", "checked", "refused", "pending", "running"}
                              \cup Ended]
  BY DEF TypeOK, RunEnds, Ended
<1> QED
  BY <1>1, <1>2, <1>3 DEF TypeOK, RunEnds, OtherThanCrew, pool

-----------------------------------------------------------------------------
(* The invariant *)

LEMMA GoMoves ==
    ASSUME TypeOK, NEW t \in Controllers \cup Clients, NEW from, NEW to,
           Go(t, from, to)
    PROVE  /\ pc[t] = from
           /\ \A x \in Controllers \cup Clients :
                pc'[x] = IF x = t THEN to ELSE pc[x]
  BY DEF Go, TypeOK

LEMMA InitIInv == Init => IInv
<1> SUFFICES ASSUME Init PROVE IInv
  OBVIOUS
<1>1. <<>> \in Seq(Units)
  OBVIOUS
<1>2. TypeOK
  BY <1>1 DEF Init, TypeOK, ControllerLocations, ClientLocations
<1>3. LockInv /\ StopperInv /\ SchedulerInv
  BY DEF Init, LockInv, LockedLocations, StopperInv, StopLocations, SchedulerInv
<1>4. CrewInv /\ ArgInv
  BY DEF Init, CrewInv, ArgInv
<1> QED
  BY <1>2, <1>3, <1>4 DEF IInv

(* Steps of clients, of the monitor and of workers leave alone what LockInv*)
(* and StopperInv are about.                                               *)
LEMMA Undisturbed ==
    ASSUME LockInv, StopperInv, state' = state, lock' = lock,
           \A c \in Controllers : pc'[c] = pc[c]
    PROVE  LockInv' /\ StopperInv'
  BY DEF LockInv, StopperInv

LEMMA StartKeeps ==
    ASSUME IInv, NEW c \in Controllers, Start(c)
    PROVE  IInv'
<1>1. TypeOK'
  BY StartType DEF IInv
<1>2. \/ /\ pc[c] = "idle"
         /\ \A x \in Controllers \cup Clients :
              pc'[x] = IF x = c THEN "start" ELSE pc[x]
         /\ lock' = c /\ state' = "starting" /\ scheduler' = "running"
      \/ /\ pc[c] = "idle"
         /\ \A x \in Controllers \cup Clients :
              pc'[x] = IF x = c THEN "clean_up" ELSE pc[x]
         /\ lock' = c /\ state' = "starting" /\ scheduler' = "stopping"
      \/ UNCHANGED pc /\ state' = "error" /\ pc[c] = "idle"
  BY GoMoves DEF IInv, Start
<1>3. LockInv'
  BY <1>2 DEF IInv, LockInv, LockedLocations, StopperInv, StopLocations, Start, pool, rank, crew
<1>4. StopperInv'
  BY <1>2 DEF IInv, StopperInv, StopLocations, LockInv, LockedLocations, Start, pool, rank, crew
<1>5. SchedulerInv'
  BY <1>2 DEF IInv, SchedulerInv, StopperInv, StopLocations, LockInv, LockedLocations, TypeOK, Start, pool, rank, crew, Create
<1>6. CrewInv'
  BY <1>2 DEF IInv, CrewInv, TypeOK, Start, pool, rank, crew, Create
<1>7. ArgInv'
  BY <1>2 DEF IInv, ArgInv, Start, pool, rank, crew
<1> QED
  BY <1>1, <1>3, <1>4, <1>5, <1>6, <1>7 DEF IInv

LEMMA StartDoneKeeps ==
    ASSUME IInv, NEW c \in Controllers, StartDone(c)
    PROVE  IInv'
<1>1. TypeOK'
  BY StartDoneType DEF IInv
<1>2. /\ pc[c] = "start"
      /\ \A x \in Controllers \cup Clients :
           pc'[x] = IF x = c THEN "idle" ELSE pc[x]
  BY GoMoves DEF IInv, StartDone
<1>3. LockInv'
  BY <1>2 DEF IInv, LockInv, LockedLocations, StopperInv, StopLocations, StartDone, pool, rank, crew
<1>4. StopperInv'
  BY <1>2 DEF IInv, StopperInv, StopLocations, LockInv, LockedLocations, StartDone, pool, rank, crew
<1>5. SchedulerInv'
  BY <1>2 DEF IInv, SchedulerInv, StopperInv, StopLocations, LockInv, LockedLocations, TypeOK, StartDone, pool, rank, crew
<1>6. CrewInv'
  BY <1>2 DEF IInv, CrewInv, TypeOK, StartDone, pool, rank, crew
<1>7. ArgInv'
  BY <1>2 DEF IInv, ArgInv, StartDone, pool, rank, crew
<1> QED
  BY <1>1, <1>3, <1>4, <1>5, <1>6, <1>7 DEF IInv

LEMMA CleanUpOnErrorKeeps ==
    ASSUME IInv, NEW c \in Controllers, CleanUpOnError(c)
    PROVE  IInv'
<1>1. TypeOK'
  BY CleanUpOnErrorType DEF IInv
<1>2. /\ pc[c] = "clean_up"
      /\ \A x \in Controllers \cup Clients :
           pc'[x] = IF x = c THEN "idle" ELSE pc[x]
  BY GoMoves DEF IInv, CleanUpOnError
<1>3. LockInv'
  BY <1>2 DEF IInv, LockInv, LockedLocations, StopperInv, StopLocations, CleanUpOnError
<1>4. StopperInv'
  BY <1>2 DEF IInv, StopperInv, StopLocations, LockInv, LockedLocations, CleanUpOnError
<1>5. SchedulerInv'
  BY <1>2 DEF IInv, SchedulerInv, StopperInv, StopLocations, LockInv, LockedLocations, TypeOK, CleanUpOnError, Dismiss
<1>6. CrewInv'
  BY <1>2 DEF IInv, CrewInv, TypeOK, CleanUpOnError, Dismiss, Alive
<1>7. ArgInv'
  BY <1>2 DEF IInv, ArgInv, CleanUpOnError
<1> QED
  BY <1>1, <1>3, <1>4, <1>5, <1>6, <1>7 DEF IInv

LEMMA StopKeeps ==
    ASSUME IInv, NEW c \in Controllers, Stop(c)
    PROVE  IInv'
<1>1. TypeOK'
  BY StopType DEF IInv
<1>2. \/ /\ pc[c] = "idle"
         /\ \A x \in Controllers \cup Clients :
              pc'[x] = IF x = c THEN "stop_wait" ELSE pc[x]
         /\ lock' = lock
      \/ /\ pc[c] = "idle"
         /\ \A x \in Controllers \cup Clients :
              pc'[x] = IF x = c THEN "stop_scheduler" ELSE pc[x]
         /\ lock' = c
  BY GoMoves DEF IInv, Stop
<1>3. LockInv'
  BY <1>2 DEF IInv, LockInv, LockedLocations, StopperInv, StopLocations, Stop, pool, rank, crew
<1>4. StopperInv'
  BY <1>2 DEF IInv, StopperInv, StopLocations, LockInv, LockedLocations, Stop, pool, rank, crew
<1>5. SchedulerInv'
  BY <1>2 DEF IInv, SchedulerInv, StopperInv, StopLocations, LockInv, LockedLocations, TypeOK, Stop, pool, rank, crew
<1>6. CrewInv'
  BY <1>2 DEF IInv, CrewInv, TypeOK, Stop, pool, rank, crew
<1>7. ArgInv'
  BY <1>2 DEF IInv, ArgInv, Stop, pool, rank, crew
<1> QED
  BY <1>1, <1>3, <1>4, <1>5, <1>6, <1>7 DEF IInv

LEMMA StopWaitedKeeps ==
    ASSUME IInv, NEW c \in Controllers, StopWaited(c)
    PROVE  IInv'
<1>1. TypeOK'
  BY StopWaitedType DEF IInv
<1>2. /\ pc[c] = "stop_wait"
      /\ \A x \in Controllers \cup Clients :
           pc'[x] = IF x = c THEN "stop_relock" ELSE pc[x]
  BY GoMoves DEF IInv, StopWaited
<1>3. LockInv'
  BY <1>2 DEF IInv, LockInv, LockedLocations, StopperInv, StopLocations, StopWaited, pool, rank, crew
<1>4. StopperInv'
  BY <1>2 DEF IInv, StopperInv, StopLocations, LockInv, LockedLocations, StopWaited, pool, rank, crew
<1>5. SchedulerInv'
  BY <1>2 DEF IInv, SchedulerInv, StopperInv, StopLocations, LockInv, LockedLocations, TypeOK, StopWaited, pool, rank, crew
<1>6. CrewInv'
  BY <1>2 DEF IInv, CrewInv, TypeOK, StopWaited, pool, rank, crew
<1>7. ArgInv'
  BY <1>2 DEF IInv, ArgInv, StopWaited, pool, rank, crew
<1> QED
  BY <1>1, <1>3, <1>4, <1>5, <1>6, <1>7 DEF IInv

LEMMA StopRelockKeeps ==
    ASSUME IInv, NEW c \in Controllers, StopRelock(c)
    PROVE  IInv'
<1>1. TypeOK'
  BY StopRelockType DEF IInv
<1>2. /\ pc[c] = "stop_relock"
      /\ \A x \in Controllers \cup Clients :
           pc'[x] = IF x = c THEN "stop_scheduler" ELSE pc[x]
  BY GoMoves DEF IInv, StopRelock
<1>3. LockInv'
  BY <1>2 DEF IInv, LockInv, LockedLocations, StopperInv, StopLocations, StopRelock, pool, rank, crew
<1>4. StopperInv'
  BY <1>2 DEF IInv, StopperInv, StopLocations, LockInv, LockedLocations, StopRelock, pool, rank, crew
<1>5. SchedulerInv'
  BY <1>2 DEF IInv, SchedulerInv, StopperInv, StopLocations, LockInv, LockedLocations, TypeOK, StopRelock, pool, rank, crew
<1>6. CrewInv'
  BY <1>2 DEF IInv, CrewInv, TypeOK, StopRelock, pool, rank, crew
<1>7. ArgInv'
  BY <1>2 DEF IInv, ArgInv, StopRelock, pool, rank, crew
<1> QED
  BY <1>1, <1>3, <1>4, <1>5, <1>6, <1>7 DEF IInv

LEMMA StopSchedulerKeeps ==
    ASSUME IInv, NEW c \in Controllers, StopScheduler(c)
    PROVE  IInv'
<1>1. TypeOK'
  BY StopSchedulerType DEF IInv
<1>2. \/ /\ pc[c] = "stop_scheduler"
         /\ \A x \in Controllers \cup Clients :
              pc'[x] = IF x = c THEN "stop_join" ELSE pc[x]
         /\ scheduler' = "stopping"
      \/ /\ pc[c] = "stop_scheduler"
         /\ \A x \in Controllers \cup Clients :
              pc'[x] = IF x = c THEN "stop_clear" ELSE pc[x]
         /\ scheduler # "running" /\ scheduler' = scheduler
  BY GoMoves DEF IInv, StopScheduler
<1>3. LockInv'
  BY <1>2 DEF IInv, LockInv, LockedLocations, StopperInv, StopLocations, StopScheduler, pool, rank, crew
<1>4. StopperInv'
  BY <1>2 DEF IInv, StopperInv, StopLocations, LockInv, LockedLocations, StopScheduler, pool, rank, crew
<1>5. SchedulerInv'
  BY <1>2 DEF IInv, SchedulerInv, StopperInv, StopLocations, LockInv, LockedLocations, TypeOK, StopScheduler, pool, rank, crew
<1>6. CrewInv'
  BY <1>2 DEF IInv, CrewInv, TypeOK, StopScheduler, pool, rank, crew
<1>7. ArgInv'
  BY <1>2 DEF IInv, ArgInv, StopScheduler, pool, rank, crew
<1> QED
  BY <1>1, <1>3, <1>4, <1>5, <1>6, <1>7 DEF IInv

LEMMA StopJoinKeeps ==
    ASSUME IInv, NEW c \in Controllers, StopJoin(c)
    PROVE  IInv'
<1>1. TypeOK'
  BY StopJoinType DEF IInv
<1>2. /\ pc[c] = "stop_join"
      /\ \A x \in Controllers \cup Clients :
           pc'[x] = IF x = c THEN "stop_clear" ELSE pc[x]
  BY GoMoves DEF IInv, StopJoin
<1>3. LockInv'
  BY <1>2 DEF IInv, LockInv, LockedLocations, StopperInv, StopLocations, StopJoin, pool, rank, crew
<1>4. StopperInv'
  BY <1>2 DEF IInv, StopperInv, StopLocations, LockInv, LockedLocations, StopJoin, pool, rank, crew
<1>5. SchedulerInv'
  BY <1>2 DEF IInv, SchedulerInv, StopperInv, StopLocations, LockInv, LockedLocations, TypeOK, StopJoin, pool, rank, crew, Dismiss, Alive
<1>6. CrewInv'
  BY <1>2 DEF IInv, CrewInv, TypeOK, StopJoin, pool, rank, crew, Dismiss, Alive
<1>7. ArgInv'
  BY <1>2 DEF IInv, ArgInv, StopJoin, pool, rank, crew
<1> QED
  BY <1>1, <1>3, <1>4, <1>5, <1>6, <1>7 DEF IInv

LEMMA StopClearKeeps ==
    ASSUME IInv, NEW c \in Controllers, StopClear(c)
    PROVE  IInv'
<1>1. TypeOK'
  BY StopClearType DEF IInv
<1>2. /\ pc[c] = "stop_clear"
      /\ \A x \in Controllers \cup Clients :
           pc'[x] = IF x = c THEN "stop_monitor" ELSE pc[x]
  BY GoMoves DEF IInv, StopClear
<1>3. LockInv'
  BY <1>2 DEF IInv, LockInv, LockedLocations, StopperInv, StopLocations, StopClear, pool, rank, crew
<1>4. StopperInv'
  BY <1>2 DEF IInv, StopperInv, StopLocations, LockInv, LockedLocations, StopClear, pool, rank, crew
<1>5. SchedulerInv'
  BY <1>2 DEF IInv, SchedulerInv, StopperInv, StopLocations, LockInv, LockedLocations, TypeOK, StopClear, pool, rank, crew
<1>6. CrewInv'
  BY <1>2 DEF IInv, CrewInv, TypeOK, StopClear, pool, rank, crew
<1>7. ArgInv'
  BY <1>2 DEF IInv, ArgInv, StopClear, pool, rank, crew
<1> QED
  BY <1>1, <1>3, <1>4, <1>5, <1>6, <1>7 DEF IInv

LEMMA StopMonitorKeeps ==
    ASSUME IInv, NEW c \in Controllers, StopMonitor(c)
    PROVE  IInv'
<1>1. TypeOK'
  BY StopMonitorType DEF IInv
<1>2. /\ pc[c] = "stop_monitor"
      /\ \A x \in Controllers \cup Clients :
           pc'[x] = IF x = c THEN "idle" ELSE pc[x]
  BY GoMoves DEF IInv, StopMonitor
<1>3. LockInv'
  BY <1>2 DEF IInv, LockInv, LockedLocations, StopperInv, StopLocations, StopMonitor, pool, rank, crew
<1>4. StopperInv'
  BY <1>2 DEF IInv, StopperInv, StopLocations, LockInv, LockedLocations, StopMonitor, pool, rank, crew
<1>5. SchedulerInv'
  BY <1>2 DEF IInv, SchedulerInv, StopperInv, StopLocations, LockInv, LockedLocations, TypeOK, StopMonitor, pool, rank, crew
<1>6. CrewInv'
  BY <1>2 DEF IInv, CrewInv, TypeOK, StopMonitor, pool, rank, crew
<1>7. ArgInv'
  BY <1>2 DEF IInv, ArgInv, StopMonitor, pool, rank, crew
<1> QED
  BY <1>1, <1>3, <1>4, <1>5, <1>6, <1>7 DEF IInv

LEMMA PauseKeeps ==
    ASSUME IInv, NEW c \in Controllers, Pause(c)
    PROVE  IInv'
<1>1. TypeOK'
  BY PauseType DEF IInv
<1>2. UNCHANGED pc
  BY DEF Pause
<1>3. LockInv'
  BY <1>2 DEF IInv, LockInv, LockedLocations, StopperInv, StopLocations, Pause, pool, rank, crew
<1>4. StopperInv'
  BY <1>2 DEF IInv, StopperInv, StopLocations, LockInv, LockedLocations, Pause, pool, rank, crew
<1>5. SchedulerInv'
  BY <1>2 DEF IInv, SchedulerInv, StopperInv, StopLocations, LockInv, LockedLocations, TypeOK, Pause, pool, rank, crew
<1>6. CrewInv'
  BY <1>2 DEF IInv, CrewInv, TypeOK, Pause, pool, rank, crew
<1>7. ArgInv'
  BY <1>2 DEF IInv, ArgInv, Pause, pool, rank, crew
<1> QED
  BY <1>1, <1>3, <1>4, <1>5, <1>6, <1>7 DEF IInv

LEMMA ResumeKeeps ==
    ASSUME IInv, NEW c \in Controllers, Resume(c)
    PROVE  IInv'
<1>1. TypeOK'
  BY ResumeType DEF IInv
<1>2. /\ pc[c] = "idle"
      /\ \A x \in Controllers \cup Clients :
           pc'[x] = IF x = c THEN "resume" ELSE pc[x]
  BY GoMoves DEF IInv, Resume
<1>3. LockInv'
  BY <1>2 DEF IInv, LockInv, LockedLocations, StopperInv, StopLocations, Resume, pool, rank, crew
<1>4. StopperInv'
  BY <1>2 DEF IInv, StopperInv, StopLocations, LockInv, LockedLocations, Resume, pool, rank, crew
<1>5. SchedulerInv'
  BY <1>2 DEF IInv, SchedulerInv, StopperInv, StopLocations, LockInv, LockedLocations, TypeOK, Resume, pool, rank, crew
<1>6. CrewInv'
  BY <1>2 DEF IInv, CrewInv, TypeOK, Resume, pool, rank, crew
<1>7. ArgInv'
  BY <1>2 DEF IInv, ArgInv, Resume, pool, rank, crew
<1> QED
  BY <1>1, <1>3, <1>4, <1>5, <1>6, <1>7 DEF IInv

LEMMA ResumeDoneKeeps ==
    ASSUME IInv, NEW c \in Controllers, ResumeDone(c)
    PROVE  IInv'
<1>1. TypeOK'
  BY ResumeDoneType DEF IInv
<1>2. /\ pc[c] = "resume"
      /\ \A x \in Controllers \cup Clients :
           pc'[x] = IF x = c THEN "idle" ELSE pc[x]
  BY GoMoves DEF IInv, ResumeDone
<1>3. LockInv'
  BY <1>2 DEF IInv, LockInv, LockedLocations, StopperInv, StopLocations, ResumeDone, pool, rank, crew
<1>4. StopperInv'
  BY <1>2 DEF IInv, StopperInv, StopLocations, LockInv, LockedLocations, ResumeDone, pool, rank, crew
<1>5. SchedulerInv'
  BY <1>2 DEF IInv, SchedulerInv, StopperInv, StopLocations, LockInv, LockedLocations, TypeOK, ResumeDone, pool, rank, crew, Dismiss, Alive
<1>6. CrewInv'
  BY <1>2 DEF IInv, CrewInv, TypeOK, ResumeDone, pool, rank, crew, Dismiss, Alive
<1>7. ArgInv'
  BY <1>2 DEF IInv, ArgInv, ResumeDone, pool, rank, crew
<1> QED
  BY <1>1, <1>3, <1>4, <1>5, <1>6, <1>7 DEF IInv

-----------------------------------------------------------------------------
(* Steps of clients, of the monitor, and of the workers *)

LEMMA SubmitKeeps ==
    ASSUME IInv, NEW t \in Clients, Submit(t)
    PROVE  IInv'
<1>1. TypeOK'
  BY SubmitType DEF IInv
<1>2. /\ pc[t] = "idle"
      /\ \A x \in Controllers \cup Clients :
           pc'[x] = IF x = t THEN "push" ELSE pc[x]
  BY GoMoves DEF IInv, Submit
<1>3. LockInv' /\ StopperInv'
  BY <1>2, Undisturbed DEF IInv, Submit, pool
<1>4. SchedulerInv' /\ CrewInv'
  BY <1>2 DEF IInv, SchedulerInv, CrewInv, Submit, pool, rank, crew
<1>5. ArgInv'
  <2>1. PICK u \in Units : arg' = [arg EXCEPT ![t] = u]
    BY DEF Submit
  <2> QED
    BY <1>2, <2>1 DEF IInv, ArgInv, TypeOK
<1> QED
  BY <1>1, <1>3, <1>4, <1>5 DEF IInv

LEMMA SubmitPushKeeps ==
    ASSUME IInv, NEW t \in Clients, SubmitPush(t)
    PROVE  IInv'
<1>1. TypeOK'
  <2>1. arg[t] \in Units
    BY DEF IInv, ArgInv, SubmitPush, Go
  <2> QED
    BY <2>1, SubmitPushType DEF IInv
<1>2. \/ /\ pc[t] = "push"
         /\ \A x \in Controllers \cup Clients :
              pc'[x] = IF x = t THEN "track" ELSE pc[x]
         /\ arg' = arg
      \/ /\ pc[t] = "push"
         /\ \A x \in Controllers \cup Clients :
              pc'[x] = IF x = t THEN "idle" ELSE pc[x]
         /\ arg' = [arg EXCEPT ![t] = "none"]
  BY GoMoves DEF IInv, SubmitPush
<1>3. LockInv' /\ StopperInv'
  BY <1>2, Undisturbed DEF IInv, SubmitPush, pool
<1>4. SchedulerInv' /\ CrewInv'
  BY <1>2 DEF IInv, SchedulerInv, CrewInv, SubmitPush, pool, rank, crew
<1>5. ArgInv'
  <2>1. arg \in [Clients -> Units \cup {"none"}]
    BY DEF IInv, TypeOK
  <2>2. \A x \in Clients : pc[x] \in {"push", "track"} => arg[x] \in Units
    BY DEF IInv, ArgInv
  <2> QED
    BY <1>2, <2>1, <2>2 DEF ArgInv
<1> QED
  BY <1>1, <1>3, <1>4, <1>5 DEF IInv

LEMMA SubmitTrackKeeps ==
    ASSUME IInv, NEW t \in Clients, SubmitTrack(t)
    PROVE  IInv'
<1>1. TypeOK'
  <2>1. arg[t] \in Units
    BY DEF IInv, ArgInv, SubmitTrack, Go
  <2> QED
    BY <2>1, SubmitTrackType DEF IInv
<1>2. /\ pc[t] = "track"
      /\ \A x \in Controllers \cup Clients :
           pc'[x] = IF x = t THEN "idle" ELSE pc[x]
  BY GoMoves DEF IInv, SubmitTrack
<1>3. LockInv' /\ StopperInv'
  BY <1>2, Undisturbed DEF IInv, SubmitTrack, pool
<1>4. SchedulerInv' /\ CrewInv'
  BY <1>2 DEF IInv, SchedulerInv, CrewInv, SubmitTrack, pool, rank, crew
<1>5. ArgInv'
  BY <1>2 DEF IInv, ArgInv, TypeOK, SubmitTrack
<1> QED
  BY <1>1, <1>3, <1>4, <1>5 DEF IInv

LEMMA CancelUnitKeeps ==
    ASSUME IInv, NEW t \in Clients, CancelUnit(t)
    PROVE  IInv'
<1>1. TypeOK'
  BY CancelUnitType DEF IInv
<1>2. UNCHANGED pc
  BY DEF CancelUnit
<1>3. LockInv' /\ StopperInv'
  BY <1>2, Undisturbed DEF IInv, CancelUnit, pool
<1>4. SchedulerInv' /\ CrewInv'
  BY <1>2 DEF IInv, SchedulerInv, CrewInv, CancelUnit, pool, rank, crew
<1>5. ArgInv'
  BY <1>2 DEF IInv, ArgInv, TypeOK, CancelUnit
<1> QED
  BY <1>1, <1>3, <1>4, <1>5 DEF IInv

LEMMA CancelAllPendingUnitsKeeps ==
    ASSUME IInv, NEW t \in Clients, CancelAllPendingUnits(t)
    PROVE  IInv'
<1>1. TypeOK'
  BY CancelAllPendingUnitsType DEF IInv
<1>2. UNCHANGED pc
  BY DEF CancelAllPendingUnits
<1>3. LockInv' /\ StopperInv'
  BY <1>2, Undisturbed DEF IInv, CancelAllPendingUnits, pool
<1>4. SchedulerInv' /\ CrewInv'
  BY <1>2 DEF IInv, SchedulerInv, CrewInv, CancelAllPendingUnits, pool, rank, crew
<1>5. ArgInv'
  BY <1>2 DEF IInv, ArgInv, TypeOK, CancelAllPendingUnits
<1> QED
  BY <1>1, <1>3, <1>4, <1>5 DEF IInv

LEMMA WaitForUnitKeeps ==
    ASSUME IInv, NEW t \in Clients, WaitForUnit(t)
    PROVE  IInv'
<1>1. TypeOK'
  BY WaitForUnitType DEF IInv
<1>2. /\ pc[t] = "idle"
      /\ \A x \in Controllers \cup Clients :
           pc'[x] = IF x = t THEN "wait" ELSE pc[x]
  BY GoMoves DEF IInv, WaitForUnit
<1>3. LockInv' /\ StopperInv'
  BY <1>2, Undisturbed DEF IInv, WaitForUnit, pool
<1>4. SchedulerInv' /\ CrewInv'
  BY <1>2 DEF IInv, SchedulerInv, CrewInv, WaitForUnit, pool, rank, crew
<1>5. ArgInv'
  <2>1. PICK u \in active : arg' = [arg EXCEPT ![t] = u]
    BY DEF WaitForUnit
  <2> QED
    BY <1>2, <2>1 DEF IInv, ArgInv, TypeOK
<1> QED
  BY <1>1, <1>3, <1>4, <1>5 DEF IInv

LEMMA WaitDoneKeeps ==
    ASSUME IInv, NEW t \in Clients, WaitDone(t)
    PROVE  IInv'
<1>1. TypeOK'
  BY WaitDoneType DEF IInv
<1>2. /\ pc[t] = "wait"
      /\ \A x \in Controllers \cup Clients :
           pc'[x] = IF x = t THEN "idle" ELSE pc[x]
  BY GoMoves DEF IInv, WaitDone
<1>3. LockInv' /\ StopperInv'
  BY <1>2, Undisturbed DEF IInv, WaitDone, pool
<1>4. SchedulerInv' /\ CrewInv'
  BY <1>2 DEF IInv, SchedulerInv, CrewInv, WaitDone, pool, rank, crew
<1>5. ArgInv'
  BY <1>2 DEF IInv, ArgInv, TypeOK, WaitDone
<1> QED
  BY <1>1, <1>3, <1>4, <1>5 DEF IInv

LEMMA MonitorCheckKeeps == ASSUME IInv, MonitorCheck PROVE IInv'
<1>1. TypeOK'
  BY MonitorCheckType DEF IInv
<1>2. LockInv' /\ StopperInv'
  BY Undisturbed DEF IInv, MonitorCheck, pool
<1>3. SchedulerInv' /\ CrewInv' /\ ArgInv'
  BY DEF IInv, SchedulerInv, CrewInv, ArgInv, MonitorCheck, pool, crew
<1> QED
  BY <1>1, <1>2, <1>3 DEF IInv

LEMMA MonitorWorkKeeps == ASSUME IInv, MonitorWork PROVE IInv'
<1>1. TypeOK'
  BY MonitorWorkType DEF IInv
<1>2. LockInv' /\ StopperInv'
  BY Undisturbed DEF IInv, MonitorWork, pool
<1>3. SchedulerInv' /\ CrewInv' /\ ArgInv'
  BY DEF IInv, SchedulerInv, CrewInv, ArgInv, MonitorWork, pool, crew
<1> QED
  BY <1>1, <1>2, <1>3 DEF IInv

LEMMA MonitorCleanKeeps == ASSUME IInv, MonitorClean PROVE IInv'
<1>1. TypeOK'
  BY MonitorCleanType DEF IInv
<1>2. LockInv' /\ StopperInv'
  BY Undisturbed DEF IInv, MonitorClean, pool
<1>3. SchedulerInv' /\ CrewInv' /\ ArgInv'
  BY DEF IInv, SchedulerInv, CrewInv, ArgInv, MonitorClean, pool, crew
<1> QED
  BY <1>1, <1>2, <1>3 DEF IInv

LEMMA CheckStopKeeps == ASSUME IInv, NEW w \in Workers, CheckStop(w) PROVE IInv'
<1>1. TypeOK'
  BY CheckStopType DEF IInv
<1>2. LockInv' /\ StopperInv' /\ ArgInv'
  BY Undisturbed DEF IInv, ArgInv, CheckStop, OtherThanCrew, pool
<1>3. SchedulerInv'
  BY DEF IInv, SchedulerInv, TypeOK, CheckStop, WGo, OtherThanCrew, pool
<1>4. CrewInv'
  BY DEF IInv, CrewInv, TypeOK, CheckStop, WGo, OtherThanCrew, pool
<1> QED
  BY <1>1, <1>2, <1>3, <1>4 DEF IInv

LEMMA FetchKeeps == ASSUME IInv, NEW w \in Workers, Fetch(w) PROVE IInv'
<1>1. TypeOK'
  BY FetchType DEF IInv
<1>2. LockInv' /\ StopperInv' /\ ArgInv'
  BY Undisturbed DEF IInv, ArgInv, Fetch, OtherThanCrew, pool
<1>3. SchedulerInv'
  BY DEF IInv, SchedulerInv, TypeOK, Fetch, WGo, OtherThanCrew, pool
<1>4. CrewInv'
  BY DEF IInv, CrewInv, TypeOK, Fetch, WGo, OtherThanCrew, pool
<1> QED
  BY <1>1, <1>2, <1>3, <1>4 DEF IInv

LEMMA ExecuteKeeps == ASSUME IInv, NEW w \in Workers, Execute(w) PROVE IInv'
<1>1. TypeOK'
  BY ExecuteType DEF IInv
<1>2. LockInv' /\ StopperInv' /\ ArgInv'
  BY Undisturbed DEF IInv, ArgInv, Execute, OtherThanCrew, pool
<1>3. SchedulerInv'
  BY DEF IInv, SchedulerInv, TypeOK, Execute, WGo, OtherThanCrew, pool
<1>4. CrewInv'
  BY DEF IInv, CrewInv, TypeOK, Execute, WGo, OtherThanCrew, pool
<1> QED
  BY <1>1, <1>2, <1>3, <1>4 DEF IInv

LEMMA RunEndsKeeps == ASSUME IInv, NEW w \in Workers, RunEnds(w) PROVE IInv'
<1>1. TypeOK'
  BY RunEndsType DEF IInv
<1>2. LockInv' /\ StopperInv' /\ ArgInv'
  BY Undisturbed DEF IInv, ArgInv, RunEnds, OtherThanCrew, pool
<1>3. SchedulerInv'
  BY DEF IInv, SchedulerInv, TypeOK, RunEnds, WGo, OtherThanCrew, pool
<1>4. CrewInv'
  BY DEF IInv, CrewInv, TypeOK, RunEnds, WGo, OtherThanCrew, pool
<1> QED
  BY <1>1, <1>2, <1>3, <1>4 DEF IInv

(* IInv is inductive.                                                      *)
LEMMA Inductive == IInv /\ [Next]_vars => IInv'
<1> SUFFICES ASSUME IInv, [Next]_vars PROVE IInv'
  OBVIOUS
<1>1. CASE UNCHANGED vars
  BY <1>1 DEF IInv, TypeOK, LockInv, StopperInv, SchedulerInv, CrewInv, ArgInv,
     vars, pool, rank, crew
<1>2. ASSUME NEW c \in Controllers,
             Start(c) \/ StartDone(c) \/ CleanUpOnError(c) \/ Stop(c) \/ Stopping(c)
               \/ Pause(c) \/ Resume(c) \/ ResumeDone(c)
      PROVE  IInv'
  <2> HIDE DEF IInv
  <2> QED
    BY <1>2, StartKeeps, StartDoneKeeps, CleanUpOnErrorKeeps, StopKeeps, StopWaitedKeeps,
       StopRelockKeeps, StopSchedulerKeeps, StopJoinKeeps, StopClearKeeps,
       StopMonitorKeeps, PauseKeeps, ResumeKeeps, ResumeDoneKeeps DEF Stopping
<1>3. ASSUME NEW t \in Clients,
             Submit(t) \/ Submitting(t) \/ CancelUnit(t)
               \/ CancelAllPendingUnits(t) \/ WaitForUnit(t) \/ WaitDone(t)
      PROVE  IInv'
  BY <1>3, SubmitKeeps, SubmitPushKeeps, SubmitTrackKeeps, CancelUnitKeeps,
     CancelAllPendingUnitsKeeps, WaitForUnitKeeps, WaitDoneKeeps DEF Submitting
<1>4. CASE MonitorCheck \/ MonitorWork \/ MonitorClean
  BY <1>4, MonitorCheckKeeps, MonitorWorkKeeps, MonitorCleanKeeps
<1>5. ASSUME NEW w \in Workers, Working(w) PROVE IInv'
  BY <1>5, CheckStopKeeps, FetchKeeps, ExecuteKeeps, RunEndsKeeps DEF Working
<1> QED
  BY <1>1, <1>2, <1>3, <1>4, <1>5 DEF Next

LEMMA Invariance == Spec => []IInv
<1> QED
  BY InitIInv, Inductive, PTL DEF Spec

-----------------------------------------------------------------------------
(* Every variable has its type, for any number of threads and workers: in  *)
(* particular the map and the queue only ever hold tasks.                  *)
THEOREM PoolTypeOK == Spec => []TypeOK
<1>1. IInv => TypeOK
  BY DEF IInv
<1> QED
  BY <1>1, Invariance, PTL

(* When stop has returned no worker, no task and no monitor is left, unless*)
(* a start failed at a worker before, however many threads start, stop, pause  *)
(* and resume the pool.                                                    *)
THEOREM PoolStoppedIsQuiet == Spec => []StoppedIsQuiet
<1>1. IInv => StoppedIsQuiet
  BY DEF IInv, SchedulerInv, CrewInv, StoppedIsQuiet, Alive
<1> QED
  BY <1>1, Invariance, PTL

(* One stop at a time, although stop gives the mutex up while it waits.    *)
THEOREM PoolOneStopper == Spec => []OneStopper
<1>1. IInv => OneStopper
  <2> DEFINE stoppers == {c \in Controllers : pc[c] \in StopLocations}
  <2> SUFFICES ASSUME IInv
               PROVE  Cardinality(stoppers) = IF state = "stopping" THEN 1 ELSE 0
    BY DEF OneStopper
  <2>1. CASE state = "stopping"
    <3>1. PICK c \in Controllers : stoppers = {c}
      BY <2>1 DEF IInv, StopperInv
    <3> QED
      BY <2>1, <3>1, FS_Singleton
  <2>2. CASE state # "stopping"
    <3>1. stoppers = {}
      BY <2>2 DEF IInv, StopperInv
    <3> QED
      BY <2>2, <3>1, FS_EmptySet
  <2> QED
    BY <2>1, <2>2
<1> QED
  BY <1>1, Invariance, PTL

-----------------------------------------------------------------------------
(* No step but a resume loses a task *)

(* A worker that lets go of its task has seen it end.                      *)
LEMMA LetGo ==
    ASSUME IInv, Next, NEW w \in Workers, holding[w] \in Units,
           holding'[w] # holding[w]
    PROVE  ustate'[holding[w]] \in Ended
<1>1. PICK v \in Workers : Working(v)
  BY DEF Next, Start, StartDone, CleanUpOnError, Stop, Stopping, StopWaited, StopRelock,
     StopScheduler, StopJoin, StopClear, StopMonitor, Pause, Resume, ResumeDone,
     Create, Dismiss, Submit, Submitting, SubmitPush, SubmitTrack, CancelUnit,
     CancelAllPendingUnits, WaitForUnit, WaitDone, MonitorCheck, MonitorWork, MonitorClean, crew
<1>2. holding \in [Workers -> Units \cup {"none"}]
  BY DEF IInv, TypeOK
<1>3. ~CheckStop(v)
  BY DEF CheckStop
<1>4. CASE Fetch(v)
  <2>1. wpc[v] = "fetch" /\ holding' = [holding EXCEPT ![v] = Head(queue)]
    BY <1>4 DEF Fetch, WGo
  <2>2. holding[v] = "none"
    BY <2>1 DEF IInv, CrewInv
  <2> QED
    BY <1>2, <2>1, <2>2, NoneIsNoTask
<1>5. CASE Execute(v)
  <2>1. /\ holding' = [holding EXCEPT ![v] = "none"]
        /\ ustate[holding[v]] = "cancelled" /\ ustate' = ustate
    BY <1>5 DEF Execute
  <2> QED
    BY <1>2, <2>1 DEF Ended
<1>6. CASE RunEnds(v)
  <2>1. w = v
    BY <1>2, <1>6 DEF RunEnds
  <2>2. ustate' = [ustate EXCEPT ![holding[v]] = "completed"]
          \/ ustate' = [ustate EXCEPT ![holding[v]] = "failed"]
    BY <1>6 DEF RunEnds
  <2>3. holding[v] \in DOMAIN ustate
    BY <2>1 DEF IInv, TypeOK
  <2> QED
    BY <2>1, <2>2, <2>3 DEF Ended
<1> QED
  BY <1>1, <1>3, <1>4, <1>5, <1>6 DEF Working

(* What leaves the queue goes to a worker, unless the queue is replaced.   *)
LEMMA LeavesQueue ==
    ASSUME IInv, Next, NEW u \in Range(queue), u \notin Range(queue'),
           \A c \in Controllers : pc[c] # "resume"
    PROVE  \E w \in Workers : holding'[w] = u
<1>1. queue \in Seq(Units) /\ holding \in [Workers -> Units \cup {"none"}]
  BY DEF IInv, TypeOK
<1>2. queue' # queue
  OBVIOUS
<1>3. \/ \E t \in Clients : SubmitPush(t)
      \/ \E w \in Workers : Fetch(w)
  BY <1>2 DEF Next, Start, StartDone, CleanUpOnError, Stop, Stopping, StopWaited, StopRelock,
     StopScheduler, StopJoin, StopClear, StopMonitor, Pause, Resume, ResumeDone,
     Go, Submit, Submitting, SubmitTrack, CancelUnit, CancelAllPendingUnits,
     WaitForUnit, WaitDone, MonitorCheck, MonitorWork, MonitorClean, Working, CheckStop,
     Execute, RunEnds, OtherThanCrew, rank
<1>4. ASSUME NEW t \in Clients, SubmitPush(t) PROVE FALSE
  <2>1. queue' = Append(queue, arg[t]) /\ arg[t] \in Units
    BY <1>2, <1>4 DEF SubmitPush, Go, IInv, ArgInv
  <2>2. PICK i \in 1..Len(queue) : queue[i] = u
    BY <1>1 DEF Range
  <2>3. i \in DOMAIN queue' /\ queue'[i] = u
    BY <1>1, <2>1, <2>2
  <2> QED
    BY <2>3 DEF Range
<1>5. ASSUME NEW w \in Workers, Fetch(w) PROVE holding'[w] = u
  <2>1. /\ queue # <<>> /\ queue' = Tail(queue)
        /\ holding' = [holding EXCEPT ![w] = Head(queue)]
    BY <1>2, <1>5 DEF Fetch
  <2>2. PICK i \in 1..Len(queue) : queue[i] = u
    BY <1>1 DEF Range
  <2>3. i = 1
    <3> SUFFICES ASSUME i # 1 PROVE FALSE
      OBVIOUS
    <3>1. i - 1 \in DOMAIN Tail(queue) /\ Tail(queue)[i - 1] = queue[i]
      BY <1>1, <2>1, <2>2
    <3> QED
      BY <2>1, <2>2, <3>1 DEF Range
  <2>4. Head(queue) = u
    BY <1>1, <2>1, <2>2, <2>3
  <2> QED
    BY <1>1, <2>1, <2>4
<1> QED
  BY <1>3, <1>4, <1>5

(* A task that was accepted stays in the queue or with a worker until it   *)
(* has ended: stop, pause and start lose none, whoever calls them and in   *)
(* whatever order; only resume, which puts a new queue in, drops tasks.    *)
THEOREM PoolAcceptedIsKept == Spec => AcceptedIsKept
<1> DEFINE Kept ==
      \A u \in Units : (Accepted(u) /\ ~Accepted(u)') =>
          ustate'[u] \in Ended \/ \E c \in Controllers : pc[c] = "resume"
<1>1. ASSUME IInv, Next PROVE Kept
  <2> SUFFICES ASSUME NEW u \in Units, Accepted(u), ~Accepted(u)',
                      \A c \in Controllers : pc[c] # "resume"
               PROVE  ustate'[u] \in Ended
    OBVIOUS
  <2>1. u \notin Range(queue') /\ \A w \in Workers : holding'[w] # u
    BY DEF Accepted
  <2>2. u \notin Range(queue)
    BY <1>1, <2>1, LeavesQueue
  <2>3. PICK w \in Workers : holding[w] = u
    BY <2>2 DEF Accepted
  <2> QED
    BY <1>1, <2>1, <2>3, LetGo
<1>2. IInv /\ [Next]_vars => [Kept]_vars
  BY <1>1
<1> QED
  BY <1>2, Invariance, PTL DEF Spec, AcceptedIsKept
=============================================================================
