------------------------ MODULE Transponder_proofs ------------------------
(***************************************************************************)
(* Proofs about Transponder, for any number of requests and sessions: how  *)
(* shutdown counts the tasks it waits for, that nobody is left with the    *)
(* upstream when it says so, that it is woken; and whose answer a request  *)
(* gets when an answer arrives in one read.                                *)
(***************************************************************************)
EXTENDS Transponder, FiniteSetTheorems, SequenceTheorems, TLAPS

USE ForwardingAssumption

-----------------------------------------------------------------------------
(* Counting *)

(* A task counts from its first statement to its guard; a call that does   *)
(* not come through forward_async sees none of the places around it.       *)
Inside == {"entered", "leaving"} \cup Upstream
Gated == {"gate", "queued", "pooled", "entered", "leaving", "notify"}
Tasks == {r \in Counted : pc[r] \in Inside}

CountInv ==
    /\ pc \in [Requests -> Locations]
    /\ active = Cardinality(Tasks)
    /\ \A r \in Requests \ Counted : pc[r] \notin Gated

(* Who closes has stored _stopping, so that nobody comes to the upstream   *)
(* any more.                                                               *)
CloseInv ==
    /\ stopping \in BOOLEAN
    /\ closer # "idle" => stopping
    /\ drained = "yes" => closer = "over"
    /\ DrainedIsQuiet
    /\ ShutdownIsWoken

ShutInv == CountInv /\ CloseInv

LEMMA TasksFinite == IsFiniteSet(Tasks) /\ Cardinality(Tasks) \in Nat
<1>1. IsFiniteSet(Tasks)
  BY FS_Subset DEF Tasks
<1> QED
  BY <1>1, FS_CardinalityType

LEMMA TasksStay ==
    ASSUME CountInv, NEW r \in Requests, NEW from, NEW to \in Locations,
           Go(r, from, to), UNCHANGED active,
           r \in Counted => (from \in Inside <=> to \in Inside),
           r \notin Counted => to \notin Gated
    PROVE  CountInv'
<1>1. Tasks' = Tasks
  BY DEF CountInv, Go, Tasks
<1> QED
  BY <1>1 DEF CountInv, Go

LEMMA TaskEnters ==
    ASSUME CountInv, NEW r \in Counted, NEW from \in {"queued", "pooled"},
           Go(r, from, "entered"), active' = active + 1
    PROVE  CountInv'
<1>1. Tasks' = Tasks \cup {r} /\ r \notin Tasks
  BY DEF CountInv, Go, Tasks, Inside, Upstream
<1>2. Cardinality(Tasks') = Cardinality(Tasks) + 1
  BY <1>1, TasksFinite, FS_AddElement
<1> QED
  BY <1>2 DEF CountInv, Go, Locations

LEMMA TaskLeaves ==
    ASSUME CountInv, NEW r \in Counted, Go(r, "leaving", "notify"),
           active' = active - 1
    PROVE  CountInv'
<1>1. Tasks' = Tasks \ {r} /\ r \in Tasks
  BY DEF CountInv, Go, Tasks, Inside, Upstream
<1>2. Cardinality(Tasks') = Cardinality(Tasks) - 1
  BY <1>1, TasksFinite, FS_RemoveElement
<1> QED
  BY <1>2 DEF CountInv, Go, Locations

(* A step that moves one request, but does not let it into the upstream    *)
(* after _stopping, and does not take the last notification away.          *)
LEMMA WalkCloses ==
    ASSUME CountInv, CloseInv, NEW r \in Requests, NEW from, NEW to,
           Go(r, from, to), UNCHANGED calls, from # "notify",
           r \in Counted /\ to \in Upstream => from \in Upstream \/ ~stopping
    PROVE  CloseInv'
<1>1. \A x \in Requests : x # r => pc'[x] = pc[x]
  BY DEF Go, CountInv
<1>2. pc[r] = from /\ pc'[r] = to
  BY DEF Go, CountInv
<1>3. DrainedIsQuiet'
  BY <1>1, <1>2 DEF CloseInv, DrainedIsQuiet, calls
<1>4. ShutdownIsWoken'
  BY <1>1, <1>2 DEF CloseInv, ShutdownIsWoken, calls
<1> QED
  BY <1>3, <1>4 DEF CloseInv, calls

LEMMA Walk ==
    ASSUME ShutInv, NEW r \in Requests, NEW from, NEW to \in Locations,
           Go(r, from, to), UNCHANGED calls, from # "notify",
           r \in Counted => (from \in Inside <=> to \in Inside),
           r \notin Counted => to \notin Gated,
           r \in Counted /\ to \in Upstream => from \in Upstream \/ ~stopping
    PROVE  ShutInv'
<1>1. CountInv'
  BY TasksStay DEF ShutInv, calls
<1>2. CloseInv'
  BY WalkCloses DEF ShutInv
<1> QED
  BY <1>1, <1>2 DEF ShutInv

(* Nobody moves, and nobody who closes.                                    *)
LEMMA Standing ==
    ASSUME ShutInv, UNCHANGED <<pc, calls>>
    PROVE  ShutInv'
BY DEF ShutInv, CountInv, CloseInv, Tasks, DrainedIsQuiet, ShutdownIsWoken, calls
-----------------------------------------------------------------------------
LEMMA InitShut == Init => ShutInv
<1> SUFFICES ASSUME Init PROVE ShutInv
  OBVIOUS
<1>1. Tasks = {}
  BY DEF Init, Tasks, Inside, Upstream
<1>2. CountInv
  BY <1>1, FS_EmptySet DEF Init, CountInv, Locations, Gated
<1>3. CloseInv
  BY DEF Init, CloseInv, DrainedIsQuiet, ShutdownIsWoken
<1> QED
  BY <1>2, <1>3 DEF ShutInv

LEMMA CountThenLookShut ==
    ASSUME ShutInv, NEW r \in Requests, CountThenLook(r)
    PROVE  ShutInv'
<1>1. r \in Counted
  BY DEF CountThenLook, Begins, ShutInv, CountInv, Gated, Go
<1>2. CASE Begins(r, "entered") /\ active' = active + 1
  <2> PICK from \in {"queued", "pooled"} : Go(r, from, "entered")
    BY <1>2 DEF Begins
  <2>1. CountInv'
    BY <1>1, <1>2, TaskEnters DEF ShutInv
  <2>2. \A x \in Requests : pc'[x] = IF x = r THEN "entered" ELSE pc[x]
    BY DEF Go, ShutInv, CountInv
  <2>3. UNCHANGED <<stopping, closer, drained>>
    BY DEF CountThenLook
  <2>4. active' # 0
    BY <1>2, TasksFinite DEF ShutInv, CountInv
  <2>5. CloseInv'
    BY <2>2, <2>3, <2>4 DEF ShutInv, CloseInv, DrainedIsQuiet, ShutdownIsWoken, Upstream
  <2> QED
    BY <2>1, <2>5 DEF ShutInv
<1>3. CASE ~stopping /\ Go(r, "entered", "borrow") /\ UNCHANGED active
  BY <1>1, <1>3, Walk DEF CountThenLook, calls, Inside, Upstream, Locations
<1>4. CASE Go(r, "entered", "leaving") /\ UNCHANGED active
  BY <1>1, <1>4, Walk DEF CountThenLook, calls, Inside, Upstream, Locations
<1> QED
  BY <1>2, <1>3, <1>4 DEF CountThenLook

LEMMA LeaveShut ==
    ASSUME ShutInv, NEW r \in Requests, Leave(r)
    PROVE  ShutInv'
<1>1. r \in Counted
  BY DEF Leave, ShutInv, CountInv, Gated, Go
<1>2. CASE Go(r, "leaving", "notify") /\ active' = active - 1
  <2>1. CountInv'
    BY <1>1, <1>2, TaskLeaves DEF ShutInv
  <2>2. \A x \in Requests : pc'[x] = IF x = r THEN "notify" ELSE pc[x]
    BY <1>2 DEF Go, ShutInv, CountInv
  <2>3. UNCHANGED <<stopping, closer, drained>>
    BY <1>2 DEF Leave, Go
  <2>4. CloseInv'
    BY <1>1, <2>2, <2>3 DEF ShutInv, CloseInv, DrainedIsQuiet, ShutdownIsWoken, Upstream
  <2> QED
    BY <2>1, <2>4 DEF ShutInv
<1>3. CASE Go(r, "notify", "done") /\ UNCHANGED active
  <2>1. CountInv'
    BY <1>1, <1>3, TasksStay DEF ShutInv, Inside, Upstream, Locations
  <2>2. \A x \in Requests : pc'[x] = IF x = r THEN "done" ELSE pc[x]
    BY <1>3 DEF Go, ShutInv, CountInv
  <2>3. /\ UNCHANGED <<stopping, drained>>
        /\ closer' = IF closer = "asleep" THEN "look" ELSE closer
    BY <1>3 DEF Leave, Go
  <2>4. CloseInv'
    BY <2>2, <2>3 DEF ShutInv, CloseInv, DrainedIsQuiet, ShutdownIsWoken, Upstream
  <2> QED
    BY <2>1, <2>4 DEF ShutInv
<1> QED
  BY <1>2, <1>3 DEF Leave

(* Every other step of a request is a walk.                                *)
LEMMA RequestShut ==
    ASSUME ShutInv, NEW r \in Requests, Come(r) \/ Forward(r)
    PROVE  ShutInv'
<1> USE DEF Inside, Gated, Upstream, Locations
<1>1. CASE Come(r)
  BY <1>1, Walk DEF Come
<1>2. CASE Gate(r)
  <2>1. r \in Counted
    BY <1>2 DEF Gate, ShutInv, CountInv, Go
  <2> QED
    BY <1>2, <2>1, Walk DEF Gate
<1>3. CASE CountThenLook(r)
  BY <1>3, CountThenLookShut
<1>4. CASE Borrow(r)
  <2>1. PICK to \in {"send", End(r)} : Go(r, "borrow", to)
    BY <1>4 DEF Borrow, TakeSession, Fail
  <2>2. UNCHANGED calls
    BY <1>4 DEF Borrow
  <2> QED
    BY <2>1, <2>2, Walk DEF End
<1>5. CASE Send(r)
  BY <1>5, Walk DEF Send
<1>6. CASE Wait(r)
  BY <1>6, Walk DEF Wait
<1>7. CASE GiveUp(r)
  <2>1. Go(r, "give_up", End(r)) /\ UNCHANGED calls
    BY <1>7 DEF GiveUp, Fail
  <2> QED
    BY <2>1, Walk DEF End
<1>8. CASE GiveBack(r)
  <2>1. Go(r, "give_back", End(r)) /\ UNCHANGED calls
    BY <1>8 DEF GiveBack
  <2> QED
    BY <2>1, Walk DEF End
<1>9. CASE Leave(r)
  BY <1>9, LeaveShut
<1> QED
  BY <1>1, <1>2, <1>3, <1>4, <1>5, <1>6, <1>7, <1>8, <1>9 DEF Forward

(* shutdown sleeps only when it has counted somebody, and returns true     *)
(* only when it has counted nobody.                                        *)
LEMMA CloseShut ==
    ASSUME ShutInv, StopBegins \/ Close
    PROVE  ShutInv'
<1>1. CountInv'
  <2>1. UNCHANGED <<pc, active>>
        BY DEF StopBegins, Close, StopPool, ShutdownLooks, ShutdownGivesUp,
           ShutdownStopsWorkers, ShutdownJoinsWorkers, ShutdownReturns
  <2> QED
    BY <2>1 DEF ShutInv, CountInv, Tasks
<1>2. CASE StopBegins
  BY <1>1, <1>2 DEF StopBegins, ShutInv, CloseInv, DrainedIsQuiet, ShutdownIsWoken
<1>3. CASE StopPool
  BY <1>1, <1>3 DEF StopPool, ShutInv, CloseInv, DrainedIsQuiet, ShutdownIsWoken
<1>4. CASE ShutdownLooks
  BY <1>1, <1>4 DEF ShutdownLooks, ShutInv, CloseInv, DrainedIsQuiet, ShutdownIsWoken
<1>5. CASE ShutdownGivesUp
  BY <1>1, <1>5 DEF ShutdownGivesUp, ShutInv, CloseInv, DrainedIsQuiet, ShutdownIsWoken
<1>7. CASE ShutdownStopsWorkers \/ ShutdownJoinsWorkers
  BY <1>1, <1>7 DEF ShutdownStopsWorkers, ShutdownJoinsWorkers, ShutInv, CloseInv,
                    DrainedIsQuiet, ShutdownIsWoken
<1>6. CASE ShutdownReturns
  <2>1. active = 0 => \A r \in Counted : pc[r] \notin Upstream
    BY TasksFinite, FS_EmptySet DEF ShutInv, CountInv, Tasks, Inside
  <2>2. CloseInv'
    BY <1>6, <2>1 DEF ShutdownReturns, ShutInv, CloseInv, DrainedIsQuiet, ShutdownIsWoken
  <2> QED
    BY <1>1, <2>2 DEF ShutInv
<1> QED
  BY <1>2, <1>3, <1>4, <1>5, <1>6, <1>7 DEF Close

LEMMA StepShut == ShutInv /\ [Next]_vars => ShutInv'
<1> SUFFICES ASSUME ShutInv, [Next]_vars PROVE ShutInv'
  OBVIOUS
<1>1. ASSUME NEW s \in Sessions, ReadSome(s) \/ HandleRead(s) \/ Drop(s)
      PROVE  ShutInv'
  BY <1>1, Standing DEF ReadSome, HandleRead, Drop
<1>2. CASE UNCHANGED vars
  BY <1>2, Standing DEF vars, calls
<1> QED
  BY <1>1, <1>2, RequestShut, CloseShut DEF Next, Forward, Close

LEMMA ShutInvariance == Spec => []ShutInv
BY InitShut, StepShut, PTL DEF Spec

(* When shutdown returns true no counted request is with the upstream, and *)
(* none will come, however many there are and wherever they are while it   *)
(* counts: a task counts itself before it looks at _stopping.              *)
THEOREM TransponderDrains == Spec => []DrainedIsQuiet
<1>1. ShutInv => DrainedIsQuiet
  BY DEF ShutInv, CloseInv
<1> QED
  BY <1>1, ShutInvariance, PTL

(* While shutdown sleeps and no task is left, the one that counted down    *)
(* last has still to notify: shutdown does not sleep to its deadline.      *)
THEOREM TransponderWakes == Spec => []ShutdownIsWoken
<1>1. ShutInv => ShutdownIsWoken
  BY DEF ShutInv, CloseInv
<1> QED
  BY <1>1, ShutInvariance, PTL
-----------------------------------------------------------------------------
(* Sessions *)

Holding == {"send", "wait", "give_up", "give_back"}

(* A session is with one request, or with the pool, or with nobody; it     *)
(* hands what it reads to the request that has it, until that waits no     *)
(* longer.                                                                 *)
HolderInv ==
    /\ \A r \in Requests : using[r] # "none" <=> pc[r] \in Holding
    /\ \A q, r \in Requests : using[q] = using[r] /\ using[r] # "none" => q = r
    /\ \A s \in idle, r \in Requests : using[r] # s
    /\ \A s \in Sessions : handler[s] # "none" =>
            using[handler[s]] = s /\ pc[handler[s]] \in {"send", "wait"}
    /\ \A s \in Sessions : arrived[s].due > 0 => arrived[s].piece # <<>>

(* Types but that of the counter.                                          *)
NetType ==
    /\ pc \in [Requests -> Locations]
    /\ stopping \in BOOLEAN
    /\ result \in [Requests -> {"none", "answer", "error"}]
    /\ using \in [Requests -> Sessions \cup {"none"}]
    /\ buffer \in [Requests -> Seq(Pieces)] /\ parsed \in [Requests -> Seq(Pieces)]
    /\ closer \in CloserLocations /\ drained \in {"none", "yes", "no"}
    /\ idle \subseteq Sessions /\ open \subseteq Sessions
    /\ answers \in [Sessions -> Seq(Pieces)] /\ reads \in [Sessions -> Nat]
    /\ arrived \in [Sessions -> [piece : Pieces \cup {<<>>}, due : Nat]]
    /\ handler \in [Sessions -> Requests \cup {"none"}]

SessionInv == NetType /\ HolderInv

LEMMA WholeType == ASSUME NEW r \in Requests PROVE Whole(r) \in Seq(Pieces)
<1>1. Chunks \in Nat
  OBVIOUS
<1> QED
  BY <1>1 DEF Whole, Pieces

LEMMA ParseType ==
    ASSUME NEW b \in Seq(Pieces)
    PROVE  /\ Parse(b) \in Seq(Pieces)
           /\ \A i \in DOMAIN Parse(b) : i \in DOMAIN b /\ Parse(b)[i] = b[i]
<1>1. CASE b # <<>> /\ b[1][2] = 1
  <2> DEFINE n == IF Len(b) < Chunks THEN Len(b) ELSE Chunks
  <2>1. n \in 0 .. Len(b)
    OBVIOUS
  <2>2. Parse(b) = SubSeq(b, 1, n)
    BY <1>1 DEF Parse
  <2>3. /\ SubSeq(b, 1, n) \in Seq(Pieces)
        /\ Len(SubSeq(b, 1, n)) = n
        /\ \A i \in 1 .. n : SubSeq(b, 1, n)[i] = b[i]
    BY <2>1
  <2> QED
    BY <2>1, <2>2, <2>3
<1>2. CASE ~(b # <<>> /\ b[1][2] = 1)
  BY <1>2 DEF Parse
<1> QED
  BY <1>1, <1>2

LEMMA InitSession == Init => SessionInv
<1> SUFFICES ASSUME Init PROVE SessionInv
  OBVIOUS
<1>1. NetType
  <2>1. buffer \in [Requests -> Seq(Pieces)] /\ parsed \in [Requests -> Seq(Pieces)]
    BY DEF Init
  <2>2. answers \in [Sessions -> Seq(Pieces)]
    BY DEF Init
  <2>3. arrived \in [Sessions -> [piece : Pieces \cup {<<>>}, due : Nat]]
    BY DEF Init
  <2> QED
    BY <2>1, <2>2, <2>3 DEF Init, NetType, Locations, CloserLocations
<1>2. HolderInv
  BY DEF Init, HolderInv, Holding
<1> QED
  BY <1>1, <1>2 DEF SessionInv

LEMMA ClosedType ==
    ASSUME NetType, NEW S \in SUBSET Sessions, Closed(S)
    PROVE  /\ open' \subseteq Sessions
           /\ answers' \in [Sessions -> Seq(Pieces)] /\ reads' \in [Sessions -> Nat]
BY DEF Closed, NetType

LEMMA Moved ==
    ASSUME NetType, NEW r \in Requests, NEW from, NEW to \in Locations, Go(r, from, to)
    PROVE  /\ pc' \in [Requests -> Locations]
           /\ pc[r] = from
           /\ \A x \in Requests : pc'[x] = IF x = r THEN to ELSE pc[x]
BY DEF NetType, Go

(* A step that changes only where a request is, what it answers and who    *)
(* closes.                                                                 *)
LEMMA PathSession ==
    ASSUME SessionInv, NEW r \in Requests, NEW from, NEW to \in Locations, Go(r, from, to),
           from \notin Holding, to \notin Holding,
           UNCHANGED <<stopping, drained, using, got, net>>,
           result' \in [Requests -> {"none", "answer", "error"}], closer' \in CloserLocations
    PROVE  SessionInv'
<1>1. NetType'
  BY Moved DEF SessionInv, NetType, got, net
<1>2. HolderInv'
  <2>1. \A x \in Requests : /\ pc'[x] \in Holding <=> pc[x] \in Holding
                            /\ pc[x] \in Holding => pc'[x] = pc[x]
    BY Moved DEF SessionInv
  <2>2. \A x \in Sessions : handler[x] # "none" => handler[x] \in Requests
    BY DEF SessionInv, NetType
  <2> QED
    BY <2>1, <2>2 DEF SessionInv, HolderInv, Holding, net
<1> QED
  BY <1>1, <1>2 DEF SessionInv

LEMMA ErrorType ==
    ASSUME NetType, NEW r \in Requests,
           result' = result \/ result' = Set(result, r, "error")
    PROVE  result' \in [Requests -> {"none", "answer", "error"}]
BY DEF NetType, Set

LEMMA PathRequestSession ==
    ASSUME SessionInv, NEW r \in Requests, Come(r) \/ Gate(r) \/ CountThenLook(r) \/ Leave(r)
    PROVE  SessionInv'
<1>1. PICK from, to \in {"new", "gate", "queued", "pooled", "entered", "borrow", "leaving",
                         "notify", "done"} : Go(r, from, to) /\ from \notin Holding
  BY DEF Come, Gate, CountThenLook, Begins, Leave, Go, Holding
<1>2. result' \in [Requests -> {"none", "answer", "error"}]
  BY ErrorType DEF Come, Gate, CountThenLook, Begins, Leave, SessionInv
<1>3. closer' \in CloserLocations /\ UNCHANGED <<stopping, drained, using, got, net>>
  BY DEF Come, Gate, CountThenLook, Begins, Leave, SessionInv, NetType, CloserLocations, calls
<1> QED
  BY <1>1, <1>2, <1>3, PathSession DEF Holding, Locations

(* The handler of a request that waits no longer.                          *)
LEMMA StopListeningSession ==
    ASSUME SessionInv, NEW r \in Requests, NEW from \in Holding, NEW to \in Holding,
           Go(r, from, to), StopListening(r),
           UNCHANGED <<calls, result, using, got, idle, open, answers, reads, arrived>>
    PROVE  SessionInv'
<1>1. using[r] \in Sessions /\ handler' = [handler EXCEPT ![using[r]] = "none"]
  BY Moved DEF SessionInv, NetType, HolderInv, Go, StopListening, Set
<1>2. NetType'
  BY <1>1, Moved DEF SessionInv, NetType, calls, got, Holding, Locations
<1>3. HolderInv'
  <2>1. \A x \in Requests : /\ pc'[x] \in Holding <=> pc[x] \in Holding
                            /\ x # r => pc'[x] = pc[x]
    BY Moved DEF SessionInv, Holding, Locations
  <2>2. \A s \in Sessions : handler'[s] # "none" =>
            handler'[s] = handler[s] /\ handler[s] \in Requests /\ handler[s] # r
    BY <1>1 DEF SessionInv, NetType, HolderInv
  <2>3. \A s \in Sessions : handler'[s] # "none" =>
            using[handler'[s]] = s /\ pc'[handler'[s]] \in {"send", "wait"}
    BY <2>1, <2>2 DEF SessionInv, HolderInv
  <2> QED
    BY <2>1, <2>3 DEF SessionInv, HolderInv
<1> QED
  BY <1>2, <1>3 DEF SessionInv

LEMMA RequestSession ==
    ASSUME SessionInv, NEW r \in Requests, Come(r) \/ Forward(r)
    PROVE  SessionInv'
<1> USE DEF Go, Set, Holding, Locations
<1>1. CASE Come(r) \/ Gate(r) \/ CountThenLook(r) \/ Leave(r)
  BY <1>1, PathRequestSession
<1>3. CASE Borrow(r)
  <2>1. pc[r] = "borrow" /\ using[r] = "none"
    BY <1>3 DEF Borrow, TakeSession, Fail, SessionInv, HolderInv
  <2>2. CASE Fail(r, "borrow") /\ UNCHANGED <<using, handler, reads, idle, open>>
    BY <1>3, <2>1, <2>2 DEF Fail, End, Borrow, SessionInv, NetType, HolderInv, calls, got
  <2>3. ASSUME NEW s \in Sessions, NEW already \in Nat, TakeSession(r, s, already),
               UNCHANGED result, idle' \subseteq idle \ {s}, open' \subseteq Sessions,
               \A x \in Requests : using[x] # s
        PROVE  SessionInv'
    <3>1. /\ pc' = [pc EXCEPT ![r] = "send"] /\ using' = [using EXCEPT ![r] = s]
          /\ handler' = [handler EXCEPT ![s] = r] /\ reads' = [reads EXCEPT ![s] = already + 1]
      BY <2>3 DEF TakeSession
    <3>2. UNCHANGED <<calls, got, answers, arrived>>
      BY <1>3 DEF Borrow
    <3>3. NetType'
      BY <2>3, <3>1, <3>2 DEF SessionInv, NetType, calls, got
    <3>4. \A x \in Requests : /\ pc'[x] = IF x = r THEN "send" ELSE pc[x]
                              /\ using'[x] = IF x = r THEN s ELSE using[x]
      BY <3>1 DEF SessionInv, NetType
    <3>5. \A x \in Sessions : handler'[x] # "none" =>
              using'[handler'[x]] = x /\ pc'[handler'[x]] \in {"send", "wait"}
      <4> SUFFICES ASSUME NEW x \in Sessions, handler'[x] # "none"
                   PROVE  using'[handler'[x]] = x /\ pc'[handler'[x]] \in {"send", "wait"}
        OBVIOUS
      <4>1. CASE x = s
        BY <3>1, <3>4, <4>1 DEF SessionInv, NetType
      <4>2. CASE x # s
        <5>1. handler'[x] = handler[x] /\ handler[x] \in Requests /\ handler[x] # r
          BY <2>1, <3>1, <4>2 DEF SessionInv, NetType, HolderInv
        <5> QED
          BY <3>4, <5>1 DEF SessionInv, HolderInv
      <4> QED
        BY <4>1, <4>2
    <3>6. HolderInv'
      <4>1. \A q, x \in Requests :
                using'[q] = using'[x] /\ using'[x] # "none" => q = x
        BY <2>3, <3>4 DEF SessionInv, HolderInv
      <4>2. \A i \in idle', x \in Requests : using'[x] # i
        BY <2>3, <3>4 DEF SessionInv, HolderInv
      <4> QED
        BY <3>2, <3>4, <3>5, <4>1, <4>2 DEF SessionInv, HolderInv
    <3> QED
      BY <3>3, <3>6 DEF SessionInv
  <2>4. ASSUME NEW s \in idle \cap open, TakeSession(r, s, reads[s]),
               idle' = idle \ {s}, UNCHANGED <<result, open>>
        PROVE  SessionInv'
    <3>1. s \in Sessions /\ reads[s] \in Nat /\ open' \subseteq Sessions
      BY <2>4 DEF SessionInv, NetType
    <3>2. \A x \in Requests : using[x] # s
      BY DEF SessionInv, HolderInv
    <3> QED
      BY <2>3, <2>4, <3>1, <3>2
  <2>5. ASSUME NEW s \in Sessions \ (open \cup idle), TakeSession(r, s, 1),
               \A x \in Requests : using[x] # s,
               open' = open \cup {s}, UNCHANGED <<result, idle>>
        PROVE  SessionInv'
    BY <2>3, <2>5 DEF SessionInv, NetType
  <2> QED
    BY <1>3, <2>2, <2>4, <2>5 DEF Borrow
<1>4. CASE Send(r)
  <2>1. using[r] \in Sessions
    BY <1>4 DEF Send, SessionInv, NetType, HolderInv
  <2>2. CASE Go(r, "send", "wait")
    <3>1. answers' \in [Sessions -> Seq(Pieces)]
      <4>1. answers[using[r]] \o Whole(r) \in Seq(Pieces)
        BY <2>1, WholeType DEF SessionInv, NetType
      <4> QED
        BY <1>4, <2>1, <2>2, <4>1 DEF Send, SessionInv, NetType
    <3>2. UNCHANGED <<calls, result, using, got, idle, open, reads, arrived, handler>>
      <4>1. pc'[r] = "wait"
        BY <2>2, Moved DEF SessionInv
      <4>2. ~ Go(r, "send", "give_up")
        BY <4>1, Moved DEF SessionInv
      <4> QED
        BY <1>4, <4>2 DEF Send
    <3>3. NetType'
      BY <2>2, <3>1, <3>2, Moved DEF SessionInv, NetType, calls, got
    <3>4. HolderInv'
      <4>1. pc[r] = "send" /\ \A x \in Requests : pc'[x] = IF x = r THEN "wait" ELSE pc[x]
        BY <2>2 DEF SessionInv, NetType
      <4>2. \A x \in Requests : pc'[x] \in Holding <=> pc[x] \in Holding
        BY <4>1
      <4>3. \A x \in Requests : pc[x] \in {"send", "wait"} => pc'[x] \in {"send", "wait"}
        BY <4>1
      <4>4. \A s \in Sessions : handler[s] # "none" => handler[s] \in Requests
        BY DEF SessionInv, NetType
      <4> QED
        BY <3>2, <4>2, <4>3, <4>4 DEF SessionInv, HolderInv
    <3> QED
      BY <3>3, <3>4 DEF SessionInv
  <2>3. CASE Go(r, "send", "give_up")
    <3>1. pc'[r] = "give_up"
      BY <2>3, Moved DEF SessionInv
    <3>2. ~ Go(r, "send", "wait")
      BY <3>1, Moved DEF SessionInv
    <3>3. StopListening(r)
          /\ UNCHANGED <<calls, result, using, got, idle, open, answers, reads, arrived>>
      BY <1>4, <3>2 DEF Send
    <3> QED
      BY <2>3, <3>3, StopListeningSession
  <2> QED
    BY <1>4, <2>2, <2>3 DEF Send
<1>5. CASE Wait(r)
  BY <1>5, StopListeningSession DEF Wait
<1>6. CASE GiveUp(r)
  <2>1. using[r] \in Sessions /\ pc[r] = "give_up"
    BY <1>6 DEF GiveUp, Fail, SessionInv, NetType, HolderInv
  <2>2. /\ pc' = [pc EXCEPT ![r] = End(r)] /\ result' = [result EXCEPT ![r] = "error"]
        /\ using' = [using EXCEPT ![r] = "none"] /\ Closed({using[r]})
        /\ UNCHANGED <<calls, got, idle, arrived, handler>>
    BY <1>6 DEF GiveUp, Fail
  <2>3. NetType'
    BY <2>1, <2>2, ClosedType DEF SessionInv, NetType, End, calls, got
  <2>4. HolderInv'
    BY <2>1, <2>2 DEF SessionInv, NetType, HolderInv, End
  <2> QED
    BY <2>3, <2>4 DEF SessionInv
<1>7. CASE GiveBack(r)
  <2>1. using[r] \in Sessions /\ pc[r] = "give_back"
    BY <1>7 DEF GiveBack, SessionInv, NetType, HolderInv
  <2>2. /\ pc' = [pc EXCEPT ![r] = End(r)] /\ result' = [result EXCEPT ![r] = "answer"]
        /\ using' = [using EXCEPT ![r] = "none"]
        /\ idle' = IF using[r] \in open THEN idle \cup {using[r]} ELSE idle
        /\ UNCHANGED <<calls, got, open, answers, reads, arrived, handler>>
    BY <1>7 DEF GiveBack
  <2>3. NetType'
    BY <2>1, <2>2 DEF SessionInv, NetType, End, calls, got
  <2>4. HolderInv'
    BY <2>1, <2>2 DEF SessionInv, NetType, HolderInv, End
  <2> QED
    BY <2>3, <2>4 DEF SessionInv
<1> QED
  BY <1>1, <1>3, <1>4, <1>5, <1>6, <1>7 DEF Forward

LEMMA NetworkSession ==
    ASSUME SessionInv, NEW s \in Sessions, ReadSome(s) \/ HandleRead(s) \/ Drop(s)
    PROVE  SessionInv'
<1> USE DEF Set
<1>1. CASE ReadSome(s)
  <2>1. answers[s] \in Seq(Pieces) /\ Head(answers[s]) \in Pieces
        /\ Tail(answers[s]) \in Seq(Pieces)
    BY <1>1 DEF ReadSome, SessionInv, NetType
  <2>2. answers' \in [Sessions -> Seq(Pieces)]
    BY <1>1, <2>1 DEF ReadSome, SessionInv, NetType
  <2>3. arrived' \in [Sessions -> [piece : Pieces \cup {<<>>}, due : Nat]]
    BY <1>1, <2>1 DEF ReadSome, SessionInv, NetType
  <2>4. reads' \in [Sessions -> Nat]
    BY <1>1 DEF ReadSome, SessionInv, NetType
  <2>5. \A x \in Sessions : arrived'[x].due > 0 => arrived'[x].piece # <<>>
    <3>1. Head(answers[s]) # <<>>
      BY <2>1 DEF Pieces
    <3> QED
      BY <1>1, <3>1 DEF ReadSome, SessionInv, NetType, HolderInv
  <2>6. UNCHANGED <<pc, calls, result, using, got, idle, open, handler>>
    BY <1>1 DEF ReadSome
  <2>7. NetType'
    BY <2>2, <2>3, <2>4, <2>6 DEF SessionInv, NetType, calls, got
  <2>8. HolderInv'
    BY <2>5, <2>6 DEF SessionInv, HolderInv
  <2> QED
    BY <2>7, <2>8 DEF SessionInv
<1>2. CASE HandleRead(s)
  <2> DEFINE r == handler[s]
             more == IF r = "none" \/ s \notin open THEN {} ELSE {r}
  <2>1. arrived[s].piece \in Pieces
    BY <1>2 DEF HandleRead, SessionInv, NetType, HolderInv
  <2>2. buffer' \in [Requests -> Seq(Pieces)]
    <3>1. \A x \in Requests : Append(buffer[x], arrived[s].piece) \in Seq(Pieces)
      BY <2>1 DEF SessionInv, NetType
    <3> QED
      BY <1>2, <3>1 DEF HandleRead, SessionInv, NetType
  <2>3. parsed' \in [Requests -> Seq(Pieces)]
    <3>1. \A x \in Requests : Parse(buffer'[x]) \in Seq(Pieces)
      BY <2>2, ParseType
    <3> QED
      BY <1>2, <3>1 DEF HandleRead, SessionInv, NetType
  <2>4. arrived' \in [Sessions -> [piece : Pieces \cup {<<>>}, due : Nat]]
        /\ \A x \in Sessions : arrived'[x].due > 0 => arrived'[x].piece # <<>>
    <3>1. arrived[s].due - 1 \in Nat /\ arrived[s].piece # <<>>
      BY <1>2 DEF HandleRead, SessionInv, NetType, HolderInv
    <3> DEFINE rest == [arrived[s] EXCEPT !.due = @ - 1]
    <3>2. rest \in [piece : Pieces \cup {<<>>}, due : Nat] /\ rest.piece = arrived[s].piece
      <4>1. arrived[s] \in [piece : Pieces \cup {<<>>}, due : Nat]
        BY DEF SessionInv, NetType
      <4> QED
        BY <3>1, <4>1
    <3>3. arrived' = [arrived EXCEPT ![s] = rest]
      BY <1>2, <3>2 DEF HandleRead
    <3> QED
      BY <3>1, <3>2, <3>3 DEF SessionInv, NetType, HolderInv
  <2>5. reads' \in [Sessions -> Nat]
    BY <1>2 DEF HandleRead, SessionInv, NetType
  <2>6. UNCHANGED <<pc, calls, result, using, idle, open, answers, handler>>
    BY <1>2 DEF HandleRead
  <2>7. NetType'
    BY <2>2, <2>3, <2>4, <2>5, <2>6 DEF SessionInv, NetType, calls
  <2>8. HolderInv'
    BY <2>4, <2>6 DEF SessionInv, HolderInv
  <2> QED
    BY <2>7, <2>8 DEF SessionInv
<1>3. CASE Drop(s)
  <2>1. /\ open' \subseteq Sessions
        /\ answers' \in [Sessions -> Seq(Pieces)] /\ reads' \in [Sessions -> Nat]
    BY <1>3, ClosedType DEF Drop, SessionInv
  <2>2. /\ handler' = [handler EXCEPT ![s] = "none"] /\ idle' = idle \ {s}
        /\ UNCHANGED <<pc, calls, result, using, got, arrived>>
    BY <1>3 DEF Drop
  <2>3. NetType'
    BY <2>1, <2>2 DEF SessionInv, NetType, calls, got
  <2>4. HolderInv'
    BY <2>2 DEF SessionInv, NetType, HolderInv
  <2> QED
    BY <2>3, <2>4 DEF SessionInv
<1> QED
  BY <1>1, <1>2, <1>3

LEMMA CloseSession ==
    ASSUME SessionInv, StopBegins \/ Close
    PROVE  SessionInv'
<1>1. CASE StopPool
  <2>1. /\ open' \subseteq Sessions
        /\ answers' \in [Sessions -> Seq(Pieces)] /\ reads' \in [Sessions -> Nat]
    BY <1>1, ClosedType DEF StopPool, SessionInv, NetType
  <2> QED
    BY <1>1, <2>1 DEF StopPool, SessionInv, NetType, HolderInv, CloserLocations, got
<1>2. CASE StopBegins
  BY <1>2 DEF StopBegins, SessionInv, NetType, HolderInv, CloserLocations, got, net
<1>3. CASE ShutdownLooks \/ ShutdownGivesUp \/ ShutdownStopsWorkers \/ ShutdownJoinsWorkers
     \/ ShutdownReturns
    BY <1>3 DEF ShutdownLooks, ShutdownGivesUp, ShutdownStopsWorkers, ShutdownJoinsWorkers,
              ShutdownReturns, SessionInv, NetType,
              HolderInv, CloserLocations, got, net
<1> QED
  BY <1>1, <1>2, <1>3 DEF Close
LEMMA StepSession == SessionInv /\ [Next]_vars => SessionInv'
<1> SUFFICES ASSUME SessionInv, [Next]_vars PROVE SessionInv'
  OBVIOUS
<1>1. CASE UNCHANGED vars
  BY <1>1 DEF vars, SessionInv, NetType, HolderInv
<1> QED
  BY <1>1, RequestSession, NetworkSession, CloseSession DEF Next, Forward, Close

(* The thread pool has the tasks that were handed to it.                   *)
WorkType == service \in Services /\ pooled \subseteq Requests

LEMMA StepWork == WorkType /\ [Next]_vars => WorkType'
<1> SUFFICES ASSUME WorkType, [Next]_vars PROVE WorkType'
  OBVIOUS
<1> USE DEF WorkType, Services, work
<1>1. ASSUME NEW r \in Requests, Come(r) \/ Forward(r) PROVE WorkType'
  BY <1>1 DEF Come, Forward, Gate, CountThenLook, Borrow, Send, Wait, GiveUp, GiveBack, Leave
<1>2. ASSUME NEW s \in Sessions, ReadSome(s) \/ HandleRead(s) \/ Drop(s) PROVE WorkType'
  BY <1>2 DEF ReadSome, HandleRead, Drop
<1>3. CASE StopBegins \/ Close
  BY <1>3 DEF StopBegins, Close, StopPool, ShutdownLooks, ShutdownGivesUp,
              ShutdownStopsWorkers, ShutdownJoinsWorkers, ShutdownReturns
<1>4. CASE UNCHANGED vars
  BY <1>4 DEF vars
<1> QED
  BY <1>1, <1>2, <1>3, <1>4 DEF Next, Forward, Close

(* Every variable has its type; the counter never exceeds the requests.    *)
THEOREM TransponderTypeOK == Spec => []TypeOK
<1>1. ShutInv /\ SessionInv /\ WorkType => TypeOK
  <2> SUFFICES ASSUME ShutInv, SessionInv, WorkType
               PROVE  active \in 0 .. Cardinality(Requests)
    BY DEF SessionInv, NetType, WorkType, TypeOK
  <2>1. Tasks \in SUBSET Requests
    BY DEF Tasks
  <2>2. Cardinality(Tasks) <= Cardinality(Requests) /\ Cardinality(Requests) \in Nat
    BY <2>1, FS_Subset, FS_CardinalityType
  <2> QED
    BY <2>2, TasksFinite DEF ShutInv, CountInv
<1>2. Init => WorkType
  BY DEF Init, WorkType, Services
<1> QED
  BY <1>1, <1>2, InitShut, StepShut, InitSession, StepSession, StepWork, PTL DEF Spec

(* A session is with one request at a time, never also with the pool, and  *)
(* what it reads goes to the request that has it: no handler outlives the  *)
(* wait of its request (perform_upstream_plain).                           *)
THEOREM TransponderHolders == Spec => []HolderInv
<1>1. SessionInv => HolderInv
  BY DEF SessionInv
<1> QED
  BY <1>1, InitSession, StepSession, PTL DEF Spec

-----------------------------------------------------------------------------
(* Answers that arrive in one read *)

(* A piece on its way to a request that still waits for it.                *)
Waits(q, s) ==
    q \in Requests /\ using[q] = s /\ pc[q] \in {"wait", "give_up"} /\ parsed[q] = <<>>

Early == {"new", "gate", "queued", "pooled", "entered", "borrow", "send"}
Own(r, q) == \A i \in DOMAIN q : q[i][1] = r

(* On an open session there is one piece at most, read or to be read, and  *)
(* the request it is for still has the session.                            *)
OnePiece(s) ==
    /\ Len(answers[s]) + arrived[s].due <= 1
    /\ s \notin open => answers[s] = <<>>
    /\ s \in open /\ answers[s] # <<>> => Waits(answers[s][1][1], s)
    /\ s \in open /\ arrived[s].due > 0 => Waits(arrived[s].piece[1], s)
OwnPieces(r) ==
    /\ pc[r] \in Early => parsed[r] = <<>>
    /\ Own(r, buffer[r]) /\ Own(r, parsed[r])

PieceInv ==
    /\ \A s \in Sessions : OnePiece(s)
    /\ \A r \in Requests : OwnPieces(r)

LEMMA InitPiece == Init => PieceInv
BY DEF Init, PieceInv, OnePiece, OwnPieces, Own

(* A step that takes no piece and brings none.                             *)
LEMMA PieceKept ==
    ASSUME SessionInv, PieceInv, UNCHANGED <<got, arrived>>,
           \A s \in Sessions : answers'[s] = answers[s] \/ answers'[s] = <<>>,
           \A s \in Sessions : s \notin open' => answers'[s] = <<>>,
           \A s \in Sessions : s \in open' /\ s \notin open =>
                arrived[s].due = 0 /\ answers[s] = <<>>,
           \A q \in Requests : pc'[q] \in Early => pc[q] \in Early,
           \A q \in Requests : pc[q] \in {"wait", "give_up"} /\ parsed[q] = <<>>
                                /\ using[q] \in open'
                => using'[q] = using[q] /\ pc'[q] \in {"wait", "give_up"}
    PROVE  PieceInv'
<1>1. \A s \in Sessions : \A q : s \in open' /\ Waits(q, s) => Waits(q, s)'
  BY DEF Waits, got
<1>2. ASSUME NEW s \in Sessions PROVE OnePiece(s)'
  <2>1. /\ Len(answers[s]) \in Nat /\ arrived[s].due \in Nat /\ arrived' = arrived
        /\ answers'[s] = answers[s] \/ answers'[s] = <<>>
    BY DEF SessionInv, NetType
  <2>2. Len(answers'[s]) + arrived'[s].due <= 1
    BY <2>1 DEF PieceInv, OnePiece
  <2>3. CASE s \in open
    <3>1. s \in open' /\ answers'[s] # <<>> => Waits(answers[s][1][1], s)'
      BY <1>1, <2>1, <2>3 DEF PieceInv, OnePiece
    <3>2. s \in open' /\ arrived'[s].due > 0 => Waits(arrived[s].piece[1], s)'
      BY <1>1, <2>1, <2>3 DEF PieceInv, OnePiece
    <3> QED
      BY <2>1, <2>2, <3>1, <3>2 DEF OnePiece
  <2>4. CASE s \notin open
    BY <2>1, <2>2, <2>4 DEF OnePiece
  <2> QED
    BY <2>3, <2>4
<1>3. \A r \in Requests : OwnPieces(r)'
  BY DEF PieceInv, OwnPieces, Own, got
<1> QED
  BY <1>2, <1>3 DEF PieceInv

LEMMA PiecePath ==
    ASSUME SessionInv, PieceInv, NEW r \in Requests, NEW from, NEW to \in Locations,
           Go(r, from, to), from \notin Holding, to \in Early => from \in Early,
           UNCHANGED <<got, arrived, answers, open>>,
           \A q \in Requests : q # r => using'[q] = using[q]
    PROVE  PieceInv'
<1>1. \A q \in Requests : pc'[q] \in Early => pc[q] \in Early
  BY Moved DEF SessionInv
<1>2. \A q \in Requests : pc[q] \in {"wait", "give_up"} =>
        using'[q] = using[q] /\ pc'[q] \in {"wait", "give_up"}
  BY Moved DEF SessionInv, Holding
<1> QED
  BY <1>1, <1>2, PieceKept DEF PieceInv, OnePiece

LEMMA WaitPiece ==
    ASSUME SessionInv, PieceInv, NEW r \in Requests, NEW from \in {"send", "wait"},
           NEW to \in {"give_up", "give_back"}, Go(r, from, to),
           from = "wait" /\ to = "give_back" => parsed[r] # <<>>,
           UNCHANGED <<got, using, arrived, answers, open>>
    PROVE  PieceInv'
<1>1. \A q \in Requests : pc'[q] = (IF q = r THEN to ELSE pc[q]) /\ pc[r] = from
  BY Moved DEF SessionInv, Locations
<1>2. \A q \in Requests : pc'[q] \in Early => pc[q] \in Early
  BY <1>1 DEF Early
<1>3. \A q \in Requests : pc[q] \in {"wait", "give_up"} /\ parsed[q] = <<>> =>
        using'[q] = using[q] /\ pc'[q] \in {"wait", "give_up"}
  BY <1>1
<1> QED
  BY <1>2, <1>3, PieceKept DEF PieceInv, OnePiece

(* The request whose session is free of pieces sends.                      *)
LEMMA SendPiece ==
    ASSUME Chunks = 1, SessionInv, PieceInv, NEW r \in Requests, Go(r, "send", "wait"),
           using[r] \in open,
           \/ answers' = Set(answers, using[r], answers[using[r]] \o Whole(r))
           \/ UNCHANGED answers,
           UNCHANGED <<using, got, open, arrived>>
    PROVE  PieceInv'
<1> DEFINE s == using[r]
<1>1. \A q \in Requests : pc'[q] = (IF q = r THEN "wait" ELSE pc[q]) /\ pc[r] = "send"
  BY Moved DEF SessionInv, Locations
<1>2. \A q \in Requests, x \in Sessions : Waits(q, x) => q # r /\ Waits(q, x)'
  BY <1>1 DEF Waits, got
<1>3. s \in Sessions /\ \A q \in Requests : ~Waits(q, s)
  BY <1>2 DEF SessionInv, NetType, HolderInv, Waits, Holding
<1>4. answers[s] = <<>> /\ arrived[s].due = 0
  <2>1. answers[s] \in Seq(Pieces) /\ arrived[s].due \in Nat
    BY <1>3 DEF SessionInv, NetType
  <2> QED
    <3>1. OnePiece(s) /\ s \in open
      BY <1>3 DEF PieceInv
    <3>2. answers[s] = <<>>
      <4>1. answers[s] # <<>> => Waits(answers[s][1][1], s)
        BY <3>1 DEF OnePiece
      <4> QED
        BY <1>3, <4>1 DEF Waits
    <3>3. ~(arrived[s].due > 0)
      <4>1. arrived[s].due > 0 => Waits(arrived[s].piece[1], s)
        BY <3>1 DEF OnePiece
      <4> QED
        BY <1>3, <4>1 DEF Waits
    <3> QED
      BY <2>1, <3>2, <3>3
<1>5. parsed[r] = <<>> /\ Waits(r, s)'
  BY <1>1 DEF PieceInv, OwnPieces, Early, Waits, got
<1>6. answers[s] \o Whole(r) = << <<r, 1>> >>
  BY <1>4 DEF Whole
<1>7. ASSUME NEW x \in Sessions PROVE OnePiece(x)'
  <2>1. CASE x = s
    <3>1. answers'[s] = <<>> \/ answers'[s] = << <<r, 1>> >>
      BY <1>3, <1>4, <1>6 DEF SessionInv, NetType, Set
    <3> QED
      BY <1>4, <1>5, <2>1, <3>1 DEF OnePiece
  <2>2. CASE x # s
    <3>1. answers'[x] = answers[x] /\ arrived' = arrived /\ open' = open
      BY <2>2 DEF SessionInv, NetType, Set
    <3>2. \A q : Waits(q, x) => Waits(q, x)'
      BY <1>2 DEF Waits
    <3>3. x \in open' /\ answers'[x] # <<>> => Waits(answers[x][1][1], x)'
      BY <3>1, <3>2 DEF PieceInv, OnePiece
    <3>4. x \in open' /\ arrived'[x].due > 0 => Waits(arrived[x].piece[1], x)'
      BY <3>1, <3>2 DEF PieceInv, OnePiece
    <3> QED
      BY <3>1, <3>3, <3>4 DEF PieceInv, OnePiece
  <2> QED
    BY <2>1, <2>2
<1>8. \A q \in Requests : OwnPieces(q)'
  BY <1>1 DEF PieceInv, OwnPieces, Early, Own, got
<1> QED
  BY <1>7, <1>8 DEF PieceInv

(* What is read belongs to the request whose handler appends it.           *)
LEMMA HandlePiece ==
    ASSUME SessionInv, PieceInv, NEW s \in Sessions, HandleRead(s)
    PROVE  PieceInv'
<1> DEFINE r == handler[s]
           more == IF r = "none" \/ s \notin open THEN {} ELSE {r}
           piece == arrived[s].piece
<1>1. /\ arrived[s].due = 1 /\ answers[s] = <<>> /\ arrived'[s].due = 0
      /\ \A x \in Sessions : x # s => arrived'[x] = arrived[x]
  <2>1. /\ answers[s] \in Seq(Pieces) /\ arrived[s].due \in Nat \ {0}
        /\ arrived[s] \in [piece : Pieces \cup {<<>>}, due : Nat]
    BY DEF HandleRead, SessionInv, NetType
  <2>2. arrived[s].due = 1 /\ answers[s] = <<>>
    BY <2>1 DEF PieceInv, OnePiece
  <2> QED
    BY <2>1, <2>2 DEF HandleRead, SessionInv, NetType, Set
<1>2. r # "none" /\ s \in open =>
        r \in Requests /\ using[r] = s /\ Waits(r, s) /\ piece[1] = r
  <2> SUFFICES ASSUME r # "none", s \in open
               PROVE  r \in Requests /\ using[r] = s /\ Waits(r, s) /\ piece[1] = r
    OBVIOUS
  <2>1. r \in Requests /\ using[r] = s
    BY DEF SessionInv, NetType, HolderInv
  <2>2. Waits(piece[1], s)
    BY <1>1 DEF PieceInv, OnePiece
  <2>3. piece[1] = r
    BY <2>1, <2>2 DEF SessionInv, NetType, HolderInv, Waits
  <2> QED
    BY <2>1, <2>2, <2>3
<1>3. piece \in Pieces
  BY <1>1 DEF SessionInv, NetType, HolderInv
<1>4. /\ UNCHANGED <<pc, calls, result, using, idle, open, answers, handler>>
      /\ \A x \in Requests : x \notin more => buffer'[x] = buffer[x] /\ parsed'[x] = parsed[x]
      /\ \A x \in Requests : x \in more =>
            /\ buffer'[x] = Append(buffer[x], piece)
            /\ parsed'[x] = IF Parse(buffer'[x]) # <<>> THEN Parse(buffer'[x]) ELSE parsed[x]
  BY DEF HandleRead
<1>5. ASSUME NEW x \in Sessions PROVE OnePiece(x)'
  <2>1. CASE x = s
    BY <1>1, <1>4, <2>1 DEF PieceInv, OnePiece
  <2>2. CASE x # s
    <3>1. \A q : Waits(q, x) => Waits(q, x)'
      BY <1>2, <1>4, <2>2 DEF Waits
    <3>2. arrived'[x] = arrived[x] /\ answers' = answers /\ open' = open
      BY <1>1, <1>4, <2>2
    <3>3. x \in open' /\ answers'[x] # <<>> => Waits(answers[x][1][1], x)'
      BY <3>1, <3>2 DEF PieceInv, OnePiece
    <3>4. x \in open' /\ arrived'[x].due > 0 => Waits(arrived[x].piece[1], x)'
      BY <3>1, <3>2 DEF PieceInv, OnePiece
    <3> QED
      BY <3>2, <3>3, <3>4 DEF PieceInv, OnePiece
  <2> QED
    BY <2>1, <2>2
<1>6. ASSUME NEW x \in Requests PROVE OwnPieces(x)'
  <2>1. CASE x \notin more
    BY <1>4, <2>1 DEF PieceInv, OwnPieces, Own
  <2>2. CASE x \in more
    <3>1. x = r /\ piece[1] = x /\ Waits(x, s)
      BY <1>2, <2>2
    <3>2. pc'[x] \notin Early
      BY <1>4, <3>1 DEF Waits, Early
    <3>3. buffer[x] \in Seq(Pieces) /\ Append(buffer[x], piece) \in Seq(Pieces)
      BY <1>3 DEF SessionInv, NetType
    <3>4. Own(x, Append(buffer[x], piece))
      BY <1>3, <3>1, <3>3 DEF PieceInv, OwnPieces, Own
    <3>5. Own(x, Parse(Append(buffer[x], piece)))
      BY <3>3, <3>4, ParseType DEF Own
    <3> QED
      BY <1>4, <2>2, <3>2, <3>4, <3>5 DEF PieceInv, OwnPieces
  <2> QED
    BY <2>1, <2>2
<1> QED
  BY <1>5, <1>6 DEF PieceInv

LEMMA ReadPiece ==
    ASSUME SessionInv, PieceInv, NEW s \in Sessions, ReadSome(s)
    PROVE  PieceInv'
<1>1. /\ answers[s] \in Seq(Pieces) /\ answers[s] # <<>> /\ arrived[s].due \in Nat
  BY DEF ReadSome, SessionInv, NetType
<1>2. Len(answers[s]) = 1 /\ arrived[s].due = 0
  <2>1. Len(answers[s]) \in Nat \ {0}
    BY <1>1
  <2>2. Len(answers[s]) + arrived[s].due <= 1
    BY DEF PieceInv, OnePiece
  <2>3. arrived[s].due \in Nat
    BY <1>1
  <2>4. \A m, n \in Nat : m # 0 /\ m + n <= 1 => m = 1 /\ n = 0
    OBVIOUS
  <2> QED
    BY <2>1, <2>2, <2>3, <2>4, Zenon
<1>3. /\ Head(answers[s]) = answers[s][1] /\ Tail(answers[s]) = <<>>
  <2>1. Tail(answers[s]) \in Seq(Pieces) /\ Len(Tail(answers[s])) = 0
    BY <1>1, <1>2, HeadTailProperties
  <2>2. Tail(answers[s]) = <<>>
    BY <2>1, EmptySeq
  <2> QED
    BY <1>1, <2>2
<1>4. /\ answers' = [answers EXCEPT ![s] = <<>>]
      /\ arrived' = [arrived EXCEPT ![s] = [piece |-> answers[s][1], due |-> 1]]
      /\ UNCHANGED <<pc, calls, result, using, got, idle, open, handler>>
  <2>1. arrived[s].due + 1 = 1
    BY <1>2
  <2> QED
    BY <1>3, <2>1 DEF ReadSome, Set
<1>5. \A q, x : Waits(q, x)' <=> Waits(q, x)
  BY <1>4 DEF Waits, got
<1>6. ASSUME NEW x \in Sessions PROVE OnePiece(x)'
  <2>1. CASE x = s
    <3>1. answers'[s] = <<>> /\ arrived'[s].due = 1 /\ arrived'[s].piece = answers[s][1]
      BY <1>4 DEF SessionInv, NetType
    <3>2. s \in open' => Waits(arrived[s].piece[1], s)'
      <4>1. s \in open => Waits(answers[s][1][1], s)
        BY <1>1 DEF PieceInv, OnePiece
      <4> QED
        BY <1>4, <1>5, <3>1, <4>1
    <3> QED
      BY <1>4, <2>1, <3>1, <3>2 DEF OnePiece
  <2>2. CASE x # s
    <3>1. answers'[x] = answers[x] /\ arrived'[x] = arrived[x] /\ open' = open
      BY <1>4, <2>2 DEF SessionInv, NetType
    <3> QED
      BY <1>5, <3>1 DEF PieceInv, OnePiece
  <2> QED
    BY <2>1, <2>2
<1>7. \A r \in Requests : OwnPieces(r)'
  BY <1>4 DEF PieceInv, OwnPieces, Own, got
<1> QED
  BY <1>6, <1>7 DEF PieceInv
LEMMA RequestPiece ==
    ASSUME Chunks = 1, SessionInv, PieceInv, NEW r \in Requests, Come(r) \/ Forward(r)
    PROVE  PieceInv'
<1>1. CASE Come(r) \/ Gate(r) \/ CountThenLook(r) \/ Leave(r)
  <2>1. PICK from, to \in {"new", "gate", "queued", "pooled", "entered", "borrow", "leaving",
                           "notify", "done"} :
            Go(r, from, to) /\ (to \in Early => from \in Early)
    BY <1>1 DEF Come, Gate, CountThenLook, Begins, Leave, Go, Early
  <2>2. UNCHANGED <<using, got, net>>
    BY <1>1 DEF Come, Gate, CountThenLook, Leave
  <2> QED
    BY <2>1, <2>2, PiecePath DEF Holding, Locations, net
<1>2. CASE Borrow(r)
  <2>1. UNCHANGED <<got, arrived, answers>>
    BY <1>2 DEF Borrow
  <2>2. PICK to \in {"send", "leaving", "done"} : Go(r, "borrow", to)
    BY <1>2 DEF Borrow, TakeSession, Fail, End
  <2>3. using' = using \/ \E s : using' = Set(using, r, s)
    BY <1>2 DEF Borrow, TakeSession
  <2>4. \A q \in Requests : q # r => using'[q] = using[q]
    BY <2>3 DEF SessionInv, NetType, Set
  <2>5. CASE open' = open
    BY <2>1, <2>2, <2>4, <2>5, PiecePath DEF Holding, Locations, Early
  <2>6. CASE open' # open
    <3>1. PICK s \in Sessions : open' = open \cup {s} /\ arrived[s].due = 0 /\ answers[s] = <<>>
      BY <1>2, <2>6 DEF Borrow
    <3>2. \A q \in Requests : pc'[q] \in Early => pc[q] \in Early
      BY <2>2, Moved DEF SessionInv, Locations, Early
    <3>3. \A q \in Requests : pc[q] \in {"wait", "give_up"} =>
            using'[q] = using[q] /\ pc'[q] \in {"wait", "give_up"}
      BY <2>2, <2>4, Moved DEF SessionInv, Locations
    <3> QED
      BY <2>1, <3>1, <3>2, <3>3, PieceKept DEF PieceInv, OnePiece
  <2> QED
    BY <2>5, <2>6
<1>3. CASE Send(r)
  <2>1. UNCHANGED <<using, got, open, arrived>>
    BY <1>3 DEF Send
  <2>2. CASE Go(r, "send", "give_up")
    <3>1. ~ Go(r, "send", "wait")
      BY <2>2, Moved DEF SessionInv, Locations
    <3>2. UNCHANGED answers
      BY <1>3, <3>1 DEF Send
    <3> QED
      BY <2>1, <2>2, <3>2, WaitPiece
  <2>3. CASE Go(r, "send", "wait")
    <3>1. ~ Go(r, "send", "give_up")
      BY <2>3, Moved DEF SessionInv, Locations
    <3>2. /\ using[r] \in open
          /\ \/ answers' = Set(answers, using[r], answers[using[r]] \o Whole(r))
             \/ UNCHANGED answers
      BY <1>3, <3>1 DEF Send
    <3> QED
      BY <2>1, <2>3, <3>2, SendPiece
  <2> QED
    BY <1>3, <2>2, <2>3 DEF Send
<1>4. CASE Wait(r)
  <2>1. PICK to \in {"give_up", "give_back"} :
            Go(r, "wait", to) /\ (to = "give_back" => parsed[r] # <<>>)
    BY <1>4 DEF Wait
  <2>2. UNCHANGED <<got, using, arrived, answers, open>>
    BY <1>4 DEF Wait
  <2> QED
    BY <2>1, <2>2, WaitPiece
<1>5. CASE GiveUp(r)
  <2>1. /\ Go(r, "give_up", End(r)) /\ using' = Set(using, r, "none") /\ Closed({using[r]})
        /\ UNCHANGED <<got, arrived>>
    BY <1>5 DEF GiveUp, Fail
  <2>2. /\ using[r] \in Sessions
        /\ \A q \in Requests : pc'[q] = IF q = r THEN End(r) ELSE pc[q]
        /\ \A q \in Requests : q # r => using'[q] = using[q] /\ using[q] # using[r]
    BY <2>1, Moved DEF SessionInv, NetType, HolderInv, Set, End, Locations, Go, Holding
  <2>3. /\ \A s \in Sessions : answers'[s] = answers[s] \/ answers'[s] = <<>>
        /\ \A s \in Sessions : s \notin open' => answers'[s] = <<>>
        /\ open' = open \ {using[r]}
    BY <2>1 DEF Closed, PieceInv, OnePiece
  <2>4. \A q \in Requests : pc'[q] \in Early => pc[q] \in Early
    BY <2>2 DEF Early, End
  <2>5. \A q \in Requests : pc[q] \in {"wait", "give_up"} /\ using[q] \in open' =>
            using'[q] = using[q] /\ pc'[q] \in {"wait", "give_up"}
    BY <2>2, <2>3
  <2> QED
    BY <2>1, <2>3, <2>4, <2>5, PieceKept
<1>6. CASE GiveBack(r)
  <2>1. /\ Go(r, "give_back", End(r)) /\ using' = Set(using, r, "none")
        /\ UNCHANGED <<got, open, answers, arrived>>
    BY <1>6 DEF GiveBack
  <2>2. /\ \A q \in Requests : pc'[q] = IF q = r THEN End(r) ELSE pc[q]
        /\ \A q \in Requests : q # r => using'[q] = using[q]
        /\ pc[r] = "give_back"
    BY <2>1, Moved DEF SessionInv, NetType, Set, End, Locations, Go
  <2>3. \A q \in Requests : pc'[q] \in Early => pc[q] \in Early
    BY <2>2 DEF Early, End
  <2>4. \A q \in Requests : pc[q] \in {"wait", "give_up"} =>
            using'[q] = using[q] /\ pc'[q] \in {"wait", "give_up"}
    BY <2>2
  <2> QED
    BY <2>1, <2>3, <2>4, PieceKept DEF PieceInv, OnePiece
<1> QED
  BY <1>1, <1>2, <1>3, <1>4, <1>5, <1>6 DEF Forward

(* Sessions close: what was on its way on them is gone.                    *)
LEMMA ClosedPiece ==
    ASSUME SessionInv, PieceInv, NEW S, Closed(S), UNCHANGED <<pc, using, got, arrived>>
    PROVE  PieceInv'
<1>1. /\ \A s \in Sessions : answers'[s] = answers[s] \/ answers'[s] = <<>>
      /\ \A s \in Sessions : s \notin open' => answers'[s] = <<>>
      /\ open' \subseteq open
  BY DEF Closed, PieceInv, OnePiece
<1> QED
  BY <1>1, PieceKept

LEMMA StepPiece == Chunks = 1 /\ SessionInv /\ PieceInv /\ [Next]_vars => PieceInv'
<1> SUFFICES ASSUME Chunks = 1, SessionInv, PieceInv, [Next]_vars PROVE PieceInv'
  OBVIOUS
<1>1. ASSUME NEW s \in Sessions, Drop(s) PROVE PieceInv'
  BY <1>1, ClosedPiece DEF Drop
<1>2. CASE StopPool
  BY <1>2, ClosedPiece DEF StopPool
<1>3. CASE StopBegins \/ ShutdownLooks \/ ShutdownGivesUp \/ ShutdownStopsWorkers
     \/ ShutdownJoinsWorkers \/ ShutdownReturns \/ UNCHANGED vars
  <2>1. UNCHANGED <<pc, using, got, net>>
        BY <1>3 DEF StopBegins, ShutdownLooks, ShutdownGivesUp, ShutdownStopsWorkers,
                ShutdownJoinsWorkers, ShutdownReturns, vars, got, net
  <2> QED
    BY <2>1 DEF PieceInv, OnePiece, OwnPieces, Own, Waits, got, net
<1> QED
  BY <1>1, <1>2, <1>3, RequestPiece, ReadPiece, HandlePiece DEF Next, Forward

(* Where every answer arrives in one read, each request gets its own, for  *)
(* any number of requests, sessions and reads that share a buffer; answers *)
(* in several pieces get mixed up (run network_answers).                   *)
THEOREM TransponderOwnAnswer == ASSUME Chunks = 1 PROVE Spec => []OwnAnswer
<1>1. Init => SessionInv /\ PieceInv
  BY InitSession, InitPiece
<1>2. SessionInv /\ PieceInv /\ [Next]_vars => (SessionInv /\ PieceInv)'
  BY StepSession, StepPiece
<1>3. PieceInv => OwnAnswer
  BY DEF PieceInv, OwnPieces, Own, OwnAnswer
<1> QED
  BY <1>1, <1>2, <1>3, PTL DEF Spec
=============================================================================
