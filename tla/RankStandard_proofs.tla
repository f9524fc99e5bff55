------------------------- MODULE RankStandard_proofs -------------------------
(***************************************************************************)
(* Proofs about RankStandard, for any sets of submitters, workers,         *)
(* controllers and units, any capacity and any mix of operations: its      *)
(* types, what close strands, the order of the units, the capacity, that   *)
(* it is a channel, and, for finitely many threads, that no wake-up is     *)
(* lost: while somebody is asleep every queued unit, and every free place, *)
(* is matched by a thread on its way to it or by a notification still to   *)
(* be sent.                                                                *)
(***************************************************************************)
EXTENDS RankStandard, FiniteSetTheorems, SequenceTheorems, TLAPS

(* A submitter inside push has a unit to push: Head and Tail are defined.  *)
Busy == \A p \in Producers : pc[p] # "idle" => todo[p] # <<>>
TypeInv == TypeOK /\ Busy

USE ThreadsDisjoint, InputsAssumption

Locations == ProducerLocations \cup ConsumerLocations \cup ControllerLocations
Placed(at) ==
    /\ at \in [Threads -> Locations]
    /\ \A p \in Producers : at[p] \in ProducerLocations
    /\ \A c \in Consumers : at[c] \in ConsumerLocations
    /\ \A k \in Controllers : at[k] \in ControllerLocations

(* notify_one leaves every thread at a location of its own kind and makes  *)
(* nobody idle or busy: at most one waiter goes where it resumes.          *)
LEMMA NotifyOneWakes ==
    ASSUME NEW at, Placed(at), NEW w \in Asleep, NEW after \in NotifyOne(at, w)
    PROVE  /\ Placed(after)
           /\ \A t \in Threads : after[t] = at[t] \/ (at[t] = w /\ after[t] = Resume(w))
<1>1. CASE after = at
  BY <1>1
<1>2. CASE after # at
  <2>1. PICK s \in {t \in Threads : at[t] = w} : after = [at EXCEPT ![s] = Resume(w)]
    BY <1>2 DEF NotifyOne
  <2>2. s \in Threads /\ at[s] = w
    BY <2>1
  <2>3. \A t \in Threads : after[t] = IF t = s THEN Resume(w) ELSE at[t]
    BY <2>1 DEF Placed
  <2>4. s \in Producers => w = "wait_full"
    BY <2>2 DEF Placed, ProducerLocations, Asleep
  <2>5. s \in Consumers => w = "wait_empty"
    BY <2>2 DEF Placed, ConsumerLocations, Asleep
  <2>6. s \notin Controllers
    BY <2>2 DEF Placed, ControllerLocations, Asleep
  <2>7. Resume(w) \in Locations
    BY DEF Resume, Locations, ProducerLocations, ConsumerLocations
  <2>8. after \in [Threads -> Locations]
    BY <2>1, <2>2, <2>7 DEF Placed
  <2>9. \A p \in Producers : after[p] \in ProducerLocations
    BY <2>3, <2>4 DEF Placed, Resume, ProducerLocations, Threads
  <2>10. \A c \in Consumers : after[c] \in ConsumerLocations
    BY <2>3, <2>5 DEF Placed, Resume, ConsumerLocations, Threads
  <2>11. \A k \in Controllers : after[k] \in ControllerLocations
    BY <2>3, <2>6 DEF Placed, Threads
  <2> QED
    BY <2>2, <2>3, <2>8, <2>9, <2>10, <2>11 DEF Placed
<1> QED
  BY <1>1, <1>2

(* The same for notify_all.                                                *)
LEMMA NotifyAllWakes ==
    ASSUME NEW at, Placed(at), NEW w \in Asleep
    PROVE  /\ Placed(NotifyAll(at, w))
           /\ \A t \in Threads : NotifyAll(at, w)[t] =
                IF at[t] = w THEN Resume(w) ELSE at[t]
<1>1. \A t \in Threads : NotifyAll(at, w)[t] = IF at[t] = w THEN Resume(w) ELSE at[t]
  BY DEF NotifyAll
<1>2. Resume(w) \in Locations
  BY DEF Resume, Locations, ProducerLocations, ConsumerLocations
<1>3. NotifyAll(at, w) \in [Threads -> Locations]
  BY <1>2 DEF NotifyAll, Placed
<1>4. \A p \in Producers : NotifyAll(at, w)[p] \in ProducerLocations
  BY <1>1 DEF Placed, Resume, ProducerLocations, Threads, Asleep
<1>5. \A c \in Consumers : NotifyAll(at, w)[c] \in ConsumerLocations
  BY <1>1 DEF Placed, Resume, ConsumerLocations, Threads, Asleep
<1>6. \A k \in Controllers : NotifyAll(at, w)[k] \in ControllerLocations
  BY <1>1 DEF Placed, ControllerLocations, Threads, Asleep
<1> QED
  BY <1>1, <1>3, <1>4, <1>5, <1>6 DEF Placed

-----------------------------------------------------------------------------
(* Type correctness, one lemma per building block of the actions. *)

(* TypeOK about everything but the locations. *)
DataOK ==
    /\ closed \in BOOLEAN
    /\ max_storage_capacity \in Nat
    /\ rank_unit_standard \in Seq(Units)
    /\ todo \in [Producers -> Seq(Units)]
    /\ mode \in [Producers -> Modes \cup {"none"}]
    /\ call \in [Consumers -> PopCalls \cup {"none"}]
    /\ count \in [Consumers -> Nat]
    /\ result \in [Units -> {"unsubmitted", "pending", "true", "false", "throw"}]
    /\ accepts \in Nat
    /\ ticket \in [Units -> Nat]
    /\ delivered \in Seq(Units)
    /\ lost \subseteq Units
    /\ missed \subseteq Threads

LEMMA TypeSplit == TypeOK <=> DataOK /\ Placed(pc)
BY DEF TypeOK, DataOK, Placed, Locations

LEMMA GoToType ==
    ASSUME TypeInv, NEW t \in Threads, NEW location,
           \/ t \in Producers /\ location \in ProducerLocations
           \/ t \in Consumers /\ location \in ConsumerLocations
           \/ t \in Controllers /\ location \in ControllerLocations,
           pc[t] # "idle", GoTo(t, location)
    PROVE  TypeInv'
<1>1. DataOK' /\ UNCHANGED todo
  BY TypeSplit DEF TypeInv, GoTo, DataOK, store, producing, consuming, history
<1>2. Placed(pc')
  BY DEF TypeInv, TypeOK, GoTo, Placed, Locations, Threads
<1>3. \A s \in Threads : pc'[s] # "idle" => pc[s] # "idle"
  BY DEF TypeInv, TypeOK, GoTo
<1> QED
  BY <1>1, <1>2, <1>3, TypeSplit DEF TypeInv, Busy, Placed, TypeOK, DataOK, Locations, Threads

LEMMA AdvanceType ==
    ASSUME TypeInv, NEW p \in Producers, todo[p] # <<>>, Advance(p)
    PROVE  /\ todo' \in [Producers -> Seq(Units)]
           /\ mode' \in [Producers -> Modes \cup {"none"}]
           /\ Head(todo[p]) \in Units
           /\ Advanced(p) \in ProducerLocations
           /\ Advanced(p) # "idle" => todo'[p] # <<>>
           /\ \A q \in Producers \ {p} : todo'[q] = todo[q]
<1>1. todo[p] \in Seq(Units)
  BY DEF TypeInv, TypeOK
<1>2. /\ Head(todo[p]) \in Units
      /\ Tail(todo[p]) \in Seq(Units)
      /\ Len(Tail(todo[p])) = Len(todo[p]) - 1
  BY <1>1, HeadTailProperties
<1>3. todo' = [todo EXCEPT ![p] = Tail(todo[p])]
  BY DEF Advance
<1>4. Len(todo[p]) \in Nat
  BY <1>1
<1>5. Len(todo[p]) > 1 => Tail(todo[p]) # <<>>
  BY <1>2, <1>4
<1>6. mode' \in [Producers -> Modes \cup {"none"}]
  BY DEF Advance, TypeInv, TypeOK
<1> QED
  BY <1>2, <1>3, <1>5, <1>6 DEF Advanced, ProducerLocations, TypeInv, TypeOK

LEMMA RefuseType ==
    ASSUME TypeInv, NEW p \in Producers, pc[p] # "idle", Refuse(p)
    PROVE  TypeInv'
<1>1. todo[p] # <<>> /\ Advance(p)
  BY DEF TypeInv, Busy, Refuse
<1>2. DataOK'
  <2>1. result' \in [Units -> {"unsubmitted", "pending", "true", "false", "throw"}]
    BY <1>1, AdvanceType DEF Refuse, TypeInv, TypeOK
  <2> QED
    BY <1>1, <2>1, AdvanceType DEF Refuse, DataOK, TypeInv, TypeOK, store, consuming
<1>3. Placed(pc')
  BY <1>1, AdvanceType DEF Refuse, TypeInv, TypeOK, Placed, Locations, Threads
<1>4. Busy'
  BY <1>1, AdvanceType DEF Refuse, TypeInv, TypeOK, Busy, Threads
<1> QED
  BY <1>2, <1>3, <1>4, TypeSplit DEF TypeInv, Placed, DataOK, TypeOK, Locations

LEMMA ThrowType ==
    ASSUME TypeInv, NEW p \in Producers, pc[p] # "idle", Throw(p)
    PROVE  TypeInv'
<1>1. DataOK'
  BY DEF Throw, DataOK, TypeInv, TypeOK, store, consuming
<1>2. Placed(pc')
  BY DEF Throw, TypeInv, TypeOK, Placed, Locations, ProducerLocations, Threads
<1>3. Busy'
  BY DEF Throw, TypeInv, TypeOK, Busy, Threads
<1> QED
  BY <1>1, <1>2, <1>3 DEF TypeInv, Placed, DataOK, TypeOK, Locations

LEMMA EnqueueType ==
    ASSUME TypeInv, NEW p \in Producers, pc[p] # "idle", NEW q \in Seq(Units),
           EnqueueOn(p, q), lost' \subseteq Units
    PROVE  TypeInv'
<1>1. todo[p] # <<>> /\ Head(todo[p]) \in Units
  BY HeadTailProperties DEF TypeInv, Busy, TypeOK
<1>2. DataOK'
  <2>1. rank_unit_standard' \in Seq(Units)
    BY <1>1 DEF EnqueueOn
  <2>2. /\ ticket' \in [Units -> Nat]
        /\ accepts' \in Nat
        /\ result' \in [Units -> {"unsubmitted", "pending", "true", "false", "throw"}]
    BY <1>1 DEF EnqueueOn, TypeInv, TypeOK
  <2> QED
    BY <2>1, <2>2 DEF EnqueueOn, DataOK, TypeInv, TypeOK, producing, consuming
<1>3. Placed(pc')
  BY DEF EnqueueOn, TypeInv, TypeOK, Placed, Locations, ProducerLocations, Threads
<1>4. Busy'
  BY DEF EnqueueOn, TypeInv, TypeOK, Busy, Threads, producing
<1> QED
  BY <1>2, <1>3, <1>4 DEF TypeInv, Placed, DataOK, TypeOK, Locations

LEMMA AwaitRoomType ==
    ASSUME TypeInv, NEW p \in Producers, pc[p] # "idle", AwaitRoom(p)
    PROVE  TypeInv'
<1>1. CASE Refuse(p)
  BY <1>1, RefuseType
<1>2. CASE Enqueue(p)
  BY <1>2, EnqueueType DEF Enqueue, TypeInv, TypeOK
<1>3. CASE GoTo(p, "push_sleep")
  BY <1>3, GoToType DEF ProducerLocations, Threads
<1> QED
  BY <1>1, <1>2, <1>3 DEF AwaitRoom

LEMMA OverwriteType ==
    ASSUME TypeInv, NEW p \in Producers, pc[p] # "idle", ~HasRoom, Overwrite(p)
    PROVE  TypeInv'
<1>1. rank_unit_standard \in Seq(Units) /\ Size \in Nat \ {0}
  BY DEF TypeInv, TypeOK, HasRoom, Bounded, Size
<1>2. SubSeq(rank_unit_standard, 1, Size - 1) \in Seq(Units)
  BY <1>1 DEF Size
<1>3. rank_unit_standard[Size] \in Units
  BY <1>1, ElementOfSeq DEF Size
<1>4. lost' \subseteq Units
  BY <1>3 DEF Overwrite, TypeInv, TypeOK
<1> QED
  BY <1>2, <1>4, EnqueueType DEF Overwrite

LEMMA BeginPushType ==
    ASSUME TypeInv, NEW p \in Producers, NEW us \in Seq(Units), us # <<>>,
           NEW m \in Modes, BeginPush(p, us, m)
    PROVE  TypeInv'
<1>1. DataOK'
  BY DEF BeginPush, DataOK, TypeInv, TypeOK, store, consuming
<1>2. Placed(pc')
  BY DEF BeginPush, TypeInv, TypeOK, Placed, Locations, ProducerLocations, Threads
<1>3. Busy'
  BY DEF BeginPush, TypeInv, TypeOK, Busy, Threads
<1> QED
  BY <1>1, <1>2, <1>3 DEF TypeInv, Placed, DataOK, TypeOK, Locations

(* A step that leaves submitters alone, and the queue well typed.          *)
LEMMA ConsumerStepType ==
    ASSUME TypeInv, DataOK', UNCHANGED todo, Placed(pc'),
           \A p \in Producers : pc[p] = "idle" => pc'[p] = "idle"
    PROVE  TypeInv'
BY DEF TypeInv, Busy, Placed, DataOK, TypeOK, Locations

LEMMA IdleConsumer ==
    ASSUME TypeInv, NEW c \in Consumers
    PROVE  /\ Placed([pc EXCEPT ![c] = "idle"])
           /\ \A t \in Threads : [pc EXCEPT ![c] = "idle"][t]
                = IF t = c THEN "idle" ELSE pc[t]
BY DEF TypeInv, TypeOK, Placed, Locations, ConsumerLocations, Threads

(* A sequence is its first n elements followed by the others.              *)
LEMMA SplitJoin ==
    ASSUME NEW S, NEW seq \in Seq(S), NEW n \in 0..Len(seq)
    PROVE  SubSeq(seq, 1, n) \o SubSeq(seq, n + 1, Len(seq)) = seq
<1> DEFINE front == SubSeq(seq, 1, n)
           back == SubSeq(seq, n + 1, Len(seq))
<1>1. front \in Seq(S) /\ Len(front) = n /\ \A i \in 1..n : front[i] = seq[i]
  OBVIOUS
<1>2. /\ back \in Seq(S)
      /\ Len(back) = Len(seq) - n
      /\ \A i \in 1..(Len(seq) - n) : back[i] = seq[n + i]
  OBVIOUS
<1> HIDE DEF front, back
<1>3. /\ front \o back \in Seq(S)
      /\ Len(front \o back) = Len(front) + Len(back)
      /\ \A i \in 1..(Len(front) + Len(back)) : (front \o back)[i]
            = IF i <= Len(front) THEN front[i] ELSE back[i - Len(front)]
  <2>1. front \in Seq(S) /\ back \in Seq(S)
    BY <1>1, <1>2
  <2> QED
    BY <2>1
<1>4. Len(front \o back) = Len(seq)
  BY <1>1, <1>2, <1>3
<1>5. \A i \in 1..Len(seq) : (front \o back)[i] = seq[i]
  BY <1>1, <1>2, <1>3
<1>6. front \o back = seq
  BY <1>3, <1>4, <1>5, SeqEqual
<1> QED
  BY <1>6 DEF front, back

(* Taking n units off the front splits the queue and keeps the run of units*)
(* that were ever let in, delivered ones first, as it is.                  *)
LEMMA TakeFrontSplits ==
    ASSUME TypeInv, NEW n \in 0..Size, TakeFront(n)
    PROVE  /\ rank_unit_standard' \in Seq(Units)
           /\ delivered' \in Seq(Units)
           /\ Len(rank_unit_standard') = Size - n
           /\ delivered' \o rank_unit_standard' = delivered \o rank_unit_standard
<1> DEFINE q == rank_unit_standard
           front == SubSeq(q, 1, n)
           back == SubSeq(q, n + 1, Size)
<1>1. q \in Seq(Units) /\ delivered \in Seq(Units) /\ Size = Len(q) /\ Size \in Nat
  BY DEF TypeInv, TypeOK, Size
<1>2. front \in Seq(Units) /\ back \in Seq(Units) /\ Len(back) = Size - n
  BY <1>1, SubSeqProperties
<1>3. front \o back = q
  BY <1>1, SplitJoin
<1>4. (delivered \o front) \o back = delivered \o (front \o back)
  <2> HIDE DEF q, front, back
  <2> QED
    BY <1>1, <1>2, ConcatAssociative, SMTT(30)
<1>5. delivered' = delivered \o front /\ rank_unit_standard' = back
  BY DEF TakeFront
<1>6. delivered \o front \in Seq(Units)
  BY <1>1, <1>2, ConcatProperties, Zenon
<1> HIDE DEF q, front, back
<1> QED
  BY <1>1, <1>2, <1>3, <1>4, <1>5, <1>6 DEF q

LEMMA ReturnType ==
    ASSUME TypeInv, NEW c \in Consumers, NEW at, Return(c, at), UNCHANGED producing,
           rank_unit_standard' \in Seq(Units), delivered' \in Seq(Units),
           UNCHANGED <<closed, max_storage_capacity, result, accepts, ticket, lost,
                       missed>>,
           \/ at = [pc EXCEPT ![c] = "idle"]
           \/ \E w \in Asleep : at \in NotifyOne([pc EXCEPT ![c] = "idle"], w)
    PROVE  TypeInv'
<1> DEFINE home == [pc EXCEPT ![c] = "idle"]
<1>1. /\ Placed(home)
      /\ \A t \in Threads : home[t] = IF t = c THEN "idle" ELSE pc[t]
  BY IdleConsumer
<1>2. at = home \/ \E w \in Asleep : at \in NotifyOne(home, w)
  OBVIOUS
<1> HIDE DEF home
<1>3. Placed(at) /\ \A t \in Threads : home[t] = "idle" => at[t] = "idle"
  BY <1>1, <1>2, NotifyOneWakes DEF Asleep
<1>4. DataOK'
  BY DEF Return, TypeInv, TypeOK, DataOK, producing
<1>5. \A p \in Producers : pc[p] = "idle" => at[p] = "idle"
  BY <1>1, <1>3 DEF Threads
<1> QED
  BY <1>3, <1>4, <1>5, ConsumerStepType DEF Return, producing

LEMMA TakeAndNotifyType ==
    ASSUME TypeInv, NEW c \in Consumers, Size > 0, TakeAndNotify(c)
    PROVE  TypeInv'
<1>1. Size \in Nat
  BY DEF TypeInv, TypeOK, Size
<1>2. rank_unit_standard' \in Seq(Units) /\ delivered' \in Seq(Units)
  BY <1>1, TakeFrontSplits DEF TakeAndNotify
<1> QED
  BY <1>2, ReturnType DEF TakeAndNotify, TakeFront, Asleep

LEMMA TakeThenNotifyType ==
    ASSUME TypeInv, NEW c \in Consumers, TakeThenNotify(c)
    PROVE  TypeInv'
<1> DEFINE n == IF count[c] < Size THEN count[c] ELSE Size
<1>1. n \in 0..Size
  BY DEF TypeInv, TypeOK, Size
<1>2. /\ TakeFront(n)
      /\ \/ Return(c, [pc EXCEPT ![c] = "idle"])
         \/ pc' = [pc EXCEPT ![c] = "pop_notify"] /\ UNCHANGED consuming
  BY DEF TakeThenNotify
<1> HIDE DEF n
<1>3. rank_unit_standard' \in Seq(Units) /\ delivered' \in Seq(Units)
  BY <1>1, <1>2, TakeFrontSplits
<1>4. CASE Return(c, [pc EXCEPT ![c] = "idle"])
  BY <1>2, <1>3, <1>4, ReturnType DEF TakeFront
<1>5. CASE pc' = [pc EXCEPT ![c] = "pop_notify"] /\ UNCHANGED consuming
  <2>1. Placed(pc') /\ \A p \in Producers : pc'[p] = pc[p]
    BY <1>5 DEF TypeInv, TypeOK, Placed, Locations, ConsumerLocations, Threads
  <2>2. DataOK'
    BY <1>2, <1>3, <1>5 DEF TypeInv, TypeOK, DataOK, TakeFront, producing, consuming
  <2> QED
    BY <1>2, <2>1, <2>2, ConsumerStepType DEF TakeFront, producing
<1> QED
  BY <1>2, <1>4, <1>5

LEMMA ReturnNullType ==
    ASSUME TypeInv, NEW c \in Consumers, ReturnNull(c)
    PROVE  TypeInv'
BY ReturnType DEF ReturnNull, TypeInv, TypeOK, store, history

-----------------------------------------------------------------------------
LEMMA InitType == Init => TypeInv
<1> SUFFICES ASSUME Init PROVE TypeInv
  OBVIOUS
<1>1. rank_unit_standard \in Seq(Units) /\ delivered \in Seq(Units)
  BY DEF Init
<1>2. todo \in [Producers -> Seq(Units)]
  BY DEF Init
<1>3. Placed(pc) /\ Busy
  BY DEF Init, Placed, Locations, ProducerLocations, ConsumerLocations,
         ControllerLocations, Threads, Busy
<1>4. DataOK
  BY <1>1, <1>2 DEF Init, DataOK
<1> QED
  BY <1>3, <1>4, TypeSplit DEF TypeInv

LEMMA ProducerType ==
    ASSUME TypeInv, NEW p \in Producers,
           Push(p) \/ PushTooLate(p) \/ PushBatch(p) \/ Pushing(p)
    PROVE  TypeInv'
<1>1. CASE Push(p)
  <2>1. PICK u \in Fresh, m \in Modes : BeginPush(p, <<u>>, m)
    BY <1>1 DEF Push
  <2>2. <<u>> \in Seq(Units) /\ <<u>> # <<>>
    BY DEF Fresh
  <2> QED
    BY <2>1, <2>2, BeginPushType
<1>2. ASSUME UNCHANGED <<store, pc, producing, consuming, accepts, ticket, delivered,
                          lost, missed>>,
             result' \in [Units -> {"unsubmitted", "pending", "true", "false", "throw"}]
      PROVE  TypeInv'
  BY <1>2 DEF TypeInv, TypeOK, Busy, store, producing, consuming
<1>3. CASE PushTooLate(p)
  BY <1>2, <1>3 DEF PushTooLate, TypeInv, TypeOK
<1>4. CASE PushBatch(p)
  <2>1. PICK u \in Fresh, v \in Fresh, m \in Modes :
          \/ BeginPush(p, <<u, v>>, m)
          \/ /\ result' = [result EXCEPT ![u] = "false", ![v] = "false"]
             /\ UNCHANGED <<store, pc, producing, consuming, accepts, ticket,
                            delivered, lost, missed>>
    BY <1>4 DEF PushBatch
  <2>2. <<u, v>> \in Seq(Units) /\ <<u, v>> # <<>>
    BY DEF Fresh
  <2>3. CASE BeginPush(p, <<u, v>>, m)
    BY <2>2, <2>3, BeginPushType
  <2>4. CASE ~BeginPush(p, <<u, v>>, m)
    BY <1>2, <2>1, <2>4 DEF TypeInv, TypeOK
  <2> QED
    BY <2>3, <2>4
<1>5. CASE PushCheck(p)
  <2>1. CASE Refuse(p)
    BY <1>5, <2>1, RefuseType DEF PushCheck
  <2>2. CASE GoTo(p, "push_lock")
    BY <1>5, <2>2, GoToType DEF PushCheck, ProducerLocations, Threads
  <2> QED
    BY <1>5, <2>1, <2>2 DEF PushCheck
<1>6. CASE PushLock(p)
  <2>1. pc[p] # "idle"
    BY <1>6 DEF PushLock
  <2>2. CASE Enqueue(p)
    BY <2>1, <2>2, EnqueueType DEF Enqueue, TypeInv, TypeOK
  <2>3. CASE ~HasRoom /\ Overwrite(p)
    BY <2>1, <2>3, OverwriteType
  <2> QED
    BY <1>6, <2>1, <2>2, <2>3, AwaitRoomType, ThrowType, RefuseType DEF PushLock
<1>7. CASE PushSleep(p)
  BY <1>7, GoToType DEF PushSleep, ProducerLocations, Threads
<1>8. CASE PushRelock(p)
  BY <1>8, AwaitRoomType DEF PushRelock
<1>9. CASE PushNotify(p)
  <2> DEFINE moved == [pc EXCEPT ![p] = Advanced(p)]
  <2>1. todo[p] # <<>> /\ Advance(p) /\ p \in Threads /\ pc[p] = "push_notify"
    BY <1>9 DEF PushNotify, TypeInv, Busy, Threads
  <2>2. Placed(moved)
    BY <2>1, AdvanceType DEF TypeInv, TypeOK, Placed, Locations, Threads
  <2>3. \A t \in Threads : moved[t] = IF t = p THEN Advanced(p) ELSE pc[t]
    BY <2>1 DEF TypeInv, TypeOK
  <2>4. pc' \in NotifyOne(moved, "wait_empty")
    BY <1>9 DEF PushNotify
  <2> HIDE DEF moved
  <2>5. /\ Placed(pc')
        /\ \A t \in Threads : pc'[t] # "idle" => moved[t] # "idle"
    BY <2>2, <2>4, NotifyOneWakes DEF Asleep
  <2>6. Busy'
    BY <2>1, <2>3, <2>5, AdvanceType DEF Busy, TypeInv, Threads
  <2>7. DataOK'
    BY <1>9, <2>1, AdvanceType
    DEF PushNotify, DataOK, TypeInv, TypeOK, store, consuming, history
  <2> QED
    BY <2>5, <2>6, <2>7 DEF TypeInv, Placed, DataOK, TypeOK, Locations
<1> QED
  BY <1>1, <1>3, <1>4, <1>5, <1>6, <1>7, <1>8, <1>9 DEF Pushing

LEMMA ConsumerType ==
    ASSUME TypeInv, NEW c \in Consumers,
           Pop(c) \/ TryPop(c) \/ TryPopFor(c) \/ PopBatch(c) \/ Fetching(c)
    PROVE  TypeInv'
<1>1. ASSUME NEW op, NEW n \in Nat, Call(c, op, n)
      PROVE  TypeInv'
  <2>1. DataOK'
    BY <1>1 DEF Call, DataOK, TypeInv, TypeOK, store, producing, history
  <2>2. Placed(pc') /\ \A p \in Producers : pc'[p] = pc[p]
    BY <1>1 DEF Call, TypeInv, TypeOK, Placed, Locations, ConsumerLocations, Threads
  <2> QED
    BY <1>1, <2>1, <2>2, ConsumerStepType DEF Call, producing
<1>2. CASE Pop(c) \/ TryPopFor(c) \/ PopBatch(c)
  BY <1>1, <1>2 DEF Pop, TryPopFor, PopBatch
<1>3. CASE TryPop(c)
  BY <1>3, TakeAndNotifyType DEF TryPop
<1>4. CASE PopLock(c)
  BY <1>4, TakeAndNotifyType, TakeThenNotifyType, ReturnNullType, GoToType
  DEF PopLock, TakeFor, ConsumerLocations, Threads
<1>5. CASE PopSleep(c) \/ PopTimeout(c)
  BY <1>5, GoToType DEF PopSleep, PopTimeout, ConsumerLocations, Threads
<1>6. CASE PopTimedOut(c)
  BY <1>6, TakeThenNotifyType, ReturnNullType DEF PopTimedOut
<1>7. CASE PopNotify(c)
  BY <1>7, ReturnType DEF PopNotify, TypeInv, TypeOK, store, history, Asleep
<1> QED
  BY <1>2, <1>3, <1>4, <1>5, <1>6, <1>7 DEF Fetching

LEMMA ControllerType ==
    ASSUME TypeInv, NEW k \in Controllers,
           Close(k) \/ Clear(k) \/ SetMaxSize(k) \/ Closing(k)
    PROVE  TypeInv'
<1>1. CASE Close(k)
  <2>1. DataOK' /\ UNCHANGED todo
    BY <1>1 DEF Close, DataOK, TypeInv, TypeOK, producing, consuming
  <2>2. Placed(pc') /\ \A p \in Producers : pc'[p] = pc[p]
    BY <1>1 DEF Close, TypeInv, TypeOK, Placed, Locations, ControllerLocations, Threads
  <2> QED
    BY <2>1, <2>2, ConsumerStepType
<1>2. CASE Clear(k)
  <2>1. \A i \in 1..Size : rank_unit_standard[i] \in Units
    BY DEF TypeInv, TypeOK, Size
  <2>2. lost' \subseteq Units /\ rank_unit_standard' \in Seq(Units)
    BY <1>2, <2>1 DEF Clear, TypeInv, TypeOK
  <2> QED
    BY <1>2, <2>2 DEF Clear, TypeInv, TypeOK, Busy, producing, consuming
<1>3. CASE SetMaxSize(k)
  BY <1>3 DEF SetMaxSize, TypeInv, TypeOK, Busy, producing, consuming, history
<1>4. ASSUME NEW next \in {"idle", "close_full"}, NEW w \in Asleep,
             pc' = NotifyAll([pc EXCEPT ![k] = next], w),
             UNCHANGED <<store, producing, consuming, history>>
      PROVE  TypeInv'
  <2> DEFINE moved == [pc EXCEPT ![k] = next]
  <2>1. Placed(moved) /\ \A p \in Producers : moved[p] = pc[p]
    BY <1>4 DEF TypeInv, TypeOK, Placed, Locations, ControllerLocations, Threads
  <2>2. pc' = NotifyAll(moved, w)
    BY <1>4
  <2> HIDE DEF moved
  <2>3. Placed(pc') /\ \A p \in Producers : moved[p] = "idle" => pc'[p] = "idle"
    <3>1. /\ Placed(NotifyAll(moved, w))
          /\ \A t \in Threads : NotifyAll(moved, w)[t] =
               IF moved[t] = w THEN Resume(w) ELSE moved[t]
      BY <2>1, NotifyAllWakes
    <3>2. w # "idle"
      BY DEF Asleep
    <3> QED
      BY <2>2, <3>1, <3>2 DEF Threads
  <2>4. DataOK' /\ UNCHANGED todo
    BY <1>4 DEF DataOK, TypeInv, TypeOK, store, producing, consuming, history
  <2> QED
    BY <2>1, <2>3, <2>4, ConsumerStepType
<1>5. CASE Closing(k)
  BY <1>4, <1>5 DEF Closing, CloseEmpty, CloseFull, Asleep
<1> QED
  BY <1>1, <1>2, <1>3, <1>5

LEMMA SpuriousType ==
    ASSUME TypeInv, NEW t \in Threads, SpuriousWakeup(t)
    PROVE  TypeInv'
<1>1. t \in Producers => pc[t] = "wait_full"
  BY DEF SpuriousWakeup, Asleep, TypeInv, TypeOK, ProducerLocations
<1>2. t \in Consumers => pc[t] = "wait_empty"
  BY DEF SpuriousWakeup, Asleep, TypeInv, TypeOK, ConsumerLocations
<1>3. t \notin Controllers
  BY DEF SpuriousWakeup, Asleep, TypeInv, TypeOK, ControllerLocations
<1> QED
  BY <1>1, <1>2, <1>3, GoToType
  DEF SpuriousWakeup, Resume, Threads, ProducerLocations, ConsumerLocations, Asleep

LEMMA StepType == TypeInv /\ [Next]_vars => TypeInv'
<1> SUFFICES ASSUME TypeInv, [Next]_vars PROVE TypeInv'
  OBVIOUS
<1>1. CASE UNCHANGED vars
  BY <1>1 DEF vars, store, producing, consuming, history, TypeInv, TypeOK, Busy
<1>2. CASE Next
  BY <1>2, ProducerType, ConsumerType, ControllerType, SpuriousType DEF Next
<1> QED
  BY <1>1, <1>2

(* The state is well typed and a busy submitter has a unit in hand.        *)
THEOREM TypeCorrect == Spec => []TypeInv
BY InitType, StepType, PTL DEF Spec

(* Every variable keeps its type: threads stay at locations of their kind. *)
THEOREM RankTypeOK == Spec => []TypeOK
<1>1. TypeInv => TypeOK
  BY DEF TypeInv
<1> QED
  BY <1>1, TypeCorrect, PTL

-----------------------------------------------------------------------------
(* Whom close can strand.  CloseStrandsOnlyRacers speaks of the moment when*)
(* no close is under way; while one is, its notifications are still to come*)
(* for the threads it has not forgotten.                                   *)

CloseInv ==
    closed =>
        /\ \A t \in Threads : pc[t] \in Holding => t \in missed
        /\ \A t \in Threads : pc[t] = "wait_empty" =>
              t \in missed \/ \E k \in Controllers : pc[k] = "close_empty"
        /\ \A t \in Threads : pc[t] = "wait_full" =>
              t \in missed \/ \E k \in Controllers : pc[k] \in {"close_empty", "close_full"}

(* Submitters and workers fall asleep in two steps, the first of them only *)
(* while the queue is open.                                                *)
Calm ==
    /\ UNCHANGED <<closed, missed>>
    /\ \A k \in Controllers : pc'[k] = pc[k]
    /\ \A t \in Threads : pc'[t] \in Asleep \cup Holding =>
          pc'[t] = pc[t] \/ (pc[t] \in Holding /\ pc'[t] \in Asleep) \/ ~closed

LEMMA CalmPreserves ==
    ASSUME CloseInv, Calm
    PROVE  CloseInv'
<1> SUFFICES ASSUME closed PROVE CloseInv'
  BY DEF Calm, CloseInv
<1>1. \A t \in Threads : pc'[t] \in Holding => pc[t] \in Holding
  BY DEF Calm, Holding, Asleep
<1>2. \A t \in Threads : pc'[t] \in Asleep => pc'[t] = pc[t] \/ pc[t] \in Holding
  BY DEF Calm, Holding, Asleep
<1> QED
  BY <1>1, <1>2 DEF Calm, CloseInv, Asleep

LEMMA GoToCalm ==
    ASSUME TypeInv, NEW t \in Producers \cup Consumers, NEW location, GoTo(t, location),
           \/ location \notin Asleep \cup Holding
           \/ pc[t] \in Holding /\ location \in Asleep
           \/ ~closed
    PROVE  Calm
BY DEF GoTo, Calm, TypeInv, TypeOK, store, history, Threads

(* A step that ends a call, after which notify_one may have woken a waiter.*)
LEMMA ReturnCalm ==
    ASSUME TypeInv, NEW t \in Producers \cup Consumers, NEW home \in {"idle", "push_check"},
           t \in Consumers => home = "idle",
           UNCHANGED <<closed, missed>>,
           \/ pc' = [pc EXCEPT ![t] = home]
           \/ \E w \in Asleep : pc' \in NotifyOne([pc EXCEPT ![t] = home], w)
    PROVE  Calm
<1> DEFINE moved == [pc EXCEPT ![t] = home]
<1>1. /\ Placed(moved)
      /\ \A s \in Threads : moved[s] = IF s = t THEN home ELSE pc[s]
  BY DEF TypeInv, TypeOK, Placed, Locations, ProducerLocations, ConsumerLocations, Threads
<1>2. pc' = moved \/ \E w \in Asleep : pc' \in NotifyOne(moved, w)
  OBVIOUS
<1> HIDE DEF moved
<1>3. \A s \in Threads : pc'[s] = moved[s] \/ (moved[s] \in Asleep /\ pc'[s] = Resume(moved[s]))
  BY <1>1, <1>2, NotifyOneWakes
<1>4. \A k \in Controllers : moved[k] = pc[k] /\ pc[k] \notin Asleep
  <2> TAKE k \in Controllers
  <2>1. k \in Threads /\ k # t
    BY ThreadsDisjoint DEF Threads
  <2>2. pc[k] \in ControllerLocations
    BY DEF TypeInv, TypeOK
  <2> QED
    BY <1>1, <2>1, <2>2 DEF ControllerLocations, Asleep
<1>5. \A s \in Threads : Resume(moved[s]) \notin Asleep \cup Holding
  BY DEF Resume, Asleep, Holding
<1>6. home \notin Asleep \cup Holding
  BY DEF Asleep, Holding
<1> QED
  BY <1>1, <1>3, <1>4, <1>5, <1>6 DEF Calm, Threads

LEMMA ProducerCalm ==
    ASSUME TypeInv, NEW p \in Producers,
           Push(p) \/ PushTooLate(p) \/ PushBatch(p) \/ Pushing(p)
    PROVE  Calm
<1>1. ASSUME NEW us, NEW m, BeginPush(p, us, m)
      PROVE  Calm
  BY <1>1, ReturnCalm DEF BeginPush, store
<1>2. CASE Push(p) \/ PushTooLate(p) \/ PushBatch(p)
  BY <1>1, <1>2 DEF Push, PushTooLate, PushBatch, Calm, store
<1>3. ASSUME Refuse(p) PROVE Calm
  BY <1>3, ReturnCalm DEF Refuse, Advanced, store
<1>4. ASSUME Throw(p) PROVE Calm
  BY <1>4, ReturnCalm DEF Throw, store
<1>5. ASSUME NEW q, EnqueueOn(p, q) PROVE Calm
  BY <1>5 DEF EnqueueOn, Calm, TypeInv, TypeOK, Asleep, Holding, Threads
<1>6. ASSUME AwaitRoom(p) PROVE Calm
  BY <1>3, <1>5, <1>6, GoToCalm DEF AwaitRoom, Enqueue
<1>7. CASE PushCheck(p)
  BY <1>3, <1>7, GoToCalm DEF PushCheck
<1>8. CASE PushLock(p) \/ PushRelock(p)
  BY <1>3, <1>4, <1>5, <1>6, <1>8 DEF PushLock, PushRelock, Enqueue, Overwrite
<1>9. CASE PushSleep(p)
  BY <1>9, GoToCalm DEF PushSleep, Holding, Asleep
<1>10. CASE PushNotify(p)
  BY <1>10, ReturnCalm DEF PushNotify, Advanced, store, history, Asleep
<1> QED
  BY <1>2, <1>7, <1>8, <1>9, <1>10 DEF Pushing

LEMMA ConsumerCalm ==
    ASSUME TypeInv, NEW c \in Consumers,
           Pop(c) \/ TryPop(c) \/ TryPopFor(c) \/ PopBatch(c) \/ Fetching(c)
    PROVE  Calm
<1>1. ASSUME NEW op, NEW n, Call(c, op, n) PROVE Calm
  BY <1>1 DEF Call, Calm, TypeInv, TypeOK, store, history, Asleep, Holding, Threads
<1>2. ASSUME TakeAndNotify(c) PROVE Calm
  BY <1>2, ReturnCalm DEF TakeAndNotify, Return, TakeFront, Asleep
<1>3. ASSUME TakeThenNotify(c) PROVE Calm
  <2>1. UNCHANGED <<closed, missed>>
    BY <1>3 DEF TakeThenNotify, TakeFront
  <2>2. CASE Return(c, [pc EXCEPT ![c] = "idle"])
    BY <2>1, <2>2, ReturnCalm DEF Return
  <2>3. CASE pc' = [pc EXCEPT ![c] = "pop_notify"]
    BY <2>1, <2>3 DEF Calm, TypeInv, TypeOK, Asleep, Holding, Threads
  <2> QED
    BY <1>3, <2>2, <2>3 DEF TakeThenNotify
<1>4. ASSUME ReturnNull(c) PROVE Calm
  BY <1>4, ReturnCalm DEF ReturnNull, Return, store, history
<1>5. CASE Pop(c) \/ TryPopFor(c) \/ PopBatch(c)
  BY <1>1, <1>5 DEF Pop, TryPopFor, PopBatch
<1>6. CASE TryPop(c)
  BY <1>2, <1>6 DEF TryPop
<1>7. CASE PopLock(c)
  BY <1>2, <1>3, <1>4, <1>7, GoToCalm DEF PopLock, TakeFor
<1>8. CASE PopSleep(c)
  BY <1>8, GoToCalm DEF PopSleep, Holding, Asleep
<1>9. CASE PopTimeout(c)
  BY <1>9, GoToCalm DEF PopTimeout, Holding, Asleep
<1>10. CASE PopTimedOut(c)
  BY <1>3, <1>4, <1>10 DEF PopTimedOut
<1>11. CASE PopNotify(c)
  BY <1>11, ReturnCalm DEF PopNotify, Return, store, history, Asleep
<1> QED
  BY <1>5, <1>6, <1>7, <1>8, <1>9, <1>10, <1>11 DEF Fetching

LEMMA ControllerClose ==
    ASSUME TypeInv, CloseInv, NEW k \in Controllers,
           Close(k) \/ Clear(k) \/ SetMaxSize(k) \/ Closing(k)
    PROVE  CloseInv'
<1>1. CASE Close(k)
  <2>1. k \in Threads /\ pc'[k] = "close_empty"
    BY <1>1 DEF Close, TypeInv, TypeOK, Threads
  <2>2. \A t \in Threads \ {k} : pc'[t] = pc[t]
    BY <1>1 DEF Close, TypeInv, TypeOK
  <2> QED
    BY <1>1, <2>1, <2>2 DEF Close, CloseInv, Holding
<1>2. CASE Clear(k) \/ SetMaxSize(k)
  BY <1>2 DEF Clear, SetMaxSize, CloseInv, history
<1>3. ASSUME NEW next \in {"idle", "close_full"}, NEW w \in Asleep,
             pc' = NotifyAll([pc EXCEPT ![k] = next], w)
      PROVE  \A t \in Threads :
                /\ pc'[t] # w
                /\ pc'[t] \in Asleep \cup Holding => pc'[t] = pc[t]
                /\ t \in Controllers \ {k} => pc'[t] = pc[t]
                /\ pc'[k] = next
  <2> DEFINE moved == [pc EXCEPT ![k] = next]
  <2>1. Placed(moved) /\ \A t \in Threads : moved[t] = IF t = k THEN next ELSE pc[t]
    BY DEF TypeInv, TypeOK, Placed, Locations, ControllerLocations, Threads
  <2>2. pc' = NotifyAll(moved, w)
    BY <1>3
  <2> HIDE DEF moved
  <2>3. \A t \in Threads : pc'[t] = IF moved[t] = w THEN Resume(w) ELSE moved[t]
    BY <2>1, <2>2, NotifyAllWakes
  <2>4. Resume(w) \notin Asleep \cup Holding /\ Resume(w) # w /\ next \notin Asleep \cup Holding
    BY DEF Resume, Asleep, Holding
  <2>5. \A t \in Controllers : pc[t] # w /\ t \in Threads
    BY DEF TypeInv, TypeOK, ControllerLocations, Asleep, Threads
  <2> QED
    BY <2>1, <2>3, <2>4, <2>5
<1>4. CASE CloseEmpty(k)
  <2>1. \A t \in Threads :
                /\ pc'[t] # "wait_empty"
                /\ pc'[t] \in Asleep \cup Holding => pc'[t] = pc[t]
                /\ t \in Controllers \ {k} => pc'[t] = pc[t]
                /\ pc'[k] = "close_full"
    BY <1>3, <1>4 DEF CloseEmpty, Asleep
  <2>2. UNCHANGED <<closed, missed>>
    BY <1>4 DEF CloseEmpty, store, history
  <2> QED
    BY <2>1, <2>2 DEF CloseInv, Asleep, Holding, Threads
<1>5. CASE CloseFull(k)
  <2>1. \A t \in Threads :
                /\ pc'[t] # "wait_full"
                /\ pc'[t] \in Asleep \cup Holding => pc'[t] = pc[t]
                /\ t \in Controllers \ {k} => pc'[t] = pc[t]
    BY <1>3, <1>5 DEF CloseFull, Asleep
  <2>2. UNCHANGED <<closed, missed>> /\ pc[k] = "close_full"
    BY <1>5 DEF CloseFull, store, history
  <2> QED
    BY <2>1, <2>2 DEF CloseInv, Asleep, Holding, Threads
<1> QED
  BY <1>1, <1>2, <1>4, <1>5 DEF Closing

(* Whatever threads there are, a thread that sleeps in a closed queue after*)
(* close is done had evaluated its predicate before _closed was stored.    *)
THEOREM StrandedRaced == Spec => []CloseStrandsOnlyRacers
<1>1. Init => CloseInv
  BY DEF Init, CloseInv
<1>2. TypeInv /\ CloseInv /\ [Next]_vars => CloseInv'
  <2> SUFFICES ASSUME TypeInv, CloseInv, [Next]_vars PROVE CloseInv'
    OBVIOUS
  <2>1. CASE UNCHANGED vars
    BY <2>1 DEF vars, store, history, CloseInv
  <2>2. ASSUME NEW t \in Threads, SpuriousWakeup(t) PROVE CloseInv'
    <3>1. t \in Producers \cup Consumers
      BY <2>2 DEF SpuriousWakeup, Asleep, TypeInv, TypeOK, ControllerLocations, Threads
    <3>2. Resume(pc[t]) \notin Asleep \cup Holding
      BY DEF Resume, Asleep, Holding
    <3> QED
      BY <2>2, <3>1, <3>2, GoToCalm, CalmPreserves DEF SpuriousWakeup
  <2> QED
    BY <2>1, <2>2, ProducerCalm, ConsumerCalm, CalmPreserves, ControllerClose DEF Next
<1>3. TypeInv /\ CloseInv => CloseStrandsOnlyRacers
  BY DEF CloseInv, CloseStrandsOnlyRacers, At, Threads
<1> QED
  BY <1>1, <1>2, <1>3, TypeCorrect, PTL DEF Spec

-----------------------------------------------------------------------------
(* FIFO delivery.  The units ever let in and not lost, delivered ones first,*)
(* form a run of increasing tickets; a unit still to be pushed has none.   *)

Run == delivered \o rank_unit_standard

RunInv ==
    /\ \A u \in Units : ticket[u] <= accepts
    /\ \A u \in Units : result[u] = "unsubmitted" => ticket[u] = 0
    /\ \A i \in 1..Len(Run) : ticket[Run[i]] > 0
    /\ \A i, j \in 1..Len(Run) : i < j => ticket[Run[i]] < ticket[Run[j]]

TodoInv ==
    /\ \A p \in Producers : \A i \in 1..Len(todo[p]) :
          /\ result[todo[p][i]] # "unsubmitted"
          /\ i > 1 \/ pc[p] # "push_notify" => ticket[todo[p][i]] = 0
    /\ \A p, q \in Producers : \A i \in 1..Len(todo[p]), j \in 1..Len(todo[q]) :
          todo[p][i] = todo[q][j] => p = q /\ i = j

OrderInv == RunInv /\ TodoInv

LEMMA RunIsSeq ==
    TypeOK => /\ Run \in Seq(Units)
              /\ Len(Run) = Len(delivered) + Size
              /\ \A i \in 1..Len(Run) : Run[i] \in Units
BY DEF TypeOK, Run, Size

LEMMA RunIsFifo == TypeOK => (RunInv => FifoDelivery)
<1> SUFFICES ASSUME TypeOK, RunInv PROVE FifoDelivery
  OBVIOUS
<1>1. DOMAIN Run = 1..Len(Run)
  BY RunIsSeq
<1> QED
  BY <1>1 DEF RunInv, FifoDelivery, Run

(* Steps that hand units on, or change only the locations and the controls.*)
LEMMA SameRun ==
    ASSUME TypeInv, RunInv, Run' = Run, UNCHANGED <<accepts, ticket>>,
           \A u \in Units : result'[u] = "unsubmitted" => result[u] = "unsubmitted"
    PROVE  RunInv'
BY DEF RunInv

LEMMA SameTodo ==
    ASSUME TypeInv, TodoInv, UNCHANGED <<todo, ticket>>,
           \A u \in Units : result'[u] = "unsubmitted" => result[u] = "unsubmitted",
           \A p \in Producers : pc[p] = "push_notify" => pc'[p] = "push_notify"
    PROVE  TodoInv'
<1>1. \A p \in Producers : \A i \in 1..Len(todo[p]) : todo[p][i] \in Units
  BY DEF TypeInv, TypeOK
<1>2. \A p \in Producers : \A i \in 1..Len(todo'[p]) :
          /\ result'[todo'[p][i]] # "unsubmitted"
          /\ i > 1 \/ pc'[p] # "push_notify" => ticket'[todo'[p][i]] = 0
  BY <1>1 DEF TodoInv
<1>3. \A p, q \in Producers : \A i \in 1..Len(todo'[p]), j \in 1..Len(todo'[q]) :
          todo'[p][i] = todo'[q][j] => p = q /\ i = j
  BY DEF TodoInv
<1> QED
  BY <1>2, <1>3 DEF TodoInv

(* A call starts with units nobody submitted before.                       *)
LEMMA BeginPushOrder ==
    ASSUME TypeInv, OrderInv, NEW p \in Producers, NEW us \in Seq(Units), NEW m,
           \A i \in 1..Len(us) : result[us[i]] = "unsubmitted",
           \A i, j \in 1..Len(us) : us[i] = us[j] => i = j,
           BeginPush(p, us, m)
    PROVE  OrderInv'
<1>1. /\ \A i \in 1..Len(us) : us[i] \in Units
      /\ \A u \in Units : result'[u] = "unsubmitted" =>
            result[u] = "unsubmitted" /\ \A i \in 1..Len(us) : us[i] # u
      /\ \A q \in Producers : todo'[q] = IF q = p THEN us ELSE todo[q]
      /\ \A q \in Producers : pc'[q] = IF q = p THEN "push_check" ELSE pc[q]
      /\ UNCHANGED ticket
  BY DEF BeginPush, TypeInv, TypeOK, Threads
<1>2. RunInv'
  BY <1>1, SameRun DEF OrderInv, BeginPush, Run, store
<1>3. \A q \in Producers : \A i \in 1..Len(todo[q]) : todo[q][i] \in Units
  BY DEF TypeInv, TypeOK
<1>4. \A q \in Producers : \A i \in 1..Len(todo[q]), j \in 1..Len(us) : todo[q][i] # us[j]
  BY DEF OrderInv, TodoInv
<1>5. \A i \in 1..Len(us) : ticket[us[i]] = 0
  BY <1>1 DEF OrderInv, RunInv
<1>6. TodoInv'
  <2>1. ASSUME NEW q \in Producers, NEW i \in 1..Len(todo'[q])
        PROVE  /\ result'[todo'[q][i]] # "unsubmitted"
               /\ i > 1 \/ pc'[q] # "push_notify" => ticket'[todo'[q][i]] = 0
    BY <1>1, <1>3, <1>5, <2>1 DEF OrderInv, TodoInv
  <2>2. ASSUME NEW q \in Producers, NEW r \in Producers,
               NEW i \in 1..Len(todo'[q]), NEW j \in 1..Len(todo'[r]),
               todo'[q][i] = todo'[r][j]
        PROVE  q = r /\ i = j
    BY <1>1, <1>4, <2>2 DEF OrderInv, TodoInv
  <2> QED
    BY <2>1, <2>2 DEF TodoInv
<1> QED
  BY <1>2, <1>6 DEF OrderInv

(* Moving on to the next unit of a batch.                                  *)
LEMMA AdvanceOrder ==
    ASSUME TypeInv, TodoInv, NEW p \in Producers, todo[p] # <<>>, Advance(p),
           UNCHANGED ticket,
           \A u \in Units : result'[u] = "unsubmitted" => result[u] = "unsubmitted",
           \A q \in Producers \ {p} : pc[q] = "push_notify" => pc'[q] = "push_notify"
    PROVE  TodoInv'
<1>1. /\ todo[p] \in Seq(Units)
      /\ \A q \in Producers : todo'[q] = IF q = p THEN Tail(todo[p]) ELSE todo[q]
  BY DEF Advance, TypeInv, TypeOK
<1>2. /\ Len(Tail(todo[p])) = Len(todo[p]) - 1
      /\ \A i \in 1..Len(Tail(todo[p])) : Tail(todo[p])[i] = todo[p][i + 1]
      /\ Len(todo[p]) \in Nat
  BY <1>1, HeadTailProperties
<1>3. \A q \in Producers : \A i \in 1..Len(todo[q]) : todo[q][i] \in Units
  BY DEF TypeInv, TypeOK
<1>4. \A q \in Producers : \A i \in 1..Len(todo'[q]) :
        \E k \in 1..Len(todo[q]) :
            todo'[q][i] = todo[q][k] /\ k = (IF q = p THEN i + 1 ELSE i)
  <2> TAKE q \in Producers
  <2> TAKE i \in 1..Len(todo'[q])
  <2>1. CASE q = p
    <3>1. todo'[q] = Tail(todo[p])
      BY <1>1, <2>1
    <3>2. i \in 1..(Len(todo[p]) - 1) /\ todo'[q][i] = todo[p][i + 1]
      BY <1>2, <3>1
    <3>3. i + 1 \in 1..Len(todo[p])
      BY <1>2, <3>2
    <3> QED
      BY <2>1, <3>2, <3>3
  <2>2. CASE q # p
    BY <1>1, <2>2
  <2> QED
    BY <2>1, <2>2
<1>5. ASSUME NEW q \in Producers, NEW i \in 1..Len(todo'[q])
      PROVE  /\ result'[todo'[q][i]] # "unsubmitted"
             /\ i > 1 \/ pc'[q] # "push_notify" => ticket'[todo'[q][i]] = 0
  <2>1. PICK k \in 1..Len(todo[q]) :
            todo'[q][i] = todo[q][k] /\ k = (IF q = p THEN i + 1 ELSE i)
    BY <1>4, <1>5
  <2> QED
    BY <1>3, <2>1 DEF TodoInv
<1>6. ASSUME NEW q \in Producers, NEW r \in Producers,
             NEW i \in 1..Len(todo'[q]), NEW j \in 1..Len(todo'[r]),
             todo'[q][i] = todo'[r][j]
      PROVE  q = r /\ i = j
  <2>1. PICK k \in 1..Len(todo[q]) :
            todo'[q][i] = todo[q][k] /\ k = (IF q = p THEN i + 1 ELSE i)
    BY <1>4, <1>6
  <2>2. PICK l \in 1..Len(todo[r]) :
            todo'[r][j] = todo[r][l] /\ l = (IF r = p THEN j + 1 ELSE j)
    BY <1>4, <1>6
  <2>3. todo[q][k] = todo[r][l]
    BY <1>6, <2>1, <2>2
  <2>4. \A a, b \in Producers : \A m \in 1..Len(todo[a]), n \in 1..Len(todo[b]) :
            todo[a][m] = todo[b][n] => a = b /\ m = n
    BY DEF TodoInv
  <2>5. q = r /\ k = l
    BY <2>3, <2>4
  <2> QED
    BY <2>1, <2>2, <2>5
<1> QED
  BY <1>5, <1>6 DEF TodoInv

LEMMA RefuseOrder ==
    ASSUME TypeInv, OrderInv, NEW p \in Producers, pc[p] # "idle", Refuse(p)
    PROVE  OrderInv'
<1>1. todo[p] # <<>> /\ Advance(p) /\ Head(todo[p]) \in Units
  BY AdvanceType DEF TypeInv, Busy, Refuse
<1>2. \A u \in Units : result'[u] = "unsubmitted" => result[u] = "unsubmitted"
  BY <1>1 DEF Refuse, TypeInv, TypeOK
<1>3. \A q \in Producers \ {p} : pc'[q] = pc[q]
  BY DEF Refuse, TypeInv, TypeOK, Threads
<1> QED
  BY <1>1, <1>2, <1>3, AdvanceOrder, SameRun DEF OrderInv, Refuse, Run, store

LEMMA ThrowOrder ==
    ASSUME TypeInv, OrderInv, NEW p \in Producers, Throw(p)
    PROVE  OrderInv'
<1>1. \A u \in Units : result'[u] = "unsubmitted" => result[u] = "unsubmitted"
  BY DEF Throw
<1>2. RunInv'
  BY <1>1, SameRun DEF OrderInv, Throw, Run, store
<1>3. /\ \A q \in Producers : todo'[q] = IF q = p THEN <<>> ELSE todo[q]
      /\ \A q \in Producers \ {p} : pc'[q] = pc[q]
      /\ UNCHANGED ticket
  BY DEF Throw, TypeInv, TypeOK, Threads
<1>4. \A q \in Producers : \A i \in 1..Len(todo[q]) : todo[q][i] \in Units
  BY DEF TypeInv, TypeOK
<1>5. \A q \in Producers : \A i \in 1..Len(todo'[q]) : q # p /\ todo'[q] = todo[q]
  BY <1>3
<1>6. \A q \in Producers : \A i \in 1..Len(todo'[q]) :
          /\ result'[todo'[q][i]] # "unsubmitted"
          /\ i > 1 \/ pc'[q] # "push_notify" => ticket'[todo'[q][i]] = 0
  BY <1>1, <1>3, <1>4, <1>5 DEF OrderInv, TodoInv
<1>7. \A q, r \in Producers : \A i \in 1..Len(todo'[q]), j \in 1..Len(todo'[r]) :
          todo'[q][i] = todo'[r][j] => q = r /\ i = j
  BY <1>5, SMTT(30) DEF OrderInv, TodoInv
<1> QED
  BY <1>2, <1>6, <1>7 DEF OrderInv, TodoInv

(* The new unit gets the greatest ticket and goes to the end of what is    *)
(* left of the run: the whole run, or the run without its newest unit.     *)
LEMMA EnqueueOrder ==
    ASSUME TypeInv, OrderInv, NEW p \in Producers,
           pc[p] \notin {"idle", "push_notify"},
           NEW q \in Seq(Units), Len(q) <= Size,
           \A i \in 1..Len(q) : q[i] = rank_unit_standard[i],
           EnqueueOn(p, q)
    PROVE  OrderInv'
<1> DEFINE u == todo[p][1]
<1>1. /\ todo[p] \in Seq(Units) /\ Len(todo[p]) \in Nat /\ 1 \in 1..Len(todo[p])
      /\ u = Head(todo[p]) /\ u \in Units
  BY HeadTailProperties DEF TypeInv, TypeOK, Busy
<1>2. ticket[u] = 0 /\ result[u] # "unsubmitted"
  BY <1>1 DEF OrderInv, TodoInv
<1> HIDE DEF u
<1>3. /\ accepts' = accepts + 1
      /\ \A v \in Units : ticket'[v] = IF v = u THEN accepts + 1 ELSE ticket[v]
      /\ \A v \in Units : result'[v] = IF v = u THEN "true" ELSE result[v]
      /\ \A r \in Producers : pc'[r] = IF r = p THEN "push_notify" ELSE pc[r]
      /\ UNCHANGED <<todo, delivered>>
      /\ rank_unit_standard' = Append(q, u)
  BY <1>1 DEF EnqueueOn, TypeInv, TypeOK, producing, Threads
<1>4. accepts \in Nat /\ ticket \in [Units -> Nat] /\ delivered \in Seq(Units)
  BY DEF TypeInv, TypeOK
<1> DEFINE n == Len(delivered) + Len(q)
<1>5. /\ n \in 0..Len(Run)
      /\ Len(Run') = n + 1
      /\ Run'[n + 1] = u
      /\ \A i \in 1..n : Run'[i] = Run[i] /\ Run[i] \in Units
  <2>1. rank_unit_standard \in Seq(Units) /\ Size = Len(rank_unit_standard)
    BY DEF TypeInv, TypeOK, Size
  <2>2. Append(q, u) \in Seq(Units) /\ Len(Append(q, u)) = Len(q) + 1
    BY <1>1
  <2>3. Run' = delivered \o Append(q, u)
    BY <1>3 DEF Run
  <2>4. /\ Len(Run) = Len(delivered) + Size
        /\ \A i \in 1..(Len(delivered) + Size) : Run[i] =
              IF i <= Len(delivered) THEN delivered[i]
              ELSE rank_unit_standard[i - Len(delivered)]
    BY <1>4, <2>1 DEF Run
  <2> DEFINE tail == Append(q, u)
  <2>5. /\ Len(tail) = Len(q) + 1 /\ tail \in Seq(Units)
        /\ tail[Len(q) + 1] = u
        /\ \A i \in 1..Len(q) : tail[i] = q[i]
    BY <1>1
  <2>6. Run' = delivered \o tail
    BY <2>3
  <2> HIDE DEF tail
  <2>7. /\ Len(Run') = Len(delivered) + Len(tail)
        /\ \A i \in 1..(Len(delivered) + Len(tail)) : Run'[i] =
              IF i <= Len(delivered) THEN delivered[i] ELSE tail[i - Len(delivered)]
    <3>1. delivered \in Seq(Units) /\ tail \in Seq(Units)
      BY <1>4, <2>5
    <3> QED
      BY <2>6, <3>1
  <2>8. Len(delivered) \in Nat /\ Len(q) \in Nat /\ Size \in Nat
    BY <1>4, <2>1
  <2>9. n \in 0..Len(Run) /\ Len(Run') = n + 1 /\ Run'[n + 1] = u
    BY <2>4, <2>5, <2>7, <2>8
  <2>10. \A i \in 1..n : Run[i] \in Units
    BY <2>9, RunIsSeq DEF TypeInv
  <2>11. \A i \in 1..n : Run'[i] = Run[i]
    <3> TAKE i \in 1..n
    <3>1. CASE i <= Len(delivered)
      BY <2>4, <2>5, <2>7, <2>8, <3>1
    <3>2. CASE i > Len(delivered)
      <4>1. i - Len(delivered) \in 1..Len(q)
        BY <2>8, <3>2
      <4>2. Run'[i] = tail[i - Len(delivered)]
        BY <2>5, <2>7, <2>8, <3>2
      <4>3. Run[i] = rank_unit_standard[i - Len(delivered)]
        BY <2>4, <2>8, <2>9, <3>2
      <4> QED
        BY <2>5, <4>1, <4>2, <4>3
    <3> QED
      BY <2>8, <3>1, <3>2
  <2> QED
    BY <2>9, <2>10, <2>11
<1> HIDE DEF n
<1>6. \A i \in 1..n : ticket[Run[i]] > 0 /\ Run[i] # u
  BY <1>2, <1>5 DEF OrderInv, RunInv
<1>7. RunInv'
  <2>1. \A v \in Units : ticket'[v] <= accepts'
    <3>1. \A v \in Units : ticket[v] \in Nat /\ ticket[v] <= accepts
      BY <1>4 DEF OrderInv, RunInv
    <3>2. \A v \in Units : ticket'[v] = IF v = u THEN accepts + 1 ELSE ticket[v]
      BY <1>3, Zenon
    <3>3. accepts' = accepts + 1
      BY <1>3
    <3>4. accepts \in Nat
      BY <1>4
    <3> TAKE v \in Units
    <3>5. CASE v = u
      BY <3>2, <3>3, <3>4, <3>5
    <3>6. CASE v # u
      BY <3>1, <3>2, <3>3, <3>4, <3>6
    <3> QED
      BY <3>5, <3>6
  <2>2. \A v \in Units : result'[v] = "unsubmitted" => ticket'[v] = 0
    BY <1>3 DEF OrderInv, RunInv
  <2>3. \A i \in 1..n : ticket'[Run'[i]] = ticket[Run[i]]
    BY <1>3, <1>5, <1>6
  <2>4. ticket'[Run'[n + 1]] = accepts + 1
    BY <1>1, <1>3, <1>5
  <2>5. \A i \in 1..n : ticket[Run[i]] <= accepts
    BY <1>5 DEF OrderInv, RunInv
  <2>6. \A i \in 1..Len(Run') : ticket'[Run'[i]] > 0
    <3> TAKE i \in 1..Len(Run')
    <3>1. CASE i \in 1..n
      BY <1>6, <2>3, <3>1
    <3>2. CASE i = n + 1
      BY <1>4, <2>4, <3>2
    <3> QED
      BY <1>5, <3>1, <3>2
  <2>7. \A i, j \in 1..Len(Run') : i < j => ticket'[Run'[i]] < ticket'[Run'[j]]
    <3> TAKE i, j \in 1..Len(Run')
    <3> HAVE i < j
    <3>1. i \in 1..n
      BY <1>5
    <3>2. CASE j \in 1..n
      BY <1>5, <2>3, <3>1, <3>2 DEF OrderInv, RunInv
    <3>3. CASE j = n + 1
      BY <1>4, <2>3, <2>4, <2>5, <3>1, <3>3, <1>5
    <3> QED
      BY <1>5, <3>2, <3>3
  <2> QED
    BY <2>1, <2>2, <2>6, <2>7 DEF RunInv
<1>8. TodoInv'
  <2>1. \A r \in Producers : \A i \in 1..Len(todo[r]) :
            todo[r][i] \in Units /\ (todo[r][i] = u => r = p /\ i = 1)
    BY <1>1 DEF OrderInv, TodoInv, u, TypeInv, TypeOK
  <2>2. \A r \in Producers : \A i \in 1..Len(todo'[r]) :
          /\ result'[todo'[r][i]] # "unsubmitted"
          /\ i > 1 \/ pc'[r] # "push_notify" => ticket'[todo'[r][i]] = 0
    <3> TAKE r \in Producers
    <3> TAKE i \in 1..Len(todo'[r])
    <3>1. i \in 1..Len(todo[r]) /\ todo'[r][i] = todo[r][i]
      BY <1>3
    <3>2. CASE todo[r][i] = u
      BY <1>3, <2>1, <3>1, <3>2
    <3>3. CASE todo[r][i] # u
      BY <1>3, <2>1, <3>1, <3>3 DEF OrderInv, TodoInv
    <3> QED
      BY <3>2, <3>3
  <2>3. \A r, s \in Producers : \A i \in 1..Len(todo'[r]), j \in 1..Len(todo'[s]) :
          todo'[r][i] = todo'[s][j] => r = s /\ i = j
    BY <1>3 DEF OrderInv, TodoInv
  <2> QED
    BY <2>2, <2>3 DEF TodoInv
<1> QED
  BY <1>7, <1>8 DEF OrderInv

LEMMA PushBackOrder ==
    ASSUME TypeInv, OrderInv, NEW p \in Producers,
           pc[p] \in {"push_lock", "push_relock"}, Enqueue(p)
    PROVE  OrderInv'
<1>1. /\ rank_unit_standard \in Seq(Units)
      /\ Len(rank_unit_standard) <= Size
      /\ \A i \in 1..Len(rank_unit_standard) :
            rank_unit_standard[i] = rank_unit_standard[i]
  BY DEF TypeInv, TypeOK, Size
<1>2. EnqueueOn(p, rank_unit_standard)
  BY DEF Enqueue
<1>3. pc[p] \notin {"idle", "push_notify"}
  OBVIOUS
<1> QED
  BY <1>1, <1>2, <1>3, EnqueueOrder

LEMMA AwaitRoomOrder ==
    ASSUME TypeInv, OrderInv, NEW p \in Producers,
           pc[p] \in {"push_lock", "push_relock"}, AwaitRoom(p)
    PROVE  OrderInv'
<1>1. CASE Refuse(p)
  BY <1>1, RefuseOrder
<1>2. CASE Enqueue(p)
  BY <1>2, PushBackOrder
<1>3. CASE GoTo(p, "push_sleep")
  <2>1. \A q \in Producers : pc[q] = "push_notify" => pc'[q] = "push_notify"
    BY <1>3 DEF GoTo, TypeInv, TypeOK, Threads
  <2> QED
    BY <1>3, <2>1, SameRun, SameTodo DEF GoTo, OrderInv, Run, store, producing, history
<1> QED
  BY <1>1, <1>2, <1>3 DEF AwaitRoom

LEMMA ProducerOrder ==
    ASSUME TypeInv, OrderInv, NEW p \in Producers,
           Push(p) \/ PushTooLate(p) \/ PushBatch(p) \/ Pushing(p)
    PROVE  OrderInv'
<1>1. CASE Push(p)
  <2>1. PICK u \in Fresh, m \in Modes : BeginPush(p, <<u>>, m)
    BY <1>1 DEF Push
  <2>2. /\ <<u>> \in Seq(Units)
        /\ \A i \in 1..Len(<<u>>) : i = 1 /\ result[<<u>>[i]] = "unsubmitted"
    BY DEF Fresh
  <2> QED
    BY <2>1, <2>2, BeginPushOrder
<1>2. ASSUME UNCHANGED <<store, pc, producing, accepts, ticket, delivered>>,
             \A u \in Units : result'[u] = "unsubmitted" => result[u] = "unsubmitted"
      PROVE  OrderInv'
  BY <1>2, SameRun, SameTodo DEF OrderInv, Run, store, producing
<1>3. CASE PushTooLate(p)
  BY <1>2, <1>3 DEF PushTooLate, TypeInv, TypeOK
<1>4. CASE PushBatch(p)
  <2>1. PICK u \in Fresh, v \in Fresh, m \in Modes :
          /\ u # v
          /\ \/ BeginPush(p, <<u, v>>, m)
             \/ /\ result' = [result EXCEPT ![u] = "false", ![v] = "false"]
                /\ UNCHANGED <<store, pc, producing, consuming, accepts, ticket,
                               delivered, lost, missed>>
    BY <1>4 DEF PushBatch
  <2> DEFINE us == <<u, v>>
  <2>2. /\ us \in Seq(Units) /\ Len(us) = 2 /\ us[1] = u /\ us[2] = v
        /\ result[u] = "unsubmitted" /\ result[v] = "unsubmitted"
    BY DEF Fresh
  <2> HIDE DEF us
  <2>3. /\ \A i \in 1..Len(us) : result[us[i]] = "unsubmitted"
        /\ \A i, j \in 1..Len(us) : us[i] = us[j] => i = j
    BY <2>1, <2>2
  <2>4. CASE BeginPush(p, us, m)
    BY <2>2, <2>3, <2>4, BeginPushOrder
  <2>5. CASE ~BeginPush(p, us, m)
    <3>1. /\ UNCHANGED <<store, pc, producing, accepts, ticket, delivered>>
          /\ result' = [result EXCEPT ![u] = "false", ![v] = "false"]
      BY <2>1, <2>5 DEF us
    <3>2. \A w \in Units : result'[w] = "unsubmitted" => result[w] = "unsubmitted"
      BY <3>1 DEF TypeInv, TypeOK
    <3> QED
      BY <1>2, <3>1, <3>2
  <2> QED
    BY <2>4, <2>5
<1>5. ASSUME NEW location, pc[p] # "push_notify", GoTo(p, location)
      PROVE  OrderInv'
  <2>1. \A q \in Producers : pc[q] = "push_notify" => pc'[q] = "push_notify"
    BY <1>5 DEF GoTo, TypeInv, TypeOK, Threads
  <2> QED
    BY <1>5, <2>1, SameRun, SameTodo DEF GoTo, OrderInv, Run, store, producing, history
<1>6. CASE PushCheck(p)
  BY <1>5, <1>6, RefuseOrder DEF PushCheck
<1>7. CASE PushLock(p)
  <2>1. pc[p] = "push_lock"
    BY <1>7 DEF PushLock
  <2>2. CASE Enqueue(p)
    BY <2>1, <2>2, PushBackOrder
  <2>3. CASE ~HasRoom /\ Overwrite(p)
    <3> DEFINE q == SubSeq(rank_unit_standard, 1, Size - 1)
    <3>1. Size \in Nat \ {0} /\ rank_unit_standard \in Seq(Units) /\ Size = Len(rank_unit_standard)
      BY <2>3 DEF TypeInv, TypeOK, HasRoom, Bounded, Size
    <3>2. q \in Seq(Units) /\ Len(q) = Size - 1 /\ \A i \in 1..Len(q) : q[i] = rank_unit_standard[i]
      BY <3>1
    <3>3. EnqueueOn(p, q)
      BY <2>3 DEF Overwrite
    <3> HIDE DEF q
    <3> QED
      BY <2>1, <3>1, <3>2, <3>3, EnqueueOrder
  <2> QED
    BY <1>7, <2>1, <2>2, <2>3, AwaitRoomOrder, ThrowOrder, RefuseOrder DEF PushLock
<1>8. CASE PushSleep(p)
  BY <1>5, <1>8 DEF PushSleep
<1>9. CASE PushRelock(p)
  BY <1>9, AwaitRoomOrder DEF PushRelock
<1>10. CASE PushNotify(p)
  <2>1. todo[p] # <<>> /\ Advance(p)
    BY <1>10 DEF PushNotify, TypeInv, Busy
  <2> DEFINE moved == [pc EXCEPT ![p] = Advanced(p)]
  <2>2. /\ Placed(moved)
        /\ \A t \in Threads : moved[t] = IF t = p THEN Advanced(p) ELSE pc[t]
    BY <2>1, AdvanceType DEF TypeInv, TypeOK, Placed, Locations, Threads
  <2>3. pc' \in NotifyOne(moved, "wait_empty")
    BY <1>10 DEF PushNotify
  <2> HIDE DEF moved
  <2>4. \A t \in Threads : moved[t] = "push_notify" => pc'[t] = "push_notify"
    BY <2>2, <2>3, NotifyOneWakes DEF Asleep
  <2>5. \A q \in Producers \ {p} : pc[q] = "push_notify" => pc'[q] = "push_notify"
    BY <2>2, <2>4 DEF Threads
  <2> QED
    BY <1>10, <2>1, <2>5, AdvanceOrder, SameRun
    DEF PushNotify, OrderInv, Run, store, history
<1> QED
  BY <1>1, <1>3, <1>4, <1>6, <1>7, <1>8, <1>9, <1>10 DEF Pushing

(* A worker's step keeps the run, whatever it takes off the front.         *)
LEMMA ConsumerOrder ==
    ASSUME TypeInv, OrderInv, NEW c \in Consumers,
           Pop(c) \/ TryPop(c) \/ TryPopFor(c) \/ PopBatch(c) \/ Fetching(c)
    PROVE  OrderInv'
<1>1. \A p \in Producers : pc[p] = "push_notify" => pc'[p] = "push_notify"
  <2>1. ASSUME \/ pc' = [pc EXCEPT ![c] = "idle"]
               \/ pc' \in NotifyOne([pc EXCEPT ![c] = "idle"], "wait_full"),
               NEW p \in Producers, pc[p] = "push_notify"
        PROVE  pc'[p] = "push_notify"
    <3> DEFINE home == [pc EXCEPT ![c] = "idle"]
    <3>1. /\ Placed(home)
          /\ \A t \in Threads : home[t] = IF t = c THEN "idle" ELSE pc[t]
      BY IdleConsumer
    <3>2. pc' = home \/ pc' \in NotifyOne(home, "wait_full")
      BY <2>1
    <3> HIDE DEF home
    <3>3. \A t \in Threads : pc'[t] = home[t] \/ home[t] = "wait_full"
      BY <3>1, <3>2, NotifyOneWakes DEF Asleep
    <3> QED
      BY <2>1, <3>1, <3>3 DEF Threads
  <2>2. ASSUME NEW location, pc' = [pc EXCEPT ![c] = location],
               NEW p \in Producers, pc[p] = "push_notify"
        PROVE  pc'[p] = "push_notify"
    BY <2>2 DEF TypeInv, TypeOK, Threads
  <2> QED
    BY <2>1, <2>2
    DEF Pop, TryPop, TryPopFor, PopBatch, Fetching, Call, PopLock, PopSleep, PopTimeout,
        PopTimedOut, PopNotify, TakeFor, TakeAndNotify, TakeThenNotify, ReturnNull,
        Return, GoTo
<1>2. UNCHANGED <<todo, accepts, ticket, result>>
  BY DEF Pop, TryPop, TryPopFor, PopBatch, Fetching, Call, PopLock, PopSleep, PopTimeout,
         PopTimedOut, PopNotify, TakeFor, TakeAndNotify, TakeThenNotify, ReturnNull,
         TakeFront, GoTo, producing, history
<1>3. Run' = Run
  <2>1. Size \in Nat /\ count[c] \in Nat
    BY DEF TypeInv, TypeOK, Size
  <2>2. ASSUME NEW n \in 0..Size, TakeFront(n) PROVE Run' = Run
    BY <2>2, TakeFrontSplits DEF Run
  <2>3. ASSUME Size > 0, TakeAndNotify(c) PROVE Run' = Run
    BY <2>1, <2>2, <2>3 DEF TakeAndNotify
  <2>4. ASSUME TakeThenNotify(c) PROVE Run' = Run
    <3> DEFINE n == IF count[c] < Size THEN count[c] ELSE Size
    <3>1. n \in 0..Size /\ TakeFront(n)
      BY <2>1, <2>4 DEF TakeThenNotify
    <3> HIDE DEF n
    <3> QED
      BY <2>2, <3>1
  <2>5. ASSUME UNCHANGED <<store, history>> PROVE Run' = Run
    BY <2>5 DEF Run, store, history
  <2> QED
    BY <2>3, <2>4, <2>5
    DEF Pop, TryPop, TryPopFor, PopBatch, Fetching, Call, PopLock, PopSleep, PopTimeout,
        PopTimedOut, PopNotify, TakeFor, ReturnNull, GoTo
<1> QED
  BY <1>1, <1>2, <1>3, SameRun, SameTodo DEF OrderInv

LEMMA ControllerOrder ==
    ASSUME TypeInv, OrderInv, NEW k \in Controllers,
           Close(k) \/ Clear(k) \/ SetMaxSize(k) \/ Closing(k)
    PROVE  OrderInv'
<1>1. \A p \in Producers : pc[p] = "push_notify" => pc'[p] = "push_notify"
  <2>1. /\ \A p \in Producers : p \in Threads
        /\ DOMAIN pc = Threads
    BY DEF TypeInv, TypeOK, Threads
  <2>2. CASE Close(k)
    BY <2>1, <2>2 DEF Close
  <2>3. CASE Clear(k) \/ SetMaxSize(k)
    BY <2>3 DEF Clear, SetMaxSize
  <2>4. CASE CloseEmpty(k)
    BY <2>1, <2>4 DEF CloseEmpty, NotifyAll
  <2>5. CASE CloseFull(k)
    BY <2>1, <2>5 DEF CloseFull, NotifyAll
  <2> QED
    BY <2>2, <2>3, <2>4, <2>5 DEF Closing
<1>2. UNCHANGED <<todo, accepts, ticket, result, delivered>>
  BY DEF Close, Clear, SetMaxSize, Closing, CloseEmpty, CloseFull, producing, history
<1>3. TodoInv'
  BY <1>1, <1>2, SameTodo DEF OrderInv
<1>4. CASE Clear(k)
  <2>1. delivered \in Seq(Units) /\ rank_unit_standard \in Seq(Units)
    BY DEF TypeInv, TypeOK
  <2>2. Run' = delivered
    BY <1>2, <1>4, <2>1 DEF Clear, Run
  <2>3. Len(delivered) <= Len(Run) /\ \A i \in 1..Len(delivered) : Run[i] = delivered[i]
    BY <2>1 DEF Run
  <2>4. Len(delivered) \in Nat /\ Len(Run) \in Nat
    BY <2>1, RunIsSeq DEF TypeInv
  <2>5. RunInv'
    BY <1>2, <2>2, <2>3, <2>4 DEF OrderInv, RunInv
  <2> QED
    BY <1>3, <2>5 DEF OrderInv
<1>5. CASE ~Clear(k)
  <2>1. UNCHANGED rank_unit_standard
    BY <1>5 DEF Close, SetMaxSize, Closing, CloseEmpty, CloseFull, store
  <2> QED
    BY <1>2, <1>3, <2>1, SameRun DEF OrderInv, Run
<1> QED
  BY <1>4, <1>5

LEMMA StepOrder == TypeInv /\ OrderInv /\ [Next]_vars => OrderInv'
<1> SUFFICES ASSUME TypeInv, OrderInv, [Next]_vars PROVE OrderInv'
  OBVIOUS
<1>1. CASE UNCHANGED vars
  BY <1>1, SameRun, SameTodo DEF vars, store, producing, history, OrderInv, Run
<1>2. ASSUME NEW t \in Threads, SpuriousWakeup(t) PROVE OrderInv'
  <2>1. \A p \in Producers : pc[p] = "push_notify" => pc'[p] = "push_notify"
    BY <1>2 DEF SpuriousWakeup, GoTo, Asleep, TypeInv, TypeOK, Threads
  <2> QED
    BY <1>2, <2>1, SameRun, SameTodo
    DEF SpuriousWakeup, GoTo, OrderInv, Run, store, producing, history
<1> QED
  BY <1>1, <1>2, ProducerOrder, ConsumerOrder, ControllerOrder DEF Next

LEMMA InitOrder == Init => OrderInv
<1> SUFFICES ASSUME Init PROVE OrderInv
  OBVIOUS
<1>1. Len(Run) = 0
  BY DEF Init, Run
<1>2. \A p \in Producers : Len(todo[p]) = 0
  BY DEF Init
<1> QED
  BY <1>1, <1>2 DEF Init, OrderInv, RunInv, TodoInv

(* However submitters, workers and controllers interleave, units are       *)
(* delivered in the order in which they were enqueued, none twice.         *)
THEOREM FifoAlways == Spec => []FifoDelivery
<1>1. TypeInv /\ OrderInv => FifoDelivery
  BY RunIsFifo DEF TypeInv, OrderInv
<1> QED
  BY <1>1, InitOrder, StepOrder, TypeCorrect, PTL DEF Spec

-----------------------------------------------------------------------------
(* Capacity. *)

Within == Size' > Size => max_storage_capacity = 0 \/ Size' <= max_storage_capacity

LEMMA ProducerWithin ==
    ASSUME TypeInv, NEW p \in Producers,
           Push(p) \/ PushTooLate(p) \/ PushBatch(p) \/ Pushing(p)
    PROVE  Within
<1>1. Size \in Nat /\ max_storage_capacity \in Nat /\ rank_unit_standard \in Seq(Units)
      /\ Size = Len(rank_unit_standard)
  BY DEF TypeInv, TypeOK, Size
<1>2. ASSUME UNCHANGED store PROVE Within
  BY <1>1, <1>2 DEF Within, Size, store
<1>3. pc[p] # "idle" => Head(todo[p]) \in Units
  BY HeadTailProperties DEF TypeInv, TypeOK, Busy
<1>4. ASSUME Enqueue(p), pc[p] # "idle" PROVE Size' = Size + 1
  BY <1>1, <1>3, <1>4, AppendProperties DEF Enqueue, EnqueueOn, Size
<1>5. ASSUME Overwrite(p), pc[p] # "idle", Size > 0 PROVE Size' = Size
  <2>1. /\ SubSeq(rank_unit_standard, 1, Size - 1) \in Seq(Units)
        /\ Len(SubSeq(rank_unit_standard, 1, Size - 1)) = Size - 1
    BY <1>1, <1>5
  <2> QED
    BY <1>1, <1>3, <1>5, <2>1, AppendProperties DEF Overwrite, EnqueueOn, Size
<1>6. ASSUME AwaitRoom(p), pc[p] # "idle" PROVE Within
  <2>1. CASE Refuse(p) \/ GoTo(p, "push_sleep")
    BY <1>2, <2>1 DEF Refuse, GoTo
  <2>2. CASE Size < max_storage_capacity /\ Enqueue(p)
    BY <1>1, <1>4, <1>6, <2>2 DEF Within
  <2> QED
    BY <1>6, <2>1, <2>2 DEF AwaitRoom
<1>7. CASE Push(p) \/ PushTooLate(p) \/ PushBatch(p)
  BY <1>2, <1>7 DEF Push, PushTooLate, PushBatch, BeginPush
<1>8. CASE PushCheck(p) \/ PushSleep(p) \/ PushNotify(p)
  BY <1>2, <1>8 DEF PushCheck, PushSleep, PushNotify, Refuse, GoTo
<1>9. CASE PushRelock(p)
  BY <1>6, <1>9 DEF PushRelock
<1>10. CASE PushLock(p)
  <2>1. pc[p] # "idle"
    BY <1>10 DEF PushLock
  <2>2. CASE HasRoom /\ Enqueue(p)
    BY <1>1, <1>4, <2>1, <2>2 DEF Within, HasRoom, Bounded
  <2>3. CASE ~HasRoom /\ Overwrite(p)
    BY <1>1, <1>5, <2>1, <2>3 DEF Within, HasRoom, Bounded
  <2>4. CASE Throw(p) \/ Refuse(p)
    BY <1>2, <2>4 DEF Throw, Refuse
  <2> QED
    BY <1>6, <1>10, <2>1, <2>2, <2>3, <2>4 DEF PushLock
<1> QED
  BY <1>7, <1>8, <1>9, <1>10 DEF Pushing

LEMMA ConsumerWithin ==
    ASSUME TypeInv, NEW c \in Consumers,
           Pop(c) \/ TryPop(c) \/ TryPopFor(c) \/ PopBatch(c) \/ Fetching(c)
    PROVE  Within
<1>1. Size \in Nat /\ count[c] \in Nat
  BY DEF TypeInv, TypeOK, Size
<1>2. ASSUME UNCHANGED store PROVE Within
  BY <1>1, <1>2 DEF Within, Size, store
<1>3. ASSUME NEW n \in 0..Size, TakeFront(n) PROVE Within
  BY <1>1, <1>3, TakeFrontSplits DEF Within, Size
<1>4. ASSUME Size > 0, TakeAndNotify(c) PROVE Within
  BY <1>1, <1>3, <1>4 DEF TakeAndNotify
<1>5. ASSUME TakeThenNotify(c) PROVE Within
  <2> DEFINE n == IF count[c] < Size THEN count[c] ELSE Size
  <2>1. n \in 0..Size /\ TakeFront(n)
    BY <1>1, <1>5 DEF TakeThenNotify
  <2> HIDE DEF n
  <2> QED
    BY <1>3, <2>1
<1> QED
  BY <1>2, <1>4, <1>5
  DEF Pop, TryPop, TryPopFor, PopBatch, Fetching, Call, PopLock, PopSleep, PopTimeout,
      PopTimedOut, PopNotify, TakeFor, ReturnNull, GoTo

(* No step makes the queue longer than the capacity in force.              *)
THEOREM CapacityKept == Spec => GrowsWithinCapacity
<1>1. TypeInv /\ [Next]_vars => [Within]_vars
  <2> SUFFICES ASSUME TypeInv, Next PROVE Within
    BY DEF Within
  <2>1. Size \in Nat
    BY DEF TypeInv, TypeOK, Size
  <2>2. ASSUME NEW k \in Controllers, Close(k) \/ Clear(k) \/ SetMaxSize(k) \/ Closing(k)
        PROVE  Within
    BY <2>1, <2>2
    DEF Close, Clear, SetMaxSize, Closing, CloseEmpty, CloseFull, store, Within, Size
  <2>3. ASSUME NEW t \in Threads, SpuriousWakeup(t) PROVE Within
    BY <2>1, <2>3 DEF SpuriousWakeup, GoTo, store, Within, Size
  <2> QED
    BY <2>2, <2>3, ProducerWithin, ConsumerWithin DEF Next
<1> QED
  BY <1>1, TypeCorrect, PTL DEF Spec, GrowsWithinCapacity, Within
-----------------------------------------------------------------------------
(* The queue is a channel.  What a step does to the units, and nothing of  *)
(* who does it: a unit comes in, the newest makes way for one, some go out *)
(* at the front, or all are cleared.                                       *)
Effect ==
    \/ UNCHANGED <<rank_unit_standard, delivered, lost, ticket>>
    \/ \E p \in Producers : /\ pc[p] \notin {"idle", "push_notify"}
                            /\ Enqueue(p) \/ (Size > 0 /\ Overwrite(p))
    \/ \E n \in 1..Size : TakeFront(n)
    \/ \E k \in Controllers : Clear(k)

LEMMA ProducerEffect ==
    ASSUME TypeInv, NEW p \in Producers,
           Push(p) \/ PushTooLate(p) \/ PushBatch(p) \/ Pushing(p)
    PROVE  Effect
<1>1. Size \in Nat /\ max_storage_capacity \in Nat
  BY DEF TypeInv, TypeOK, Size
<1>2. ASSUME GoTo(p, "push_lock") \/ GoTo(p, "push_sleep") \/ GoTo(p, "wait_full")
               \/ Refuse(p) \/ Throw(p)
      PROVE  Effect
  BY <1>2 DEF Effect, GoTo, Refuse, Throw, store, history
<1>3. CASE Push(p) \/ PushTooLate(p) \/ PushBatch(p)
  BY <1>3 DEF Effect, Push, PushTooLate, PushBatch, BeginPush, store
<1>4. CASE PushCheck(p) \/ PushSleep(p)
  BY <1>2, <1>4 DEF PushCheck, PushSleep
<1>5. CASE PushNotify(p)
  BY <1>5 DEF Effect, PushNotify, store, history
<1>6. ASSUME AwaitRoom(p), pc[p] \notin {"idle", "push_notify"} PROVE Effect
  BY <1>2, <1>6 DEF AwaitRoom, Effect
<1>7. CASE PushRelock(p)
  BY <1>6, <1>7 DEF PushRelock
<1>8. CASE PushLock(p)
  <2>1. ~HasRoom => Size > 0
    BY <1>1 DEF HasRoom, Bounded
  <2> QED
    BY <1>2, <1>6, <1>8, <2>1 DEF PushLock, Effect
<1> QED
  BY <1>3, <1>4, <1>5, <1>7, <1>8 DEF Pushing

LEMMA ConsumerEffect ==
    ASSUME TypeInv, NEW c \in Consumers,
           Pop(c) \/ TryPop(c) \/ TryPopFor(c) \/ PopBatch(c) \/ Fetching(c)
    PROVE  Effect
<1>1. Size \in Nat /\ count[c] \in Nat
  BY DEF TypeInv, TypeOK, Size
<1>2. ASSUME TakeFront(0) PROVE Effect
  <2>1. /\ rank_unit_standard \in Seq(Units) /\ delivered \in Seq(Units)
        /\ Size = Len(rank_unit_standard)
    BY DEF TypeInv, TypeOK, Size
  <2>2. SubSeq(rank_unit_standard, 1, 0) = <<>>
    BY <2>1
  <2>3. SubSeq(rank_unit_standard, 1, Size) = rank_unit_standard
    BY <2>1
  <2>4. delivered \o <<>> = delivered
    BY <2>1, ConcatEmptySeq
  <2>5. delivered' = delivered \o SubSeq(rank_unit_standard, 1, 0)
    BY <1>2 DEF TakeFront
  <2>6. rank_unit_standard' = SubSeq(rank_unit_standard, 1, Size)
    BY <1>2 DEF TakeFront
  <2>7. UNCHANGED <<lost, ticket>>
    BY <1>2 DEF TakeFront
  <2>8. delivered' = delivered
    BY <2>2, <2>4, <2>5, Zenon
  <2> QED
    BY <2>3, <2>6, <2>7, <2>8, Zenon DEF Effect
<1>3. ASSUME TakeAndNotify(c), Size > 0 PROVE Effect
  BY <1>1, <1>3 DEF TakeAndNotify, Effect
<1>4. ASSUME TakeThenNotify(c) PROVE Effect
  <2> DEFINE n == IF count[c] < Size THEN count[c] ELSE Size
  <2>1. n \in 0..Size /\ TakeFront(n)
    BY <1>1, <1>4 DEF TakeThenNotify
  <2> HIDE DEF n
  <2>2. n = 0 \/ n \in 1..Size
    BY <1>1, <2>1
  <2> QED
    BY <1>2, <2>1, <2>2 DEF Effect
<1>5. ASSUME ReturnNull(c) \/ (\E l \in {"pop_sleep", "wait_empty", "pop_timeout"} : GoTo(c, l))
      PROVE  Effect
  BY <1>5 DEF ReturnNull, GoTo, Effect, store, history
<1>6. CASE Pop(c) \/ TryPopFor(c) \/ PopBatch(c)
  BY <1>6 DEF Pop, TryPopFor, PopBatch, Call, Effect, store, history
<1>7. CASE TryPop(c)
  BY <1>3, <1>7 DEF TryPop
<1>8. CASE PopLock(c)
  BY <1>3, <1>4, <1>5, <1>8 DEF PopLock, TakeFor
<1>9. CASE PopSleep(c) \/ PopTimeout(c)
  BY <1>5, <1>9 DEF PopSleep, PopTimeout
<1>10. CASE PopTimedOut(c)
  BY <1>4, <1>5, <1>10 DEF PopTimedOut
<1>11. CASE PopNotify(c)
  BY <1>11 DEF PopNotify, Effect, store, history
<1> QED
  BY <1>6, <1>7, <1>8, <1>9, <1>10, <1>11 DEF Fetching

LEMMA StepEffect == TypeInv /\ [Next]_vars => Effect
<1> SUFFICES ASSUME TypeInv, [Next]_vars PROVE Effect
  OBVIOUS
<1>1. CASE UNCHANGED vars
  BY <1>1 DEF vars, store, history, Effect
<1>2. ASSUME NEW k \in Controllers, Close(k) \/ Clear(k) \/ SetMaxSize(k) \/ Closing(k)
      PROVE  Effect
  BY <1>2 DEF Close, SetMaxSize, Closing, CloseEmpty, CloseFull, Effect, store, history
<1>3. ASSUME NEW t \in Threads, SpuriousWakeup(t) PROVE Effect
  BY <1>3 DEF SpuriousWakeup, GoTo, Effect, store, history
<1> QED
  BY <1>1, <1>2, <1>3, ProducerEffect, ConsumerEffect DEF Next

(* Lost units have been let in, so they have a ticket too.                 *)
LostInv == \A u \in lost : ticket[u] > 0

(* A submitter inside push has a unit that the channel has never seen.     *)
LEMMA UnseenUnit ==
    ASSUME TypeInv, OrderInv, LostInv, NEW p \in Producers,
           pc[p] \notin {"idle", "push_notify"}
    PROVE  /\ Head(todo[p]) \in Units /\ ticket[Head(todo[p])] = 0
           /\ ~Channel!Seen(Head(todo[p]))
<1> DEFINE u == Head(todo[p])
<1>1. todo[p] \in Seq(Units) /\ todo[p] # <<>>
  BY DEF TypeInv, TypeOK, Busy
<1>2. u \in Units /\ u = todo[p][1] /\ 1 \in 1..Len(todo[p])
  BY <1>1
<1>3. ticket[u] = 0
  BY <1>2 DEF OrderInv, TodoInv
<1> HIDE DEF u
<1>4. rank_unit_standard \in Seq(Units) /\ delivered \in Seq(Units)
  BY DEF TypeInv, TypeOK
<1>5. ASSUME NEW i \in DOMAIN rank_unit_standard PROVE rank_unit_standard[i] # u
  <2>1. /\ Len(delivered) + i \in 1..Len(Run)
        /\ Run[Len(delivered) + i] = rank_unit_standard[i]
    BY <1>4, ConcatProperties DEF Run
  <2> QED
    BY <1>3, <2>1 DEF OrderInv, RunInv
<1>6. ASSUME NEW i \in DOMAIN delivered PROVE delivered[i] # u
  <2>1. i \in 1..Len(Run) /\ Run[i] = delivered[i]
    BY <1>4, ConcatProperties DEF Run
  <2> QED
    BY <1>3, <2>1 DEF OrderInv, RunInv
<1>7. u \notin lost
  BY <1>3 DEF LostInv
<1> QED
  BY <1>2, <1>3, <1>5, <1>6, <1>7 DEF Channel!Seen, u

(* Each effect is a step of the channel, or none.                          *)
LEMMA EffectIsChannelStep ==
    ASSUME TypeInv, OrderInv, LostInv, Effect
    PROVE  [Channel!Next]_(Channel!vars)
<1>1. rank_unit_standard \in Seq(Units) /\ Size = Len(rank_unit_standard)
  BY DEF TypeInv, TypeOK, Size
<1>2. CASE UNCHANGED <<rank_unit_standard, delivered, lost, ticket>>
  BY <1>2 DEF Channel!vars
<1>3. ASSUME NEW p \in Producers, pc[p] \notin {"idle", "push_notify"}, Enqueue(p)
      PROVE  Channel!Next
  <2>1. Head(todo[p]) \in Units /\ ~Channel!Seen(Head(todo[p]))
    BY <1>3, UnseenUnit
  <2>2. Channel!Accept(Head(todo[p]))
    BY <1>3, <2>1 DEF Enqueue, EnqueueOn, Channel!Accept
  <2> QED
    BY <2>1, <2>2 DEF Channel!Next
<1>4. ASSUME NEW p \in Producers, pc[p] \notin {"idle", "push_notify"}, Size > 0,
             Overwrite(p)
      PROVE  Channel!Next
  <2>1. Head(todo[p]) \in Units /\ ~Channel!Seen(Head(todo[p]))
    BY <1>4, UnseenUnit
  <2>2. rank_unit_standard # <<>>
    BY <1>1, <1>4
  <2>3. Channel!Replace(Head(todo[p]))
    BY <1>4, <2>1, <2>2 DEF Overwrite, EnqueueOn, Channel!Replace, Size
  <2> QED
    BY <2>1, <2>3 DEF Channel!Next
<1>5. ASSUME NEW n \in 1..Size, TakeFront(n) PROVE Channel!Next
  BY <1>5 DEF TakeFront, Channel!HandOut, Channel!Next, Size
<1>6. ASSUME NEW k \in Controllers, Clear(k) PROVE Channel!Next
  <2>1. Channel!DiscardAll
    BY <1>1, <1>6 DEF Clear, Channel!DiscardAll, Size
  <2> QED
    BY <2>1 DEF Channel!Next
<1> QED
  BY <1>2, <1>3, <1>4, <1>5, <1>6 DEF Effect

LEMMA StepLost == TypeInv /\ OrderInv /\ LostInv /\ [Next]_vars => LostInv'
<1> SUFFICES ASSUME TypeInv, OrderInv, LostInv, Effect PROVE LostInv'
  BY StepEffect
<1>1. /\ rank_unit_standard \in Seq(Units) /\ delivered \in Seq(Units)
      /\ Size = Len(rank_unit_standard) /\ accepts \in Nat
      /\ ticket \in [Units -> Nat] /\ lost \subseteq Units
  BY DEF TypeInv, TypeOK, Size
<1>2. ASSUME NEW i \in 1..Size PROVE ticket[rank_unit_standard[i]] > 0
  <2>1. /\ Len(delivered) + i \in 1..Len(Run)
        /\ Run[Len(delivered) + i] = rank_unit_standard[i]
    BY <1>1, ConcatProperties DEF Run
  <2> QED
    BY <2>1 DEF OrderInv, RunInv
<1>3. \A i \in 1..Size : rank_unit_standard[i] \in Units
  BY <1>1
<1>4. lost' \subseteq lost \cup {rank_unit_standard[i] : i \in 1..Size}
  BY <1>1 DEF Effect, Enqueue, Overwrite, EnqueueOn, TakeFront, Clear
<1>5. \A u \in Units : ticket[u] > 0 => ticket'[u] > 0
  <2>1. ASSUME NEW p \in Producers, EnqueueOn(p, rank_unit_standard)
                 \/ EnqueueOn(p, SubSeq(rank_unit_standard, 1, Size - 1))
        PROVE  \A u \in Units : ticket[u] > 0 => ticket'[u] > 0
    <3>1. ticket' = [ticket EXCEPT ![Head(todo[p])] = accepts + 1]
      BY <2>1 DEF EnqueueOn
    <3> QED
      BY <1>1, <3>1
  <2> QED
    BY <2>1 DEF Effect, Enqueue, Overwrite, TakeFront, Clear
<1> QED
  BY <1>1, <1>2, <1>3, <1>4, <1>5 DEF LostInv

(* What a client of the queue sees is a line of units: each submitted once,*)
(* handed out from the front in order, given up only to an overwriting     *)
(* submitter (the newest) or to clear (all).  None of the interleavings of *)
(* submitters, workers, close and set_max_size shows through.              *)
THEOREM RankImplementsChannel == Spec => ImplementsChannel
<1>1. Init => Channel!Init
  BY DEF Init, Channel!Init
<1>2. Init => LostInv
  BY DEF Init, LostInv
<1>3. TypeInv /\ OrderInv /\ LostInv /\ [Next]_vars => [Channel!Next]_(Channel!vars)
  BY StepEffect, EffectIsChannelStep
<1> QED
  BY <1>1, <1>2, <1>3, TypeCorrect, InitOrder, StepOrder, StepLost, PTL
  DEF Spec, ImplementsChannel, Channel!Spec

-----------------------------------------------------------------------------
(* Sleeping at the queue: who waits, and who is on the way.                *)
UnitWaits == At("wait_empty")
UnitWays  == At("pop_relock") \cup At("push_notify")
RoomWaits == IF closed THEN {} ELSE At("wait_full")
RoomWays  == At("push_relock") \cup At("pop_notify")
Room      == max_storage_capacity - Size

(* Whoever is about to sleep has found, and keeps finding, nothing: the    *)
(* mutex is his until he sleeps.                                           *)
FoundNone == \A c \in Consumers : pc[c] = "pop_sleep" => Size = 0
FoundFull == \A p \in Producers : pc[p] = "push_sleep" => Room <= 0

(* What the workers in a fetch have asked for is one of these numbers.     *)
AskingFor(S) == \A c \in Consumers : pc[c] # "idle" => count[c] \in S

UnitsCovered == UnitWaits # {} => Size <= Cardinality(UnitWays)
RoomCovered  == RoomWaits # {} => Room <= Cardinality(RoomWays)

UnitInv == FoundNone /\ AskingFor(Nat \ {0}) /\ UnitsCovered
RoomInv == FoundFull /\ AskingFor({1}) /\ RoomCovered

(* A demand of d with ways S becomes a demand of e with ways T: what a     *)
(* step of the queue may do without anybody of W, later V, being forgotten.*)
Covers(V, W, d, e, S, T) ==
    \/ V = {} \/ e <= 0
    \/ V \subseteq W /\ e <= d /\ S \subseteq T
    \/ V \subseteq W /\ e <= d + 1 /\ S \subseteq T /\ (\E y \in T : y \notin S)
    \/ V \subseteq W /\ e <= d /\ (\E x \in S, y \in T : y \notin S /\ S \ {x} \subseteq T)
    \/ V \subseteq W /\ e <= d - 1 /\ (\E x \in S : S \ {x} \subseteq T)

LEMMA CoversKeeps ==
    ASSUME NEW V, NEW W, NEW d \in Int, NEW e \in Int, NEW S, NEW T,
           IsFiniteSet(S), IsFiniteSet(T), Covers(V, W, d, e, S, T),
           W # {} => d <= Cardinality(S)
    PROVE  V # {} => e <= Cardinality(T)
<1> SUFFICES ASSUME V # {} PROVE e <= Cardinality(T)
  OBVIOUS
<1>1. Cardinality(S) \in Nat /\ Cardinality(T) \in Nat
  BY FS_CardinalityType
<1>2. ASSUME S \subseteq T PROVE Cardinality(S) <= Cardinality(T)
  BY <1>2, FS_Subset
<1>3. ASSUME NEW x \in S, S \ {x} \subseteq T PROVE Cardinality(S) - 1 <= Cardinality(T)
  <2>1. Cardinality(S \ {x}) = Cardinality(S) - 1
    BY FS_RemoveElement
  <2> QED
    BY <1>3, <2>1, FS_Subset
<1>4. ASSUME S \subseteq T, NEW y \in T, y \notin S PROVE Cardinality(S) + 1 <= Cardinality(T)
  <2>1. Cardinality(S \cup {y}) = Cardinality(S) + 1
    BY <1>4, FS_AddElement
  <2>2. S \cup {y} \in SUBSET T
    BY <1>4
  <2> QED
    BY <2>1, <2>2, FS_Subset
<1>5. ASSUME NEW x \in S, NEW y \in T, y \notin S, S \ {x} \subseteq T
      PROVE  Cardinality(S) <= Cardinality(T)
  <2>1. IsFiniteSet(S \ {x}) /\ Cardinality(S \ {x}) = Cardinality(S) - 1
    BY FS_RemoveElement
  <2>2. y \notin S \ {x}
    BY <1>5
  <2>3. Cardinality((S \ {x}) \cup {y}) = Cardinality(S) - 1 + 1
    BY <2>1, <2>2, FS_AddElement
  <2>4. (S \ {x}) \cup {y} \in SUBSET T
    BY <1>5
  <2>5. Cardinality((S \ {x}) \cup {y}) <= Cardinality(T)
    BY <2>4, FS_Subset
  <2> QED
    BY <1>1, <2>3, <2>5
<1>6. CASE e <= 0
  BY <1>1, <1>6
<1>7. CASE V \subseteq W /\ e <= d /\ S \subseteq T
  BY <1>1, <1>2, <1>7
<1>8. CASE V \subseteq W /\ e <= d + 1 /\ S \subseteq T /\ (\E y \in T : y \notin S)
  <2>1. Cardinality(S) + 1 <= Cardinality(T)
    BY <1>4, <1>8
  <2> QED
    BY <1>1, <1>8, <2>1
<1>9. CASE V \subseteq W /\ e <= d /\ (\E x \in S, y \in T : y \notin S /\ S \ {x} \subseteq T)
  <2>1. Cardinality(S) <= Cardinality(T)
    BY <1>5, <1>9
  <2> QED
    BY <1>1, <1>9, <2>1
<1>10. CASE V \subseteq W /\ e <= d - 1 /\ (\E x \in S : S \ {x} \subseteq T)
  <2>1. Cardinality(S) - 1 <= Cardinality(T)
    BY <1>3, <1>10
  <2> QED
    BY <1>1, <1>10, <2>1
<1> QED
  BY <1>6, <1>7, <1>8, <1>9, <1>10 DEF Covers

(* What notify_one does to the locations: nothing, if nobody waits, or one *)
(* waiter resumes.                                                         *)
LEMMA NotifyOneMoves ==
    ASSUME NEW at, Placed(at), NEW w \in Asleep, NEW after \in NotifyOne(at, w)
    PROVE  \/ after = at /\ \A t \in Threads : at[t] # w
           \/ \E s \in Threads : /\ at[s] = w
                                 /\ \A t \in Threads : after[t] = IF t = s THEN Resume(w) ELSE at[t]
<1>1. CASE {t \in Threads : at[t] = w} = {}
  BY <1>1 DEF NotifyOne
<1>2. CASE {t \in Threads : at[t] = w} # {}
  <2>1. PICK s \in {t \in Threads : at[t] = w} : after = [at EXCEPT ![s] = Resume(w)]
    BY <1>2 DEF NotifyOne
  <2> QED
    BY <2>1 DEF Placed
<1> QED
  BY <1>1, <1>2

(* A submitter goes on, or returns, and notifies one sleeping worker.      *)
LEMMA SubmitterGoesOn ==
    ASSUME TypeInv, NEW p \in Producers, PushNotify(p)
    PROVE  /\ pc'[p] \in {"idle", "push_check"}
           /\ \A s \in Threads \ {p} :
                pc'[s] = pc[s] \/ (pc[s] = "wait_empty" /\ pc'[s] = "pop_relock")
           /\ \/ \A s \in Threads \ {p} : pc[s] # "wait_empty"
              \/ \E s \in Threads \ {p} : pc[s] = "wait_empty" /\ pc'[s] = "pop_relock"
<1> DEFINE moved == [pc EXCEPT ![p] = Advanced(p)]
<1>1. p \in Threads /\ Advanced(p) \in {"idle", "push_check"}
  BY DEF Threads, Advanced
<1>2. /\ moved \in [Threads -> Locations]
      /\ \A s \in Threads : moved[s] = IF s = p THEN Advanced(p) ELSE pc[s]
  BY <1>1 DEF TypeInv, TypeOK, Locations, ProducerLocations
<1>3. pc' \in NotifyOne(moved, "wait_empty")
  BY DEF PushNotify
<1> HIDE DEF moved
<1>4. Placed(moved)
  <2>1. \A k \in Controllers : moved[k] = pc[k]
    BY <1>2 DEF Threads
  <2>2. \A q \in Producers : moved[q] \in ProducerLocations
    BY <1>1, <1>2 DEF TypeInv, TypeOK, Threads, ProducerLocations
  <2>3. \A c \in Consumers : moved[c] = pc[c]
    BY <1>2 DEF Threads
  <2> QED
    BY <1>2, <2>1, <2>2, <2>3 DEF TypeInv, TypeOK, Placed
<1>5. "wait_empty" \in Asleep /\ Resume("wait_empty") = "pop_relock"
  BY DEF Asleep, Resume
<1>6. \/ pc' = moved /\ \A s \in Threads : moved[s] # "wait_empty"
      \/ \E s \in Threads : /\ moved[s] = "wait_empty"
                            /\ \A x \in Threads :
                                  pc'[x] = IF x = s THEN "pop_relock" ELSE moved[x]
  BY <1>3, <1>4, <1>5, NotifyOneMoves
<1> QED
  BY <1>1, <1>2, <1>6

-----------------------------------------------------------------------------
(* Units *)

UnitChange == Covers(UnitWaits', UnitWaits, Size, Size', UnitWays, UnitWays')

(* Nobody leaves a way to a unit, nobody falls asleep, nothing is added.   *)
LEMMA UnitQuiet ==
    ASSUME Size' <= Size,
           \A t \in Threads :
                /\ pc[t] \in {"pop_relock", "push_notify"} => pc'[t] = pc[t]
                /\ pc'[t] = "wait_empty" => pc[t] = "wait_empty"
    PROVE  UnitChange
<1>1. UnitWaits' \subseteq UnitWaits /\ UnitWays \subseteq UnitWays'
  BY DEF UnitWaits, UnitWays, At
<1> QED
  BY <1>1 DEF UnitChange, Covers

LEMMA UnitProducer ==
    ASSUME TypeInv, TypeInv', NEW p \in Producers,
           Push(p) \/ PushTooLate(p) \/ PushBatch(p) \/ Pushing(p)
    PROVE  UnitChange
<1>1. /\ Size \in Nat /\ rank_unit_standard \in Seq(Units) /\ p \in Threads
      /\ Size = Len(rank_unit_standard)
  BY DEF TypeInv, TypeOK, Size, Threads
<1>2. pc[p] \in ProducerLocations /\ pc'[p] \in ProducerLocations
  BY DEF TypeInv, TypeOK
<1>3. ASSUME pc[p] # "push_notify", Size' = Size, \A t \in Threads \ {p} : pc'[t] = pc[t]
      PROVE  UnitChange
  BY <1>1, <1>2, <1>3, UnitQuiet DEF ProducerLocations
<1>4. ASSUME NEW l, GoTo(p, l), pc[p] # "push_notify" PROVE UnitChange
  BY <1>3, <1>4 DEF GoTo, Size, store, TypeInv, TypeOK
<1>5. ASSUME Refuse(p) \/ Throw(p), pc[p] # "push_notify" PROVE UnitChange
  BY <1>3, <1>5 DEF Refuse, Throw, Size, store, TypeInv, TypeOK
<1>6. ASSUME NEW q \in Seq(Units), Len(q) <= Size, EnqueueOn(p, q),
             pc[p] \in {"push_lock", "push_relock"}
      PROVE  UnitChange
  <2>1. Head(todo[p]) \in Units
    BY <1>6, HeadTailProperties DEF TypeInv, TypeOK, Busy
  <2>2. Size' <= Size + 1
    BY <1>1, <1>6, <2>1, AppendProperties DEF EnqueueOn, Size
  <2>3. \A t \in Threads : pc'[t] = IF t = p THEN "push_notify" ELSE pc[t]
    BY <1>6 DEF EnqueueOn, TypeInv, TypeOK
  <2>4. UnitWaits' \subseteq UnitWaits /\ UnitWays \subseteq UnitWays'
        /\ p \in UnitWays' /\ p \notin UnitWays
    BY <1>1, <1>6, <2>3 DEF UnitWaits, UnitWays, At
  <2> QED
    BY <2>2, <2>4 DEF UnitChange, Covers
<1>7. ASSUME AwaitRoom(p), pc[p] \in {"push_lock", "push_relock"} PROVE UnitChange
  BY <1>1, <1>4, <1>5, <1>6, <1>7 DEF AwaitRoom, Enqueue, Size
<1>8. CASE Push(p) \/ PushTooLate(p) \/ PushBatch(p)
  BY <1>3, <1>8 DEF Push, PushTooLate, PushBatch, BeginPush, Size, store, TypeInv, TypeOK
<1>9. CASE PushCheck(p) \/ PushSleep(p)
  BY <1>4, <1>5, <1>9 DEF PushCheck, PushSleep
<1>10. CASE PushRelock(p)
  BY <1>7, <1>10 DEF PushRelock
<1>11. CASE PushLock(p)
  <2>1. ASSUME ~HasRoom, Overwrite(p) PROVE UnitChange
    <3>1. Size > 0
      BY <1>1, <2>1 DEF HasRoom, Bounded, TypeInv, TypeOK
    <3>2. /\ SubSeq(rank_unit_standard, 1, Size - 1) \in Seq(Units)
          /\ Len(SubSeq(rank_unit_standard, 1, Size - 1)) = Size - 1
      BY <1>1, <3>1
    <3>3. Len(SubSeq(rank_unit_standard, 1, Size - 1)) <= Size
      BY <1>1, <3>2
    <3>4. EnqueueOn(p, SubSeq(rank_unit_standard, 1, Size - 1)) /\ pc[p] = "push_lock"
      BY <1>11, <2>1 DEF Overwrite, PushLock
    <3> QED
      BY <1>6, <3>2, <3>3, <3>4
  <2> QED
    BY <1>1, <1>5, <1>6, <1>7, <1>11, <2>1 DEF PushLock, Enqueue, Size
<1>12. CASE PushNotify(p)
  <2>2. /\ pc'[p] \in {"idle", "push_check"}
        /\ \A s \in Threads \ {p} :
              pc'[s] = pc[s] \/ (pc[s] = "wait_empty" /\ pc'[s] = "pop_relock")
        /\ \/ \A s \in Threads \ {p} : pc[s] # "wait_empty"
           \/ \E s \in Threads \ {p} : pc[s] = "wait_empty" /\ pc'[s] = "pop_relock"
    BY <1>12, SubmitterGoesOn
  <2>3. Size' = Size
    BY <1>12 DEF PushNotify, store, Size
  <2>4. pc[p] = "push_notify"
    BY <1>12 DEF PushNotify
  <2>5. UnitWaits' \subseteq UnitWaits
    BY <2>2 DEF UnitWaits, At
  <2>6. CASE \A s \in Threads \ {p} : pc[s] # "wait_empty"
    <3>1. UnitWaits' = {}
      BY <2>2, <2>6 DEF UnitWaits, At
    <3> QED
      BY <3>1 DEF UnitChange, Covers
  <2>7. ASSUME NEW s \in Threads \ {p}, pc[s] = "wait_empty", pc'[s] = "pop_relock"
        PROVE  UnitChange
    <3>1. /\ p \in UnitWays /\ s \in UnitWays' /\ s \notin UnitWays
          /\ UnitWays \ {p} \subseteq UnitWays'
      BY <1>1, <2>2, <2>4, <2>7 DEF UnitWays, At
    <3> QED
      BY <1>1, <2>3, <2>5, <3>1 DEF UnitChange, Covers
  <2> QED
    BY <2>2, <2>6, <2>7
<1> QED
  BY <1>8, <1>9, <1>10, <1>11, <1>12 DEF Pushing

LEMMA TakeFrontSize ==
    ASSUME TypeInv, NEW n \in 0 .. Size, TakeFront(n)
    PROVE  Size' = Size - n
<1>1. Size \in Nat
  BY DEF TypeInv, TypeOK, Size
<1> QED
  BY <1>1, TakeFrontSplits DEF Size

(* A worker returns and notifies one blocked submitter.                    *)
LEMMA WorkerGoesHome ==
    ASSUME TypeInv, NEW c \in Consumers,
           pc' \in NotifyOne([pc EXCEPT ![c] = "idle"], "wait_full")
    PROVE  /\ pc'[c] = "idle"
           /\ \A t \in Threads \ {c} :
                pc'[t] = pc[t] \/ (pc[t] = "wait_full" /\ pc'[t] = "push_relock")
           /\ \/ \A t \in Threads \ {c} : pc[t] # "wait_full"
              \/ \E t \in Threads \ {c} : pc[t] = "wait_full" /\ pc'[t] = "push_relock"
<1> DEFINE moved == [pc EXCEPT ![c] = "idle"]
<1>1. Placed(moved) /\ \A s \in Threads : moved[s] = IF s = c THEN "idle" ELSE pc[s]
  BY IdleConsumer
<1>2. pc' \in NotifyOne(moved, "wait_full") /\ c \in Threads
  BY DEF Threads
<1> HIDE DEF moved
<1>3. "wait_full" \in Asleep /\ Resume("wait_full") = "push_relock"
  BY DEF Asleep, Resume
<1>4. \/ pc' = moved /\ \A s \in Threads : moved[s] # "wait_full"
      \/ \E s \in Threads : /\ moved[s] = "wait_full"
                            /\ \A x \in Threads :
                                  pc'[x] = IF x = s THEN "push_relock" ELSE moved[x]
  BY <1>1, <1>2, <1>3, NotifyOneMoves
<1> QED
  BY <1>1, <1>2, <1>4

(* A worker takes a unit, at least, and returns or goes to notify.         *)
LEMMA UnitTaken ==
    ASSUME TypeInv, NEW c \in Consumers, Size \in Nat, Size' \in Nat, Size' <= Size - 1,
           pc[c] \in {"idle", "pop_lock", "pop_relock", "pop_timeout"},
           pc'[c] \in {"idle", "pop_notify"},
           \A t \in Threads \ {c} :
                pc'[t] = pc[t] \/ (pc[t] = "wait_full" /\ pc'[t] = "push_relock")
    PROVE  UnitChange
<1>1. UnitWaits' \subseteq UnitWaits /\ UnitWays \ {c} \subseteq UnitWays'
  BY DEF UnitWaits, UnitWays, At
<1>2. CASE c \in UnitWays
  BY <1>1, <1>2 DEF UnitChange, Covers
<1>3. CASE c \notin UnitWays
  <2>1. UnitWays \subseteq UnitWays'
    BY <1>1, <1>3
  <2> QED
    BY <1>1, <2>1 DEF UnitChange, Covers
<1> QED
  BY <1>2, <1>3

LEMMA UnitConsumer ==
    ASSUME TypeInv, TypeInv', AskingFor(Nat \ {0}), FoundNone, NEW c \in Consumers,
           Pop(c) \/ TryPop(c) \/ TryPopFor(c) \/ PopBatch(c) \/ Fetching(c)
    PROVE  UnitChange
<1>1. Size \in Nat /\ Size' \in Nat /\ count[c] \in Nat /\ c \in Threads
  BY DEF TypeInv, TypeOK, Size, Threads
<1>2. ASSUME Size' = 0 PROVE UnitChange
  BY <1>2 DEF UnitChange, Covers
<1>3. ASSUME NEW l, l # "wait_empty", pc' = [pc EXCEPT ![c] = l], pc[c] # "pop_relock",
             UNCHANGED store
      PROVE  UnitChange
  <2>1. pc[c] # "push_notify"
    BY DEF TypeInv, TypeOK, ConsumerLocations
  <2>2. \A t \in Threads : pc'[t] = IF t = c THEN l ELSE pc[t]
    BY <1>3 DEF TypeInv, TypeOK
  <2>3. Size' = Size
    BY <1>3 DEF store, Size
  <2> QED
    BY <1>1, <1>3, <2>1, <2>2, <2>3, UnitQuiet
<1>4. ASSUME Size = 0, UNCHANGED store PROVE UnitChange
  BY <1>2, <1>4 DEF store, Size
<1>5. ASSUME TakeAndNotify(c), Size > 0, pc[c] \in {"idle", "pop_lock", "pop_relock"}
      PROVE  UnitChange
  <2>1. Size' = Size - 1
    BY <1>1, <1>5, TakeFrontSize DEF TakeAndNotify
  <2>2. /\ pc'[c] = "idle"
        /\ \A t \in Threads \ {c} :
              pc'[t] = pc[t] \/ (pc[t] = "wait_full" /\ pc'[t] = "push_relock")
    BY <1>5, WorkerGoesHome DEF TakeAndNotify, Return
  <2> QED
    BY <1>1, <1>5, <2>1, <2>2, UnitTaken
<1>6. ASSUME TakeThenNotify(c), Size > 0, pc[c] \in {"pop_lock", "pop_relock", "pop_timeout"}
      PROVE  UnitChange
  <2> DEFINE n == IF count[c] < Size THEN count[c] ELSE Size
  <2>1. n \in 0 .. Size /\ n >= 1 /\ TakeFront(n) /\ pc' = [pc EXCEPT ![c] = "pop_notify"]
    BY <1>1, <1>6 DEF TakeThenNotify, AskingFor
  <2> HIDE DEF n
  <2>2. Size' <= Size - 1
    BY <1>1, <2>1, TakeFrontSize
  <2>3. \A t \in Threads : pc'[t] = IF t = c THEN "pop_notify" ELSE pc[t]
    BY <2>1 DEF TypeInv, TypeOK
  <2> QED
    BY <1>1, <1>6, <2>2, <2>3, UnitTaken
<1>7. CASE Pop(c) \/ TryPopFor(c) \/ PopBatch(c)
  BY <1>3, <1>7 DEF Pop, TryPopFor, PopBatch, Call
<1>8. CASE TryPop(c)
  BY <1>5, <1>8 DEF TryPop
<1>9. CASE PopLock(c)
  BY <1>4, <1>5, <1>6, <1>9 DEF PopLock, TakeFor, ReturnNull, GoTo
<1>10. CASE PopSleep(c)
  BY <1>4, <1>10 DEF PopSleep, GoTo, FoundNone
<1>11. CASE PopTimeout(c)
  BY <1>3, <1>11 DEF PopTimeout, GoTo
<1>12. CASE PopTimedOut(c)
  BY <1>4, <1>6, <1>12 DEF PopTimedOut, ReturnNull
<1>13. CASE PopNotify(c)
  <2>1. /\ pc'[c] = "idle"
        /\ \A t \in Threads \ {c} :
              pc'[t] = pc[t] \/ (pc[t] = "wait_full" /\ pc'[t] = "push_relock")
    BY <1>13, WorkerGoesHome DEF PopNotify, Return
  <2>2. Size' = Size /\ pc[c] = "pop_notify"
    BY <1>13 DEF PopNotify, store, Size
  <2> QED
    BY <1>1, <2>1, <2>2, UnitQuiet
<1> QED
  BY <1>7, <1>8, <1>9, <1>10, <1>11, <1>12, <1>13 DEF Fetching

(* close wakes everybody; clear leaves nothing to wait for.                *)
LEMMA UnitController ==
    ASSUME TypeInv, NEW k \in Controllers,
           Close(k) \/ Clear(k) \/ SetMaxSize(k) \/ Closing(k)
    PROVE  UnitChange
<1>1. Size \in Nat /\ k \in Threads /\ pc[k] \in ControllerLocations
  BY DEF TypeInv, TypeOK, Size, Threads
<1>2. CASE Close(k)
  <2>1. Size' = Size /\ \A t \in Threads : pc'[t] = IF t = k THEN "close_empty" ELSE pc[t]
    BY <1>2 DEF Close, TypeInv, TypeOK, Size
  <2> QED
    BY <1>1, <2>1, UnitQuiet DEF ControllerLocations
<1>3. CASE Clear(k)
  BY <1>3 DEF Clear, Size, UnitChange, Covers
<1>4. CASE SetMaxSize(k)
  <2>1. Size' = Size /\ pc' = pc
    BY <1>4 DEF SetMaxSize, Size
  <2> QED
    BY <1>1, <2>1, UnitQuiet
<1>5. ASSUME NEW next \in {"idle", "close_full"}, NEW w \in Asleep,
             pc' = NotifyAll([pc EXCEPT ![k] = next], w)
      PROVE  \A t \in Threads : pc'[t] = IF t = k THEN next
                                         ELSE IF pc[t] = w THEN Resume(w) ELSE pc[t]
  BY <1>1, <1>5 DEF NotifyAll, TypeInv, TypeOK, Asleep
<1>6. CASE CloseEmpty(k)
  <2>1. \A t \in Threads : pc'[t] # "wait_empty"
    BY <1>5, <1>6 DEF CloseEmpty, Asleep, Resume
  <2>2. UnitWaits' = {}
    BY <2>1 DEF UnitWaits, At
  <2> QED
    BY <2>2 DEF UnitChange, Covers
<1>7. CASE CloseFull(k)
  <2>1. Size' = Size /\ pc[k] = "close_full"
    BY <1>7 DEF CloseFull, store, Size
  <2>2. \A t \in Threads : pc'[t] = IF t = k THEN "idle"
                            ELSE IF pc[t] = "wait_full" THEN "push_relock" ELSE pc[t]
    BY <1>5, <1>7 DEF CloseFull, Asleep, Resume
  <2> QED
    BY <1>1, <2>1, <2>2, UnitQuiet
<1> QED
  BY <1>2, <1>3, <1>4, <1>6, <1>7 DEF Closing

LEMMA UnitSpurious ==
    ASSUME TypeInv, NEW t \in Threads, SpuriousWakeup(t)
    PROVE  UnitChange
<1>1. Size \in Nat /\ Size' = Size
  BY DEF TypeInv, TypeOK, SpuriousWakeup, GoTo, store, Size
<1>2. /\ \A s \in Threads : pc'[s] = IF s = t THEN Resume(pc[t]) ELSE pc[s]
      /\ pc[t] \in Asleep /\ Resume(pc[t]) # "wait_empty"
  BY DEF TypeInv, TypeOK, SpuriousWakeup, GoTo, Resume
<1> QED
  BY <1>1, <1>2, UnitQuiet DEF Asleep

-----------------------------------------------------------------------------
(* Falling asleep *)

(* The mutex is held at two locations, which a thread reaches when it has  *)
(* found nothing; meanwhile the queue does not change.                     *)
Sleeps ==
    \/ /\ UNCHANGED <<max_storage_capacity, rank_unit_standard>>
       /\ \A t \in Threads : pc'[t] \in Holding =>
            \/ pc'[t] = pc[t]
            \/ pc'[t] = "pop_sleep" /\ Size = 0
            \/ pc'[t] = "push_sleep" /\ Room <= 0
    \/ \A t \in Threads : pc'[t] \notin Holding

LEMMA SleepsKeeps ==
    ASSUME Sleeps
    PROVE  (FoundNone => FoundNone') /\ (FoundFull => FoundFull')
BY DEF Sleeps, FoundNone, FoundFull, Room, Size, Holding, Threads

(* notify_one and notify_all send nobody to sleep.                         *)
LEMMA NobodyDozes ==
    ASSUME TypeInv, NEW t \in Threads, NEW l, l \notin Holding, l \in Locations,
           \/ pc' = [pc EXCEPT ![t] = l]
           \/ \E w \in Asleep : pc' \in NotifyOne([pc EXCEPT ![t] = l], w)
           \/ \E w \in Asleep : pc' = NotifyAll([pc EXCEPT ![t] = l], w)
    PROVE  \A s \in Threads : pc'[s] \in Holding => pc'[s] = pc[s]
<1> DEFINE moved == [pc EXCEPT ![t] = l]
<1>1. moved \in [Threads -> Locations] /\ \A s \in Threads : moved[s] = IF s = t THEN l ELSE pc[s]
  BY DEF TypeInv, TypeOK, Locations
<1>2. \/ pc' = moved
      \/ \E w \in Asleep : pc' \in NotifyOne(moved, w)
      \/ \E w \in Asleep : pc' = NotifyAll(moved, w)
  OBVIOUS
<1> HIDE DEF moved
<1>3. \A w : Resume(w) \notin Holding
  BY DEF Resume, Holding
<1>4. ASSUME NEW w \in Asleep, pc' \in NotifyOne(moved, w)
      PROVE  \A s \in Threads : pc'[s] = moved[s] \/ pc'[s] = Resume(w)
  BY <1>1, <1>4 DEF NotifyOne
<1>5. ASSUME NEW w \in Asleep, pc' = NotifyAll(moved, w)
      PROVE  \A s \in Threads : pc'[s] = moved[s] \/ pc'[s] = Resume(w)
  BY <1>5 DEF NotifyAll
<1> QED
  BY <1>1, <1>2, <1>3, <1>4, <1>5

LEMMA SleepsProducer ==
    ASSUME TypeInv, NEW p \in Producers,
           Push(p) \/ PushTooLate(p) \/ PushBatch(p) \/ Pushing(p)
    PROVE  Sleeps
<1>1. /\ p \in Threads /\ Advanced(p) \in Locations \ Holding
      /\ {"idle", "push_check", "push_lock", "wait_full"} \subseteq Locations \ Holding
      /\ "wait_empty" \in Asleep
  BY DEF Threads, Advanced, Locations, ProducerLocations, Holding, Asleep
<1>2. ASSUME NEW l \in Locations \ Holding, pc' = [pc EXCEPT ![p] = l], UNCHANGED store
      PROVE  Sleeps
  BY <1>1, <1>2, NobodyDozes DEF Sleeps, store
<1>3. ASSUME Refuse(p) \/ Throw(p) PROVE Sleeps
  BY <1>1, <1>2, <1>3 DEF Refuse, Throw
<1>4. ASSUME NEW q, EnqueueOn(p, q), LockFree PROVE Sleeps
  <2>1. \A t \in Threads : pc'[t] = IF t = p THEN "push_notify" ELSE pc[t]
    BY <1>4 DEF EnqueueOn, TypeInv, TypeOK
  <2> QED
    BY <1>4, <2>1 DEF Sleeps, LockFree, Holding
<1>5. ASSUME AwaitRoom(p), LockFree PROVE Sleeps
  <2>1. CASE Size >= max_storage_capacity /\ GoTo(p, "push_sleep")
    <3>1. Room <= 0
      BY <2>1 DEF TypeInv, TypeOK, Size, Room
    <3>2. \A t \in Threads : pc'[t] = IF t = p THEN "push_sleep" ELSE pc[t]
      BY <2>1 DEF GoTo, TypeInv, TypeOK
    <3> QED
      BY <2>1, <3>1, <3>2 DEF GoTo, store, Sleeps
  <2> QED
    BY <1>3, <1>4, <1>5, <2>1 DEF AwaitRoom, Enqueue
<1>6. CASE Push(p) \/ PushTooLate(p) \/ PushBatch(p)
  <2>1. ASSUME UNCHANGED <<store, pc>> PROVE Sleeps
    BY <2>1 DEF Sleeps, store
  <2> QED
    BY <1>1, <1>2, <1>6, <2>1 DEF Push, PushTooLate, PushBatch, BeginPush
<1>7. CASE PushCheck(p) \/ PushSleep(p)
  BY <1>1, <1>2, <1>3, <1>7 DEF PushCheck, PushSleep, GoTo
<1>8. CASE PushLock(p) \/ PushRelock(p)
  BY <1>3, <1>4, <1>5, <1>8 DEF PushLock, PushRelock, Enqueue, Overwrite
<1>9. CASE PushNotify(p)
  <2>1. pc' \in NotifyOne([pc EXCEPT ![p] = Advanced(p)], "wait_empty") /\ UNCHANGED store
    BY <1>9 DEF PushNotify
  <2> QED
    BY <1>1, <2>1, NobodyDozes DEF Sleeps, store
<1> QED
  BY <1>6, <1>7, <1>8, <1>9 DEF Pushing

LEMMA SleepsConsumer ==
    ASSUME TypeInv, NEW c \in Consumers,
           Pop(c) \/ TryPop(c) \/ TryPopFor(c) \/ PopBatch(c) \/ Fetching(c)
    PROVE  Sleeps
<1>1. /\ c \in Threads /\ "wait_full" \in Asleep
      /\ {"idle", "pop_lock", "pop_notify", "wait_empty", "pop_timeout"}
            \subseteq Locations \ Holding
  BY DEF Threads, Locations, ConsumerLocations, Holding, Asleep
<1>2. ASSUME NEW l \in Locations \ Holding, UNCHANGED store,
             \/ pc' = [pc EXCEPT ![c] = l]
             \/ pc' \in NotifyOne([pc EXCEPT ![c] = l], "wait_full")
      PROVE  Sleeps
  <2>1. \A s \in Threads : pc'[s] \in Holding => pc'[s] = pc[s]
    BY <1>1, <1>2, NobodyDozes
  <2> QED
    BY <1>2, <2>1 DEF Sleeps, store
<1>3. ASSUME NEW l \in Locations \ Holding, LockFree,
             \/ pc' = [pc EXCEPT ![c] = l]
             \/ pc' \in NotifyOne([pc EXCEPT ![c] = l], "wait_full")
      PROVE  Sleeps
  <2>1. \A s \in Threads : pc'[s] \in Holding => pc'[s] = pc[s]
    BY <1>1, <1>3, NobodyDozes
  <2> QED
    BY <1>3, <2>1 DEF Sleeps, LockFree
<1>4. ASSUME TakeAndNotify(c) \/ TakeThenNotify(c), LockFree PROVE Sleeps
  BY <1>1, <1>3, <1>4 DEF TakeAndNotify, TakeThenNotify, Return
<1>5. ASSUME Size = 0, GoTo(c, "pop_sleep") PROVE Sleeps
  <2>1. \A t \in Threads : pc'[t] = IF t = c THEN "pop_sleep" ELSE pc[t]
    BY <1>5 DEF GoTo, TypeInv, TypeOK
  <2> QED
    BY <1>5, <2>1 DEF GoTo, store, Sleeps
<1>6. ASSUME ReturnNull(c) PROVE Sleeps
  BY <1>1, <1>2, <1>6 DEF ReturnNull, Return
<1>7. CASE Pop(c) \/ TryPopFor(c) \/ PopBatch(c)
  BY <1>1, <1>2, <1>7 DEF Pop, TryPopFor, PopBatch, Call
<1>8. CASE TryPop(c)
  BY <1>4, <1>8 DEF TryPop
<1>9. CASE PopLock(c)
  BY <1>4, <1>5, <1>6, <1>9 DEF PopLock, TakeFor
<1>10. CASE PopSleep(c) \/ PopTimeout(c)
  BY <1>1, <1>2, <1>10 DEF PopSleep, PopTimeout, GoTo
<1>11. CASE PopTimedOut(c)
  BY <1>4, <1>6, <1>11 DEF PopTimedOut
<1>12. CASE PopNotify(c)
  BY <1>1, <1>2, <1>12 DEF PopNotify, Return
<1> QED
  BY <1>7, <1>8, <1>9, <1>10, <1>11, <1>12 DEF Fetching

LEMMA SleepsController ==
    ASSUME TypeInv, NEW k \in Controllers, Close(k) \/ Clear(k) \/ Closing(k)
    PROVE  Sleeps
<1>1. /\ k \in Threads /\ "wait_full" \in Asleep /\ "wait_empty" \in Asleep
      /\ {"idle", "close_empty", "close_full"} \subseteq Locations \ Holding
  BY DEF Threads, Locations, ControllerLocations, Holding, Asleep
<1>2. ASSUME NEW l \in Locations \ Holding, UNCHANGED <<max_storage_capacity, rank_unit_standard>>,
             \/ pc' = [pc EXCEPT ![k] = l]
             \/ \E w \in Asleep : pc' = NotifyAll([pc EXCEPT ![k] = l], w)
      PROVE  Sleeps
  <2>1. \A s \in Threads : pc'[s] \in Holding => pc'[s] = pc[s]
    BY <1>1, <1>2, NobodyDozes
  <2> QED
    BY <1>2, <2>1 DEF Sleeps
<1>3. CASE Close(k)
  BY <1>1, <1>2, <1>3 DEF Close
<1>4. CASE Clear(k)
  BY <1>4 DEF Clear, LockFree, Sleeps
<1>5. CASE Closing(k)
  BY <1>1, <1>2, <1>5 DEF Closing, CloseEmpty, CloseFull, store
<1> QED
  BY <1>3, <1>4, <1>5

LEMMA SleepsSpurious ==
    ASSUME TypeInv, NEW t \in Threads, SpuriousWakeup(t)
    PROVE  Sleeps
<1>1. Resume(pc[t]) \in Locations \ Holding
  BY DEF Resume, Locations, ProducerLocations, ConsumerLocations, Holding
<1>2. pc' = [pc EXCEPT ![t] = Resume(pc[t])] /\ UNCHANGED store
  BY DEF SpuriousWakeup, GoTo
<1>3. \A s \in Threads : pc'[s] \in Holding => pc'[s] = pc[s]
  BY <1>1, <1>2, NobodyDozes
<1> QED
  BY <1>2, <1>3 DEF Sleeps, store

(* set_max_size does not look at who is about to sleep.                    *)
LEMMA StepFoundNone == TypeInv /\ FoundNone /\ [Next]_vars => FoundNone'
<1> SUFFICES ASSUME TypeInv, FoundNone, [Next]_vars PROVE FoundNone'
  OBVIOUS
<1>1. CASE UNCHANGED vars
  BY <1>1 DEF vars, store, FoundNone, Size
<1>2. ASSUME NEW k \in Controllers, SetMaxSize(k) PROVE FoundNone'
  BY <1>2 DEF SetMaxSize, FoundNone, Size
<1> QED
  BY <1>1, <1>2, SleepsKeeps, SleepsProducer, SleepsConsumer, SleepsController, SleepsSpurious
  DEF Next

LEMMA StepFoundFull ==
    ASSUME "set_max_size" \notin Controls
    PROVE  TypeInv /\ FoundFull /\ [Next]_vars => FoundFull'
<1> SUFFICES ASSUME TypeInv, FoundFull, [Next]_vars PROVE FoundFull'
  OBVIOUS
<1>1. CASE UNCHANGED vars
  BY <1>1 DEF vars, store, FoundFull, Room, Size
<1>2. \A k \in Controllers : ~SetMaxSize(k)
  BY DEF SetMaxSize
<1> QED
  BY <1>1, <1>2, SleepsKeeps, SleepsProducer, SleepsConsumer, SleepsController, SleepsSpurious
  DEF Next

-----------------------------------------------------------------------------
(* What workers ask for *)

LEMMA StepAsking ==
    ASSUME NEW S, 1 \in S, BatchCounts \subseteq S
    PROVE  TypeInv /\ AskingFor(S) /\ [Next]_vars => AskingFor(S)'
<1> SUFFICES ASSUME TypeInv, AskingFor(S), [Next]_vars,
                    NEW d \in Consumers, pc'[d] # "idle"
             PROVE  count'[d] \in S
  BY DEF AskingFor
<1>0. d \in Threads /\ pc[d] # "wait_full"
  BY DEF Threads, TypeInv, TypeOK, ConsumerLocations
<1>1. ASSUME pc[d] # "idle", count'[d] = count[d] PROVE count'[d] \in S
  BY <1>1 DEF AskingFor
<1>2. CASE UNCHANGED vars
  BY <1>1, <1>2 DEF vars, consuming
<1>3. ASSUME NEW t \in Threads \ {d}, NEW l, UNCHANGED consuming,
             \/ pc' = pc
             \/ pc' = [pc EXCEPT ![t] = l]
             \/ \E w \in Asleep : pc' \in NotifyOne([pc EXCEPT ![t] = l], w)
             \/ \E w \in Asleep : pc' = NotifyAll([pc EXCEPT ![t] = l], w)
      PROVE  count'[d] \in S
  <2>1. pc'[d] # "idle" => pc[d] # "idle"
    BY <1>0, <1>3 DEF NotifyOne, NotifyAll, Asleep, TypeInv, TypeOK
  <2> QED
    BY <1>1, <1>3, <2>1 DEF consuming
<1>4. "wait_full" \in Asleep /\ "wait_empty" \in Asleep
  BY DEF Asleep
<1>5. ASSUME NEW p \in Producers, Push(p) \/ PushTooLate(p) \/ PushBatch(p) \/ Pushing(p)
      PROVE  count'[d] \in S
  <2>1. p \in Threads \ {d}
    BY DEF Threads
  <2>2. CASE Push(p) \/ PushTooLate(p) \/ PushBatch(p)
    BY <1>3, <2>1, <2>2 DEF Push, PushTooLate, PushBatch, BeginPush
  <2>3. ASSUME Refuse(p) \/ Throw(p) \/ Enqueue(p) \/ Overwrite(p) \/ \E l : GoTo(p, l)
        PROVE  count'[d] \in S
    BY <1>3, <2>1, <2>3 DEF Refuse, Throw, Enqueue, Overwrite, EnqueueOn, GoTo
  <2>4. CASE PushCheck(p) \/ PushLock(p) \/ PushSleep(p) \/ PushRelock(p)
    BY <2>3, <2>4 DEF PushCheck, PushLock, PushSleep, PushRelock, AwaitRoom
  <2>5. CASE PushNotify(p)
    BY <1>3, <1>4, <2>1, <2>5 DEF PushNotify
  <2> QED
    BY <1>5, <2>2, <2>4, <2>5 DEF Pushing
<1>6. ASSUME NEW k \in Controllers, Close(k) \/ Clear(k) \/ SetMaxSize(k) \/ Closing(k)
      PROVE  count'[d] \in S
  <2>1. k \in Threads \ {d}
    BY DEF Threads
  <2> QED
    BY <1>3, <1>4, <1>6, <2>1 DEF Close, Clear, SetMaxSize, Closing, CloseEmpty, CloseFull
<1>7. ASSUME NEW t \in Threads, SpuriousWakeup(t) PROVE count'[d] \in S
  <2>1. CASE t = d
    BY <1>1, <1>7, <2>1 DEF SpuriousWakeup, GoTo, consuming, Asleep
  <2>2. CASE t # d
    BY <1>3, <1>7, <2>2 DEF SpuriousWakeup, GoTo
  <2> QED
    BY <2>1, <2>2
<1>8. ASSUME NEW c \in Consumers,
             Pop(c) \/ TryPop(c) \/ TryPopFor(c) \/ PopBatch(c) \/ Fetching(c)
      PROVE  count'[d] \in S
  <2>0. c \in Threads
    BY DEF Threads
  <2>1. ASSUME NEW op, NEW n \in S, Call(c, op, n) PROVE count'[d] \in S
    <3>1. count'[d] = IF d = c THEN n ELSE count[d]
      BY <2>1 DEF Call, TypeInv, TypeOK
    <3>2. d # c => pc'[d] = pc[d]
      BY <1>0, <2>0, <2>1 DEF Call, TypeInv, TypeOK
    <3> QED
      BY <1>1, <3>1, <3>2
  <2>2. ASSUME NEW at, Return(c, at),
               \/ at = [pc EXCEPT ![c] = "idle"]
               \/ at \in NotifyOne([pc EXCEPT ![c] = "idle"], "wait_full")
        PROVE  count'[d] \in S
    <3>1. d # c => count'[d] = count[d]
      BY <2>2 DEF Return, TypeInv, TypeOK
    <3>2. pc'[d] = IF d = c THEN "idle" ELSE pc[d]
      BY <1>0, <2>0, <2>2 DEF Return, NotifyOne, TypeInv, TypeOK
    <3> QED
      BY <1>1, <3>1, <3>2
  <2>3. ASSUME NEW l, pc' = [pc EXCEPT ![c] = l], pc[c] # "idle", UNCHANGED consuming
        PROVE  count'[d] \in S
    <3>1. d # c => pc'[d] = pc[d]
      BY <1>0, <2>3 DEF TypeInv, TypeOK
    <3> QED
      BY <1>1, <2>3, <3>1 DEF consuming
  <2>4. ASSUME TakeAndNotify(c) PROVE count'[d] \in S
    BY <2>2, <2>4 DEF TakeAndNotify
  <2>5. ASSUME TakeThenNotify(c), pc[c] # "idle" PROVE count'[d] \in S
    BY <2>2, <2>3, <2>5 DEF TakeThenNotify
  <2>6. CASE Pop(c) \/ TryPopFor(c) \/ PopBatch(c)
    BY <2>1, <2>6 DEF Pop, TryPopFor, PopBatch
  <2>7. CASE TryPop(c)
    BY <2>4, <2>7 DEF TryPop
  <2>8. CASE PopLock(c) \/ PopSleep(c) \/ PopTimeout(c) \/ PopTimedOut(c)
    BY <2>2, <2>3, <2>4, <2>5, <2>8
    DEF PopLock, PopSleep, PopTimeout, PopTimedOut, TakeFor, ReturnNull, GoTo
  <2>9. CASE PopNotify(c)
    BY <2>2, <2>9 DEF PopNotify
  <2> QED
    BY <1>8, <2>6, <2>7, <2>8, <2>9 DEF Fetching
<1> QED
  BY <1>2, <1>5, <1>6, <1>7, <1>8 DEF Next

-----------------------------------------------------------------------------
(* No worker sleeps through a unit *)

LEMMA WaysFinite ==
    ASSUME IsFiniteSet(Threads), NEW l, NEW m
    PROVE  /\ IsFiniteSet(At(l) \cup At(m))
           /\ l # m => Cardinality(At(l) \cup At(m)) = Cardinality(At(l)) + Cardinality(At(m))
<1>1. At(l) \in SUBSET Threads /\ At(m) \in SUBSET Threads
  BY DEF At
<1>2. IsFiniteSet(At(l)) /\ IsFiniteSet(At(m))
  BY <1>1, FS_Subset
<1>3. Cardinality(At(l)) \in Nat /\ Cardinality(At(m)) \in Nat
  BY <1>2, FS_CardinalityType
<1>4. /\ IsFiniteSet(At(l) \cup At(m))
      /\ Cardinality(At(l) \cup At(m))
            = Cardinality(At(l)) + Cardinality(At(m)) - Cardinality(At(l) \cap At(m))
  BY <1>2, FS_Union
<1>5. ASSUME l # m PROVE Cardinality(At(l) \cap At(m)) = 0
  <2>1. At(l) \cap At(m) = {}
    BY <1>5 DEF At
  <2> QED
    BY <2>1, FS_EmptySet
<1> QED
  BY <1>3, <1>4, <1>5

LEMMA StepUnitsCovered ==
    ASSUME IsFiniteSet(Threads), TypeInv, TypeInv', UnitInv, Next
    PROVE  UnitsCovered'
<1>1. UnitChange
  BY UnitProducer, UnitConsumer, UnitController, UnitSpurious DEF Next, UnitInv
<1>2. IsFiniteSet(UnitWays) /\ IsFiniteSet(UnitWays')
  <2>1. IsFiniteSet(UnitWays)
    BY WaysFinite DEF UnitWays
  <2>2. UnitWays' \in SUBSET Threads
    BY DEF UnitWays, At
  <2> QED
    BY <2>1, <2>2, FS_Subset
<1>3. Size \in Int /\ Size' \in Int
  BY DEF TypeInv, TypeOK, Size
<1>4. Covers(UnitWaits', UnitWaits, Size, Size', UnitWays, UnitWays')
  BY <1>1 DEF UnitChange
<1>5. UnitWaits # {} => Size <= Cardinality(UnitWays)
  BY DEF UnitInv, UnitsCovered
<1>6. UnitWaits' # {} => Size' <= Cardinality(UnitWays')
  BY <1>2, <1>3, <1>4, <1>5, CoversKeeps
<1> QED
  BY <1>6 DEF UnitsCovered

(* For any finite number of threads, any capacity and any mix of calls but *)
(* a pop_batch of none: while a worker is asleep, every queued unit has a  *)
(* worker on its way, or a notification that its submitter still owes.     *)
THEOREM UnitsAreNotSleptThrough ==
    ASSUME IsFiniteSet(Threads), 0 \notin BatchCounts
    PROVE  Spec => []NoUnitSleptThrough
<1>1. Init => UnitInv
  BY DEF Init, UnitInv, FoundNone, AskingFor, UnitsCovered, UnitWaits, At, Threads
<1>2. TypeInv /\ TypeInv' /\ UnitInv /\ [Next]_vars => UnitInv'
  <2> SUFFICES ASSUME TypeInv, TypeInv', UnitInv, [Next]_vars PROVE UnitInv'
    OBVIOUS
  <2>1. FoundNone'
    BY StepFoundNone DEF UnitInv
  <2>2. AskingFor(Nat \ {0})'
    BY StepAsking DEF UnitInv
  <2>3. UnitsCovered'
    <3>1. CASE UNCHANGED vars
      BY <3>1 DEF vars, store, UnitInv, UnitsCovered, UnitWaits, UnitWays, At, Size
    <3> QED
      BY <3>1, StepUnitsCovered
  <2> QED
    BY <2>1, <2>2, <2>3 DEF UnitInv
<1>3. UnitInv => NoUnitSleptThrough
  BY WaysFinite DEF UnitInv, UnitsCovered, UnitWaits, UnitWays, NoUnitSleptThrough
<1> QED
  BY <1>1, <1>2, <1>3, TypeCorrect, PTL DEF Spec

-----------------------------------------------------------------------------
(* Free places *)

RoomChange == Covers(RoomWaits', RoomWaits, Room, Room', RoomWays, RoomWays')

LEMMA RoomQuiet ==
    ASSUME Room' <= Room, closed => closed',
           \A t \in Threads :
                /\ pc[t] \in {"push_relock", "pop_notify"} => pc'[t] = pc[t]
                /\ pc'[t] = "wait_full" => pc[t] = "wait_full"
    PROVE  RoomChange
<1>1. RoomWaits' \subseteq RoomWaits /\ RoomWays \subseteq RoomWays'
  BY DEF RoomWaits, RoomWays, At
<1> QED
  BY <1>1 DEF RoomChange, Covers

LEMMA RoomProducer ==
    ASSUME TypeInv, TypeInv', FoundFull, NEW p \in Producers,
           Push(p) \/ PushTooLate(p) \/ PushBatch(p) \/ Pushing(p)
    PROVE  RoomChange
<1>1. /\ Size \in Nat /\ rank_unit_standard \in Seq(Units) /\ p \in Threads
      /\ Size = Len(rank_unit_standard) /\ max_storage_capacity \in Nat
      /\ Room = max_storage_capacity - Size /\ closed \in BOOLEAN
  BY DEF TypeInv, TypeOK, Size, Threads, Room
<1>2. pc[p] \in ProducerLocations
  BY DEF TypeInv, TypeOK
<1>3. ASSUME NEW l, l # "wait_full", pc' = [pc EXCEPT ![p] = l], UNCHANGED store,
             pc[p] # "push_relock"
      PROVE  RoomChange
  <2>1. \A t \in Threads : pc'[t] = IF t = p THEN l ELSE pc[t]
    BY <1>3 DEF TypeInv, TypeOK
  <2>2. Room' = Room /\ closed' = closed
    BY <1>3 DEF Room, Size, store
  <2> QED
    BY <1>1, <1>2, <1>3, <2>1, <2>2, RoomQuiet DEF ProducerLocations
<1>4. ASSUME Room <= 0, UNCHANGED store PROVE RoomChange
  BY <1>4 DEF Room, Size, store, RoomChange, Covers
<1>5. ASSUME closed, UNCHANGED store PROVE RoomChange
  BY <1>5 DEF store, RoomChange, Covers, RoomWaits
<1>6. ASSUME Enqueue(p), pc[p] \in {"push_lock", "push_relock"} PROVE RoomChange
  <2>1. Head(todo[p]) \in Units
    BY <1>6, HeadTailProperties DEF TypeInv, TypeOK, Busy
  <2>2. Size' = Size + 1
    BY <1>1, <1>6, <2>1, AppendProperties DEF Enqueue, EnqueueOn, Size
  <2>3. Room' = Room - 1 /\ closed' = closed
    BY <1>1, <1>6, <2>2 DEF Enqueue, EnqueueOn, Room
  <2>4. \A t \in Threads : pc'[t] = IF t = p THEN "push_notify" ELSE pc[t]
    BY <1>6 DEF Enqueue, EnqueueOn, TypeInv, TypeOK
  <2>5. RoomWaits' \subseteq RoomWaits /\ RoomWays \ {p} \subseteq RoomWays'
    BY <2>3, <2>4 DEF RoomWaits, RoomWays, At
  <2>6. CASE p \in RoomWays
    BY <1>1, <2>3, <2>5, <2>6 DEF RoomChange, Covers
  <2>7. CASE p \notin RoomWays
    <3>1. RoomWays \subseteq RoomWays'
      BY <2>5, <2>7
    <3> QED
      BY <1>1, <2>3, <2>5, <3>1 DEF RoomChange, Covers
  <2> QED
    BY <2>6, <2>7
<1>7. ASSUME AwaitRoom(p), pc[p] \in {"push_lock", "push_relock"} PROVE RoomChange
  BY <1>1, <1>4, <1>5, <1>6, <1>7 DEF AwaitRoom, Refuse, GoTo
<1>8. ASSUME Refuse(p) \/ Throw(p), pc[p] # "push_relock" PROVE RoomChange
  BY <1>3, <1>8 DEF Refuse, Throw, Advanced
<1>9. CASE Push(p) \/ PushTooLate(p) \/ PushBatch(p)
  <2>1. ASSUME UNCHANGED <<store, pc>> PROVE RoomChange
    <3>1. Room' = Room /\ closed' = closed
      BY <2>1 DEF Room, Size, store
    <3> QED
      BY <1>1, <2>1, <3>1, RoomQuiet
  <2> QED
    BY <1>3, <1>9, <2>1 DEF Push, PushTooLate, PushBatch, BeginPush
<1>10. CASE PushCheck(p)
  BY <1>3, <1>8, <1>10 DEF PushCheck, GoTo
<1>11. CASE PushSleep(p)
  BY <1>4, <1>11 DEF PushSleep, GoTo, FoundFull
<1>12. CASE PushRelock(p)
  BY <1>7, <1>12 DEF PushRelock
<1>13. CASE PushLock(p)
  <2>1. ASSUME ~HasRoom, Overwrite(p) PROVE RoomChange
    <3>1. Size > 0
      BY <1>1, <2>1 DEF HasRoom, Bounded
    <3>2. /\ SubSeq(rank_unit_standard, 1, Size - 1) \in Seq(Units)
          /\ Len(SubSeq(rank_unit_standard, 1, Size - 1)) = Size - 1
      BY <1>1, <3>1
    <3>3. Head(todo[p]) \in Units
      BY <1>13, HeadTailProperties DEF TypeInv, TypeOK, Busy, PushLock
    <3>4. Size' = Size
      BY <1>1, <2>1, <3>2, <3>3, AppendProperties DEF Overwrite, EnqueueOn, Size
    <3>5. Room' = Room /\ closed' = closed
      BY <1>1, <2>1, <3>4 DEF Overwrite, EnqueueOn, Room
    <3>6. \A t \in Threads : pc'[t] = IF t = p THEN "push_notify" ELSE pc[t]
      BY <2>1 DEF Overwrite, EnqueueOn, TypeInv, TypeOK
    <3> QED
      BY <1>1, <1>13, <3>5, <3>6, RoomQuiet DEF PushLock
  <2> QED
    BY <1>6, <1>7, <1>8, <1>13, <2>1 DEF PushLock
<1>14. CASE PushNotify(p)
  <2>3. /\ pc'[p] \in {"idle", "push_check"}
        /\ \A s \in Threads \ {p} :
              pc'[s] = pc[s] \/ (pc[s] = "wait_empty" /\ pc'[s] = "pop_relock")
    BY <1>14, SubmitterGoesOn
  <2>4. Room' = Room /\ closed' = closed /\ pc[p] = "push_notify"
    BY <1>14 DEF PushNotify, store, Room, Size
  <2> QED
    BY <1>1, <2>3, <2>4, RoomQuiet
<1> QED
  BY <1>9, <1>10, <1>11, <1>12, <1>13, <1>14 DEF Pushing

LEMMA RoomConsumer ==
    ASSUME TypeInv, TypeInv', AskingFor({1}), NEW c \in Consumers,
           Pop(c) \/ TryPop(c) \/ TryPopFor(c) \/ PopBatch(c) \/ Fetching(c)
    PROVE  RoomChange
<1>1. /\ Size \in Nat /\ Size' \in Nat /\ c \in Threads /\ max_storage_capacity \in Nat
      /\ Room = max_storage_capacity - Size /\ closed \in BOOLEAN
  BY DEF TypeInv, TypeOK, Size, Threads, Room
<1>2. pc[c] \in ConsumerLocations
  BY DEF TypeInv, TypeOK
<1>3. ASSUME NEW l, l # "wait_full", pc' = [pc EXCEPT ![c] = l], pc[c] # "pop_notify",
             UNCHANGED store
      PROVE  RoomChange
  <2>1. \A t \in Threads : pc'[t] = IF t = c THEN l ELSE pc[t]
    BY <1>3 DEF TypeInv, TypeOK
  <2>2. Room' = Room /\ closed' = closed
    BY <1>3 DEF Room, Size, store
  <2> QED
    BY <1>1, <1>2, <1>3, <2>1, <2>2, RoomQuiet DEF ConsumerLocations
<1>4. ASSUME TakeFront(1), Size > 0 PROVE Room' = Room + 1 /\ closed' = closed
  <2>1. Size' = Size - 1
    BY <1>1, <1>4, TakeFrontSize
  <2>2. UNCHANGED <<closed, max_storage_capacity>>
    BY <1>4 DEF TakeFront
  <2> QED
    BY <1>1, <2>1, <2>2 DEF Room
<1>5. ASSUME TakeAndNotify(c), Size > 0, pc[c] # "pop_notify" PROVE RoomChange
  <2>1. Room' = Room + 1 /\ closed' = closed
    BY <1>4, <1>5 DEF TakeAndNotify
  <2>2. /\ pc'[c] = "idle"
        /\ \A t \in Threads \ {c} :
              pc'[t] = pc[t] \/ (pc[t] = "wait_full" /\ pc'[t] = "push_relock")
        /\ \/ \A t \in Threads \ {c} : pc[t] # "wait_full"
           \/ \E t \in Threads \ {c} : pc[t] = "wait_full" /\ pc'[t] = "push_relock"
    BY <1>5, WorkerGoesHome DEF TakeAndNotify, Return
  <2>3. RoomWaits' \subseteq RoomWaits /\ RoomWays \subseteq RoomWays'
    BY <1>2, <1>5, <2>1, <2>2 DEF RoomWaits, RoomWays, At, ConsumerLocations
  <2>4. CASE \A t \in Threads \ {c} : pc[t] # "wait_full"
    <3>1. RoomWaits' = {}
      BY <2>2, <2>4 DEF RoomWaits, At
    <3> QED
      BY <3>1 DEF RoomChange, Covers
  <2>5. ASSUME NEW t \in Threads \ {c}, pc[t] = "wait_full", pc'[t] = "push_relock"
        PROVE  RoomChange
    <3>1. t \in RoomWays' /\ t \notin RoomWays
      BY <2>5 DEF RoomWays, At
    <3> QED
      BY <1>1, <2>1, <2>3, <3>1 DEF RoomChange, Covers
  <2> QED
    BY <2>2, <2>4, <2>5
<1>6. ASSUME TakeThenNotify(c), Size > 0, pc[c] \notin {"idle", "pop_notify"} PROVE RoomChange
  <2>1. count[c] = 1
    BY <1>6 DEF AskingFor
  <2> DEFINE n == IF count[c] < Size THEN count[c] ELSE Size
  <2>2. n = 1
    BY <1>1, <1>6, <2>1
  <2>3. TakeFront(n) /\ (n > 0 => pc' = [pc EXCEPT ![c] = "pop_notify"])
    BY <1>6, <2>2 DEF TakeThenNotify
  <2> HIDE DEF n
  <2>4. Room' = Room + 1 /\ closed' = closed
    BY <1>4, <1>6, <2>2, <2>3
  <2>5. \A t \in Threads : pc'[t] = IF t = c THEN "pop_notify" ELSE pc[t]
    BY <2>2, <2>3 DEF TypeInv, TypeOK
  <2>6. /\ RoomWaits' \subseteq RoomWaits /\ RoomWays \subseteq RoomWays'
        /\ c \in RoomWays' /\ c \notin RoomWays
    BY <1>1, <1>2, <1>6, <2>4, <2>5 DEF RoomWaits, RoomWays, At, ConsumerLocations
  <2> QED
    BY <1>1, <2>4, <2>6 DEF RoomChange, Covers
<1>7. CASE Pop(c) \/ TryPopFor(c) \/ PopBatch(c)
  BY <1>3, <1>7 DEF Pop, TryPopFor, PopBatch, Call
<1>8. CASE TryPop(c)
  BY <1>5, <1>8 DEF TryPop
<1>9. CASE PopLock(c)
  BY <1>3, <1>5, <1>6, <1>9 DEF PopLock, TakeFor, ReturnNull, Return, GoTo
<1>10. CASE PopSleep(c) \/ PopTimeout(c)
  BY <1>3, <1>10 DEF PopSleep, PopTimeout, GoTo
<1>11. CASE PopTimedOut(c)
  BY <1>3, <1>6, <1>11 DEF PopTimedOut, ReturnNull, Return
<1>12. CASE PopNotify(c)
  <2>1. Room' = Room /\ closed' = closed /\ pc[c] = "pop_notify"
    BY <1>12 DEF PopNotify, store, Room, Size
  <2>2. /\ pc'[c] = "idle"
        /\ \A t \in Threads \ {c} :
              pc'[t] = pc[t] \/ (pc[t] = "wait_full" /\ pc'[t] = "push_relock")
        /\ \/ \A t \in Threads \ {c} : pc[t] # "wait_full"
           \/ \E t \in Threads \ {c} : pc[t] = "wait_full" /\ pc'[t] = "push_relock"
    BY <1>12, WorkerGoesHome DEF PopNotify, Return
  <2>3. RoomWaits' \subseteq RoomWaits
    BY <2>1, <2>2 DEF RoomWaits, At
  <2>4. CASE \A t \in Threads \ {c} : pc[t] # "wait_full"
    <3>1. RoomWaits' = {}
      BY <2>2, <2>4 DEF RoomWaits, At
    <3> QED
      BY <3>1 DEF RoomChange, Covers
  <2>5. ASSUME NEW t \in Threads \ {c}, pc[t] = "wait_full", pc'[t] = "push_relock"
        PROVE  RoomChange
    <3>1. /\ c \in RoomWays /\ t \in RoomWays' /\ t \notin RoomWays
          /\ RoomWays \ {c} \subseteq RoomWays'
      BY <1>1, <2>1, <2>2, <2>5 DEF RoomWays, At
    <3> QED
      BY <1>1, <2>1, <2>3, <3>1 DEF RoomChange, Covers
  <2> QED
    BY <2>2, <2>4, <2>5
<1> QED
  BY <1>7, <1>8, <1>9, <1>10, <1>11, <1>12 DEF Fetching

(* close leaves no submitter for whom a place should be free; clear leaves *)
(* no bound.                                                               *)
LEMMA RoomController ==
    ASSUME TypeInv, NEW k \in Controllers, Close(k) \/ Clear(k) \/ Closing(k)
    PROVE  RoomChange
<1>1. /\ k \in Threads /\ pc[k] \in ControllerLocations /\ Size \in Nat
      /\ max_storage_capacity \in Nat /\ Room = max_storage_capacity - Size
      /\ closed \in BOOLEAN
  BY DEF TypeInv, TypeOK, Threads, Size, Room
<1>2. CASE Close(k)
  BY <1>2 DEF Close, RoomWaits, RoomChange, Covers
<1>3. CASE Clear(k)
  <2>0. max_storage_capacity' = 0 /\ Size' = 0
    BY <1>3 DEF Clear, Size
  <2>1. Room' = 0
    BY <2>0 DEF Room
  <2> QED
    BY <2>1 DEF RoomChange, Covers
<1>4. ASSUME NEW next \in {"idle", "close_full"}, NEW w \in Asleep,
             pc' = NotifyAll([pc EXCEPT ![k] = next], w)
      PROVE  \A t \in Threads : pc'[t] = IF t = k THEN next
                                         ELSE IF pc[t] = w THEN Resume(w) ELSE pc[t]
  BY <1>1, <1>4 DEF NotifyAll, TypeInv, TypeOK, Asleep
<1>5. CASE CloseEmpty(k)
  <2>1. Room' = Room /\ closed' = closed
    BY <1>5 DEF CloseEmpty, store, Room, Size
  <2>2. \A t \in Threads : pc'[t] = IF t = k THEN "close_full"
                            ELSE IF pc[t] = "wait_empty" THEN "pop_relock" ELSE pc[t]
    BY <1>4, <1>5 DEF CloseEmpty, Asleep, Resume
  <2> QED
    BY <1>1, <2>1, <2>2, RoomQuiet DEF ControllerLocations
<1>6. CASE CloseFull(k)
  <2>1. \A t \in Threads : pc'[t] # "wait_full"
    BY <1>4, <1>6 DEF CloseFull, Asleep, Resume
  <2>2. RoomWaits' = {}
    BY <2>1 DEF RoomWaits, At
  <2> QED
    BY <2>2 DEF RoomChange, Covers
<1> QED
  BY <1>2, <1>3, <1>5, <1>6 DEF Closing

LEMMA RoomSpurious ==
    ASSUME TypeInv, NEW t \in Threads, SpuriousWakeup(t)
    PROVE  RoomChange
<1>1. Room \in Int /\ Room' = Room /\ closed' = closed
  BY DEF TypeInv, TypeOK, SpuriousWakeup, GoTo, store, Size, Room
<1>2. /\ \A s \in Threads : pc'[s] = IF s = t THEN Resume(pc[t]) ELSE pc[s]
      /\ pc[t] \in Asleep /\ Resume(pc[t]) # "wait_full"
  BY DEF TypeInv, TypeOK, SpuriousWakeup, GoTo, Resume
<1> QED
  BY <1>1, <1>2, RoomQuiet DEF Asleep

LEMMA StepRoomCovered ==
    ASSUME IsFiniteSet(Threads), "set_max_size" \notin Controls,
           TypeInv, TypeInv', RoomInv, Next
    PROVE  RoomCovered'
<1>0. \A k \in Controllers : ~SetMaxSize(k)
  BY DEF SetMaxSize
<1>1. RoomChange
  BY <1>0, RoomProducer, RoomConsumer, RoomController, RoomSpurious DEF Next, RoomInv
<1>2. IsFiniteSet(RoomWays) /\ IsFiniteSet(RoomWays')
  <2>1. IsFiniteSet(RoomWays)
    BY WaysFinite DEF RoomWays
  <2>2. RoomWays' \in SUBSET Threads
    BY DEF RoomWays, At
  <2> QED
    BY <2>1, <2>2, FS_Subset
<1>3. Room \in Int /\ Room' \in Int
  BY DEF TypeInv, TypeOK, Size, Room
<1>4. Covers(RoomWaits', RoomWaits, Room, Room', RoomWays, RoomWays')
  BY <1>1 DEF RoomChange
<1>5. RoomWaits # {} => Room <= Cardinality(RoomWays)
  BY DEF RoomInv, RoomCovered
<1>6. RoomWaits' # {} => Room' <= Cardinality(RoomWays')
  BY <1>2, <1>3, <1>4, <1>5, CoversKeeps
<1> QED
  BY <1>6 DEF RoomCovered

(* The same for free places, when units are fetched one by one and nobody  *)
(* changes the capacity (a pop_batch of two wakes one submitter only, and  *)
(* set_max_size wakes nobody): while a submitter is asleep in an open      *)
(* queue, every free place has a submitter on its way, or a notification   *)
(* that a worker still owes.                                               *)
THEOREM RoomIsNotSleptThrough ==
    ASSUME IsFiniteSet(Threads), BatchCounts \subseteq {1}, "set_max_size" \notin Controls
    PROVE  Spec => []NoRoomSleptThrough
<1>1. Init => RoomInv
  BY DEF Init, RoomInv, FoundFull, AskingFor, RoomCovered, RoomWaits, At, Threads
<1>2. TypeInv /\ TypeInv' /\ RoomInv /\ [Next]_vars => RoomInv'
  <2> SUFFICES ASSUME TypeInv, TypeInv', RoomInv, [Next]_vars PROVE RoomInv'
    OBVIOUS
  <2>1. FoundFull'
    BY StepFoundFull DEF RoomInv
  <2>2. AskingFor({1})'
    BY StepAsking DEF RoomInv
  <2>3. RoomCovered'
    <3>1. CASE UNCHANGED vars
      BY <3>1 DEF vars, store, RoomInv, RoomCovered, RoomWaits, RoomWays, At, Size, Room
    <3> QED
      BY <3>1, StepRoomCovered
  <2> QED
    BY <2>1, <2>2, <2>3 DEF RoomInv
<1>3. RoomInv => NoRoomSleptThrough
  BY WaysFinite DEF RoomInv, RoomCovered, RoomWaits, RoomWays, Room, NoRoomSleptThrough
<1> QED
  BY <1>1, <1>2, <1>3, TypeCorrect, PTL DEF Spec

(* Nobody sleeps next to what it waits for, under both sets of conditions. *)
THEOREM NobodySleepsNextToIt ==
    ASSUME IsFiniteSet(Threads), BatchCounts \subseteq {1}, "set_max_size" \notin Controls
    PROVE  Spec => []NobodySleptThrough
<1>1. 0 \notin BatchCounts
  OBVIOUS
<1>2. NoUnitSleptThrough /\ NoRoomSleptThrough => NobodySleptThrough
  BY DEF NobodySleptThrough
<1> QED
  BY <1>1, <1>2, UnitsAreNotSleptThrough, RoomIsNotSleptThrough, PTL
=============================================================================
