------------------------ MODULE ConnectionPool_proofs ------------------------
(***************************************************************************)
(* Proofs about ConnectionPool, for any borrowers, managers, sessions and  *)
(* pool objects and any limits: every session is in one place, the lent    *)
(* ones are known, the pool is a book of leases, and the maximum is passed *)
(* by one session per borrower at most.  At the end, proofs about Session, *)
(* with one calling thread, and about SessionManagement: nothing stays     *)
(* connected behind the back of who closed it.                             *)
(***************************************************************************)
EXTENDS MCConnections, FiniteSetTheorems, SequenceTheorems, TLAPS

USE RolesAssumption, NobodyAssumption, LimitsAssumption

(* At these locations a call works on the pool it has looked up.           *)
Handing == {"give", "invalidate"}
Working == BorrowLocations \cup RefillLocations \cup Handing

Sound(t) ==
    /\ pc[t] \in Working => at[t] \in Pools \ unused
    /\ pc[t] \in BorrowLocations \cup Handing => t \in Borrowers
    /\ pc[t] \in BorrowLocations => held[t] = "none"
    /\ pc[t] \in Handing => held[t] # "none"
    /\ pc[t] \in {"warm", "warm_add"} => need[t] >= 1

(* A pool object that was not made yet is empty and nobody works on it.    *)
ThreadInv ==
    /\ current \notin unused
    /\ \A p \in unused : idle[p] = <<>> /\ lent[p] = {}
    /\ \A t \in Threads : Sound(t)

TypeInv == TypeOK /\ ThreadInv

-----------------------------------------------------------------------------
(* Where threads go *)

(* Everybody else stays, or wakes up.                                      *)
Woke(t) ==
    \A x \in Threads \ {t} : pc'[x] = pc[x] \/ (pc[x] = "asleep" /\ pc'[x] = "look")

LEMMA Moves ==
    ASSUME TypeOK, NEW t \in Threads, NEW from, NEW to \in Locations,
           \/ Go(t, from, to)
           \/ from # "asleep" /\ \E p : NotifyOne(t, from, to, p) \/ NotifyAll(t, from, to, p)
    PROVE  /\ pc' \in [Threads -> Locations]
           /\ pc[t] = from /\ pc'[t] = to /\ Woke(t)
<1>1. "look" \in Locations
  BY DEF Locations, BorrowLocations
<1>2. CASE Go(t, from, to)
  BY <1>2 DEF Go, Woke, TypeOK
<1>3. ASSUME NEW p, from # "asleep", NotifyOne(t, from, to, p), Asleep(p) # {}
      PROVE  /\ pc' \in [Threads -> Locations]
             /\ pc[t] = from /\ pc'[t] = to /\ Woke(t)
  <2>1. pc[t] = from
    BY <1>3 DEF NotifyOne
  <2>2. PICK b \in Asleep(p) : pc' = [pc EXCEPT ![t] = to, ![b] = "look"]
    BY <1>3 DEF NotifyOne
  <2>3. b \in Threads /\ pc[b] = "asleep" /\ b # t
    BY <1>3, <2>1 DEF Asleep, Threads
  <2> QED
    BY <1>1, <2>1, <2>2, <2>3 DEF Woke, TypeOK
<1>4. ASSUME NEW p, from # "asleep", NotifyAll(t, from, to, p)
      PROVE  /\ pc' \in [Threads -> Locations]
             /\ pc[t] = from /\ pc'[t] = to /\ Woke(t)
  BY <1>1, <1>4 DEF NotifyAll, Asleep, Woke, TypeOK
<1> QED
  BY <1>2, <1>3, <1>4 DEF NotifyOne

LEMMA MovesAndWakes ==
    ASSUME TypeOK, NEW t \in Threads, NEW from, NEW to \in Locations, from # "asleep",
           NEW p, NotifyOne(t, from, to, p)
    PROVE  /\ pc' \in [Threads -> Locations]
           /\ pc[t] = from /\ pc'[t] = to /\ Woke(t)
  BY Moves

LEMMA LeavesWarmAdd ==
    ASSUME TypeOK, NEW t \in Threads, NEW to \in Locations, NEW p,
           NotifyOne(t, "warm_add", to, p)
    PROVE  pc' \in [Threads -> Locations] /\ pc'[t] = to /\ Woke(t)
<1> DEFINE from == "warm_add"
<1>1. from # "asleep" /\ NotifyOne(t, from, to, p)
  OBVIOUS
<1> HIDE DEF from
<1> QED
  BY <1>1, MovesAndWakes

(* A step of one thread leaves the others as sound as they were.           *)
LEMMA OthersSound ==
    ASSUME TypeInv, NEW t \in Threads, Woke(t), unused' \subseteq unused,
           \A x \in Threads \ {t} : at'[x] = at[x] /\ need'[x] = need[x],
           \A b \in Borrowers \ {t} : held'[b] = held[b]
    PROVE  \A x \in Threads \ {t} : Sound(x)'
<1> SUFFICES ASSUME NEW x \in Threads \ {t} PROVE Sound(x)'
  OBVIOUS
<1>1. Sound(x)
  BY DEF TypeInv, ThreadInv
<1>2. pc'[x] = pc[x] \/ (pc[x] = "asleep" /\ pc'[x] = "look")
  BY DEF Woke
<1>3. pc[x] \in BorrowLocations \cup Handing => x \in Borrowers \ {t}
  BY <1>1 DEF Sound
<1>4. at'[x] = at[x] /\ need'[x] = need[x]
  OBVIOUS
<1>5. pc'[x] \in Working => at'[x] \in Pools \ unused'
  BY <1>1, <1>2, <1>4 DEF Sound, Working, BorrowLocations
<1>6. /\ pc'[x] \in BorrowLocations \cup Handing => x \in Borrowers
      /\ pc'[x] \in BorrowLocations => held'[x] = "none"
      /\ pc'[x] \in Handing => held'[x] # "none"
      /\ pc'[x] \in {"warm", "warm_add"} => need'[x] >= 1
  BY <1>1, <1>2, <1>3, <1>4 DEF Sound, BorrowLocations, Handing
<1> QED
  BY <1>5, <1>6 DEF Sound

-----------------------------------------------------------------------------
(* Types *)

LEMMA Tails ==
    ASSUME TypeOK, NEW p \in Pools
    PROVE  /\ Front(p) \in Sessions \cup {"none"}
           /\ Rest(p) \in Seq(Sessions)
  BY DEF TypeOK, Front, Rest

LEMMA Finite ==
    ASSUME TypeOK, NEW i \in Seq(Sessions), NEW l \in SUBSET Sessions
    PROVE  /\ IsFiniteSet(DOMAIN i) /\ IsFiniteSet(Items(i)) /\ IsFiniteSet(l)
           /\ Items(i) \subseteq Sessions
           /\ Total(i, l) \in Nat
<1>1. DOMAIN i = 1 .. Len(i) /\ Len(i) \in Nat
  OBVIOUS
<1>2. IsFiniteSet(DOMAIN i)
  BY <1>1, FS_Interval
<1>3. IsFiniteSet({n \in DOMAIN i : i[n] \in open}) /\ IsFiniteSet(l \cap open)
  BY <1>2, FS_Subset
<1>4. Items(i) \subseteq Sessions
  BY DEF Items
<1> QED
  BY <1>2, <1>3, <1>4, FS_Subset, FS_CardinalityType DEF Total

LEMMA SurvivorsType ==
    ASSUME NEW q \in Seq(Sessions), NEW r \in Survivors(q)
    PROVE  r \in Seq(Sessions) /\ Items(r) = Items(q) \cap open
<1>1. PICK n \in 0 .. Len(q) : r \in [1 .. n -> Items(q)]
  BY DEF Survivors
<1>2. Items(q) \subseteq Sessions
  BY DEF Items
<1>3. r \in [1 .. n -> Sessions] /\ n \in Nat
  BY <1>1, <1>2
<1>4. r \in Seq(Sessions)
  BY <1>3, SeqDef
<1> QED
  BY <1>4 DEF Survivors

(* What is left to show of a step of thread t.                             *)
LEMMA StepIsSound ==
    ASSUME TypeInv, NEW t \in Threads, TypeOK', Woke(t), Sound(t)',
           unused' \subseteq unused, current' \notin unused',
           \A p \in unused' : idle'[p] = idle[p] /\ lent'[p] = lent[p],
           \A x \in Threads \ {t} : at'[x] = at[x] /\ need'[x] = need[x],
           \A b \in Borrowers \ {t} : held'[b] = held[b]
    PROVE  TypeInv'
<1>1. \A x \in Threads : Sound(x)'
  BY OthersSound
<1>2. \A p \in unused' : idle'[p] = <<>> /\ lent'[p] = {}
  BY DEF TypeInv, ThreadInv
<1> QED
  BY <1>1, <1>2 DEF TypeInv, ThreadInv

LEMMA Lending ==
    ASSUME TypeOK, NEW b \in Borrowers, NEW s \in open, NEW p \in Pools, LendTo(b, s, p)
    PROVE  /\ lent' \in [Pools -> SUBSET Sessions]
           /\ held' \in [Borrowers -> Sessions \cup {"none"}]
           /\ lent'[p] = lent[p] \cup {s}
           /\ \A q \in Pools \ {p} : lent'[q] = lent[q]
           /\ held'[b] = s
           /\ \A c \in Borrowers \ {b} : held'[c] = held[c]
<1>1. /\ lent \in [Pools -> SUBSET Sessions] /\ s \in Sessions
      /\ held \in [Borrowers -> Sessions \cup {"none"}]
  BY DEF TypeOK
<1>2. lent' = [lent EXCEPT ![p] = lent[p] \cup {s}] /\ held' = [held EXCEPT ![b] = s]
  BY DEF LendTo, Set
<1>3. lent[p] \cup {s} \in SUBSET Sessions
  BY <1>1
<1>4. lent' \in [Pools -> SUBSET Sessions] /\ lent'[p] = lent[p] \cup {s}
  BY <1>1, <1>2, <1>3
<1> QED
  BY <1>1, <1>2, <1>4

(* Session s joins the queue of p.                                         *)
LEMMA Joining ==
    ASSUME TypeOK, NEW s \in Sessions, NEW p \in Pools,
           idle' = Set(idle, p, Append(idle[p], s))
    PROVE  /\ idle' \in [Pools -> Seq(Sessions)]
           /\ idle'[p] = Append(idle[p], s)
           /\ \A q \in Pools \ {p} : idle'[q] = idle[q]
<1>1. idle \in [Pools -> Seq(Sessions)] /\ Append(idle[p], s) \in Seq(Sessions)
  BY DEF TypeOK
<1> QED
  BY <1>1 DEF Set

LEMMA BorrowerTypes ==
    ASSUME TypeInv, NEW b \in Borrowers,
           \/ Borrow(b) \/ Look(b) \/ BorrowConnect(b) \/ BorrowCheck(b)
           \/ BorrowWake(b) \/ TryBorrow(b)
    PROVE  TypeInv'
<1>t. /\ TypeOK /\ Sound(b) /\ b \in Threads /\ current \notin unused
      /\ \A p \in unused : idle[p] = <<>> /\ lent[p] = {}
  BY DEF TypeInv, ThreadInv, Threads
<1>1. CASE Borrow(b)
  <2>1. /\ pc' \in [Threads -> Locations] /\ pc'[b] = "look" /\ Woke(b)
    BY <1>t, <1>1, Moves DEF Borrow, Locations, BorrowLocations
  <2>2. TypeOK'
    BY <1>t, <1>1, <2>1 DEF Borrow, TypeOK, Set, map, shelf
  <2>3. Sound(b)'
    BY <1>t, <1>1, <2>1 DEF Borrow, TypeOK, Sound, Set, map, Working, BorrowLocations,
       RefillLocations, Handing
  <2> QED
    BY <1>t, <1>1, <2>1, <2>2, <2>3, StepIsSound DEF Borrow, TypeOK, Set, map, shelf
<1>2. CASE Look(b)
  <2> DEFINE p == at[b]
  <2>0. pc[b] = "look" /\ p \in Pools \ unused /\ LookLeaving(b, Rest(p))
    BY <1>t, <1>2 DEF Look, Sound, Working, BorrowLocations
  <2>p. Front(p) \in Sessions \cup {"none"} /\ Rest(p) \in Seq(Sessions)
    BY <1>t, <2>0, Tails
  <2>1. /\ pc' \in [Threads -> Locations] /\ Woke(b)
        /\ \/ /\ pc'[b] = "idle" /\ at' = Set(at, b, "none") /\ made' = Set(made, b, "none")
              /\ \/ Front(p) \in open /\ LendTo(b, Front(p), p)
                 \/ UNCHANGED <<lent, held>>
           \/ /\ pc'[b] = "connect" /\ UNCHANGED <<at, made, lent, held>>
           \/ /\ pc'[b] = "asleep" /\ UNCHANGED <<at, lent, held>>
              /\ made' = Set(made, b, "none")
    BY <1>t, <2>0, Moves DEF LookLeaving, EndBorrow, GiveUp, Sleep, Locations, BorrowLocations
  <2>2. /\ idle' = Set(idle, p, Rest(p))
        /\ UNCHANGED <<map, open, need, reading>>
    BY <2>0 DEF LookLeaving
  <2>3. /\ lent' \in [Pools -> SUBSET Sessions] /\ held' \in [Borrowers -> Sessions \cup {"none"}]
        /\ \A q \in unused : lent'[q] = lent[q]
        /\ \A c \in Borrowers \ {b} : held'[c] = held[c]
    BY <1>t, <2>0, <2>1, Lending DEF TypeOK
  <2>4. TypeOK'
    BY <1>t, <2>0, <2>p, <2>1, <2>2, <2>3 DEF TypeOK, Set, map
  <2>5. Sound(b)'
    BY <1>t, <2>0, <2>1, <2>2 DEF TypeOK, Sound, Set, map, Working, BorrowLocations,
       RefillLocations, Handing
  <2>6. \A x \in Threads \ {b} : at'[x] = at[x]
    BY <1>t, <2>1 DEF TypeOK, Set
  <2> QED
    BY <1>t, <2>0, <2>1, <2>2, <2>3, <2>4, <2>5, <2>6, StepIsSound DEF TypeOK, Set, map
<1>3. CASE BorrowConnect(b)
  <2>1. /\ pc' \in [Threads -> Locations] /\ pc[b] = "connect" /\ pc'[b] = "check" /\ Woke(b)
    BY <1>t, <1>3, Moves DEF BorrowConnect, Connecting, Locations, BorrowLocations
  <2>2. TypeOK'
    BY <1>t, <1>3, <2>1 DEF BorrowConnect, Connecting, TypeOK, Set, map, shelf
  <2>3. Sound(b)'
    BY <1>t, <1>3, <2>1 DEF BorrowConnect, TypeOK, Sound, map, Working, BorrowLocations,
       RefillLocations, Handing
  <2> QED
    BY <1>t, <1>3, <2>1, <2>2, <2>3, StepIsSound DEF BorrowConnect, map, shelf
<1>4. CASE BorrowCheck(b)
  <2> DEFINE p == at[b]
  <2>0. pc[b] = "check" /\ p \in Pools \ unused
    BY <1>t, <1>4 DEF BorrowCheck, Sound, Working, BorrowLocations
  <2>1. /\ pc' \in [Threads -> Locations] /\ Woke(b)
        /\ \/ /\ pc'[b] = "idle" /\ at' = Set(at, b, "none")
              /\ \/ made[b] \in open /\ LendTo(b, made[b], p)
                 \/ UNCHANGED <<lent, held>>
           \/ /\ pc'[b] = "asleep" /\ UNCHANGED <<at, lent, held>>
        /\ made' = Set(made, b, "none")
    BY <1>t, <1>4, <2>0, Moves DEF BorrowCheck, EndBorrow, GiveUp, Sleep, Locations,
       BorrowLocations
  <2>2. UNCHANGED <<map, idle, open, need, reading>>
    BY <1>4 DEF BorrowCheck
  <2>3. /\ lent' \in [Pools -> SUBSET Sessions] /\ held' \in [Borrowers -> Sessions \cup {"none"}]
        /\ \A q \in unused : lent'[q] = lent[q]
        /\ \A c \in Borrowers \ {b} : held'[c] = held[c]
    BY <1>t, <2>0, <2>1, Lending DEF TypeOK
  <2>4. TypeOK'
    BY <1>t, <2>0, <2>1, <2>2, <2>3 DEF TypeOK, Set, map
  <2>5. Sound(b)'
    BY <1>t, <2>0, <2>1, <2>2 DEF TypeOK, Sound, Set, map, Working, BorrowLocations,
       RefillLocations, Handing
  <2>6. \A x \in Threads \ {b} : at'[x] = at[x]
    BY <1>t, <2>1 DEF TypeOK, Set
  <2> QED
    BY <1>t, <2>0, <2>1, <2>2, <2>3, <2>4, <2>5, <2>6, StepIsSound DEF TypeOK, Set, map
<1>5. CASE BorrowWake(b)
  <2>1. /\ pc' \in [Threads -> Locations] /\ pc[b] = "asleep" /\ pc'[b] = "look" /\ Woke(b)
    BY <1>t, <1>5, Moves DEF BorrowWake, Locations, BorrowLocations
  <2>2. TypeOK'
    BY <1>t, <1>5, <2>1 DEF BorrowWake, TypeOK, map, shelf, work
  <2>3. Sound(b)'
    BY <1>t, <1>5, <2>1 DEF BorrowWake, TypeOK, Sound, map, work, Working, BorrowLocations,
       RefillLocations, Handing
  <2> QED
    BY <1>t, <1>5, <2>1, <2>2, <2>3, StepIsSound DEF BorrowWake, map, shelf, work
<1>6. CASE TryBorrow(b)
  <2> DEFINE p == current
  <2>0. p \in Pools \ unused
    BY <1>t, <1>6 DEF TryBorrow, TypeOK
  <2>p. Front(p) \in Sessions \cup {"none"} /\ Rest(p) \in Seq(Sessions)
    BY <1>t, <2>0, Tails
  <2>1. /\ pc' = pc /\ pc[b] = "idle" /\ Woke(b)
        /\ UNCHANGED <<map, open, pc, work>>
        /\ idle' = Set(idle, p, Rest(p))
        /\ \/ Front(p) \in open /\ LendTo(b, Front(p), p)
           \/ UNCHANGED <<lent, held>>
    BY <1>6 DEF TryBorrow, Woke
  <2>3. /\ lent' \in [Pools -> SUBSET Sessions] /\ held' \in [Borrowers -> Sessions \cup {"none"}]
        /\ \A q \in unused : lent'[q] = lent[q]
        /\ \A c \in Borrowers \ {b} : held'[c] = held[c]
    BY <1>t, <2>0, <2>1, Lending DEF TypeOK
  <2>4. TypeOK'
    BY <1>t, <2>0, <2>p, <2>1, <2>3 DEF TypeOK, Set, map, work
  <2>5. Sound(b)'
    BY <1>t, <2>0, <2>1 DEF TypeOK, Sound, map, work, Working, BorrowLocations,
       RefillLocations, Handing
  <2> QED
    BY <1>t, <2>0, <2>1, <2>3, <2>4, <2>5, StepIsSound DEF TypeOK, Set, map, work
<1> QED
  BY <1>1, <1>2, <1>3, <1>4, <1>5, <1>6

LEMMA GivingTypes ==
    ASSUME TypeInv, NEW b \in Borrowers,
           GiveBack(b) \/ Invalidate(b) \/ GiveBackLocked(b) \/ InvalidateLocked(b)
    PROVE  TypeInv'
<1>t. /\ TypeOK /\ Sound(b) /\ b \in Threads /\ current \notin unused
      /\ \A p \in unused : idle[p] = <<>> /\ lent[p] = {}
  BY DEF TypeInv, ThreadInv, Threads
<1>1. ASSUME NEW to \in Handing, GoToPool(b, to)
      PROVE  TypeInv'
  <2>0. to \in Locations /\ UNCHANGED <<map, shelf, made, need, reading>>
    BY <1>1 DEF GoToPool, Handing, Locations
  <2>1. CASE Found # "none" /\ Go(b, "idle", to) /\ at' = Set(at, b, Found) /\ UNCHANGED <<open, held>>
    <3>0. Found \in Pools \ unused
      BY <1>t, <2>1 DEF Found, TypeOK
    <3>1. /\ pc' \in [Threads -> Locations] /\ pc'[b] = to /\ Woke(b)
      BY <1>t, <2>0, <2>1, Moves
    <3>2. TypeOK'
      BY <1>t, <2>0, <2>1, <3>0, <3>1 DEF TypeOK, Set, map, shelf
    <3>3. Sound(b)'
      BY <1>t, <1>1, <2>0, <2>1, <3>0, <3>1 DEF GoToPool, TypeOK, Sound, Set, map, Working,
         BorrowLocations, RefillLocations, Handing
    <3> QED
      BY <1>t, <2>0, <2>1, <3>1, <3>2, <3>3, StepIsSound DEF TypeOK, Set, map, shelf
  <2>2. CASE /\ pc[b] = "idle" /\ UNCHANGED <<pc, at>>
             /\ open' = open \ {held[b]} /\ held' = Set(held, b, "none")
    <3>2. TypeOK'
      BY <1>t, <2>0, <2>2 DEF TypeOK, Set, map, shelf
    <3>3. Sound(b)' /\ Woke(b)
      BY <1>t, <2>0, <2>2 DEF TypeOK, Sound, Woke, Set, map, Working,
         BorrowLocations, RefillLocations, Handing
    <3> QED
      BY <1>t, <2>0, <2>2, <3>2, <3>3, StepIsSound DEF TypeOK, Set, map, shelf
  <2> QED
    BY <1>1, <2>1, <2>2 DEF GoToPool
<1>2. ASSUME NEW from \in Handing, NotifyOne(b, from, "preheat", at[b]),
             lent' = Set(lent, at[b], lent[at[b]] \ {held[b]}),
             held' = Set(held, b, "none"), open' \subseteq open,
             \/ idle' = idle
             \/ held[b] \in open /\ idle' = Set(idle, at[b], Append(idle[at[b]], held[b])),
             UNCHANGED <<map, work>>
      PROVE  TypeInv'
  <2>1. /\ pc' \in [Threads -> Locations] /\ pc[b] = from /\ pc'[b] = "preheat" /\ Woke(b)
    BY <1>t, <1>2, Moves DEF Handing, Locations, RefillLocations
  <2>2. at[b] \in Pools \ unused
    BY <1>t, <1>2, <2>1 DEF Sound, Working
  <2>3. idle' \in [Pools -> Seq(Sessions)] /\ \A p \in unused : idle'[p] = idle[p]
    BY <1>t, <1>2, <2>2, Joining DEF TypeOK
  <2>4. TypeOK'
    BY <1>t, <1>2, <2>1, <2>2, <2>3 DEF TypeOK, Set, map, work
  <2>5. Sound(b)'
    BY <1>t, <1>2, <2>1, <2>2 DEF TypeOK, Sound, map, work, Working,
         BorrowLocations, RefillLocations, Handing
  <2>6. /\ UNCHANGED <<current, unused, at, need>>
        /\ \A p \in unused' : idle'[p] = idle[p] /\ lent'[p] = lent[p]
        /\ \A c \in Borrowers \ {b} : held'[c] = held[c]
    BY <1>t, <1>2, <2>2, <2>3 DEF TypeOK, Set, map, work
  <2> QED
    BY <1>t, <2>1, <2>4, <2>5, <2>6, StepIsSound
<1>3. CASE GiveBack(b) \/ Invalidate(b)
  BY <1>1, <1>3 DEF GiveBack, Invalidate, Handing
<1>4. CASE GiveBackLocked(b)
  BY <1>2, <1>4 DEF GiveBackLocked, Handing
<1>5. CASE InvalidateLocked(b)
  BY <1>2, <1>5 DEF InvalidateLocked, Handing
<1> QED
  BY <1>3, <1>4, <1>5

LEMMA RefillTypes ==
    ASSUME TypeInv, NEW t \in Threads, Refill(t)
    PROVE  TypeInv'
<1>t. /\ TypeOK /\ Sound(t) /\ current \notin unused
      /\ \A p \in unused : idle[p] = <<>> /\ lent[p] = {}
  BY DEF TypeInv, ThreadInv
<1>l. /\ {"preheat", "warm", "warm_add", "arm", "idle"} \subseteq Locations
      /\ {"preheat", "warm", "warm_add"} \subseteq Working
      /\ {"arm", "idle"} \cap Working = {}
      /\ {"preheat", "warm", "warm_add", "arm", "idle"} \cap (BorrowLocations \cup Handing) = {}
      /\ {"preheat", "warm", "warm_add"} \cap {"arm", "idle"} = {}
      /\ {"arm", "idle"} \cap {"warm", "warm_add"} = {}
  BY DEF Locations, Working, BorrowLocations, RefillLocations, Handing
<1>p. pc[t] \in {"preheat", "warm", "warm_add"}
  BY DEF Refill, Preheat, PreheatConnect, PreheatAdd, AddBelow, Connecting, Go
<1>a. at[t] \in Pools \ unused
  BY <1>t, <1>l, <1>p DEF Sound
<1>n. Total(idle[at[t]], lent[at[t]]) \in Nat
  BY <1>t, <1>a, Finite DEF TypeOK
(* A step that goes on with the refill, or ends it.                        *)
<1>1. ASSUME pc' \in [Threads -> Locations], Woke(t),
             \/ pc'[t] \in {"preheat", "warm", "warm_add"} /\ UNCHANGED <<at, reading>>
             \/ /\ pc'[t] \in {"arm", "idle"}
                /\ at' = Set(at, t, "none") /\ reading' = reading \ {t},
             pc'[t] \in {"warm", "warm_add"} => need'[t] >= 1,
             need' \in [Threads -> Nat], \A x \in Threads \ {t} : need'[x] = need[x],
             made' \in [Threads -> Sessions \cup {"none"}], open' \subseteq Sessions,
             \/ UNCHANGED idle
             \/ /\ made[t] \in open
                /\ idle' = Set(idle, at[t], Append(idle[at[t]], made[t])),
             UNCHANGED <<map, lent, held>>
      PROVE  TypeInv'
  <2>1. at' \in [Threads -> Pools \cup {"none"}] /\ \A x \in Threads \ {t} : at'[x] = at[x]
    BY <1>t, <1>1 DEF TypeOK, Set
  <2>2. idle' \in [Pools -> Seq(Sessions)] /\ \A q \in unused : idle'[q] = idle[q]
    BY <1>t, <1>a, <1>1, Joining DEF TypeOK
  <2>3. TypeOK'
    BY <1>t, <1>1, <2>1, <2>2 DEF TypeOK, map
  <2>4. Sound(t)'
    BY <1>t, <1>l, <1>a, <1>1 DEF Sound, map
  <2> QED
    BY <1>t, <1>1, <2>1, <2>2, <2>3, <2>4, StepIsSound DEF map
<1>2. CASE Preheat(t)
  <2>1. /\ pc[t] = "preheat" /\ UNCHANGED <<map, shelf, open, held, made>>
        /\ \/ /\ Total(idle[at[t]], lent[at[t]]) < Min
              /\ Go(t, "preheat", "warm") /\ UNCHANGED <<at, reading>>
              /\ need' = Set(need, t, Min - Total(idle[at[t]], lent[at[t]]))
           \/ EndRefill(t, "preheat") /\ UNCHANGED need
    BY <1>2 DEF Preheat
  <2>2. CASE /\ Total(idle[at[t]], lent[at[t]]) < Min
             /\ Go(t, "preheat", "warm") /\ UNCHANGED <<at, reading>>
             /\ need' = Set(need, t, Min - Total(idle[at[t]], lent[at[t]]))
    <3>1. pc' \in [Threads -> Locations] /\ pc'[t] = "warm" /\ Woke(t)
      BY <1>t, <1>l, <2>2, Moves
    <3>2. need' \in [Threads -> Nat] /\ need'[t] >= 1 /\ \A x \in Threads \ {t} : need'[x] = need[x]
      BY <1>t, <1>n, <2>2 DEF TypeOK, Set
    <3>3. /\ made' \in [Threads -> Sessions \cup {"none"}] /\ open' \subseteq Sessions
          /\ idle' = idle /\ UNCHANGED <<map, lent, held>>
      BY <1>t, <2>1 DEF TypeOK, shelf
    <3> QED
      BY <1>l, <1>1, <2>2, <3>1, <3>2, <3>3
  <2>3. CASE EndRefill(t, "preheat") /\ UNCHANGED need
    <3>1. PICK to \in {"arm", "idle"} :
              /\ Go(t, "preheat", to)
              /\ at' = Set(at, t, "none") /\ reading' = reading \ {t}
      BY <2>3 DEF EndRefill
    <3>2. pc' \in [Threads -> Locations] /\ pc'[t] = to /\ Woke(t)
      BY <1>t, <1>l, <3>1, Moves
    <3>3. /\ made' \in [Threads -> Sessions \cup {"none"}] /\ open' \subseteq Sessions
          /\ idle' = idle /\ UNCHANGED <<map, lent, held>>
      BY <1>t, <2>1 DEF TypeOK, shelf
    <3>4. /\ need' \in [Threads -> Nat] /\ \A x \in Threads \ {t} : need'[x] = need[x]
          /\ to \in Locations /\ to \notin {"warm", "warm_add"}
      BY <1>t, <1>l, <2>3 DEF TypeOK
    <3> QED
      BY <1>1, <3>1, <3>2, <3>3, <3>4
  <2> QED
    BY <2>1, <2>2, <2>3
<1>3. CASE PreheatConnect(t)
  <2>1. /\ pc[t] = "warm" /\ pc' \in [Threads -> Locations] /\ pc'[t] = "warm_add" /\ Woke(t)
    BY <1>t, <1>l, <1>3, Moves DEF PreheatConnect, Connecting
  <2>2. made' \in [Threads -> Sessions \cup {"none"}] /\ open' \subseteq Sessions
    <3>1. CASE UNCHANGED <<made, open>>
      BY <1>t, <3>1 DEF TypeOK
    <3>2. CASE \E s \in Sessions : made' = Set(made, t, s) /\ open' = open \cup {s}
      BY <1>t, <3>2 DEF TypeOK, Set
    <3> QED
      BY <1>3, <3>1, <3>2 DEF PreheatConnect, Connecting
  <2>3. UNCHANGED <<map, shelf, held, at, need, reading>>
    BY <1>3 DEF PreheatConnect
  <2>4. need[t] >= 1
    BY <1>t, <2>1 DEF Sound
  <2>5. /\ need' \in [Threads -> Nat] /\ \A x \in Threads \ {t} : need'[x] = need[x]
        /\ need'[t] >= 1 /\ idle' = idle /\ UNCHANGED <<map, lent, held, at, reading>>
        /\ "warm_add" \in Locations
    BY <1>t, <1>l, <2>3, <2>4 DEF TypeOK, shelf
  <2> QED
    BY <1>1, <2>1, <2>2, <2>5
<1>4. CASE PreheatAdd(t)
  <2>a. AddBelow(t, Max)
    BY <1>4 DEF PreheatAdd
  <2>b. /\ pc[t] = "warm_add"
        /\ made' = Set(made, t, "none") /\ need' = Set(need, t, need[t] - 1)
        /\ UNCHANGED <<map, lent, open, held>>
    BY <2>a DEF AddBelow
  <2>c. \/ idle' = idle
        \/ made[t] \in open /\ idle' = Set(idle, at[t], Append(idle[at[t]], made[t]))
    BY <2>a DEF AddBelow
  <2>1. /\ pc[t] = "warm_add"
        /\ made' = Set(made, t, "none") /\ need' = Set(need, t, need[t] - 1)
        /\ UNCHANGED <<map, lent, open, held>>
        /\ \/ idle' = idle
           \/ made[t] \in open /\ idle' = Set(idle, at[t], Append(idle[at[t]], made[t]))
    BY <2>b, <2>c
  <2>2. need[t] \in Nat /\ need[t] >= 1
    BY <1>t, <2>1 DEF Sound, TypeOK
  <2>3. /\ need' \in [Threads -> Nat] /\ need'[t] = need[t] - 1
        /\ \A x \in Threads \ {t} : need'[x] = need[x]
    BY <1>t, <2>1, <2>2 DEF TypeOK, Set
  <2>4. made' \in [Threads -> Sessions \cup {"none"}] /\ open' \subseteq Sessions
    BY <1>t, <2>1 DEF TypeOK, Set
  <2>5. CASE /\ need[t] > 1 /\ UNCHANGED <<at, reading>>
             /\ Go(t, "warm_add", "warm") \/ NotifyOne(t, "warm_add", "warm", at[t])
    <3>1. pc' \in [Threads -> Locations] /\ pc'[t] = "warm" /\ Woke(t)
      BY <1>t, <1>l, <2>5, Moves
    <3> QED
      BY <1>t, <1>l, <1>1, <2>1, <2>2, <2>3, <2>4, <2>5, <3>1
  <2>6. CASE /\ at' = Set(at, t, "none") /\ reading' = reading \ {t}
             /\ \E to \in {"arm", "idle"} :
                  Go(t, "warm_add", to) \/ NotifyOne(t, "warm_add", to, at[t])
    <3>1. PICK to \in {"arm", "idle"} :
              Go(t, "warm_add", to) \/ NotifyOne(t, "warm_add", to, at[t])
      BY <2>6
    <3>2. to \in Locations /\ to \notin {"warm", "warm_add"}
      BY <1>l
    <3>3. pc' \in [Threads -> Locations] /\ pc'[t] = to /\ Woke(t)
      <4>1. CASE Go(t, "warm_add", to)
        BY <1>t, <3>2, <4>1, Moves
      <4>2. CASE NotifyOne(t, "warm_add", to, at[t])
        BY <1>t, <3>2, <4>2, LeavesWarmAdd
      <4> QED
        BY <3>1, <4>1, <4>2
    <3> QED
      BY <1>1, <2>1, <2>3, <2>4, <2>6, <3>2, <3>3
  <2>7. \/ need[t] > 1 /\ NotifyOne(t, "warm_add", "warm", at[t]) /\ UNCHANGED <<at, reading>>
        \/ need[t] > 1 /\ Go(t, "warm_add", "warm") /\ UNCHANGED <<at, reading>>
        \/ /\ NotifyOne(t, "warm_add", IF t = "io" THEN "arm" ELSE "idle", at[t])
           /\ at' = Set(at, t, "none") /\ reading' = reading \ {t}
        \/ EndRefill(t, "warm_add")
    BY <1>4 DEF PreheatAdd, AddBelow
  <2> QED
    BY <2>5, <2>6, <2>7 DEF EndRefill
<1> QED
  BY <1>2, <1>3, <1>4 DEF Refill

LEMMA CheckTypes ==
    ASSUME TypeInv,
           \/ TimerFires \/ Tick
           \/ \E t \in Managers \cup {"io"} : ScheduleNextCheck(t)
           \/ \E s \in Sessions : SessionDrops(s)
    PROVE  TypeInv'
<1>t. /\ TypeOK /\ "io" \in Threads /\ Sound("io") /\ current \notin unused
      /\ \A p \in unused : idle[p] = <<>> /\ lent[p] = {}
  BY DEF TypeInv, ThreadInv, Threads
<1>l. /\ {"idle", "tick", "arm", "preheat", "start_lock"} \subseteq Locations
      /\ {"idle", "tick", "arm", "start_lock"} \cap Working = {}
      /\ {"idle", "tick", "arm", "preheat", "start_lock"} \cap (BorrowLocations \cup Handing) = {}
      /\ {"idle", "tick", "arm", "preheat", "start_lock"} \cap {"warm", "warm_add"} = {}
  BY DEF Locations, Working, BorrowLocations, RefillLocations, Handing
<1>1. CASE TimerFires
  <2>1. /\ pc' \in [Threads -> Locations] /\ pc'["io"] \in {"idle", "tick"} /\ Woke("io")
    BY <1>t, <1>l, <1>1 DEF TimerFires, TypeOK, Set, Woke
  <2>2. TypeOK'
    BY <1>t, <1>1, <2>1 DEF TimerFires, TypeOK, shelf, work
  <2>3. Sound("io")'
    BY <1>l, <2>1 DEF Sound
  <2> QED
    BY <1>t, <1>1, <2>1, <2>2, <2>3, StepIsSound DEF TimerFires, shelf, work
<1>2. CASE Tick
  <2>1. CASE current = "none" /\ Go("io", "tick", "arm") /\ UNCHANGED <<map, shelf, open, held, work>>
    <3>1. /\ pc' \in [Threads -> Locations] /\ pc'["io"] = "arm" /\ Woke("io")
      BY <1>t, <1>l, <2>1, Moves
    <3>2. TypeOK'
      BY <1>t, <2>1, <3>1 DEF TypeOK, map, shelf, work
    <3>3. Sound("io")'
      BY <1>l, <3>1 DEF Sound
    <3> QED
      BY <1>t, <2>1, <3>1, <3>2, <3>3, StepIsSound DEF map, shelf, work
  <2>2. CASE /\ current # "none" /\ Go("io", "tick", "preheat")
             /\ at' = Set(at, "io", current) /\ reading' = reading \cup {"io"}
             /\ \E q \in Survivors(idle[current]) : idle' = Set(idle, current, q)
             /\ lent' = Set(lent, current, lent[current] \cap open)
             /\ UNCHANGED <<map, open, held, made, need>>
    <3>1. /\ pc' \in [Threads -> Locations] /\ pc'["io"] = "preheat" /\ Woke("io")
      BY <1>t, <1>l, <2>2, Moves
    <3>2. current \in Pools \ unused
      BY <1>t, <2>2 DEF TypeOK
    <3>3. PICK q \in Survivors(idle[current]) : idle' = Set(idle, current, q)
      BY <2>2
    <3>4. q \in Seq(Sessions)
      BY <1>t, <3>2, SurvivorsType DEF TypeOK
    <3>5. idle' \in [Pools -> Seq(Sessions)] /\ \A p \in unused : idle'[p] = idle[p]
      BY <1>t, <3>2, <3>3, <3>4 DEF TypeOK, Set
    <3>6. lent' \in [Pools -> SUBSET Sessions] /\ \A p \in unused : lent'[p] = lent[p]
      BY <1>t, <2>2, <3>2 DEF TypeOK, Set
    <3>7. TypeOK'
      BY <1>t, <2>2, <3>1, <3>2, <3>5, <3>6 DEF TypeOK, Set, map
    <3>8. Sound("io")'
      BY <1>t, <1>l, <2>2, <3>1, <3>2 DEF Sound, TypeOK, Set, map
    <3> QED
      BY <1>t, <2>2, <3>1, <3>5, <3>6, <3>7, <3>8, StepIsSound DEF TypeOK, Set, map
  <2> QED
    BY <1>2, <2>1, <2>2 DEF Tick, Forget
<1>3. ASSUME NEW t \in Managers \cup {"io"}, ScheduleNextCheck(t)
      PROVE  TypeInv'
  <2>0. t \in Threads /\ Sound(t)
    BY DEF TypeInv, ThreadInv, Threads
  <2>1. /\ pc' \in [Threads -> Locations] /\ pc'[t] \in {"idle", "start_lock"} /\ Woke(t)
    BY <1>t, <1>l, <1>3, <2>0, Moves DEF ScheduleNextCheck
  <2>2. TypeOK'
    BY <1>t, <1>3, <2>1 DEF ScheduleNextCheck, TypeOK, shelf, work
  <2>3. Sound(t)'
    BY <1>l, <2>1 DEF Sound
  <2> QED
    BY <1>t, <1>3, <2>0, <2>1, <2>2, <2>3, StepIsSound DEF ScheduleNextCheck, shelf, work
<1>4. ASSUME NEW s \in Sessions, SessionDrops(s)
      PROVE  TypeInv'
  <2>2. TypeOK'
    BY <1>t, <1>4 DEF SessionDrops, TypeOK, map, shelf, work
  <2>3. Sound("io")' /\ Woke("io")
    BY <1>t, <1>4 DEF SessionDrops, Sound, Woke, map, work
  <2> QED
    BY <1>t, <1>4, <2>2, <2>3, StepIsSound DEF SessionDrops, map, shelf, work
<1> QED
  BY <1>1, <1>2, <1>3, <1>4

LEMMA ManagerTypes ==
    ASSUME TypeInv, NEW m \in Managers,
           \/ Start(m) \/ StartPreheat(m) \/ Stop(m) \/ StopCancel(m)
           \/ StopClose(m) \/ AddEndpoint(m) \/ RemoveEndpoint(m)
    PROVE  TypeInv'
<1>t. /\ TypeOK /\ m \in Threads /\ Sound(m) /\ current \notin unused
      /\ \A p \in unused : idle[p] = <<>> /\ lent[p] = {}
  BY DEF TypeInv, ThreadInv, Threads
<1>l. /\ {"idle", "stop_cancel", "stop_close", "arm", "preheat", "start_lock"} \subseteq Locations
      /\ {"idle", "stop_cancel", "stop_close", "arm", "start_lock"} \cap Working = {}
      /\ {"idle", "stop_cancel", "stop_close", "arm", "preheat", "start_lock"}
           \cap (BorrowLocations \cup Handing \cup {"warm", "warm_add"}) = {}
  BY DEF Locations, Working, BorrowLocations, RefillLocations, Handing
(* Nothing changes but flags, and where m is.                              *)
<1>1. ASSUME NEW from, NEW to \in {"idle", "stop_cancel", "stop_close", "arm"},
             Go(m, from, to), running' \in BOOLEAN, timer' \in BOOLEAN,
             UNCHANGED <<current, unused, named, shelf, open, held, work>>
      PROVE  TypeInv'
  <2>1. pc' \in [Threads -> Locations] /\ pc'[m] = to /\ Woke(m)
    BY <1>t, <1>l, <1>1, Moves
  <2>2. TypeOK'
    BY <1>t, <1>1, <2>1 DEF TypeOK, shelf, work
  <2>3. Sound(m)'
    BY <1>l, <2>1 DEF Sound
  <2> QED
    BY <1>t, <1>1, <2>1, <2>2, <2>3, StepIsSound DEF shelf, work
(* A refill of pool p begins.                                              *)
<1>2. ASSUME NEW from, NEW p \in Pools, Go(m, from, "preheat"), at' = Set(at, m, p),
             reading' \subseteq Threads, unused' \subseteq unused, p \notin unused',
             current' \in Pools, current' \notin unused',
             UNCHANGED <<running, timer, named, shelf, open, held, made, need>>
      PROVE  TypeInv'
  <2>1. pc' \in [Threads -> Locations] /\ pc'[m] = "preheat" /\ Woke(m)
    BY <1>t, <1>l, <1>2, Moves
  <2>2. TypeOK'
    BY <1>t, <1>2, <2>1 DEF TypeOK, Set, shelf
  <2>3. Sound(m)'
    BY <1>t, <1>l, <1>2, <2>1 DEF Sound, TypeOK, Set
  <2> QED
    BY <1>t, <1>2, <2>1, <2>2, <2>3, StepIsSound DEF TypeOK, Set, shelf
(* The current pool is closed, and perhaps removed.                        *)
<1>3. ASSUME NEW from \in Locations \ {"asleep"}, current # "none", CloseIdle(m, from),
             current' \in {current, "none"},
             UNCHANGED <<running, timer, unused, named, lent, held, work>>
      PROVE  TypeInv'
  <2>0. current \in Pools \ unused
    BY <1>t, <1>3 DEF TypeOK
  <2>1. pc' \in [Threads -> Locations] /\ pc'[m] = "idle" /\ Woke(m)
    BY <1>t, <1>l, <1>3, Moves DEF CloseIdle
  <2>2. idle' \in [Pools -> Seq(Sessions)] /\ \A q \in unused : idle'[q] = idle[q]
    BY <1>t, <1>3, <2>0 DEF CloseIdle, TypeOK, Set
  <2>3. TypeOK'
    BY <1>t, <1>3, <2>0, <2>1, <2>2 DEF CloseIdle, TypeOK, work
  <2>4. Sound(m)'
    BY <1>l, <2>1 DEF Sound
  <2>5. current' \notin unused'
    BY <1>t, <1>3 DEF TypeOK
  <2> QED
    BY <1>t, <1>3, <2>1, <2>2, <2>3, <2>4, <2>5, StepIsSound DEF work
<1>4. CASE Start(m) \/ Stop(m)
  BY <1>t, <1>1, <1>4 DEF Start, Stop, TypeOK
<1>5. CASE StopCancel(m)
  BY <1>t, <1>1, <1>5 DEF StopCancel, TypeOK
<1>6. CASE StartPreheat(m)
  <2>1. CASE current = "none" /\ Go(m, "start_lock", "idle") /\ UNCHANGED <<map, shelf, open, held, work>>
    BY <1>t, <1>1, <2>1 DEF TypeOK, map
  <2>2. CASE /\ current # "none" /\ Go(m, "start_lock", "preheat")
             /\ at' = Set(at, m, current) /\ reading' = reading \cup {m}
             /\ UNCHANGED <<map, shelf, open, held, made, need>>
    <3>1. current \in Pools /\ reading' \subseteq Threads
      BY <1>t, <2>2 DEF TypeOK
    <3> QED
      BY <1>t, <1>2, <2>2, <3>1 DEF map
  <2> QED
    BY <1>6, <2>1, <2>2 DEF StartPreheat
<1>7. CASE StopClose(m)
  <2>1. CASE current = "none" /\ Go(m, "stop_close", "idle") /\ UNCHANGED <<open, idle>>
    BY <1>t, <1>1, <1>7, <2>1 DEF StopClose, TypeOK, map, shelf
  <2>2. CASE current # "none" /\ CloseIdle(m, "stop_close")
    BY <1>l, <1>3, <1>7, <2>2 DEF StopClose, map
  <2> QED
    BY <1>7, <2>1, <2>2 DEF StopClose
<1>8. CASE AddEndpoint(m)
  <2>1. PICK p \in unused : /\ current' = p /\ unused' = unused \ {p}
                            /\ Go(m, "idle", "preheat") /\ at' = Set(at, m, p)
    BY <1>8 DEF AddEndpoint
  <2>2. p \in Pools /\ reading' \subseteq Threads
    BY <1>t, <1>8, <2>1 DEF TypeOK, AddEndpoint
  <2> QED
    BY <1>2, <1>8, <2>1, <2>2 DEF AddEndpoint
<1>9. CASE RemoveEndpoint(m)
  BY <1>l, <1>3, <1>9 DEF RemoveEndpoint
<1> QED
  BY <1>4, <1>5, <1>6, <1>7, <1>8, <1>9

LEMMA TypeInit == Init => TypeInv
<1> SUFFICES ASSUME Init PROVE TypeInv
  OBVIOUS
<1>1. "idle" \in Locations /\ "idle" \notin Working /\ "none" \notin Pools
  BY DEF Locations, Working, BorrowLocations, RefillLocations, Handing
<1>2. TypeOK
  <2>1. idle \in [Pools -> Seq(Sessions)]
    BY DEF Init
  <2>2. /\ lent \in [Pools -> SUBSET Sessions] /\ open \subseteq Sessions
        /\ held \in [Borrowers -> Sessions \cup {"none"}]
    BY DEF Init
  <2>3. /\ pc \in [Threads -> Locations] /\ at \in [Threads -> Pools \cup {"none"}]
        /\ made \in [Threads -> Sessions \cup {"none"}] /\ need \in [Threads -> Nat]
    BY <1>1 DEF Init
  <2>4. /\ running \in BOOLEAN /\ timer \in BOOLEAN /\ named \in BOOLEAN
        /\ current \in Pools \cup {"none"} /\ unused \subseteq Pools /\ reading \subseteq Threads
    BY DEF Init
  <2> QED
    BY <2>1, <2>2, <2>3, <2>4 DEF TypeOK
<1>3. ThreadInv
  BY <1>1 DEF Init, ThreadInv, Sound, Working, RefillLocations
<1> QED
  BY <1>2, <1>3 DEF TypeInv

LEMMA TypeStep == TypeInv /\ [Next]_vars => TypeInv'
<1> SUFFICES ASSUME TypeInv, [Next]_vars PROVE TypeInv'
  OBVIOUS
<1>1. CASE UNCHANGED vars
  BY <1>1 DEF vars, map, shelf, work, TypeInv, TypeOK, ThreadInv, Sound
<1>2. CASE Next
  BY <1>2, BorrowerTypes, GivingTypes, RefillTypes, CheckTypes, ManagerTypes DEF Next, Refill
<1> QED
  BY <1>1, <1>2

(* Every variable has its type, through every call, refill and check.      *)
THEOREM ConnectionPoolTypeOK == Spec => []TypeOK
<1>1. TypeInv => TypeOK
  BY DEF TypeInv
<1> QED
  BY <1>1, TypeInit, TypeStep, PTL DEF Spec

-----------------------------------------------------------------------------
(* Queues of sessions *)

Inj(q) == \A i, j \in DOMAIN q : q[i] = q[j] => i = j

(* What is in r is in q, and no more often.                                *)
Thinner(r, q) == Items(r) \subseteq Items(q) /\ (Inj(q) => Inj(r))

LEMMA TailItems ==
    ASSUME NEW q \in Seq(Sessions), q # <<>>
    PROVE  /\ Items(q) = Items(Tail(q)) \cup {Head(q)}
           /\ Inj(q) => Inj(Tail(q)) /\ Head(q) \notin Items(Tail(q))
<1>1. /\ Tail(q) \in Seq(Sessions) /\ Len(q) \in Nat /\ Len(q) >= 1
      /\ Len(Tail(q)) = Len(q) - 1 /\ Head(q) = q[1]
      /\ DOMAIN q = 1 .. Len(q) /\ DOMAIN Tail(q) = 1 .. Len(q) - 1
      /\ \A i \in 1 .. Len(q) - 1 : Tail(q)[i] = q[i + 1]
  OBVIOUS
<1>2. Items(Tail(q)) \subseteq Items(q) /\ Head(q) \in Items(q)
  BY <1>1 DEF Items
<1>3. ASSUME NEW i \in 1 .. Len(q), i # 1
      PROVE  q[i] \in Items(Tail(q))
  <2>1. i - 1 \in 1 .. Len(q) - 1 /\ Tail(q)[i - 1] = q[i]
    BY <1>1, <1>3
  <2> QED
    BY <1>1, <2>1 DEF Items
<1>4. ASSUME Inj(q)
      PROVE  Inj(Tail(q)) /\ Head(q) \notin Items(Tail(q))
  <2>1. ASSUME NEW i \in DOMAIN Tail(q), NEW j \in DOMAIN Tail(q), Tail(q)[i] = Tail(q)[j]
        PROVE  i = j
    <3>1. i \in 1 .. Len(q) - 1 /\ j \in 1 .. Len(q) - 1 /\ q[i + 1] = q[j + 1]
      BY <1>1, <2>1
    <3>2. i + 1 = j + 1
      BY <1>1, <1>4, <3>1 DEF Inj
    <3> QED
      BY <3>1, <3>2
  <2>2. ASSUME NEW i \in DOMAIN Tail(q), Tail(q)[i] = Head(q)
        PROVE  FALSE
    <3>1. i \in 1 .. Len(q) - 1 /\ q[i + 1] = q[1]
      BY <1>1, <2>2
    <3>2. i + 1 = 1
      BY <1>1, <1>4, <3>1 DEF Inj
    <3> QED
      BY <3>1, <3>2
  <2> QED
    BY <2>1, <2>2 DEF Inj, Items
<1>5. Items(q) \subseteq Items(Tail(q)) \cup {Head(q)}
  BY <1>1, <1>3 DEF Items
<1> QED
  BY <1>2, <1>4, <1>5

LEMMA AppendItems ==
    ASSUME NEW q \in Seq(Sessions), NEW s \in Sessions
    PROVE  /\ Items(Append(q, s)) = Items(q) \cup {s}
           /\ Inj(q) /\ s \notin Items(q) => Inj(Append(q, s))
<1>1. /\ Len(q) \in Nat /\ DOMAIN q = 1 .. Len(q)
      /\ DOMAIN Append(q, s) = 1 .. Len(q) + 1
      /\ Append(q, s)[Len(q) + 1] = s
      /\ \A i \in 1 .. Len(q) : Append(q, s)[i] = q[i]
  OBVIOUS
<1>2. \A i \in DOMAIN Append(q, s) : i \in 1 .. Len(q) \/ i = Len(q) + 1
  BY <1>1
<1>3. Items(Append(q, s)) \subseteq Items(q) \cup {s}
  BY <1>1, <1>2 DEF Items
<1>4. \A i \in 1 .. Len(q) : i \in DOMAIN Append(q, s)
  BY <1>1
<1>5. Items(q) \cup {s} \subseteq Items(Append(q, s))
  BY <1>1, <1>4 DEF Items
<1>6. ASSUME Inj(q), s \notin Items(q) PROVE Inj(Append(q, s))
  BY <1>1, <1>2, <1>6 DEF Inj, Items
<1> QED
  BY <1>3, <1>5, <1>6

LEMMA SurvivorsThinner ==
    ASSUME NEW q \in Seq(Sessions), NEW r \in Survivors(q)
    PROVE  Thinner(r, q)
<1>1. /\ r \in Seq(Sessions) /\ Items(r) = Items(q) \cap open
      /\ \A i, j \in DOMAIN r : i < j =>
           \E k, l \in DOMAIN q : k < l /\ q[k] = r[i] /\ q[l] = r[j]
  BY SurvivorsType DEF Survivors, InOrder
<1>2. DOMAIN r = 1 .. Len(r) /\ DOMAIN q = 1 .. Len(q) /\ Len(r) \in Nat /\ Len(q) \in Nat
  BY <1>1
<1>3. ASSUME Inj(q), NEW i \in DOMAIN r, NEW j \in DOMAIN r, i < j, r[i] = r[j]
      PROVE  FALSE
  <2>1. PICK k \in DOMAIN q, l \in DOMAIN q : k < l /\ q[k] = r[i] /\ q[l] = r[j]
    BY <1>1, <1>3
  <2>2. k = l
    BY <1>3, <2>1 DEF Inj
  <2> QED
    BY <1>2, <2>1, <2>2
<1>4. Inj(q) => Inj(r)
  <2> SUFFICES ASSUME Inj(q), NEW i \in DOMAIN r, NEW j \in DOMAIN r, r[i] = r[j]
               PROVE  i = j
    BY DEF Inj
  <2>1. i < j \/ j < i \/ i = j
    BY <1>2
  <2> QED
    BY <1>3, <2>1
<1> QED
  BY <1>1, <1>4 DEF Thinner

-----------------------------------------------------------------------------
(* What a step does with sessions *)

(* A thread has no session under way any more, or the same.                *)
FewerMade == \A t \in Threads : made'[t] = made[t] \/ made'[t] = "none"

Settles ==
    /\ \A p \in Pools :
         /\ Thinner(idle'[p], idle[p])
         /\ lent[p] \cap open \subseteq lent'[p] /\ lent'[p] \subseteq lent[p]
    /\ open' \subseteq open /\ UNCHANGED held /\ FewerMade

Connects(t, s) ==
    /\ Unreferenced(s)
    /\ made' = Set(made, t, s) /\ open' = open \cup {s}
    /\ UNCHANGED <<idle, lent, held>>

Lends(b, p) ==
    /\ held[b] = "none" /\ Front(p) \in open
    /\ idle' = Set(idle, p, Rest(p)) /\ LendTo(b, Front(p), p)
    /\ UNCHANGED open /\ FewerMade

Lands(b, p) ==
    /\ held[b] = "none" /\ made[b] \in open
    /\ at[b] = p /\ pc[b] = "check" /\ pc'[b] = "idle"
    /\ LendTo(b, made[b], p) /\ made' = Set(made, b, "none")
    /\ UNCHANGED <<idle, open>>

Returns(b, p) ==
    /\ held[b] \in open /\ held' = Set(held, b, "none")
    /\ lent' = Set(lent, p, lent[p] \ {held[b]})
    /\ idle' = Set(idle, p, Append(idle[p], held[b]))
    /\ UNCHANGED <<open, made>>

Admits(t, p) ==
    /\ made[t] \in open /\ Total(idle[p], lent[p]) < Max /\ made' = Set(made, t, "none")
    /\ idle' = Set(idle, p, Append(idle[p], made[t]))
    /\ UNCHANGED <<lent, open, held>>

Releases(b) ==
    /\ held[b] # "none" /\ held[b] \notin open' /\ open' \subseteq open
    /\ held' = Set(held, b, "none")
    /\ \A p \in Pools : lent[p] \ {held[b]} \subseteq lent'[p] /\ lent'[p] \subseteq lent[p]
    /\ UNCHANGED <<idle, made>>

Effect ==
    \/ Settles
    \/ \E t \in Threads, s \in Sessions : Connects(t, s)
    \/ \E b \in Borrowers, p \in Pools :
         Lends(b, p) \/ Lands(b, p) \/ Returns(b, p)
    \/ \E t \in Threads, p \in Pools : Admits(t, p)
    \/ \E b \in Borrowers : Releases(b)

LEMMA RestThinner ==
    ASSUME TypeOK, NEW p \in Pools
    PROVE  Thinner(Rest(p), idle[p])
<1>1. idle[p] \in Seq(Sessions)
  BY DEF TypeOK
<1>2. CASE idle[p] = <<>>
  BY <1>2 DEF Rest, Thinner
<1>3. CASE idle[p] # <<>>
  BY <1>1, <1>3, TailItems DEF Rest, Thinner
<1> QED
  BY <1>2, <1>3

(* A step that leaves queues, lent sessions and hands alone.               *)
LEMMA ShelfUntouched ==
    ASSUME UNCHANGED <<idle, lent, held>>, open' \subseteq open, FewerMade
    PROVE  Settles
  BY DEF Settles, Thinner

LEMMA ConnectingEffect ==
    ASSUME NEW t \in Threads, NEW from, NEW to, Connecting(t, from, to),
           UNCHANGED <<idle, lent, held>>
    PROVE  Effect
<1>1. CASE UNCHANGED <<made, open>>
  BY <1>1, ShelfUntouched DEF Effect, FewerMade
<1>2. CASE \E s \in Sessions : Unreferenced(s) /\ made' = Set(made, t, s) /\ open' = open \cup {s}
  BY <1>2 DEF Effect, Connects
<1> QED
  BY <1>1, <1>2 DEF Connecting

LEMMA BorrowerEffect ==
    ASSUME TypeInv, NEW b \in Borrowers,
           \/ Borrow(b) \/ Look(b) \/ BorrowConnect(b) \/ BorrowCheck(b)
           \/ BorrowWake(b) \/ TryBorrow(b)
    PROVE  Effect
<1>t. TypeOK /\ Sound(b) /\ b \in Threads
  BY DEF TypeInv, ThreadInv, Threads
<1>f. ASSUME made' = Set(made, b, "none") \/ UNCHANGED made
      PROVE  FewerMade
  BY <1>t, <1>f DEF FewerMade, Set, TypeOK
(* A look at the front of p that lends it, or drops it.                    *)
<1>l. ASSUME NEW p \in Pools, held[b] = "none", idle' = Set(idle, p, Rest(p)),
             \/ Front(p) \in open /\ LendTo(b, Front(p), p)
             \/ UNCHANGED <<lent, held>>,
             UNCHANGED open, FewerMade
      PROVE  Effect
  <2>1. CASE Front(p) \in open /\ LendTo(b, Front(p), p)
    BY <1>l, <2>1 DEF Effect, Lends
  <2>2. CASE UNCHANGED <<lent, held>>
    <3>1. \A q \in Pools : Thinner(idle'[q], idle[q])
      BY <1>t, <1>l, RestThinner DEF TypeOK, Set, Thinner
    <3> QED
      BY <1>l, <2>2, <3>1 DEF Effect, Settles
  <2> QED
    BY <1>l, <2>1, <2>2
<1>1. CASE Borrow(b)
  BY <1>1, <1>f, ShelfUntouched DEF Borrow, shelf, Effect
<1>2. CASE Look(b)
  <2>0. pc[b] = "look" /\ at[b] \in Pools /\ held[b] = "none" /\ LookLeaving(b, Rest(at[b]))
    BY <1>t, <1>2 DEF Look, Sound, Working, BorrowLocations
  <2>1. made' = Set(made, b, "none") \/ UNCHANGED made
    BY <2>0 DEF LookLeaving, EndBorrow, GiveUp, Sleep
  <2>2. /\ idle' = Set(idle, at[b], Rest(at[b])) /\ UNCHANGED open
        /\ \/ Front(at[b]) \in open /\ LendTo(b, Front(at[b]), at[b])
           \/ UNCHANGED <<lent, held>>
    BY <2>0 DEF LookLeaving
  <2> QED
    BY <1>f, <1>l, <2>0, <2>1, <2>2
<1>3. CASE BorrowConnect(b)
  BY <1>t, <1>3, ConnectingEffect DEF BorrowConnect, shelf
<1>4. CASE BorrowCheck(b)
  <2>0. pc[b] = "check" /\ at[b] \in Pools /\ held[b] = "none"
    BY <1>t, <1>4 DEF BorrowCheck, Sound, Working, BorrowLocations
  <2>1. made' = Set(made, b, "none") /\ UNCHANGED <<idle, open>>
    BY <1>4 DEF BorrowCheck, EndBorrow, GiveUp, Sleep
  <2>2. \/ made[b] \in open /\ LendTo(b, made[b], at[b]) /\ Go(b, "check", "idle")
        \/ UNCHANGED <<lent, held>>
    BY <1>4 DEF BorrowCheck, EndBorrow
  <2> QED
    BY <1>t, <1>f, <2>0, <2>1, <2>2, ShelfUntouched DEF Effect, Lands, Go, TypeOK
<1>5. CASE BorrowWake(b)
  BY <1>5, <1>f, ShelfUntouched DEF BorrowWake, shelf, work, Effect
<1>6. CASE TryBorrow(b)
  <2>0. current \in Pools /\ held[b] = "none"
    BY <1>t, <1>6 DEF TryBorrow, TypeOK
  <2>1. UNCHANGED made
    BY <1>6 DEF TryBorrow, work
  <2>2. /\ idle' = Set(idle, current, Rest(current)) /\ UNCHANGED open
        /\ \/ Front(current) \in open /\ LendTo(b, Front(current), current)
           \/ UNCHANGED <<lent, held>>
    BY <1>6 DEF TryBorrow
  <2> QED
    BY <1>f, <1>l, <2>0, <2>1, <2>2
<1> QED
  BY <1>1, <1>2, <1>3, <1>4, <1>5, <1>6

LEMMA GivingEffect ==
    ASSUME TypeInv, NEW b \in Borrowers,
           GiveBack(b) \/ Invalidate(b) \/ GiveBackLocked(b) \/ InvalidateLocked(b)
    PROVE  Effect
<1>t. TypeOK /\ Sound(b) /\ b \in Threads
  BY DEF TypeInv, ThreadInv, Threads
<1>f. UNCHANGED made => FewerMade
  BY DEF FewerMade
<1>1. ASSUME NEW to, GoToPool(b, to)
      PROVE  Effect
  <2>1. CASE Found # "none" /\ UNCHANGED <<open, held>>
    BY <1>1, <1>f, <2>1, ShelfUntouched DEF GoToPool, shelf, Effect
  <2>2. CASE open' = open \ {held[b]} /\ held' = Set(held, b, "none")
    BY <1>1, <2>2 DEF GoToPool, shelf, Effect, Releases
  <2> QED
    BY <1>1, <2>1, <2>2 DEF GoToPool
<1>2. ASSUME NEW from \in Handing, pc[b] = from,
             lent' = Set(lent, at[b], lent[at[b]] \ {held[b]}),
             held' = Set(held, b, "none"), UNCHANGED made
      PROVE  /\ at[b] \in Pools /\ held[b] \in Sessions
             /\ \A p \in Pools : lent[p] \ {held[b]} \subseteq lent'[p] /\ lent'[p] \subseteq lent[p]
  <2>1. at[b] \in Pools /\ held[b] \in Sessions
    BY <1>t, <1>2 DEF Sound, Working, TypeOK
  <2> QED
    BY <1>t, <1>2, <2>1 DEF Set, TypeOK
<1>3. CASE GiveBack(b) \/ Invalidate(b)
  BY <1>1, <1>3 DEF GiveBack, Invalidate
<1>4. CASE GiveBackLocked(b)
  <2>1. /\ pc[b] = "give" /\ UNCHANGED <<made, open>>
        /\ lent' = Set(lent, at[b], lent[at[b]] \ {held[b]}) /\ held' = Set(held, b, "none")
        /\ idle' = IF held[b] \in open THEN Set(idle, at[b], Append(idle[at[b]], held[b])) ELSE idle
    BY <1>4 DEF GiveBackLocked, NotifyOne, Go, work
  <2>2. /\ at[b] \in Pools /\ held[b] \in Sessions
        /\ \A p \in Pools : lent[p] \ {held[b]} \subseteq lent'[p] /\ lent'[p] \subseteq lent[p]
    BY <1>2, <2>1 DEF Handing
  <2>3. CASE held[b] \in open
    BY <2>1, <2>2, <2>3 DEF Effect, Returns
  <2>4. CASE held[b] \notin open
    BY <2>1, <2>2, <2>4 DEF Effect, Releases
  <2> QED
    BY <2>3, <2>4
<1>5. CASE InvalidateLocked(b)
  <2>1. /\ pc[b] = "invalidate" /\ UNCHANGED <<made, idle>> /\ open' = open \ {held[b]}
        /\ lent' = Set(lent, at[b], lent[at[b]] \ {held[b]}) /\ held' = Set(held, b, "none")
    BY <1>5 DEF InvalidateLocked, NotifyOne, Go, work
  <2>2. /\ at[b] \in Pools /\ held[b] \in Sessions
        /\ \A p \in Pools : lent[p] \ {held[b]} \subseteq lent'[p] /\ lent'[p] \subseteq lent[p]
    BY <1>2, <2>1 DEF Handing
  <2> QED
    BY <2>1, <2>2 DEF Effect, Releases
<1> QED
  BY <1>3, <1>4, <1>5

LEMMA OtherEffect ==
    ASSUME TypeInv, Next,
           ~ \E b \in Borrowers :
               \/ Borrow(b) \/ Look(b) \/ BorrowConnect(b) \/ BorrowCheck(b)
               \/ BorrowWake(b) \/ TryBorrow(b)
               \/ GiveBack(b) \/ Invalidate(b) \/ GiveBackLocked(b) \/ InvalidateLocked(b)
    PROVE  Effect
<1>t. TypeOK
  BY DEF TypeInv
<1>f. UNCHANGED made => FewerMade
  BY DEF FewerMade
<1>1. ASSUME NEW t \in Threads, Refill(t)
      PROVE  Effect
  <2>1. CASE Preheat(t)
    BY <1>f, <2>1, ShelfUntouched DEF Preheat, shelf, Effect
  <2>2. CASE PreheatConnect(t)
    BY <2>2, ConnectingEffect DEF PreheatConnect, shelf
  <2>3. CASE PreheatAdd(t)
    <3>0. AddBelow(t, Max)
      BY <2>3 DEF PreheatAdd
    <3>1. /\ pc[t] = "warm_add" /\ made' = Set(made, t, "none") /\ UNCHANGED <<lent, open, held>>
      BY <3>0 DEF AddBelow
    <3>2. \/ UNCHANGED idle
          \/ /\ made[t] \in open /\ Total(idle[at[t]], lent[at[t]]) < Max
             /\ idle' = Set(idle, at[t], Append(idle[at[t]], made[t]))
      BY <3>0 DEF AddBelow
    <3>3. FewerMade
      BY <1>t, <3>1 DEF FewerMade, Set, TypeOK
    <3>4. at[t] \in Pools
      BY <3>1 DEF TypeInv, ThreadInv, Sound, Working, RefillLocations
    <3> QED
      BY <3>1, <3>2, <3>3, <3>4, ShelfUntouched DEF Effect, Admits
  <2> QED
    BY <1>1, <2>1, <2>2, <2>3 DEF Refill
<1>2. CASE Tick
  <2>1. CASE UNCHANGED <<map, shelf, open, held, work>>
    BY <1>f, <2>1, ShelfUntouched DEF shelf, work, Effect
  <2>2. CASE /\ current # "none"
             /\ \E q \in Survivors(idle[current]) : idle' = Set(idle, current, q)
             /\ lent' = Set(lent, current, lent[current] \cap open)
             /\ UNCHANGED <<map, open, held, made, need>>
    <3>1. current \in Pools /\ idle[current] \in Seq(Sessions)
      BY <1>t, <2>2 DEF TypeOK
    <3>2. PICK q \in Survivors(idle[current]) : idle' = Set(idle, current, q)
      BY <2>2
    <3>3. \A p \in Pools : Thinner(idle'[p], idle[p])
      BY <1>t, <3>1, <3>2, SurvivorsThinner DEF TypeOK, Set, Thinner
    <3>4. \A p \in Pools : lent[p] \cap open \subseteq lent'[p] /\ lent'[p] \subseteq lent[p]
      BY <1>t, <2>2, <3>1 DEF TypeOK, Set
    <3> QED
      BY <1>f, <2>2, <3>3, <3>4 DEF Effect, Settles
  <2> QED
    BY <1>2, <2>1, <2>2 DEF Tick, Forget
<1>3. CASE TimerFires \/ \E t \in Managers \cup {"io"} : ScheduleNextCheck(t)
  BY <1>f, <1>3, ShelfUntouched DEF TimerFires, ScheduleNextCheck, shelf, work, Effect
<1>4. ASSUME NEW s \in Sessions, SessionDrops(s)
      PROVE  Effect
  BY <1>f, <1>4, ShelfUntouched DEF SessionDrops, shelf, work, Effect
<1>5. ASSUME NEW m \in Managers, NEW from, current # "none", CloseIdle(m, from),
             UNCHANGED <<lent, held, work>>
      PROVE  Effect
  <2>1. current \in Pools /\ idle' = Set(idle, current, <<>>) /\ open' \subseteq open
    BY <1>t, <1>5 DEF CloseIdle, TypeOK
  <2>2. \A p \in Pools : Thinner(idle'[p], idle[p])
    BY <1>t, <2>1 DEF TypeOK, Set, Thinner, Inj, Items
  <2> QED
    BY <1>f, <1>5, <2>1, <2>2 DEF Effect, Settles, work
<1>6. ASSUME NEW m \in Managers,
             \/ Start(m) \/ StartPreheat(m) \/ Stop(m) \/ StopCancel(m) \/ AddEndpoint(m)
      PROVE  Effect
  <2>1. UNCHANGED <<idle, lent, open, held, made>>
    BY <1>6 DEF Start, StartPreheat, Stop, StopCancel, AddEndpoint, shelf, work
  <2> QED
    BY <1>f, <2>1, ShelfUntouched DEF Effect
<1>7. ASSUME NEW m \in Managers, StopClose(m) \/ RemoveEndpoint(m)
      PROVE  Effect
  <2>1. CASE UNCHANGED <<open, idle>>
    BY <1>f, <1>7, <2>1, ShelfUntouched DEF StopClose, RemoveEndpoint, Effect, work
  <2>2. CASE current # "none" /\ \E from : CloseIdle(m, from)
    BY <1>5, <1>7, <2>2 DEF StopClose, RemoveEndpoint
  <2> QED
    BY <1>7, <2>1, <2>2 DEF StopClose, RemoveEndpoint
<1> QED
  BY <1>1, <1>2, <1>3, <1>4, <1>6, <1>7 DEF Next, Refill

LEMMA StepEffect == TypeInv /\ [Next]_vars => Effect
<1>1. ASSUME UNCHANGED vars PROVE Effect
  BY <1>1, ShelfUntouched DEF vars, shelf, work, Effect, FewerMade
<1> QED
  BY <1>1, BorrowerEffect, GivingEffect, OtherEffect

-----------------------------------------------------------------------------
(* Every session is in one place: in one queue, once, or in one borrower's *)
(* hand, or under way in one thread.                                       *)

QueuesApart ==
    /\ \A p \in Pools : Inj(idle[p])
    /\ \A p, q \in Pools : p # q => Items(idle[p]) \cap Items(idle[q]) = {}
HandsApart ==
    \A b, c \in Borrowers : held[b] = held[c] /\ held[b] # "none" => b = c
MadeApart ==
    \A t, u \in Threads : made[t] = made[u] /\ made[t] # "none" => t = u
PlacesApart ==
    /\ \A b \in Borrowers, p \in Pools : held[b] \notin Items(idle[p])
    /\ \A t \in Threads, p \in Pools : made[t] \notin Items(idle[p])
    /\ \A b \in Borrowers, t \in Threads : held[b] = made[t] => held[b] = "none"

Apart == QueuesApart /\ HandsApart /\ MadeApart /\ PlacesApart

LentInv == TypeInv /\ Apart /\ LentAreKnown

(* The queues after a session has left the front of p, or joined the end.  *)
LEMMA FrontLeaves ==
    ASSUME TypeOK, QueuesApart, NEW p \in Pools, Front(p) \in open,
           idle' = Set(idle, p, Rest(p))
    PROVE  /\ Front(p) \in Items(idle[p])
           /\ Items(idle'[p]) = Items(idle[p]) \ {Front(p)}
           /\ \A q \in Pools \ {p} : idle'[q] = idle[q]
           /\ \A q \in Pools : Front(p) \notin Items(idle'[q])
           /\ \A q \in Pools : Thinner(idle'[q], idle[q])
<1>1. /\ idle[p] \in Seq(Sessions) /\ idle'[p] = Rest(p)
      /\ \A q \in Pools \ {p} : idle'[q] = idle[q]
  BY DEF TypeOK, Set
<1>2. idle[p] # <<>> /\ Front(p) = Head(idle[p]) /\ Rest(p) = Tail(idle[p])
  BY DEF Front, Rest, TypeOK
<1>3. /\ Items(idle[p]) = Items(Rest(p)) \cup {Front(p)}
      /\ Front(p) \notin Items(Rest(p)) /\ Inj(Rest(p))
  BY <1>1, <1>2, TailItems DEF QueuesApart
<1>4. \A q \in Pools \ {p} : Front(p) \notin Items(idle[q])
  BY <1>3 DEF QueuesApart
<1> QED
  BY <1>1, <1>3, <1>4 DEF Thinner

LEMMA Joined ==
    ASSUME TypeOK, NEW p \in Pools, NEW s \in Sessions,
           idle' = Set(idle, p, Append(idle[p], s)),
           \A q \in Pools : s \notin Items(idle[q])
    PROVE  /\ Items(idle'[p]) = Items(idle[p]) \cup {s}
           /\ \A q \in Pools \ {p} : idle'[q] = idle[q]
           /\ QueuesApart => QueuesApart'
<1>1. /\ idle[p] \in Seq(Sessions) /\ idle'[p] = Append(idle[p], s)
      /\ \A q \in Pools \ {p} : idle'[q] = idle[q]
  BY Joining DEF TypeOK
<1>2. /\ Items(idle'[p]) = Items(idle[p]) \cup {s}
      /\ Inj(idle[p]) => Inj(idle'[p])
  BY <1>1, AppendItems
<1>3. ASSUME QueuesApart PROVE QueuesApart'
  <2>1. \A q \in Pools : Inj(idle'[q])
    BY <1>1, <1>2, <1>3 DEF QueuesApart
  <2>2. ASSUME NEW q \in Pools, NEW r \in Pools, q # r
        PROVE  Items(idle'[q]) \cap Items(idle'[r]) = {}
    <3>1. CASE q # p /\ r # p
      BY <1>1, <1>3, <2>2, <3>1 DEF QueuesApart
    <3>2. CASE q = p
      BY <1>1, <1>2, <1>3, <2>2, <3>2 DEF QueuesApart
    <3>3. CASE r = p
      BY <1>1, <1>2, <1>3, <2>2, <3>3 DEF QueuesApart
    <3> QED
      BY <3>1, <3>2, <3>3
  <2> QED
    BY <2>1, <2>2 DEF QueuesApart
<1> QED
  BY <1>1, <1>2, <1>3

(* Queues that only get thinner stay apart.                                *)
LEMMA ThinnerApart ==
    ASSUME QueuesApart, \A p \in Pools : Thinner(idle'[p], idle[p])
    PROVE  QueuesApart'
<1>1. \A p \in Pools : Inj(idle'[p])
  BY DEF QueuesApart, Thinner
<1>2. ASSUME NEW p \in Pools, NEW q \in Pools, p # q
      PROVE  Items(idle'[p]) \cap Items(idle'[q]) = {}
  BY <1>2 DEF QueuesApart, Thinner
<1> QED
  BY <1>1, <1>2 DEF QueuesApart

LEMMA ApartStep ==
    ASSUME TypeInv, Apart, Effect
    PROVE  Apart'
<1>t. /\ TypeOK /\ Borrowers \subseteq Threads
      /\ QueuesApart /\ HandsApart /\ MadeApart /\ PlacesApart
  BY DEF TypeInv, Apart, Threads
<1>s. \A p \in Pools : Items(idle[p]) \subseteq Sessions
  BY <1>t DEF TypeOK, Items
<1>1. CASE Settles
  <2>1. QueuesApart'
    BY <1>t, <1>1, ThinnerApart DEF Settles
  <2>2. HandsApart' /\ MadeApart'
    BY <1>t, <1>1 DEF Settles, FewerMade, HandsApart, MadeApart
  <2>3. \A p \in Pools : Items(idle'[p]) \subseteq Items(idle[p])
    BY <1>1 DEF Settles, Thinner
  <2>4. held' = held /\ \A t \in Threads : made'[t] = made[t] \/ made'[t] = "none"
    BY <1>1 DEF Settles, FewerMade
  <2>5. PlacesApart'
    BY <1>t, <1>s, <2>3, <2>4 DEF PlacesApart
  <2> QED
    BY <2>1, <2>2, <2>5 DEF Apart
<1>2. ASSUME NEW t \in Threads, NEW s \in Sessions, Connects(t, s)
      PROVE  Apart'
  <2>1. /\ UNCHANGED <<idle, held>> /\ made' = [made EXCEPT ![t] = s]
        /\ \A p \in Pools : s \notin Items(idle[p])
        /\ \A b \in Borrowers : held[b] # s /\ \A u \in Threads : made[u] # s
    BY <1>2 DEF Connects, Unreferenced, Set
  <2>2. made'[t] = s /\ \A u \in Threads \ {t} : made'[u] = made[u]
    BY <1>t, <2>1 DEF TypeOK
  <2>3. \A u \in Threads : made[u] # s
    BY <1>2 DEF Connects, Unreferenced
  <2>4. QueuesApart' /\ HandsApart'
    BY <1>t, <2>1 DEF QueuesApart, HandsApart
  <2>5. MadeApart'
    BY <1>t, <2>2, <2>3 DEF MadeApart
  <2>6. PlacesApart'
    BY <1>t, <2>1, <2>2 DEF PlacesApart
  <2> QED
    BY <2>4, <2>5, <2>6 DEF Apart
<1>3. ASSUME NEW b \in Borrowers, NEW p \in Pools, Lends(b, p)
      PROVE  Apart'
  <2>0. /\ held[b] = "none" /\ Front(p) \in open /\ FewerMade
        /\ idle' = Set(idle, p, Rest(p)) /\ LendTo(b, Front(p), p)
    BY <1>3 DEF Lends
  <2>1. held'[b] = Front(p) /\ \A c \in Borrowers \ {b} : held'[c] = held[c]
    BY <1>t, <2>0, Lending
  <2>2. /\ Front(p) \in Items(idle[p])
        /\ \A q \in Pools : Front(p) \notin Items(idle'[q])
        /\ \A q \in Pools : Thinner(idle'[q], idle[q])
    BY <1>t, <2>0, FrontLeaves
  <2>3. QueuesApart'
    BY <1>t, <2>2, ThinnerApart
  <2>4. /\ \A c \in Borrowers : held[c] # Front(p)
        /\ \A t \in Threads : made[t] # Front(p)
    BY <1>t, <2>2 DEF PlacesApart
  <2>5. HandsApart'
    BY <1>t, <2>1, <2>4 DEF HandsApart
  <2>6. MadeApart'
    BY <1>t, <2>0 DEF FewerMade, MadeApart
  <2>7. \A t \in Threads : made'[t] = made[t] \/ made'[t] = "none"
    BY <2>0 DEF FewerMade
  <2>8. \A q \in Pools : Items(idle'[q]) \subseteq Items(idle[q])
    BY <2>2 DEF Thinner
  <2>9. Front(p) \in Sessions
    BY <1>s, <2>2
  <2>10. \A c \in Borrowers, q \in Pools : held'[c] \notin Items(idle'[q])
    BY <1>t, <2>1, <2>2, <2>8 DEF PlacesApart
  <2>11. \A t \in Threads, q \in Pools : made'[t] \notin Items(idle'[q])
    BY <1>t, <1>s, <2>7, <2>8 DEF PlacesApart
  <2>12. \A c \in Borrowers, t \in Threads : held'[c] = made'[t] => held'[c] = "none"
    BY <1>t, <2>1, <2>4, <2>7, <2>9 DEF PlacesApart
  <2> QED
    BY <2>3, <2>5, <2>6, <2>10, <2>11, <2>12 DEF Apart, PlacesApart
<1>4. ASSUME NEW b \in Borrowers, NEW p \in Pools, Lands(b, p)
      PROVE  Apart'
  <2>1. /\ held'[b] = made[b] /\ \A c \in Borrowers \ {b} : held'[c] = held[c]
        /\ UNCHANGED idle /\ made[b] \in Sessions
    BY <1>t, <1>4, Lending DEF Lands, TypeOK
  <2>2. made'[b] = "none" /\ \A t \in Threads \ {b} : made'[t] = made[t]
    BY <1>t, <1>4 DEF Lands, Set, TypeOK
  <2>3. QueuesApart'
    BY <1>t, <2>1 DEF QueuesApart
  <2>4. HandsApart'
    BY <1>t, <2>1 DEF HandsApart, PlacesApart
  <2>5. MadeApart'
    BY <1>t, <2>2 DEF MadeApart
  <2>6. \A c \in Borrowers, q \in Pools : held'[c] \notin Items(idle'[q])
    BY <1>t, <2>1 DEF PlacesApart
  <2>7. \A t \in Threads, q \in Pools : made'[t] \notin Items(idle'[q])
    BY <1>t, <1>s, <2>1, <2>2 DEF PlacesApart
  <2>8. \A c \in Borrowers, t \in Threads : held'[c] = made'[t] => held'[c] = "none"
    BY <1>t, <2>1, <2>2 DEF PlacesApart, MadeApart
  <2> QED
    BY <2>3, <2>4, <2>5, <2>6, <2>7, <2>8 DEF Apart, PlacesApart
<1>5. ASSUME NEW b \in Borrowers, NEW p \in Pools, Returns(b, p)
      PROVE  Apart'
  <2>1. /\ held'[b] = "none" /\ \A c \in Borrowers \ {b} : held'[c] = held[c]
        /\ UNCHANGED made /\ held[b] \in Sessions
        /\ idle' = Set(idle, p, Append(idle[p], held[b]))
    BY <1>t, <1>5 DEF Returns, Set, TypeOK
  <2>2. /\ \A q \in Pools : held[b] \notin Items(idle[q])
        /\ \A t \in Threads : made[t] # held[b]
        /\ \A c \in Borrowers \ {b} : held[c] # held[b]
    BY <1>t, <2>1 DEF PlacesApart, HandsApart
  <2>3. /\ Items(idle'[p]) = Items(idle[p]) \cup {held[b]}
        /\ \A q \in Pools \ {p} : idle'[q] = idle[q]
        /\ QueuesApart'
    BY <1>t, <2>1, <2>2, Joined
  <2>4. \A q \in Pools : Items(idle'[q]) \subseteq Items(idle[q]) \cup {held[b]}
    BY <2>3
  <2>5. HandsApart' /\ MadeApart'
    BY <1>t, <2>1 DEF HandsApart, MadeApart
  <2>6. \A c \in Borrowers, q \in Pools : held'[c] \notin Items(idle'[q])
    BY <1>t, <1>s, <2>1, <2>2, <2>4 DEF PlacesApart
  <2>7. \A t \in Threads, q \in Pools : made'[t] \notin Items(idle'[q])
    BY <1>t, <2>1, <2>2, <2>4 DEF PlacesApart
  <2>8. \A c \in Borrowers, t \in Threads : held'[c] = made'[t] => held'[c] = "none"
    BY <1>t, <2>1 DEF PlacesApart
  <2> QED
    BY <2>3, <2>5, <2>6, <2>7, <2>8 DEF Apart, PlacesApart
<1>6. ASSUME NEW t \in Threads, NEW p \in Pools, Admits(t, p)
      PROVE  Apart'
  <2>1. /\ made'[t] = "none" /\ \A u \in Threads \ {t} : made'[u] = made[u]
        /\ UNCHANGED held /\ made[t] \in Sessions
        /\ idle' = Set(idle, p, Append(idle[p], made[t]))
    BY <1>t, <1>6 DEF Admits, Set, TypeOK
  <2>2. /\ \A q \in Pools : made[t] \notin Items(idle[q])
        /\ \A c \in Borrowers : held[c] # made[t]
        /\ \A u \in Threads \ {t} : made[u] # made[t]
    BY <1>t, <2>1 DEF PlacesApart, MadeApart
  <2>3. /\ Items(idle'[p]) = Items(idle[p]) \cup {made[t]}
        /\ \A q \in Pools \ {p} : idle'[q] = idle[q]
        /\ QueuesApart'
    BY <1>t, <2>1, <2>2, Joined
  <2>4. \A q \in Pools : Items(idle'[q]) \subseteq Items(idle[q]) \cup {made[t]}
    BY <2>3
  <2>5. HandsApart' /\ MadeApart'
    BY <1>t, <2>1 DEF HandsApart, MadeApart
  <2>6. \A c \in Borrowers, q \in Pools : held'[c] \notin Items(idle'[q])
    BY <1>t, <2>1, <2>2, <2>4 DEF PlacesApart
  <2>7. \A u \in Threads, q \in Pools : made'[u] \notin Items(idle'[q])
    BY <1>t, <1>s, <2>1, <2>2, <2>4 DEF PlacesApart
  <2>8. \A c \in Borrowers, u \in Threads : held'[c] = made'[u] => held'[c] = "none"
    BY <1>t, <2>1 DEF PlacesApart
  <2> QED
    BY <2>3, <2>5, <2>6, <2>7, <2>8 DEF Apart, PlacesApart
<1>7. ASSUME NEW b \in Borrowers, Releases(b)
      PROVE  Apart'
  <2>1. /\ held'[b] = "none" /\ \A c \in Borrowers \ {b} : held'[c] = held[c]
        /\ UNCHANGED <<idle, made>>
    BY <1>t, <1>7 DEF Releases, Set, TypeOK
  <2>2. QueuesApart' /\ HandsApart' /\ MadeApart'
    BY <1>t, <2>1 DEF QueuesApart, HandsApart, MadeApart
  <2>3. PlacesApart'
    BY <1>t, <1>s, <2>1 DEF PlacesApart
  <2> QED
    BY <2>2, <2>3 DEF Apart
<1> QED
  BY <1>1, <1>2, <1>3, <1>4, <1>5, <1>6, <1>7 DEF Effect

LEMMA LentStep ==
    ASSUME TypeInv, Apart, LentAreKnown, Effect
    PROVE  LentAreKnown'
<1>t. TypeOK /\ HandsApart
  BY DEF TypeInv, Apart
<1>1. CASE Settles
  BY <1>1 DEF Settles, LentAreKnown
<1>2. ASSUME NEW t \in Threads, NEW s \in Sessions, Connects(t, s)
      PROVE  LentAreKnown'
  BY <1>2 DEF Connects, Unreferenced, LentAreKnown
<1>3. ASSUME NEW b \in Borrowers, NEW p \in Pools, Lends(b, p) \/ Lands(b, p)
      PROVE  LentAreKnown'
  <2>1. UNCHANGED open /\ \E s \in open : LendTo(b, s, p)
    BY <1>3 DEF Lends, Lands
  <2>2. PICK s \in open : LendTo(b, s, p)
    BY <2>1
  <2>3. /\ lent'[p] = lent[p] \cup {s} /\ \A q \in Pools \ {p} : lent'[q] = lent[q]
        /\ held'[b] = s /\ \A c \in Borrowers \ {b} : held'[c] = held[c]
    BY <1>t, <2>2, Lending
  <2> QED
    BY <2>1, <2>3 DEF LentAreKnown
<1>4. ASSUME NEW b \in Borrowers, held[b] # "none", held' = Set(held, b, "none"),
             open' \subseteq open,
             \A q \in Pools : lent[q] \ {held[b]} \subseteq lent'[q]
      PROVE  LentAreKnown'
  <2>1. held'[b] = "none" /\ \A c \in Borrowers \ {b} : held'[c] = held[c] /\ held[c] # held[b]
    BY <1>t, <1>4 DEF Set, TypeOK, HandsApart
  <2>2. "none" \notin open
    BY <1>t DEF TypeOK
  <2> QED
    BY <1>4, <2>1, <2>2 DEF LentAreKnown
<1>5. ASSUME NEW b \in Borrowers, NEW p \in Pools, Returns(b, p)
      PROVE  LentAreKnown'
  <2>1. /\ held[b] # "none" /\ held' = Set(held, b, "none") /\ open' \subseteq open
        /\ lent' = Set(lent, p, lent[p] \ {held[b]})
    BY <1>t, <1>5 DEF Returns, TypeOK
  <2>2. \A q \in Pools : lent[q] \ {held[b]} \subseteq lent'[q]
    BY <1>t, <2>1 DEF TypeOK, Set
  <2> QED
    BY <1>4, <2>1, <2>2
<1>6. ASSUME NEW t \in Threads, NEW p \in Pools, Admits(t, p)
      PROVE  LentAreKnown'
  BY <1>6 DEF Admits, LentAreKnown
<1>7. ASSUME NEW b \in Borrowers, Releases(b)
      PROVE  LentAreKnown'
  BY <1>4, <1>7 DEF Releases
<1> QED
  BY <1>1, <1>2, <1>3, <1>5, <1>6, <1>7 DEF Effect

LEMMA LentInit == Init => LentInv
<1> SUFFICES ASSUME Init PROVE LentInv
  OBVIOUS
<1>1. /\ \A p \in Pools : idle[p] = <<>> /\ lent[p] = {}
      /\ \A b \in Borrowers : held[b] = "none" /\ \A t \in Threads : made[t] = "none"
      /\ open = {}
  BY DEF Init
<1>2. \A p \in Pools : Items(idle[p]) = {} /\ Inj(idle[p])
  BY <1>1 DEF Items, Inj
<1>3. \A t \in Threads : made[t] = "none"
  BY DEF Init
<1>4. Apart
  BY <1>1, <1>2, <1>3 DEF Apart, QueuesApart, HandsApart, MadeApart, PlacesApart
<1> QED
  BY <1>1, <1>4, TypeInit DEF LentInv, LentAreKnown

LEMMA LentInvStep == LentInv /\ [Next]_vars => LentInv'
<1> SUFFICES ASSUME LentInv, [Next]_vars PROVE LentInv'
  OBVIOUS
<1>1. TypeInv' /\ Effect
  BY TypeStep, StepEffect DEF LentInv
<1> QED
  BY <1>1, ApartStep, LentStep DEF LentInv

(* The pool knows every open session that a borrower has: nothing that a   *)
(* borrow hands out is lost between the queue, the collection of the lent  *)
(* and the hands, however borrows, health checks, refills, removals and    *)
(* disconnections interleave.                                              *)
THEOREM LentSessionsAreKnown == Spec => []LentAreKnown
<1>1. LentInv => LentAreKnown
  BY DEF LentInv
<1> QED
  BY <1>1, LentInit, LentInvStep, PTL DEF Spec

-----------------------------------------------------------------------------
(* The book of leases *)

(* l is who has session s, when the hands are h, the open sessions o and   *)
(* the queues i.                                                           *)
Leased(l, s, h, o, i) ==
    /\ \A b \in Borrowers : h[b] = s /\ s \in o => l = b
    /\ (s \in o /\ (\A b \in Borrowers : h[b] # s) /\ \E p \in Pools : s \in Items(i[p]))
         => l = "pool"
    /\ (s \notin o \/ ((\A b \in Borrowers : h[b] # s) /\ \A p \in Pools : s \notin Items(i[p])))
         => l = "nobody"

(* Lessee in terms of the variables it reads.                              *)
LesseeOf(s, h, o, i) ==
    IF \E b \in Borrowers : h[b] = s /\ s \in o
    THEN CHOOSE b \in Borrowers : h[b] = s
    ELSE IF s \in o /\ \E p \in Pools : s \in Items(i[p])
    THEN "pool" ELSE "nobody"

LEMMA LesseeIsLeased ==
    ASSUME NEW s, NEW h, NEW o, NEW i,
           \A b, c \in Borrowers : h[b] = s /\ h[c] = s => b = c
    PROVE  Leased(LesseeOf(s, h, o, i), s, h, o, i)
<1>1. ASSUME NEW b \in Borrowers, h[b] = s, s \in o
      PROVE  LesseeOf(s, h, o, i) = b
  <2>1. LesseeOf(s, h, o, i) = CHOOSE c \in Borrowers : h[c] = s
    BY <1>1 DEF LesseeOf
  <2> DEFINE l == CHOOSE c \in Borrowers : h[c] = s
  <2>2. l \in Borrowers /\ h[l] = s
    BY <1>1
  <2> QED
    BY <1>1, <2>1, <2>2
<1>2. ASSUME s \in o, \A b \in Borrowers : h[b] # s, \E p \in Pools : s \in Items(i[p])
      PROVE  LesseeOf(s, h, o, i) = "pool"
  BY <1>2 DEF LesseeOf
<1>3. ASSUME s \notin o \/ ((\A b \in Borrowers : h[b] # s) /\ \A p \in Pools : s \notin Items(i[p]))
      PROVE  LesseeOf(s, h, o, i) = "nobody"
  BY <1>3 DEF LesseeOf
<1> QED
  BY <1>1, <1>2, <1>3 DEF Leased

Before(s) == LesseeOf(s, held, open, idle)
After(s) == LesseeOf(s, held', open', idle')
Leases == [s \in Sessions |-> Lessee(s)]

LEMMA LeasesBefore ==
    /\ Leases = [s \in Sessions |-> Before(s)]
    /\ Leases' = [s \in Sessions |-> After(s)]
  BY DEF Leases, Lessee, Before, After, LesseeOf

LEMMA HandsAreLeases ==
    ASSUME TypeOK, HandsApart, TypeOK', HandsApart', NEW s \in Sessions
    PROVE  /\ Leased(Before(s), s, held, open, idle)
           /\ Leased(After(s), s, held', open', idle')
<1>1. s # "none"
  OBVIOUS
<1>2. \A b, c \in Borrowers : held[b] = s /\ held[c] = s => b = c
  BY <1>1 DEF HandsApart
<1>3. \A b, c \in Borrowers : held'[b] = s /\ held'[c] = s => b = c
  BY <1>1 DEF HandsApart
<1> QED
  BY <1>2, <1>3, LesseeIsLeased DEF Before, After

(* Sessions leave the book, or nothing changes in it.                      *)
LEMMA BookLeave ==
    ASSUME \A s \in Sessions : After(s) = Before(s) \/ After(s) = "nobody"
    PROVE  Book!Next
<1> DEFINE S == {s \in Sessions : After(s) = "nobody"}
<1>1. Leases' = [s \in Sessions |-> IF s \in S THEN "nobody" ELSE Leases[s]]
  BY LeasesBefore
<1>2. S \in SUBSET Sessions
  OBVIOUS
<1> QED
  BY <1>1, <1>2 DEF Book!Next, Book!Leave, Leases

(* One session gets from one hand to another.                              *)
LEMMA BookPasses ==
    ASSUME NEW s \in Sessions, NEW from, NEW to, Before(s) \in from, After(s) = to,
           \A r \in Sessions \ {s} : After(r) = Before(r)
    PROVE  Book!Passes(s, from, to)
<1>1. Leases[s] \in from /\ Leases' = [Leases EXCEPT ![s] = to]
  BY LeasesBefore
<1> QED
  BY <1>1 DEF Book!Passes, Leases

LEMMA BookStep ==
    ASSUME LentInv, LentInv', Effect
    PROVE  Book!Next
<1>t. /\ TypeOK /\ QueuesApart /\ HandsApart /\ PlacesApart
      /\ TypeOK' /\ HandsApart' /\ Borrowers \subseteq Threads
  BY DEF LentInv, TypeInv, Apart, Threads
<1>l. \A s \in Sessions : /\ Leased(Before(s), s, held, open, idle)
                          /\ Leased(After(s), s, held', open', idle')
  BY <1>t, HandsAreLeases
(* Where a session is, and whether it is open, is all the book knows.      *)
<1>s. ASSUME NEW s \in Sessions, s \in open' <=> s \in open,
             \A b \in Borrowers : held'[b] = s <=> held[b] = s,
             (\E p \in Pools : s \in Items(idle'[p])) <=> \E p \in Pools : s \in Items(idle[p])
      PROVE  After(s) = Before(s)
  <2>1. CASE s \notin open
    BY <1>l, <1>s, <2>1 DEF Leased
  <2>2. CASE s \in open /\ \E b \in Borrowers : held[b] = s
    BY <1>l, <1>s, <2>2 DEF Leased
  <2>3. CASE s \in open /\ (\A b \in Borrowers : held[b] # s) /\ \E p \in Pools : s \in Items(idle[p])
    BY <1>l, <1>s, <2>3 DEF Leased
  <2>4. CASE (\A b \in Borrowers : held[b] # s) /\ \A p \in Pools : s \notin Items(idle[p])
    BY <1>l, <1>s, <2>4 DEF Leased
  <2> QED
    BY <2>1, <2>2, <2>3, <2>4
<1>1. CASE Settles
  <2>1. /\ open' \subseteq open /\ UNCHANGED held
        /\ \A p \in Pools : Items(idle'[p]) \subseteq Items(idle[p])
    BY <1>1 DEF Settles, Thinner
  <2>2. ASSUME NEW s \in Sessions
        PROVE  After(s) = Before(s) \/ After(s) = "nobody"
    <3>1. CASE s \notin open'
      BY <1>l, <3>1 DEF Leased
    <3>2. CASE s \in open' /\ \E b \in Borrowers : held[b] = s
      BY <1>l, <2>1, <3>2 DEF Leased
    <3>3. CASE /\ s \in open' /\ \A b \in Borrowers : held[b] # s
               /\ \E p \in Pools : s \in Items(idle'[p])
      BY <1>l, <2>1, <3>3 DEF Leased
    <3>4. CASE /\ \A b \in Borrowers : held[b] # s
               /\ \A p \in Pools : s \notin Items(idle'[p])
      BY <1>l, <2>1, <3>4 DEF Leased
    <3> QED
      BY <3>1, <3>2, <3>3, <3>4
  <2> QED
    BY <2>2, BookLeave
<1>2. ASSUME NEW t \in Threads, NEW s \in Sessions, Connects(t, s)
      PROVE  Book!Next
  <2>1. /\ open' = open \cup {s} /\ UNCHANGED <<idle, held>>
        /\ \A p \in Pools : s \notin Items(idle[p])
        /\ \A b \in Borrowers : held[b] # s
    BY <1>2 DEF Connects, Unreferenced
  <2>2. After(s) = "nobody"
    BY <1>l, <2>1 DEF Leased
  <2>3. \A r \in Sessions \ {s} : After(r) = Before(r)
    BY <1>s, <2>1
  <2> QED
    BY <2>2, <2>3, BookLeave
<1>3. ASSUME NEW b \in Borrowers, NEW p \in Pools, Lends(b, p)
      PROVE  Book!Next
  <2> DEFINE s == Front(p)
  <2>0. /\ held[b] = "none" /\ s \in open /\ UNCHANGED open
        /\ idle' = Set(idle, p, Rest(p)) /\ LendTo(b, s, p)
    BY <1>3 DEF Lends
  <2>1. held'[b] = s /\ \A c \in Borrowers \ {b} : held'[c] = held[c]
    BY <1>t, <2>0, Lending
  <2>2. /\ s \in Items(idle[p]) /\ Items(idle'[p]) = Items(idle[p]) \ {s}
        /\ \A q \in Pools \ {p} : idle'[q] = idle[q]
    BY <1>t, <2>0, FrontLeaves
  <2>3. s \in Sessions /\ \A c \in Borrowers : held[c] # s
    BY <1>t, <2>0, <2>2 DEF TypeOK, PlacesApart
  <2>4. Before(s) = "pool" /\ After(s) = b
    BY <1>l, <2>0, <2>1, <2>2, <2>3 DEF Leased
  <2>5. ASSUME NEW r \in Sessions \ {s}
        PROVE  After(r) = Before(r)
    <3>1. \A c \in Borrowers : held'[c] = r <=> held[c] = r
      BY <2>0, <2>1
    <3>2. \A q \in Pools : r \in Items(idle'[q]) <=> r \in Items(idle[q])
      BY <2>2
    <3> QED
      BY <1>s, <2>0, <3>1, <3>2
  <2>6. Book!Lend(s, b)
    <3> HIDE DEF s
    <3> QED
      BY <2>3, <2>4, <2>5, BookPasses DEF Book!Lend
  <2> QED
    BY <2>3, <2>6 DEF Book!Next
<1>4. ASSUME NEW b \in Borrowers, NEW p \in Pools, Lands(b, p)
      PROVE  Book!Next
  <2> DEFINE s == made[b]
  <2>0. held[b] = "none" /\ s \in open /\ LendTo(b, s, p) /\ UNCHANGED <<idle, open>>
    BY <1>4 DEF Lands
  <2>1. held'[b] = s /\ \A c \in Borrowers \ {b} : held'[c] = held[c]
    BY <1>t, <2>0, Lending
  <2>2. /\ s \in Sessions /\ \A c \in Borrowers : held[c] # s
        /\ \A q \in Pools : s \notin Items(idle[q])
    BY <1>t, <2>0 DEF TypeOK, PlacesApart
  <2>3. Before(s) = "nobody" /\ After(s) = b
    BY <1>l, <2>0, <2>1, <2>2 DEF Leased
  <2>4. ASSUME NEW r \in Sessions \ {s}
        PROVE  After(r) = Before(r)
    <3>1. \A c \in Borrowers : held'[c] = r <=> held[c] = r
      BY <2>0, <2>1
    <3> QED
      BY <1>s, <2>0, <3>1
  <2>5. Book!Connect(s, b)
    <3> HIDE DEF s
    <3> QED
      BY <2>2, <2>3, <2>4, BookPasses DEF Book!Connect
  <2> QED
    BY <2>2, <2>5 DEF Book!Next
<1>5. ASSUME NEW b \in Borrowers, NEW p \in Pools, Returns(b, p)
      PROVE  Book!Next
  <2> DEFINE s == held[b]
  <2>0. /\ s \in open /\ UNCHANGED open /\ s \in Sessions
        /\ idle' = Set(idle, p, Append(idle[p], s))
        /\ held'[b] = "none" /\ \A c \in Borrowers \ {b} : held'[c] = held[c] /\ held[c] # s
    BY <1>t, <1>5 DEF Returns, Set, TypeOK, HandsApart
  <2>1. \A q \in Pools : s \notin Items(idle[q])
    BY <1>t DEF PlacesApart
  <2>2. Items(idle'[p]) = Items(idle[p]) \cup {s} /\ \A q \in Pools \ {p} : idle'[q] = idle[q]
    BY <1>t, <2>0, <2>1, Joined
  <2>3. Before(s) = b /\ After(s) = "pool"
    BY <1>l, <2>0, <2>2 DEF Leased
  <2>4. ASSUME NEW r \in Sessions \ {s}
        PROVE  After(r) = Before(r)
    <3>1. \A c \in Borrowers : held'[c] = r <=> held[c] = r
      BY <2>0
    <3>2. \A q \in Pools : r \in Items(idle'[q]) <=> r \in Items(idle[q])
      BY <2>2
    <3> QED
      BY <1>s, <2>0, <3>1, <3>2
  <2>5. Book!Return(s)
    <3> HIDE DEF s
    <3> QED
      BY <2>0, <2>3, <2>4, BookPasses DEF Book!Return
  <2> QED
    BY <2>0, <2>5 DEF Book!Next
<1>6. ASSUME NEW t \in Threads, NEW p \in Pools, Admits(t, p)
      PROVE  Book!Next
  <2> DEFINE s == made[t]
  <2>0. /\ s \in open /\ UNCHANGED <<open, held>> /\ s \in Sessions
        /\ idle' = Set(idle, p, Append(idle[p], s))
    BY <1>t, <1>6 DEF Admits, TypeOK
  <2>1. /\ \A q \in Pools : s \notin Items(idle[q])
        /\ \A c \in Borrowers : held[c] # s
    BY <1>t, <2>0 DEF PlacesApart
  <2>2. Items(idle'[p]) = Items(idle[p]) \cup {s} /\ \A q \in Pools \ {p} : idle'[q] = idle[q]
    BY <1>t, <2>0, <2>1, Joined
  <2>3. Before(s) = "nobody" /\ After(s) = "pool"
    BY <1>l, <2>0, <2>1, <2>2 DEF Leased
  <2>4. ASSUME NEW r \in Sessions \ {s}
        PROVE  After(r) = Before(r)
    <3>2. \A q \in Pools : r \in Items(idle'[q]) <=> r \in Items(idle[q])
      BY <2>2
    <3> QED
      BY <1>s, <2>0, <3>2
  <2>5. Book!Admit(s)
    <3> HIDE DEF s
    <3> QED
      BY <2>0, <2>3, <2>4, BookPasses DEF Book!Admit
  <2> QED
    BY <2>0, <2>5 DEF Book!Next
<1>7. ASSUME NEW b \in Borrowers, Releases(b)
      PROVE  Book!Next
  <2>0. /\ held[b] \notin open' /\ open' \subseteq open /\ UNCHANGED idle
        /\ held'[b] = "none" /\ \A c \in Borrowers \ {b} : held'[c] = held[c]
    BY <1>t, <1>7 DEF Releases, Set, TypeOK
  <2>1. ASSUME NEW s \in Sessions
        PROVE  After(s) = Before(s) \/ After(s) = "nobody"
    <3>1. CASE s \notin open'
      BY <1>l, <3>1 DEF Leased
    <3>2. CASE s \in open'
      <4>1. \A c \in Borrowers : held'[c] = s <=> held[c] = s
        BY <2>0, <3>2
      <4> QED
        BY <1>s, <2>0, <3>2, <4>1
    <3> QED
      BY <3>1, <3>2
  <2> QED
    BY <2>1, BookLeave
<1> QED
  BY <1>1, <1>2, <1>3, <1>4, <1>5, <1>6, <1>7 DEF Effect

LEMMA BookInit == Init => Book!Init
<1> SUFFICES ASSUME Init PROVE Book!Init
  OBVIOUS
<1>1. open = {}
  BY DEF Init
<1>2. \A s \in Sessions : Lessee(s) = "nobody"
  BY <1>1 DEF Lessee
<1> QED
  BY <1>2 DEF Book!Init

(* The pool is a book of leases: a session is with one borrower, with the  *)
(* pool or with nobody; it gets from one borrower to another only through  *)
(* the pool, and what has left comes back only as a new connection.        *)
THEOREM PoolIsALeaseBook == Spec => ImplementsLeaseBook
<1>1. LentInv /\ LentInv' /\ [Next]_vars => [Book!Next]_Leases
  BY StepEffect, BookStep DEF LentInv
<1>2. Leases = [s \in Sessions |-> Lessee(s)]
  BY DEF Leases
<1>3. Spec => []LentInv
  BY LentInit, LentInvStep, PTL DEF Spec
<1> QED
  BY <1>1, <1>2, <1>3, BookInit, PTL DEF Spec, ImplementsLeaseBook, Book!Spec, Leases

-----------------------------------------------------------------------------
(* How far the maximum is passed *)

(* What a pool counts is at least what it has open.                        *)
LEMMA CountedAtMost ==
    ASSUME TypeOK, NEW i \in Seq(Sessions), NEW l \in SUBSET Sessions
    PROVE  /\ IsFiniteSet(open \cap (Items(i) \cup l))
           /\ Cardinality(open \cap (Items(i) \cup l)) \in Nat
           /\ Cardinality(open \cap (Items(i) \cup l)) <= Total(i, l)
<1> DEFINE S == {n \in DOMAIN i : i[n] \in open}
           T == open \cap Items(i)
           U == l \cap open
           f == [n \in S |-> i[n]]
<1>1. IsFiniteSet(DOMAIN i) /\ IsFiniteSet(Items(i)) /\ IsFiniteSet(l)
  BY Finite
<1>2. IsFiniteSet(S) /\ IsFiniteSet(T) /\ IsFiniteSet(U)
  BY <1>1, FS_Subset
<1>3. f \in Surjection(S, T)
  <2>1. f \in [S -> T]
    BY DEF Items
  <2>2. \A y \in T : \E x \in S : f[x] = y
    BY DEF Items
  <2> QED
    BY <2>1, <2>2 DEF Surjection
<1>4. Cardinality(T) <= Cardinality(S)
  <2> HIDE DEF S, T, f
  <2> QED
    BY <1>2, <1>3, FS_Surjection
<1>5. /\ IsFiniteSet(T \cup U)
      /\ Cardinality(T \cup U) = Cardinality(T) + Cardinality(U) - Cardinality(T \cap U)
  <2> HIDE DEF T, U
  <2> QED
    BY <1>2, FS_Union
<1>6. IsFiniteSet(T \cap U)
  BY <1>2, FS_Subset
<1>7. /\ Cardinality(S) \in Nat /\ Cardinality(T) \in Nat /\ Cardinality(U) \in Nat
      /\ Cardinality(T \cap U) \in Nat /\ Cardinality(T \cup U) \in Nat
  <2> HIDE DEF S, T, U
  <2> QED
    BY <1>2, <1>5, <1>6, FS_CardinalityType
<1>8. Total(i, l) = Cardinality(S) + Cardinality(U)
  BY DEF Total
<1>9. open \cap (Items(i) \cup l) = T \cup U
  OBVIOUS
<1>10. Cardinality(T \cup U) <= Total(i, l)
  <2> HIDE DEF S, T, U
  <2> QED
    BY <1>4, <1>5, <1>7, <1>8
<1>11. IsFiniteSet(T \cup U) /\ Cardinality(T \cup U) \in Nat
  BY <1>5, <1>7
<1> QED
  BY <1>9, <1>10, <1>11

Connectors == {"connect", "check"}

(* Nobody begins to connect for a pool.                                    *)
NobodyArrives ==
    \A b \in Borrowers :
        pc'[b] \in Connectors => pc[b] \in Connectors /\ at'[b] = at[b]

(* Borrower b found pool p below its maximum, and will connect for it.     *)
ArrivesBelow(b, p) ==
    /\ Total(Rest(p), lent[p]) < Max
    /\ idle' = Set(idle, p, Rest(p)) /\ UNCHANGED <<lent, open, unused>>
    /\ \A c \in Borrowers \ {b} :
         pc'[c] \in Connectors => pc[c] \in Connectors /\ at'[c] = at[c]
    /\ pc[b] \notin Connectors /\ at'[b] = p

LEMMA ArrivesOnlyThere ==
    ASSUME TypeOK, NEW t \in Threads, Woke(t),
           \A x \in Threads \ {t} : at'[x] = at[x],
           pc'[t] \in Connectors => pc[t] \in Connectors /\ at'[t] = at[t]
    PROVE  NobodyArrives
  BY DEF NobodyArrives, Woke, Connectors, Threads

LEMMA BorrowerArrives ==
    ASSUME TypeInv, NEW b \in Borrowers,
           \/ Borrow(b) \/ Look(b) \/ BorrowConnect(b) \/ BorrowCheck(b)
           \/ BorrowWake(b) \/ TryBorrow(b)
    PROVE  NobodyArrives \/ \E p \in Pools : ArrivesBelow(b, p)
<1>t. TypeOK /\ Sound(b) /\ b \in Threads /\ Borrowers \subseteq Threads
  BY DEF TypeInv, ThreadInv, Threads
<1>l. /\ {"idle", "look", "connect", "check", "asleep"} \subseteq Locations
      /\ {"idle", "look", "asleep"} \cap Connectors = {}
  BY DEF Locations, BorrowLocations, Connectors
<1>1. CASE Borrow(b)
  <2>1. Go(b, "idle", "look") /\ at' = Set(at, b, current)
    BY <1>1 DEF Borrow
  <2>2. pc'[b] = "look" /\ Woke(b)
    BY <1>t, <1>l, <2>1, Moves
  <2> QED
    BY <1>t, <1>l, <2>1, <2>2, ArrivesOnlyThere DEF TypeOK, Set
<1>2. CASE Look(b)
  <2>0. pc[b] = "look" /\ at[b] \in Pools /\ LookLeaving(b, Rest(at[b]))
    BY <1>t, <1>2 DEF Look, Sound, Working, BorrowLocations
  <2>1. \/ EndBorrow(b, "look") \/ Sleep(b, "look")
        \/ /\ Total(Rest(at[b]), lent[at[b]]) < Max
           /\ Go(b, "look", "connect") /\ UNCHANGED <<at, lent>>
    BY <2>0 DEF LookLeaving, GiveUp
  <2>2. CASE EndBorrow(b, "look") \/ Sleep(b, "look")
    <3>1. pc'[b] \in {"idle", "asleep"} /\ Woke(b)
      BY <1>t, <1>l, <2>2, Moves DEF EndBorrow, Sleep
    <3>2. \A x \in Threads \ {b} : at'[x] = at[x]
      BY <1>t, <2>2 DEF EndBorrow, Sleep, Set, TypeOK
    <3> QED
      BY <1>t, <1>l, <3>1, <3>2, ArrivesOnlyThere
  <2>3. CASE /\ Total(Rest(at[b]), lent[at[b]]) < Max
             /\ Go(b, "look", "connect") /\ UNCHANGED <<at, lent>>
    <3>1. Woke(b)
      BY <1>t, <1>l, <2>3, Moves
    <3>2. idle' = Set(idle, at[b], Rest(at[b])) /\ UNCHANGED <<open, unused>>
      BY <2>0 DEF LookLeaving, map
    <3>3. \A c \in Borrowers \ {b} : pc'[c] \in Connectors => pc[c] \in Connectors
      BY <1>t, <1>l, <3>1 DEF Woke
    <3>4. ArrivesBelow(b, at[b])
      BY <1>l, <2>0, <2>3, <3>2, <3>3 DEF ArrivesBelow
    <3> QED
      BY <2>0, <3>4
  <2> QED
    BY <2>1, <2>2, <2>3
<1>3. CASE BorrowConnect(b)
  <2>1. Go(b, "connect", "check") /\ UNCHANGED at
    BY <1>3 DEF BorrowConnect, Connecting
  <2>2. pc[b] = "connect" /\ Woke(b)
    BY <1>t, <1>l, <2>1, Moves
  <2> QED
    BY <1>t, <2>1, <2>2, ArrivesOnlyThere DEF Connectors
<1>4. CASE BorrowCheck(b)
  <2>1. EndBorrow(b, "check") \/ Sleep(b, "check")
    BY <1>4 DEF BorrowCheck, GiveUp
  <2>2. pc'[b] \in {"idle", "asleep"} /\ Woke(b)
    BY <1>t, <1>l, <2>1, Moves DEF EndBorrow, Sleep
  <2>3. \A x \in Threads \ {b} : at'[x] = at[x]
    BY <1>t, <2>1 DEF EndBorrow, Sleep, Set, TypeOK
  <2> QED
    BY <1>t, <1>l, <2>2, <2>3, ArrivesOnlyThere
<1>5. CASE BorrowWake(b)
  <2>1. Go(b, "asleep", "look") /\ UNCHANGED at
    BY <1>5 DEF BorrowWake, work
  <2>2. pc'[b] = "look" /\ Woke(b)
    BY <1>t, <1>l, <2>1, Moves
  <2> QED
    BY <1>t, <1>l, <2>1, <2>2, ArrivesOnlyThere
<1>6. CASE TryBorrow(b)
  BY <1>6 DEF TryBorrow, NobodyArrives, work
<1> QED
  BY <1>1, <1>2, <1>3, <1>4, <1>5, <1>6

LEMMA OtherArrives ==
    ASSUME TypeInv, Next,
           ~ \E b \in Borrowers :
               \/ Borrow(b) \/ Look(b) \/ BorrowConnect(b) \/ BorrowCheck(b)
               \/ BorrowWake(b) \/ TryBorrow(b)
    PROVE  NobodyArrives
<1>t. TypeOK /\ Borrowers \subseteq Threads /\ "io" \in Threads
  BY DEF TypeInv, ThreadInv, Threads
<1> DEFINE Others == Locations \ Connectors
<1>l. {"idle", "give", "invalidate", "arm", "start_lock", "stop_cancel", "stop_close",
        "tick", "preheat", "warm", "warm_add"} \subseteq Others
  BY DEF Locations, BorrowLocations, RefillLocations, Connectors
<1> HIDE DEF Others
<1>o. Others \subseteq Locations /\ Others \cap Connectors = {}
  BY DEF Others
(* A thread that goes somewhere else, with or without a pool.              *)
<1>1. ASSUME NEW t \in Threads, NEW from, NEW to \in Others,
             Go(t, from, to), at' = at \/ \E v : at' = Set(at, t, v)
      PROVE  NobodyArrives
  <2>1. pc'[t] = to /\ Woke(t)
    BY <1>t, <1>o, <1>1, Moves
  <2>2. \A x \in Threads \ {t} : at'[x] = at[x]
    BY <1>t, <1>1 DEF Set, TypeOK
  <2> QED
    BY <1>t, <1>o, <2>1, <2>2, ArrivesOnlyThere
<1>2. ASSUME NEW t \in Threads, NEW from, from # "asleep", NEW to \in Others,
             NEW p, NotifyOne(t, from, to, p), at' = at \/ \E v : at' = Set(at, t, v)
      PROVE  NobodyArrives
  <2>1. pc'[t] = to /\ Woke(t)
    BY <1>t, <1>o, <1>2, MovesAndWakes
  <2>2. \A x \in Threads \ {t} : at'[x] = at[x]
    BY <1>t, <1>2 DEF Set, TypeOK
  <2> QED
    BY <1>t, <1>o, <2>1, <2>2, ArrivesOnlyThere
<1>3. ASSUME NEW t \in Threads, NEW from, from # "asleep", CloseIdle(t, from), UNCHANGED at
      PROVE  NobodyArrives
  <2>1. pc'[t] = "idle" /\ Woke(t)
    BY <1>t, <1>l, <1>o, <1>3, Moves DEF CloseIdle
  <2> QED
    BY <1>t, <1>l, <1>o, <1>3, <2>1, ArrivesOnlyThere
<1>4. UNCHANGED <<pc, at>> => NobodyArrives
  BY DEF NobodyArrives
<1>5. ASSUME NEW b \in Borrowers, GiveBack(b) \/ Invalidate(b)
      PROVE  NobodyArrives
  <2>1. PICK to \in {"give", "invalidate"} : GoToPool(b, to)
    BY <1>5 DEF GiveBack, Invalidate
  <2>2. \/ Go(b, "idle", to) /\ at' = Set(at, b, Found)
        \/ UNCHANGED <<pc, at>>
    BY <2>1 DEF GoToPool
  <2> QED
    BY <1>t, <1>l, <1>1, <1>4, <2>2
<1>6. ASSUME NEW b \in Borrowers, GiveBackLocked(b) \/ InvalidateLocked(b)
      PROVE  NobodyArrives
  <2>1. PICK from \in {"give", "invalidate"} : NotifyOne(b, from, "preheat", at[b])
    BY <1>6 DEF GiveBackLocked, InvalidateLocked
  <2>2. UNCHANGED at /\ "preheat" \in Others /\ from # "asleep"
    BY <1>l, <1>6 DEF GiveBackLocked, InvalidateLocked, work
  <2> QED
    BY <1>t, <1>2, <2>1, <2>2
<1>7. ASSUME NEW t \in Threads, Preheat(t) \/ PreheatConnect(t)
      PROVE  NobodyArrives
  <2>1. \/ Go(t, "preheat", "warm") /\ UNCHANGED at
        \/ EndRefill(t, "preheat")
        \/ Go(t, "warm", "warm_add") /\ UNCHANGED at
    BY <1>7 DEF Preheat, PreheatConnect, Connecting
  <2> QED
    BY <1>l, <1>1, <2>1 DEF EndRefill
<1>8. ASSUME NEW t \in Threads, PreheatAdd(t)
      PROVE  NobodyArrives
  <2>0. AddBelow(t, Max)
    BY <1>8 DEF PreheatAdd
  <2>1. PICK to \in {"warm", "arm", "idle"} :
            /\ at' = at \/ at' = Set(at, t, "none")
            /\ \/ NotifyOne(t, "warm_add", to, at[t])
               \/ Go(t, "warm_add", to)
    BY <2>0 DEF AddBelow, EndRefill
  <2>2. to \in Others
    BY <1>l
  <2> QED
    BY <1>1, <1>2, <2>1, <2>2
<1>9. CASE TimerFires
  <2>1. pc'["io"] \in {"idle", "tick"} /\ Woke("io") /\ UNCHANGED at
    BY <1>t, <1>9 DEF TimerFires, TypeOK, Set, Woke, work
  <2> QED
    BY <1>t, <1>l, <1>o, <2>1, ArrivesOnlyThere
<1>10. CASE Tick
  <2>1. \/ Go("io", "tick", "arm") /\ UNCHANGED at
        \/ Go("io", "tick", "preheat") /\ at' = Set(at, "io", current)
    BY <1>10 DEF Tick, Forget, work
  <2> QED
    BY <1>t, <1>l, <1>1, <2>1
<1>11. ASSUME NEW t \in Managers \cup {"io"}, ScheduleNextCheck(t)
       PROVE  NobodyArrives
  <2>1. \E to \in {"idle", "start_lock"} : Go(t, "arm", to)
    BY <1>11 DEF ScheduleNextCheck
  <2>2. t \in Threads /\ UNCHANGED at
    BY <1>11 DEF ScheduleNextCheck, work, Threads
  <2> QED
    BY <1>l, <1>1, <2>1, <2>2
<1>12. ASSUME NEW m \in Managers,
              \/ Start(m) \/ StartPreheat(m) \/ Stop(m) \/ StopCancel(m)
              \/ StopClose(m) \/ AddEndpoint(m) \/ RemoveEndpoint(m)
       PROVE  NobodyArrives
  <2>0. m \in Threads
    BY DEF Threads
  <2>1. CASE Start(m) \/ Stop(m) \/ StopCancel(m)
    <3>1. UNCHANGED at /\ \E from, to \in {"idle", "arm", "stop_cancel", "stop_close"} : Go(m, from, to)
      BY <2>1 DEF Start, Stop, StopCancel, work
    <3> QED
      BY <1>l, <1>1, <2>0, <3>1
  <2>2. CASE StartPreheat(m)
    <3>1. \/ Go(m, "start_lock", "idle") /\ UNCHANGED at
          \/ Go(m, "start_lock", "preheat") /\ at' = Set(at, m, current)
      BY <2>2 DEF StartPreheat, work
    <3> QED
      BY <1>l, <1>1, <2>0, <3>1
  <2>3. CASE StopClose(m) \/ RemoveEndpoint(m)
    <3>1. /\ UNCHANGED at
          /\ \/ Go(m, "stop_close", "idle")
             \/ CloseIdle(m, "stop_close") \/ CloseIdle(m, "idle")
      BY <2>3 DEF StopClose, RemoveEndpoint, work
    <3> QED
      BY <1>l, <1>1, <1>3, <2>0, <3>1
  <2>4. CASE AddEndpoint(m)
    <3>1. \E p : Go(m, "idle", "preheat") /\ at' = Set(at, m, p)
      BY <2>4 DEF AddEndpoint
    <3> QED
      BY <1>l, <1>1, <2>0, <3>1
  <2> QED
    BY <1>12, <2>1, <2>2, <2>3, <2>4
<1>13. ASSUME NEW s \in Sessions, SessionDrops(s)
       PROVE  NobodyArrives
  BY <1>4, <1>13 DEF SessionDrops, work
<1> QED
  BY <1>5, <1>6, <1>7, <1>8, <1>9, <1>10, <1>11, <1>12, <1>13 DEF Next

FewInv == LentInv /\ FewAboveMaximum

(* The two numbers that are bounded together.                              *)
LEMMA CountsAreFinite ==
    ASSUME TypeOK, NEW p \in Pools
    PROVE  /\ IsFiniteSet(Counting(p)) /\ Cardinality(Counting(p)) \in Nat
           /\ Cardinality(Counting(p)) <= Total(idle[p], lent[p])
           /\ IsFiniteSet(Landing(p)) /\ Cardinality(Landing(p)) \in Nat
           /\ Cardinality(Landing(p)) <= Cardinality(Borrowers)
           /\ Cardinality(Borrowers) \in Nat
<1>1. idle[p] \in Seq(Sessions) /\ lent[p] \in SUBSET Sessions
  BY DEF TypeOK
<1>2. /\ IsFiniteSet(Counting(p)) /\ Cardinality(Counting(p)) \in Nat
      /\ Cardinality(Counting(p)) <= Total(idle[p], lent[p])
  BY <1>1, CountedAtMost DEF Counting
<1>3. Landing(p) \in SUBSET Borrowers /\ IsFiniteSet(Borrowers)
  BY DEF Landing
<1>4. IsFiniteSet(Landing(p)) /\ Cardinality(Landing(p)) <= Cardinality(Borrowers)
  BY <1>3, FS_Subset
<1> QED
  BY <1>2, <1>3, <1>4, FS_CardinalityType

(* Sets C and L bounded together, when C gets one more and L one less.     *)
LEMMA Together ==
    ASSUME NEW C, NEW L, IsFiniteSet(C), IsFiniteSet(L), NEW n \in Nat,
           Cardinality(C) + Cardinality(L) <= n,
           NEW D, NEW M,
           \/ D \subseteq C /\ M \subseteq L
           \/ (\E s : D \subseteq C \cup {s}) /\ \E b \in L : M \subseteq L \ {b}
    PROVE  Cardinality(D) + Cardinality(M) <= n
<1>1. CASE D \subseteq C /\ M \subseteq L
  <2>1. /\ IsFiniteSet(D) /\ Cardinality(D) <= Cardinality(C)
        /\ IsFiniteSet(M) /\ Cardinality(M) <= Cardinality(L)
    BY <1>1, FS_Subset
  <2>2. /\ Cardinality(C) \in Nat /\ Cardinality(L) \in Nat
        /\ Cardinality(D) \in Nat /\ Cardinality(M) \in Nat
    BY <2>1, FS_CardinalityType
  <2> QED
    BY <2>1, <2>2
<1>2. ASSUME NEW s, NEW b \in L, D \subseteq C \cup {s}, M \subseteq L \ {b}
      PROVE  Cardinality(D) + Cardinality(M) <= n
  <2>1. /\ IsFiniteSet(C \cup {s}) /\ Cardinality(C) \in Nat /\ Cardinality(L) \in Nat
        /\ IsFiniteSet(L \ {b}) /\ Cardinality(L \ {b}) = Cardinality(L) - 1
    BY FS_AddElement, FS_RemoveElement, FS_CardinalityType
  <2>2. Cardinality(C \cup {s}) <= Cardinality(C) + 1 /\ Cardinality(C \cup {s}) \in Nat
    <3>1. Cardinality(C \cup {s}) = IF s \in C THEN Cardinality(C) ELSE Cardinality(C) + 1
      BY FS_AddElement
    <3> QED
      BY <2>1, <3>1
  <2>3. /\ IsFiniteSet(D) /\ Cardinality(D) <= Cardinality(C \cup {s})
        /\ IsFiniteSet(M) /\ Cardinality(M) <= Cardinality(L \ {b})
    BY <1>2, <2>1, FS_Subset
  <2>4. Cardinality(D) \in Nat /\ Cardinality(M) \in Nat /\ Cardinality(L \ {b}) \in Nat
    BY <2>1, <2>3, FS_CardinalityType
  <2> QED
    BY <2>1, <2>2, <2>3, <2>4
<1> QED
  BY <1>1, <1>2

(* The sessions counted for pool p, in terms of what a step does.          *)
LEMMA CountingStep ==
    ASSUME LentInv, Effect, NEW p \in Pools, Pools \ {p} \subseteq unused
    PROVE  \/ Counting(p)' \subseteq Counting(p)
           \/ /\ \E s : Counting(p)' \subseteq Counting(p) \cup {s}
              /\ \E b \in Borrowers : at[b] = p /\ pc[b] = "check" /\ pc'[b] = "idle"
           \/ /\ \E s : Counting(p)' \subseteq Counting(p) \cup {s}
              /\ Total(idle[p], lent[p]) < Max
<1>t. /\ TypeOK /\ QueuesApart /\ HandsApart /\ PlacesApart /\ LentAreKnown
      /\ \A q \in unused : lent[q] = {}
  BY DEF LentInv, TypeInv, ThreadInv, Apart
<1>1. CASE Settles
  BY <1>1 DEF Settles, Thinner, Counting
<1>2. ASSUME NEW t \in Threads, NEW s \in Sessions, Connects(t, s)
      PROVE  Counting(p)' \subseteq Counting(p)
  BY <1>2 DEF Connects, Unreferenced, Counting
<1>3. ASSUME NEW b \in Borrowers, NEW q \in Pools, Lends(b, q)
      PROVE  Counting(p)' \subseteq Counting(p)
  <2>0. /\ Front(q) \in open /\ UNCHANGED open
        /\ idle' = Set(idle, q, Rest(q)) /\ LendTo(b, Front(q), q)
    BY <1>3 DEF Lends
  <2>1. /\ Front(q) \in Items(idle[q]) /\ Items(idle'[q]) \subseteq Items(idle[q])
        /\ \A r \in Pools \ {q} : idle'[r] = idle[r]
    BY <1>t, <2>0, FrontLeaves
  <2>2. lent'[q] = lent[q] \cup {Front(q)} /\ \A r \in Pools \ {q} : lent'[r] = lent[r]
    BY <1>t, <2>0, Lending
  <2>3. CASE q = p
    BY <2>0, <2>1, <2>2, <2>3 DEF Counting
  <2>4. CASE q # p
    BY <2>0, <2>1, <2>2, <2>4 DEF Counting
  <2> QED
    BY <2>3, <2>4
<1>4. ASSUME NEW b \in Borrowers, NEW q \in Pools, Lands(b, q)
      PROVE  \/ Counting(p)' \subseteq Counting(p)
             \/ /\ \E s : Counting(p)' \subseteq Counting(p) \cup {s}
                /\ at[b] = p /\ pc[b] = "check" /\ pc'[b] = "idle"
  <2>0. /\ made[b] \in open /\ UNCHANGED <<idle, open>> /\ LendTo(b, made[b], q)
        /\ at[b] = q /\ pc[b] = "check" /\ pc'[b] = "idle"
    BY <1>4 DEF Lands
  <2>1. lent'[q] = lent[q] \cup {made[b]} /\ \A r \in Pools \ {q} : lent'[r] = lent[r]
    BY <1>t, <2>0, Lending
  <2>2. CASE q = p
    BY <2>0, <2>1, <2>2 DEF Counting
  <2>3. CASE q # p
    BY <2>0, <2>1, <2>3 DEF Counting
  <2> QED
    BY <2>2, <2>3
<1>5. ASSUME NEW b \in Borrowers, NEW q \in Pools, Returns(b, q)
      PROVE  Counting(p)' \subseteq Counting(p)
  <2>0. /\ held[b] \in open /\ held[b] \in Sessions /\ UNCHANGED open
        /\ lent' = Set(lent, q, lent[q] \ {held[b]})
        /\ idle' = Set(idle, q, Append(idle[q], held[b]))
    BY <1>t, <1>5 DEF Returns, TypeOK
  <2>1. /\ Items(idle'[q]) = Items(idle[q]) \cup {held[b]}
        /\ \A r \in Pools \ {q} : idle'[r] = idle[r]
    BY <1>t, <2>0, Joined DEF PlacesApart
  <2>2. \A r \in Pools : lent'[r] \subseteq lent[r]
    BY <1>t, <2>0 DEF TypeOK, Set
  <2>3. held[b] \in lent[p]
    BY <1>t, <2>0 DEF LentAreKnown
  <2>4. CASE q = p
    BY <2>0, <2>1, <2>2, <2>3, <2>4 DEF Counting
  <2>5. CASE q # p
    BY <2>0, <2>1, <2>2, <2>5 DEF Counting
  <2> QED
    BY <2>4, <2>5
<1>6. ASSUME NEW t \in Threads, NEW q \in Pools, Admits(t, q)
      PROVE  \/ Counting(p)' \subseteq Counting(p)
             \/ /\ \E s : Counting(p)' \subseteq Counting(p) \cup {s}
                /\ Total(idle[p], lent[p]) < Max
  <2>0. /\ made[t] \in Sessions /\ UNCHANGED <<lent, open>>
        /\ idle' = Set(idle, q, Append(idle[q], made[t])) /\ Total(idle[q], lent[q]) < Max
    BY <1>t, <1>6 DEF Admits, TypeOK
  <2>1. /\ Items(idle'[q]) = Items(idle[q]) \cup {made[t]}
        /\ \A r \in Pools \ {q} : idle'[r] = idle[r]
    BY <1>t, <2>0, Joined DEF PlacesApart
  <2>2. CASE q = p
    BY <2>0, <2>1, <2>2 DEF Counting
  <2>3. CASE q # p
    BY <2>0, <2>1, <2>3 DEF Counting
  <2> QED
    BY <2>2, <2>3
<1>7. ASSUME NEW b \in Borrowers, Releases(b)
      PROVE  Counting(p)' \subseteq Counting(p)
  BY <1>7 DEF Releases, Counting
<1> QED
  BY <1>1, <1>2, <1>3, <1>4, <1>5, <1>6, <1>7 DEF Effect

(* A pool object that was not made yet has nothing and nobody.             *)
LEMMA NothingNew ==
    ASSUME TypeInv, NEW p \in unused
    PROVE  Counting(p) = {} /\ Landing(p) = {}
<1>1. idle[p] = <<>> /\ lent[p] = {}
  BY DEF TypeInv, ThreadInv
<1>2. \A b \in Borrowers : Sound(b)
  BY DEF TypeInv, ThreadInv, Threads
<1>3. Items(idle[p]) = {}
  BY <1>1 DEF Items
<1> QED
  BY <1>1, <1>2, <1>3 DEF Counting, Landing, Sound, Working, BorrowLocations

LEMMA UnusedStep ==
    ASSUME [Next]_vars
    PROVE  \/ unused' = unused
           \/ \E p \in unused : unused' = unused \ {p} /\ UNCHANGED <<idle, lent, open>>
  BY DEF Next, vars, map, shelf, work, Borrow, Look, LookLeaving, BorrowConnect, BorrowCheck,
     BorrowWake, TryBorrow, GiveBack, Invalidate, GoToPool, GiveBackLocked, InvalidateLocked,
     Preheat, PreheatConnect, PreheatAdd, AddBelow, TimerFires, Tick, Forget,
     ScheduleNextCheck, Start, StartPreheat, Stop, StopCancel, StopClose, AddEndpoint,
     RemoveEndpoint, SessionDrops

LEMMA FewStep ==
    ASSUME LentInv, LentInv', FewAboveMaximum, [Next]_vars, Effect,
           NobodyArrives \/ \E b \in Borrowers, p \in Pools : ArrivesBelow(b, p)
    PROVE  FewAboveMaximum'
<1> SUFFICES ASSUME NEW p \in Pools, unused' = Pools \ {p}
             PROVE  Cardinality(Counting(p)') + Cardinality(Landing(p)')
                      <= Max + Cardinality(Borrowers)
  BY DEF FewAboveMaximum
<1>t. TypeInv /\ TypeOK /\ TypeOK' /\ unused \subseteq Pools
  BY DEF LentInv, TypeInv, TypeOK
<1>n. /\ IsFiniteSet(Counting(p)) /\ Cardinality(Counting(p)) \in Nat
      /\ Cardinality(Counting(p)) <= Total(idle[p], lent[p])
      /\ IsFiniteSet(Landing(p)) /\ Cardinality(Landing(p)) \in Nat
      /\ Cardinality(Borrowers) \in Nat
  BY <1>t, CountsAreFinite
<1>m. /\ Landing(p)' \in SUBSET Borrowers /\ Cardinality(Landing(p)') \in Nat
      /\ Cardinality(Landing(p)') <= Cardinality(Borrowers)
  <2>1. Landing(p)' \in SUBSET Borrowers /\ IsFiniteSet(Borrowers)
    BY DEF Landing
  <2> QED
    BY <2>1, FS_Subset, FS_CardinalityType
<1>c. /\ IsFiniteSet(Counting(p)') /\ Cardinality(Counting(p)') \in Nat
  <2>1. Counting(p)' \in SUBSET Sessions
    BY <1>t DEF Counting, TypeOK
  <2> QED
    BY <2>1, FS_Subset, FS_CardinalityType
<1>T. Total(idle[p], lent[p]) \in Nat
  BY <1>t, Finite DEF TypeOK
(* Below the maximum before, or with at most what is counted below it: the *)
(* borrowers on their way are as many as there are.                        *)
<1>b. ASSUME Cardinality(Counting(p)') <= Max
      PROVE  Cardinality(Counting(p)') + Cardinality(Landing(p)') <= Max + Cardinality(Borrowers)
  BY <1>b, <1>m, <1>c, <1>n
<1>1. CASE unused' # unused
  <2>1. p \in unused /\ UNCHANGED <<idle, lent, open>>
    BY <1>1, <1>t, UnusedStep
  <2>2. Counting(p)' = {}
    BY <1>t, <2>1, NothingNew DEF Counting
  <2>3. Cardinality(Counting(p)') = 0
    BY <2>2, FS_EmptySet
  <2> QED
    BY <1>b, <2>3
<1>2. CASE unused' = unused
  <2>0. Cardinality(Counting(p)) + Cardinality(Landing(p)) <= Max + Cardinality(Borrowers)
    BY <1>2 DEF FewAboveMaximum
  <2>1. \/ Counting(p)' \subseteq Counting(p)
        \/ /\ \E s : Counting(p)' \subseteq Counting(p) \cup {s}
           /\ \E b \in Borrowers : at[b] = p /\ pc[b] = "check" /\ pc'[b] = "idle"
        \/ /\ \E s : Counting(p)' \subseteq Counting(p) \cup {s}
           /\ Total(idle[p], lent[p]) < Max
    BY <1>2, CountingStep
  <2>2. ASSUME \E s : Counting(p)' \subseteq Counting(p) \cup {s}, Total(idle[p], lent[p]) < Max
        PROVE  Cardinality(Counting(p)') <= Max
    <3>1. PICK s : Counting(p)' \subseteq Counting(p) \cup {s}
      BY <2>2
    <3>2. /\ IsFiniteSet(Counting(p) \cup {s})
          /\ Cardinality(Counting(p) \cup {s}) \in Nat
          /\ Cardinality(Counting(p) \cup {s}) <= Cardinality(Counting(p)) + 1
      <4>1. /\ IsFiniteSet(Counting(p) \cup {s})
            /\ Cardinality(Counting(p) \cup {s})
                 = IF s \in Counting(p) THEN Cardinality(Counting(p))
                   ELSE Cardinality(Counting(p)) + 1
        BY <1>n, FS_AddElement
      <4> QED
        BY <1>n, <4>1
    <3>3. Cardinality(Counting(p)') <= Cardinality(Counting(p) \cup {s})
      BY <3>1, <3>2, FS_Subset
    <3> QED
      BY <1>n, <1>c, <1>T, <2>2, <3>2, <3>3
  <2>3. CASE NobodyArrives
    <3>1. Landing(p)' \subseteq Landing(p)
      BY <2>3 DEF NobodyArrives, Landing, Connectors
    <3>2. CASE Counting(p)' \subseteq Counting(p)
      BY <1>n, <2>0, <3>1, <3>2, Together
    <3>3. ASSUME NEW b \in Borrowers, at[b] = p, pc[b] = "check", pc'[b] = "idle",
                 \E s : Counting(p)' \subseteq Counting(p) \cup {s}
          PROVE  Cardinality(Counting(p)') + Cardinality(Landing(p)') <= Max + Cardinality(Borrowers)
      <4>1. b \in Landing(p) /\ Landing(p)' \subseteq Landing(p) \ {b}
        BY <3>1, <3>3 DEF Landing
      <4>2. \E c \in Landing(p) : Landing(p)' \subseteq Landing(p) \ {c}
        BY <4>1
      <4>3. Max + Cardinality(Borrowers) \in Nat
        BY <1>n
      <4> DEFINE C == Counting(p)
                 L == Landing(p)
                 D == Counting(p)'
                 M == Landing(p)'
                 n == Max + Cardinality(Borrowers)
      <4>4. /\ IsFiniteSet(C) /\ IsFiniteSet(L) /\ n \in Nat
            /\ Cardinality(C) + Cardinality(L) <= n
            /\ (\E s : D \subseteq C \cup {s}) /\ \E c \in L : M \subseteq L \ {c}
        BY <1>n, <2>0, <3>3, <4>2, <4>3
      <4> HIDE DEF C, L, D, M, n
      <4>5. Cardinality(D) + Cardinality(M) <= n
        BY <4>4, Together
      <4> QED
        BY <4>5 DEF C, L, D, M, n
    <3> QED
      BY <1>b, <2>1, <2>2, <3>2, <3>3
  <2>4. ASSUME NEW b \in Borrowers, NEW q \in Pools, ArrivesBelow(b, q)
        PROVE  Cardinality(Counting(p)') + Cardinality(Landing(p)') <= Max + Cardinality(Borrowers)
    <3>0. /\ Total(Rest(q), lent[q]) < Max /\ idle' = Set(idle, q, Rest(q))
          /\ UNCHANGED <<lent, open>>
      BY <2>4 DEF ArrivesBelow
    <3>1. CASE q = p
      <4>1. Rest(p) \in Seq(Sessions) /\ lent[p] \in SUBSET Sessions /\ idle'[p] = Rest(p)
        BY <1>t, <3>0, <3>1, Tails DEF TypeOK, Set
      <4>2. Counting(p)' = open \cap (Items(Rest(p)) \cup lent[p])
        BY <3>0, <4>1 DEF Counting
      <4>3. Cardinality(Counting(p)') <= Total(Rest(p), lent[p]) /\ Total(Rest(p), lent[p]) \in Nat
        BY <1>t, <4>1, <4>2, CountedAtMost, Finite
      <4> QED
        BY <1>b, <1>c, <3>0, <3>1, <4>3
    <3>2. CASE q # p
      <4>1. Landing(p)' \subseteq Landing(p)
        BY <2>4, <3>2 DEF ArrivesBelow, Landing, Connectors
      <4>2. Counting(p)' = Counting(p)
        BY <1>t, <3>0, <3>2 DEF Counting, Set, TypeOK
      <4> QED
        BY <1>n, <2>0, <4>1, <4>2, Together
    <3> QED
      BY <3>1, <3>2
  <2> QED
    BY <2>3, <2>4
<1> QED
  BY <1>1, <1>2

LEMMA FewInit == Init => FewInv
<1> SUFFICES ASSUME Init PROVE FewInv
  OBVIOUS
<1>1. LentInv
  BY LentInit
<1>2. ASSUME NEW p \in Pools
      PROVE  Cardinality(Counting(p)) + Cardinality(Landing(p)) <= Max + Cardinality(Borrowers)
  <2>1. p \in unused /\ TypeInv /\ TypeOK
    BY <1>1 DEF Init, LentInv, TypeInv
  <2>2. Cardinality(Counting(p)) = 0 /\ Cardinality(Landing(p)) = 0
    BY <2>1, NothingNew, FS_EmptySet
  <2>3. Cardinality(Borrowers) \in Nat
    BY <2>1, CountsAreFinite
  <2> QED
    BY <2>2, <2>3
<1> QED
  BY <1>1, <1>2 DEF FewInv, FewAboveMaximum

LEMMA FewInvStep == FewInv /\ [Next]_vars => FewInv'
<1> SUFFICES ASSUME FewInv, [Next]_vars PROVE FewInv'
  OBVIOUS
<1>1. LentInv /\ LentInv' /\ TypeInv /\ Effect
  BY LentInvStep, StepEffect DEF FewInv, LentInv
<1>2. NobodyArrives \/ \E b \in Borrowers, p \in Pools : ArrivesBelow(b, p)
  <2>1. CASE UNCHANGED vars
    BY <2>1 DEF vars, work, NobodyArrives
  <2>2. CASE Next
    BY <1>1, <2>2, BorrowerArrives, OtherArrives
  <2> QED
    BY <2>1, <2>2
<1> QED
  BY <1>1, <1>2, FewStep DEF FewInv

(* However many borrowers find a pool below its maximum before the first   *)
(* has connected, it never counts more open sessions, with those still on  *)
(* their way, than the maximum and one per borrower.                       *)
THEOREM MaximumIsPassedByFew == Spec => []FewAboveMaximum
<1>1. FewInv => FewAboveMaximum
  BY DEF FewInv
<1> QED
  BY <1>1, FewInit, FewInvStep, PTL DEF Spec
-----------------------------------------------------------------------------
(* One session and the thread that calls it, of a plain session in which   *)
(* no close and no connect overlapped.  Either nobody connects, and nobody *)
(* leaves a connection where the state says that there is none; or one     *)
(* call is under way, nobody closes, and the state or the place of its     *)
(* caller tells how far it is.                                             *)
Waits == {"set_connecting", "begin", "adopt", "set_connected", "blocked"}
Closes == {"set_error", "close", "set_closing", "close_socket", "set_closed"}

LinkTypes ==
    /\ stage \in [Calls -> Link!Stages]
    /\ by \in [Calls -> Link!Threads]
    /\ place \in [Link!Threads -> Link!Locations]
    /\ job \in [Link!Threads -> Calls \cup {0}]

Unused(C) == \A d \in C : stage[d] \in {"unused", "done"}
Resting ==
    /\ Unused(Calls)
    /\ place[u1] \notin Waits
    /\ link = "live" =>
        state # "DISCONNECTED" /\ \A t \in Link!Threads : place[t] # "set_closed"
Begun(c) ==
    /\ stage[c] = "starting" /\ job[u1] = c
    /\ place[u1] \in Waits \ {"blocked"}
    /\ place[u1] = "begin" => state = "CONNECTING"
    /\ link = "live" => place[u1] = "set_connected"
Dialled(c) ==
    /\ stage[c] \in {"resolve", "resolved", "dial", "dialled", "refused"}
    /\ state = "CONNECTING"
    /\ place[u1] \in Waits => place[u1] = "blocked" /\ job[u1] = c /\ by[c] = u1
    /\ link = "live" => stage[c] = "dialled"
Calling(c) ==
    /\ Unused(Calls \ {c})
    /\ \A t \in Link!Threads : place[t] \notin Closes
    /\ Begun(c) \/ Dialled(c)

LinkFacts == place["io"] \notin Waits /\ (Resting \/ \E c \in Calls : Calling(c))
LinkInv == LinkTypes /\ (secure \/ crossed \/ LinkFacts)

ManagerInv ==
    /\ life \in [Sessions -> {"new", "connecting", "joined", "connected", "closed"}]
    /\ Manager!ConnectedAreKnown

-----------------------------------------------------------------------------
(* The steps of the session: what its caller calls, what completes, what a *)
(* thread goes on with or calls besides, and what happens by itself.       *)
Enters(d) ==
    \/ Link!AlreadyConnected(u1, d) \/ Link!Call(u1, d) \/ Link!Adopt(u1, d)
       \/ Link!StartServer(u1, d)
Completes(d, t) ==
    \/ Link!Resolved(d) \/ Link!DialEnds(d) \/ Link!ShakeEnds(d)
       \/ Link!HandleResolved(t, d) \/ Link!HandleRefused(t, d)
       \/ Link!BeginShake(t, d) \/ Link!HandleConnected(t, d)
       \/ Link!HandleGreeted(t, d)
Proceeds(t) ==
    \/ Link!SetConnecting(t) \/ Link!BeginResolve(t) \/ Link!BeginDial(t)
       \/ Link!StartRead(t) \/ Link!StartHeartbeat(t) \/ Link!SetError(t)
       \/ Link!Close(t) \/ Link!SetClosing(t) \/ Link!CloseSocket(t)
       \/ Link!SetClosed(t) \/ Link!AdoptSocket(t) \/ Link!SetConnected(t)
       \/ Link!SendEnds(t) \/ Link!Start(t) \/ Link!AsyncSend(t) \/ Link!Send(t)
Happens ==
    \/ Link!ReadEnds \/ Link!WriteEnds \/ Link!HandleRead \/ Link!HandleError
       \/ Link!TimerExpires \/ Link!HandleHeartbeat \/ Link!Drop

LEMMA LinkSteps ==
    ASSUME Link!Next
    PROVE  \/ \E d \in Calls : Link!Step(Enters(d))
           \/ \E d \in Calls, t \in Link!Threads : Link!Step(Completes(d, t))
           \/ \E t \in Link!Threads : Link!Step(Proceeds(t))
           \/ Link!Step(Happens)
<1>1. u1 \in Link!Threads /\ "io" \in Link!Threads
  BY DEF Link!Threads
<1> QED
  BY <1>1 DEF Link!Next, Link!Step, Link!Completes, Link!GoesOn, Enters, Completes,
     Proceeds, Happens

(* Types                                                                   *)
LEMMA TypesEnters ==
    ASSUME LinkTypes, NEW d \in Calls, Link!Step(Enters(d))
    PROVE  LinkTypes'
<1> USE CallerAssumption DEF LinkTypes, Waits, Closes, Link!Step, Link!Go, Link!Threads,
     Link!Locations, Link!Stages, Link!Runs, Link!Report, Link!Cut, Link!Aborted,
     Link!HandOver, Link!Closed, Link!socket, Link!dials, Link!traffic, Link!None
<1>1. CASE Link!Step(Link!AlreadyConnected(u1, d))
  BY <1>1 DEF Link!AlreadyConnected
<1>2. CASE Link!Step(Link!Call(u1, d))
  BY <1>2 DEF Link!Call
<1>3. CASE Link!Step(Link!Adopt(u1, d))
  BY <1>3 DEF Link!Adopt
<1>4. CASE Link!Step(Link!StartServer(u1, d))
  BY <1>4 DEF Link!StartServer
<1> QED
  BY <1>1, <1>2, <1>3, <1>4 DEF Enters

LEMMA TypesCompletes ==
    ASSUME LinkTypes, NEW d \in Calls, NEW t \in Link!Threads,
           Link!Step(Completes(d, t))
    PROVE  LinkTypes'
<1> USE CallerAssumption DEF LinkTypes, Waits, Closes, Link!Step, Link!Go, Link!Threads,
     Link!Locations, Link!Stages, Link!Runs, Link!Report, Link!Cut, Link!Aborted,
     Link!HandOver, Link!Closed, Link!socket, Link!dials, Link!traffic, Link!None
<1>1. CASE Link!Step(Link!Resolved(d))
  BY <1>1 DEF Link!Resolved
<1>2. CASE Link!Step(Link!DialEnds(d))
  BY <1>2 DEF Link!DialEnds
<1>3. CASE Link!Step(Link!ShakeEnds(d))
  BY <1>3 DEF Link!ShakeEnds
<1>4. CASE Link!Step(Link!HandleResolved(t, d))
  BY <1>4 DEF Link!HandleResolved
<1>5. CASE Link!Step(Link!HandleRefused(t, d))
  BY <1>5 DEF Link!HandleRefused
<1>6. CASE Link!Step(Link!BeginShake(t, d))
  BY <1>6 DEF Link!BeginShake
<1>7. CASE Link!Step(Link!HandleConnected(t, d))
  BY <1>7 DEF Link!HandleConnected
<1>8. CASE Link!Step(Link!HandleGreeted(t, d))
  BY <1>8 DEF Link!HandleGreeted
<1> QED
  BY <1>1, <1>2, <1>3, <1>4, <1>5, <1>6, <1>7, <1>8 DEF Completes

LEMMA TypesProceeds ==
    ASSUME LinkTypes, NEW t \in Link!Threads, Link!Step(Proceeds(t))
    PROVE  LinkTypes'
<1> USE CallerAssumption DEF LinkTypes, Waits, Closes, Link!Step, Link!Go, Link!Threads,
     Link!Locations, Link!Stages, Link!Runs, Link!Report, Link!Cut, Link!Aborted,
     Link!HandOver, Link!Closed, Link!socket, Link!dials, Link!traffic, Link!None
<1>1. CASE Link!Step(Link!SetConnecting(t))
  BY <1>1 DEF Link!SetConnecting
<1>2. CASE Link!Step(Link!BeginResolve(t))
  BY <1>2, ZenonT(60) DEF Link!BeginResolve
<1>3. CASE Link!Step(Link!BeginDial(t))
  BY <1>3, ZenonT(60) DEF Link!BeginDial
<1>4. CASE Link!Step(Link!StartRead(t))
  BY <1>4 DEF Link!StartRead
<1>5. CASE Link!Step(Link!StartHeartbeat(t))
  BY <1>5 DEF Link!StartHeartbeat
<1>6. CASE Link!Step(Link!SetError(t))
  BY <1>6 DEF Link!SetError
<1>7. CASE Link!Step(Link!Close(t))
  BY <1>7 DEF Link!Close
<1>8. CASE Link!Step(Link!SetClosing(t))
  BY <1>8 DEF Link!SetClosing
<1>9. CASE Link!Step(Link!CloseSocket(t))
  BY <1>9 DEF Link!CloseSocket
<1>10. CASE Link!Step(Link!SetClosed(t))
  BY <1>10 DEF Link!SetClosed
<1>11. CASE Link!Step(Link!AdoptSocket(t))
  BY <1>11 DEF Link!AdoptSocket
<1>12. CASE Link!Step(Link!SetConnected(t))
  BY <1>12 DEF Link!SetConnected
<1>13. CASE Link!Step(Link!SendEnds(t))
  BY <1>13 DEF Link!SendEnds
<1>14. CASE Link!Step(Link!Start(t))
  BY <1>14 DEF Link!Start
<1>15. CASE Link!Step(Link!AsyncSend(t))
  BY <1>15 DEF Link!AsyncSend
<1>16. CASE Link!Step(Link!Send(t))
  BY <1>16 DEF Link!Send
<1> QED
  BY <1>1, <1>2, <1>3, <1>4, <1>5, <1>6, <1>7, <1>8, <1>9, <1>10, <1>11, <1>12, <1>13,
     <1>14, <1>15, <1>16 DEF Proceeds

LEMMA TypesHappens ==
    ASSUME LinkTypes, Link!Step(Happens)
    PROVE  LinkTypes'
<1> USE CallerAssumption DEF LinkTypes, Waits, Closes, Link!Step, Link!Go, Link!Threads,
     Link!Locations, Link!Stages, Link!Runs, Link!Report, Link!Cut, Link!Aborted,
     Link!HandOver, Link!Closed, Link!socket, Link!dials, Link!traffic, Link!None
<1>1. CASE Link!Step(Link!ReadEnds)
  BY <1>1 DEF Link!ReadEnds
<1>2. CASE Link!Step(Link!WriteEnds)
  BY <1>2 DEF Link!WriteEnds
<1>3. CASE Link!Step(Link!HandleRead)
  BY <1>3 DEF Link!HandleRead
<1>4. CASE Link!Step(Link!HandleError)
  BY <1>4 DEF Link!HandleError
<1>5. CASE Link!Step(Link!TimerExpires)
  BY <1>5 DEF Link!TimerExpires
<1>6. CASE Link!Step(Link!HandleHeartbeat)
  BY <1>6 DEF Link!HandleHeartbeat
<1>7. CASE Link!Step(Link!Drop)
  BY <1>7 DEF Link!Drop
<1> QED
  BY <1>1, <1>2, <1>3, <1>4, <1>5, <1>6, <1>7 DEF Happens


(* While nobody connects.                                                  *)
LEMMA RestingEnters ==
    ASSUME LinkTypes, Resting, ~secure, ~crossed', place["io"] \notin Waits,
           NEW d \in Calls, Link!Step(Enters(d))
    PROVE  ~secure' /\ place'["io"] \notin Waits /\ (Resting' \/ \E c \in Calls : Calling(c)')
<1> USE CallerAssumption DEF LinkTypes, Waits, Closes, Link!Step, Link!Go, Link!Threads,
     Link!Locations, Link!Stages, Link!Runs, Link!Report, Link!Cut, Link!Aborted,
     Link!HandOver, Link!Closed, Link!socket, Link!dials, Link!traffic, Link!None,
     Resting, Unused, Begun, Dialled, Calling, Link!Overlap, Link!Closing, Link!UnderWay
<1>1. CASE Link!Step(Link!AlreadyConnected(u1, d))
  BY <1>1 DEF Link!AlreadyConnected
<1>2. CASE Link!Step(Link!Call(u1, d))
  BY <1>2 DEF Link!Call
<1>3. CASE Link!Step(Link!Adopt(u1, d))
  BY <1>3 DEF Link!Adopt
<1>4. CASE Link!Step(Link!StartServer(u1, d))
  BY <1>4 DEF Link!StartServer
<1> QED
  BY <1>1, <1>2, <1>3, <1>4 DEF Enters

LEMMA RestingCompletes ==
    ASSUME LinkTypes, Resting, ~secure, ~crossed', place["io"] \notin Waits,
           NEW d \in Calls, NEW t \in Link!Threads, Link!Step(Completes(d, t))
    PROVE  ~secure' /\ place'["io"] \notin Waits /\ (Resting' \/ \E c \in Calls : Calling(c)')
<1> USE CallerAssumption DEF LinkTypes, Waits, Closes, Link!Step, Link!Go, Link!Threads,
     Link!Locations, Link!Stages, Link!Runs, Link!Report, Link!Cut, Link!Aborted,
     Link!HandOver, Link!Closed, Link!socket, Link!dials, Link!traffic, Link!None,
     Resting, Unused, Begun, Dialled, Calling, Link!Overlap, Link!Closing, Link!UnderWay
<1>1. CASE Link!Step(Link!Resolved(d))
  BY <1>1 DEF Link!Resolved
<1>2. CASE Link!Step(Link!DialEnds(d))
  BY <1>2 DEF Link!DialEnds
<1>3. CASE Link!Step(Link!ShakeEnds(d))
  BY <1>3 DEF Link!ShakeEnds
<1>4. CASE Link!Step(Link!HandleResolved(t, d))
  BY <1>4 DEF Link!HandleResolved
<1>5. CASE Link!Step(Link!HandleRefused(t, d))
  BY <1>5 DEF Link!HandleRefused
<1>6. CASE Link!Step(Link!BeginShake(t, d))
  BY <1>6 DEF Link!BeginShake
<1>7. CASE Link!Step(Link!HandleConnected(t, d))
  BY <1>7 DEF Link!HandleConnected
<1>8. CASE Link!Step(Link!HandleGreeted(t, d))
  BY <1>8 DEF Link!HandleGreeted
<1> QED
  BY <1>1, <1>2, <1>3, <1>4, <1>5, <1>6, <1>7, <1>8 DEF Completes

LEMMA RestingProceeds ==
    ASSUME LinkTypes, Resting, ~secure, ~crossed', place["io"] \notin Waits,
           NEW t \in Link!Threads, Link!Step(Proceeds(t))
    PROVE  ~secure' /\ place'["io"] \notin Waits /\ (Resting' \/ \E c \in Calls : Calling(c)')
<1> USE CallerAssumption DEF LinkTypes, Waits, Closes, Link!Step, Link!Go, Link!Threads,
     Link!Locations, Link!Stages, Link!Runs, Link!Report, Link!Cut, Link!Aborted,
     Link!HandOver, Link!Closed, Link!socket, Link!dials, Link!traffic, Link!None,
     Resting, Unused, Begun, Dialled, Calling, Link!Overlap, Link!Closing, Link!UnderWay
<1>1. CASE Link!Step(Link!SetConnecting(t))
  BY <1>1 DEF Link!SetConnecting
<1>2. CASE Link!Step(Link!BeginResolve(t))
  BY <1>2 DEF Link!BeginResolve
<1>3. CASE Link!Step(Link!BeginDial(t))
  BY <1>3 DEF Link!BeginDial
<1>4. CASE Link!Step(Link!StartRead(t))
  BY <1>4 DEF Link!StartRead
<1>5. CASE Link!Step(Link!StartHeartbeat(t))
  BY <1>5 DEF Link!StartHeartbeat
<1>6. CASE Link!Step(Link!SetError(t))
  BY <1>6 DEF Link!SetError
<1>7. CASE Link!Step(Link!Close(t))
  BY <1>7 DEF Link!Close
<1>8. CASE Link!Step(Link!SetClosing(t))
  BY <1>8 DEF Link!SetClosing
<1>9. CASE Link!Step(Link!CloseSocket(t))
  BY <1>9 DEF Link!CloseSocket
<1>10. CASE Link!Step(Link!SetClosed(t))
  BY <1>10 DEF Link!SetClosed
<1>11. CASE Link!Step(Link!AdoptSocket(t))
  BY <1>11 DEF Link!AdoptSocket
<1>12. CASE Link!Step(Link!SetConnected(t))
  BY <1>12 DEF Link!SetConnected
<1>13. CASE Link!Step(Link!SendEnds(t))
  BY <1>13 DEF Link!SendEnds
<1>14. CASE Link!Step(Link!Start(t))
  BY <1>14 DEF Link!Start
<1>15. CASE Link!Step(Link!AsyncSend(t))
  BY <1>15 DEF Link!AsyncSend
<1>16. CASE Link!Step(Link!Send(t))
  BY <1>16 DEF Link!Send
<1> QED
  BY <1>1, <1>2, <1>3, <1>4, <1>5, <1>6, <1>7, <1>8, <1>9, <1>10, <1>11, <1>12, <1>13,
     <1>14, <1>15, <1>16 DEF Proceeds

LEMMA RestingHappens ==
    ASSUME LinkTypes, Resting, ~secure, ~crossed', place["io"] \notin Waits,
           Link!Step(Happens)
    PROVE  ~secure' /\ place'["io"] \notin Waits /\ (Resting' \/ \E c \in Calls : Calling(c)')
<1> USE CallerAssumption DEF LinkTypes, Waits, Closes, Link!Step, Link!Go, Link!Threads,
     Link!Locations, Link!Stages, Link!Runs, Link!Report, Link!Cut, Link!Aborted,
     Link!HandOver, Link!Closed, Link!socket, Link!dials, Link!traffic, Link!None,
     Resting, Unused, Begun, Dialled, Calling, Link!Overlap, Link!Closing, Link!UnderWay
<1>1. CASE Link!Step(Link!ReadEnds)
  BY <1>1 DEF Link!ReadEnds
<1>2. CASE Link!Step(Link!WriteEnds)
  BY <1>2 DEF Link!WriteEnds
<1>3. CASE Link!Step(Link!HandleRead)
  BY <1>3 DEF Link!HandleRead
<1>4. CASE Link!Step(Link!HandleError)
  BY <1>4 DEF Link!HandleError
<1>5. CASE Link!Step(Link!TimerExpires)
  BY <1>5 DEF Link!TimerExpires
<1>6. CASE Link!Step(Link!HandleHeartbeat)
  BY <1>6 DEF Link!HandleHeartbeat
<1>7. CASE Link!Step(Link!Drop)
  BY <1>7 DEF Link!Drop
<1> QED
  BY <1>1, <1>2, <1>3, <1>4, <1>5, <1>6, <1>7 DEF Happens


(* While c does: whoever closes now has crossed it.                        *)
LEMMA CallingEnters ==
    ASSUME LinkTypes, NEW c \in Calls, Calling(c), ~secure, ~crossed',
           place["io"] \notin Waits, NEW d \in Calls, Link!Step(Enters(d))
    PROVE  ~secure' /\ place'["io"] \notin Waits /\ (Resting' \/ Calling(c)')
<1> USE CallerAssumption DEF LinkTypes, Waits, Closes, Link!Step, Link!Go, Link!Threads,
     Link!Locations, Link!Stages, Link!Runs, Link!Report, Link!Cut, Link!Aborted,
     Link!HandOver, Link!Closed, Link!socket, Link!dials, Link!traffic, Link!None,
     Resting, Unused, Begun, Dialled, Calling, Link!Overlap, Link!Closing, Link!UnderWay
<1>1. CASE Link!Step(Link!AlreadyConnected(u1, d))
  BY <1>1 DEF Link!AlreadyConnected
<1>2. CASE Link!Step(Link!Call(u1, d))
  BY <1>2 DEF Link!Call
<1>3. CASE Link!Step(Link!Adopt(u1, d))
  BY <1>3 DEF Link!Adopt
<1>4. CASE Link!Step(Link!StartServer(u1, d))
  BY <1>4 DEF Link!StartServer
<1> QED
  BY <1>1, <1>2, <1>3, <1>4 DEF Enters

LEMMA CallingCompletes ==
    ASSUME LinkTypes, NEW c \in Calls, Calling(c), ~secure, ~crossed',
           place["io"] \notin Waits, NEW d \in Calls, NEW t \in Link!Threads,
           Link!Step(Completes(d, t))
    PROVE  ~secure' /\ place'["io"] \notin Waits /\ (Resting' \/ Calling(c)')
<1> USE CallerAssumption DEF LinkTypes, Waits, Closes, Link!Step, Link!Go, Link!Threads,
     Link!Locations, Link!Stages, Link!Runs, Link!Report, Link!Cut, Link!Aborted,
     Link!HandOver, Link!Closed, Link!socket, Link!dials, Link!traffic, Link!None,
     Resting, Unused, Begun, Dialled, Calling, Link!Overlap, Link!Closing, Link!UnderWay
<1>1. CASE Link!Step(Link!Resolved(d))
  BY <1>1 DEF Link!Resolved
<1>2. CASE Link!Step(Link!DialEnds(d))
  BY <1>2 DEF Link!DialEnds
<1>3. CASE Link!Step(Link!ShakeEnds(d))
  BY <1>3 DEF Link!ShakeEnds
<1>4. CASE Link!Step(Link!HandleResolved(t, d))
  BY <1>4 DEF Link!HandleResolved
<1>5. CASE Link!Step(Link!HandleRefused(t, d))
  BY <1>5 DEF Link!HandleRefused
<1>6. CASE Link!Step(Link!BeginShake(t, d))
  BY <1>6 DEF Link!BeginShake
<1>7. CASE Link!Step(Link!HandleConnected(t, d))
  BY <1>7 DEF Link!HandleConnected
<1>8. CASE Link!Step(Link!HandleGreeted(t, d))
  BY <1>8 DEF Link!HandleGreeted
<1> QED
  BY <1>1, <1>2, <1>3, <1>4, <1>5, <1>6, <1>7, <1>8 DEF Completes

LEMMA CallingProceeds ==
    ASSUME LinkTypes, NEW c \in Calls, Calling(c), ~secure, ~crossed',
           place["io"] \notin Waits, NEW t \in Link!Threads, Link!Step(Proceeds(t))
    PROVE  ~secure' /\ place'["io"] \notin Waits /\ (Resting' \/ Calling(c)')
<1> USE CallerAssumption DEF LinkTypes, Waits, Closes, Link!Step, Link!Go, Link!Threads,
     Link!Locations, Link!Stages, Link!Runs, Link!Report, Link!Cut, Link!Aborted,
     Link!HandOver, Link!Closed, Link!socket, Link!dials, Link!traffic, Link!None,
     Resting, Unused, Begun, Dialled, Calling, Link!Overlap, Link!Closing, Link!UnderWay
<1>1. CASE Link!Step(Link!SetConnecting(t))
  BY <1>1 DEF Link!SetConnecting
<1>2. CASE Link!Step(Link!BeginResolve(t))
  BY <1>2 DEF Link!BeginResolve
<1>3. CASE Link!Step(Link!BeginDial(t))
  BY <1>3 DEF Link!BeginDial
<1>4. CASE Link!Step(Link!StartRead(t))
  BY <1>4 DEF Link!StartRead
<1>5. CASE Link!Step(Link!StartHeartbeat(t))
  BY <1>5 DEF Link!StartHeartbeat
<1>6. CASE Link!Step(Link!SetError(t))
  BY <1>6 DEF Link!SetError
<1>7. CASE Link!Step(Link!Close(t))
  BY <1>7 DEF Link!Close
<1>8. CASE Link!Step(Link!SetClosing(t))
  BY <1>8 DEF Link!SetClosing
<1>9. CASE Link!Step(Link!CloseSocket(t))
  BY <1>9 DEF Link!CloseSocket
<1>10. CASE Link!Step(Link!SetClosed(t))
  BY <1>10 DEF Link!SetClosed
<1>11. CASE Link!Step(Link!AdoptSocket(t))
  BY <1>11 DEF Link!AdoptSocket
<1>12. CASE Link!Step(Link!SetConnected(t))
  BY <1>12 DEF Link!SetConnected
<1>13. CASE Link!Step(Link!SendEnds(t))
  BY <1>13, ZenonT(60) DEF Link!SendEnds
<1>14. CASE Link!Step(Link!Start(t))
  BY <1>14 DEF Link!Start
<1>15. CASE Link!Step(Link!AsyncSend(t))
  BY <1>15 DEF Link!AsyncSend
<1>16. CASE Link!Step(Link!Send(t))
  BY <1>16 DEF Link!Send
<1> QED
  BY <1>1, <1>2, <1>3, <1>4, <1>5, <1>6, <1>7, <1>8, <1>9, <1>10, <1>11, <1>12, <1>13,
     <1>14, <1>15, <1>16 DEF Proceeds

LEMMA CallingHappens ==
    ASSUME LinkTypes, NEW c \in Calls, Calling(c), ~secure, ~crossed',
           place["io"] \notin Waits, Link!Step(Happens)
    PROVE  ~secure' /\ place'["io"] \notin Waits /\ (Resting' \/ Calling(c)')
<1> USE CallerAssumption DEF LinkTypes, Waits, Closes, Link!Step, Link!Go, Link!Threads,
     Link!Locations, Link!Stages, Link!Runs, Link!Report, Link!Cut, Link!Aborted,
     Link!HandOver, Link!Closed, Link!socket, Link!dials, Link!traffic, Link!None,
     Resting, Unused, Begun, Dialled, Calling, Link!Overlap, Link!Closing, Link!UnderWay
<1>1. CASE Link!Step(Link!ReadEnds)
  BY <1>1 DEF Link!ReadEnds
<1>2. CASE Link!Step(Link!WriteEnds)
  BY <1>2 DEF Link!WriteEnds
<1>3. CASE Link!Step(Link!HandleRead)
  BY <1>3 DEF Link!HandleRead
<1>4. CASE Link!Step(Link!HandleError)
  BY <1>4 DEF Link!HandleError
<1>5. CASE Link!Step(Link!TimerExpires)
  BY <1>5 DEF Link!TimerExpires
<1>6. CASE Link!Step(Link!HandleHeartbeat)
  BY <1>6 DEF Link!HandleHeartbeat
<1>7. CASE Link!Step(Link!Drop)
  BY <1>7 DEF Link!Drop
<1> QED
  BY <1>1, <1>2, <1>3, <1>4, <1>5, <1>6, <1>7 DEF Happens

LEMMA LinkStep ==
    LinkInv /\ [Link!Next]_session => LinkInv'
<1> SUFFICES ASSUME LinkInv, [Link!Next]_session PROVE LinkInv'
  OBVIOUS
<1>1. CASE Link!Next
  <2>1. LinkTypes'
    BY <1>1, LinkSteps, TypesEnters, TypesCompletes, TypesProceeds, TypesHappens DEF LinkInv
  <2>2. CASE secure
    <3>1. secure'
      BY <1>1, <2>2, LinkSteps
      DEF Link!Step, Enters, Completes, Proceeds, Happens, Link!AlreadyConnected, Link!Call,
          Link!Adopt, Link!StartServer, Link!Resolved, Link!DialEnds, Link!ShakeEnds,
          Link!HandleResolved, Link!HandleRefused, Link!BeginShake, Link!HandleConnected,
          Link!HandleGreeted, Link!SetConnecting, Link!BeginResolve, Link!BeginDial,
          Link!StartRead, Link!StartHeartbeat, Link!SetError, Link!Close, Link!SetClosing,
          Link!CloseSocket, Link!SetClosed, Link!AdoptSocket, Link!SetConnected,
          Link!SendEnds, Link!Start, Link!AsyncSend, Link!Send, Link!ReadEnds,
          Link!WriteEnds, Link!HandleRead, Link!HandleError, Link!TimerExpires,
          Link!HandleHeartbeat, Link!Drop
    <3> QED
      BY <2>1, <3>1 DEF LinkInv
  <2>3. CASE ~secure /\ ~crossed'
    <3>1. ~crossed
      BY <1>1, <2>3, LinkSteps DEF Link!Step
    <3>2. LinkTypes /\ LinkFacts
      BY <2>3, <3>1 DEF LinkInv
    <3>3. CASE Resting
      BY <1>1, <2>1, <2>3, <3>2, <3>3, LinkSteps, RestingEnters, RestingCompletes,
         RestingProceeds, RestingHappens DEF LinkInv, LinkFacts
    <3>4. ASSUME NEW c \in Calls, Calling(c) PROVE LinkInv'
      BY <1>1, <2>1, <2>3, <3>2, <3>4, LinkSteps, CallingEnters, CallingCompletes,
         CallingProceeds, CallingHappens DEF LinkInv, LinkFacts
    <3> QED
      BY <3>2, <3>3, <3>4 DEF LinkFacts
  <2> QED
    BY <2>1, <2>2, <2>3 DEF LinkInv
<1>2. CASE UNCHANGED session
  BY <1>2 DEF session, LinkInv, LinkTypes, LinkFacts, Resting, Unused, Begun, Dialled, Calling
<1> QED
  BY <1>1, <1>2

LEMMA ManagerStepKeeps ==
    ManagerInv /\ [Manager!Next]_manager => ManagerInv'
<1> SUFFICES ASSUME ManagerInv, [Manager!Next]_manager PROVE ManagerInv'
  OBVIOUS
<1> USE DEF ManagerInv, Manager!ConnectedAreKnown
<1>1. ASSUME UNCHANGED <<known, life>> PROVE ManagerInv'
  BY <1>1
<1>2. ASSUME NEW S \in SUBSET Sessions, Manager!Ended(S), known' = known \ S
      PROVE  ManagerInv'
  BY <1>2 DEF Manager!Ended
<1>3. ASSUME NEW s \in Sessions,
             Manager!CreateSession(s) \/ Manager!AddSession(s) \/ Manager!RemoveSession(s)
             \/ Manager!Connects(s) \/ Manager!Drops(s)
      PROVE  ManagerInv'
  BY <1>3 DEF Manager!CreateSession, Manager!AddSession, Manager!RemoveSession,
     Manager!Connects, Manager!Drops, Manager!Ended
<1>4. ASSUME NEW t, Manager!ForceCleanup(t) PROVE ManagerInv'
  BY <1>4 DEF Manager!ForceCleanup, Manager!Ended
<1>5. ASSUME NEW t, NEW s \in Sessions, Manager!RemoveIfDisconnected(t, s)
      PROVE  ManagerInv'
  BY <1>2, <1>5 DEF Manager!RemoveIfDisconnected
<1> HIDE DEF ManagerInv
<1> QED
  BY <1>1, <1>3, <1>4, <1>5
  DEF Manager!Next, manager, Manager!Cleans, Manager!GoesOn, Manager!Start, Manager!Stop,
      Manager!RemoveDisconnected, Manager!Collect, Manager!CleanupEnds, Manager!StartStore,
      Manager!StartPool, Manager!StartCleanupTimer, Manager!StopCancel,
      Manager!TimerExpires, Manager!Callback, Manager!TakeTask

-----------------------------------------------------------------------------
(* A plain session that one thread calls is not left with a connection when*)
(* it says DISCONNECTED, unless a close and a connect overlapped (close,   *)
(* adopt_socket, async_connect and its handlers); and a session that the   *)
(* manager made and that is connected is in its map, whatever clean-ups    *)
(* run (create_session, remove_session, force_cleanup).                    *)
THEOREM SessionsCloseQuietly == MCSpec => []ClosedIsQuiet
<1> DEFINE Inv == LinkInv /\ ManagerInv
<1>1. MCInit => Inv
  <2> SUFFICES ASSUME MCInit PROVE Inv
    OBVIOUS
  <2>1. Link!Init /\ Manager!Init
    BY DEF MCInit
  <2>2. LinkTypes
    BY <2>1 DEF Link!Init, LinkTypes, Link!Stages, Link!Threads, Link!Locations, Link!None
  <2>3. LinkFacts
    BY <2>1 DEF Link!Init, LinkFacts, Resting, Unused, Waits, Link!Threads
  <2>4. ManagerInv
    BY <2>1 DEF Manager!Init, ManagerInv, Manager!ConnectedAreKnown
  <2> QED
    BY <2>2, <2>3, <2>4 DEF LinkInv
<1>2. Inv /\ [PoolStep \/ SessionStep \/ ManagerStep \/ SessionRests]_all => Inv'
  <2> SUFFICES ASSUME Inv, [PoolStep \/ SessionStep \/ ManagerStep \/ SessionRests]_all
               PROVE  Inv'
    OBVIOUS
  <2>1. [Link!Next]_session /\ [Manager!Next]_manager
    BY DEF PoolStep, SessionStep, ManagerStep, SessionRests, all
  <2> QED
    BY <2>1, LinkStep, ManagerStepKeeps
<1>3. Inv => ClosedIsQuiet
  <2> SUFFICES ASSUME Inv, Link!Quiet, state = "DISCONNECTED", link = "live"
               PROVE  crossed \/ secure
    BY DEF ClosedIsQuiet, Link!ClosedIsClosed, ManagerInv
  <2>1. ~Resting
    BY DEF Resting
  <2>2. ASSUME NEW c \in Calls, Calling(c) PROVE FALSE
    BY <2>2 DEF Calling, Begun, Dialled, Link!Quiet, Link!UnderWay
  <2> QED
    BY <2>1, <2>2 DEF LinkInv, LinkFacts
<1> QED
  BY <1>1, <1>2, <1>3, PTL DEF MCSpec
=============================================================================
