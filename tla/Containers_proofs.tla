-------------------------- MODULE Containers_proofs --------------------------
(***************************************************************************)
(* Proofs about the containers at which threads wait and about those that  *)
(* own memory by hand, for any containers, pointers and units, and finitely*)
(* many threads and pointers that count.                                   *)
(*                                                                         *)
(* Nobody sleeps next to work: one counting argument (Covered, Keeps) for  *)
(* the stack and the queues, for the ordered task queues and for the queue *)
(* that can be closed.  Order is kept: the permits of the ring count its   *)
(* slots and its elements, and a unit of an ordered task queue is in one   *)
(* place.  Memory has one owner: what each operation of a string, vector   *)
(* or list does to one or two of them, and what a smart pointer that       *)
(* shares, or owns alone, does when it is made, given up, copied and moved.*)
(***************************************************************************)
EXTENDS MCWaiting, MCMemory, Integers, Sequences, FiniteSetTheorems, WellFoundedInduction,
        TLAPS

USE WaitingAssumption, MemoryAssumption

(* What the instances count with is what is counted with here.             *)
LEMMA SameCardinality ==
    \A S : /\ Waits!Cardinality(S) = Cardinality(S) /\ Ranks!Cardinality(S) = Cardinality(S)
           /\ Closable!Cardinality(S) = Cardinality(S)
           /\ Pointers!Cardinality(S) = Cardinality(S)
  BY DEF Waits!Cardinality, Ranks!Cardinality, Closable!Cardinality, Pointers!Cardinality,
         Cardinality
-----------------------------------------------------------------------------
(* Sleepers and those on their way.  S sleep for things of which there are *)
(* n, and W are awake and on their way to one.  A step keeps them covered  *)
(* when it leaves nobody asleep, or nothing to sleep for, or lets somebody *)
(* set out for each thing more, or takes one thing for one that arrives.   *)
Covered(S, n, W) == S # {} => n <= Cardinality(W)

Keeps(S, n, W, S2, n2, W2) ==
    \/ S2 = {} \/ n2 <= 0
    \/ /\ S2 \subseteq S
       /\ \/ n2 <= n /\ W \subseteq W2
          \/ n2 <= n + 1 /\ \E u \in W2 \ W : W \subseteq W2
          \/ n2 <= n - 1 /\ \E t \in W : W \ {t} \subseteq W2
          \/ n2 <= n /\ \E t \in W, u \in W2 \ W : W \ {t} \subseteq W2

LEMMA KeepsCovered ==
    ASSUME NEW S, NEW S2, NEW n \in Int, NEW n2 \in Int, NEW W, NEW W2,
           IsFiniteSet(W), IsFiniteSet(W2), Covered(S, n, W),
           Keeps(S, n, W, S2, n2, W2)
    PROVE  Covered(S2, n2, W2)
<1> USE FS_CardinalityType
<1>1. Cardinality(W) \in Nat /\ Cardinality(W2) \in Nat
  OBVIOUS
<1>2. CASE S2 = {} \/ n2 <= 0
  BY <1>1, <1>2 DEF Covered
<1>3. CASE S2 \subseteq S /\ S2 # {}
  <2>1. n <= Cardinality(W)
    BY <1>3 DEF Covered
  <2>2. ASSUME W \subseteq W2 PROVE Cardinality(W) <= Cardinality(W2)
    BY <2>2, FS_Subset
  <2>3. ASSUME NEW t \in W, W \ {t} \subseteq W2
        PROVE  Cardinality(W) - 1 <= Cardinality(W2)
    <3>1. IsFiniteSet(W \ {t}) /\ Cardinality(W \ {t}) = Cardinality(W) - 1
      BY FS_RemoveElement
    <3> QED
      BY <2>3, <3>1, FS_Subset
  <2>4. ASSUME NEW u \in W2 \ W, W \subseteq W2
        PROVE  Cardinality(W) + 1 <= Cardinality(W2)
    <3>1. IsFiniteSet(W \cup {u}) /\ Cardinality(W \cup {u}) = Cardinality(W) + 1
      BY FS_AddElement
    <3>2. W \cup {u} \subseteq W2
      BY <2>4
    <3> QED
      BY <3>1, <3>2, FS_Subset
  <2>5. ASSUME NEW t \in W, NEW u \in W2 \ W, W \ {t} \subseteq W2
        PROVE  Cardinality(W) <= Cardinality(W2)
    <3>1. IsFiniteSet(W \ {t}) /\ Cardinality(W \ {t}) = Cardinality(W) - 1
      BY FS_RemoveElement
    <3>2. Cardinality((W \ {t}) \cup {u}) = Cardinality(W) - 1 + 1
      BY <3>1, FS_AddElement
    <3>3. (W \ {t}) \cup {u} \subseteq W2
      BY <2>5
    <3> QED
      BY <1>1, <3>2, <3>3, FS_Subset
  <2>6. CASE n2 <= n /\ W \subseteq W2
    BY <1>1, <2>1, <2>2, <2>6 DEF Covered
  <2>7. CASE n2 <= n + 1 /\ \E u \in W2 \ W : W \subseteq W2
    BY <1>1, <2>1, <2>4, <2>7 DEF Covered
  <2>8. CASE n2 <= n - 1 /\ \E t \in W : W \ {t} \subseteq W2
    BY <1>1, <2>1, <2>3, <2>8 DEF Covered
  <2>9. CASE n2 <= n /\ \E t \in W, u \in W2 \ W : W \ {t} \subseteq W2
    BY <1>1, <2>1, <2>5, <2>9 DEF Covered
  <2> QED
    BY <1>2, <2>6, <2>7, <2>8, <2>9 DEF Keeps
<1> QED
  BY <1>2, <1>3 DEF Keeps

-----------------------------------------------------------------------------
(* The stack and the queues.                                               *)
Sites == {"idle", "waits to pop", "waits to push", "pops again", "pushes again", "tells"}
WaitsTypes ==
    /\ items \in [Stores -> Nat]
    /\ maxCap \in [Stores -> Nat]
    /\ waitKind = "queue" => \A o \in Stores : maxCap[o] = 0
    /\ waitAt \in [Users -> [what : Sites, on : SUBSET Stores]]

PopSleepers(o) == Waits!Being("waits to pop", o)
PopWays(o) == Waits!Being("pops again", o)
PushSleepers(o) == IF Waits!Bounded(o) THEN Waits!Being("waits to push", o) ELSE {}
PushWays(o) == Waits!Being("pushes again", o)
Places(o) == maxCap[o] - items[o]

WaitsFacts == \A o \in Stores : ~Waits!Telling(o) =>
    /\ Covered(PopSleepers(o), items[o], PopWays(o))
    /\ Covered(PushSleepers(o), Places(o), PushWays(o))
WaitsInv == WaitsTypes /\ WaitsFacts

PopsKept(o) == Keeps(PopSleepers(o), items[o], PopWays(o),
                     PopSleepers(o)', items'[o], PopWays(o)')
PushesKept(o) == Keeps(PushSleepers(o), Places(o), PushWays(o),
                       PushSleepers(o)', Places(o)', PushWays(o)')
BothKept(o) == PopsKept(o) /\ PushesKept(o)

LEMMA WaitersAreFinite ==
    ASSUME NEW o
    PROVE  /\ IsFiniteSet(PopWays(o)) /\ IsFiniteSet(PopWays(o)')
           /\ IsFiniteSet(PushWays(o)) /\ IsFiniteSet(PushWays(o)')
<1>1. /\ PopWays(o) \subseteq Users /\ PopWays(o)' \subseteq Users
      /\ PushWays(o) \subseteq Users /\ PushWays(o)' \subseteq Users
  BY DEF PopWays, PushWays, Waits!Being
<1> QED
  BY <1>1, FS_Subset DEF WaitingAssumption

LEMMA WaitsTyped == WaitsTypes /\ Waits!Next => WaitsTypes'
<1> SUFFICES ASSUME WaitsTypes, Waits!Next PROVE WaitsTypes'
  OBVIOUS
<1> DEFINE Site == [what : Sites, on : SUBSET Stores]
<1>0. /\ Waits!Idle \in Site
      /\ \A w \in Sites, o \in Stores : Waits!In(w, o) \in Site
      /\ \A w : Waits!Woken(w) \in Sites
  BY DEF Waits!Idle, Waits!In, Waits!Woken, Sites
<1>1. ASSUME NEW t \in Users, NEW to \in Site PROVE Waits!Moved(t, to) \in [Users -> Site]
  BY <1>1 DEF Waits!Moved, WaitsTypes
<1>2. ASSUME NEW moved \in [Users -> Site], NEW w, NEW o \in Stores, Waits!NotifyOne(w, o, moved)
      PROVE  waitAt' \in [Users -> Site]
  <2>1. Waits!In(Waits!Woken(w), o) \in Site
    BY <1>0
  <2> QED
    BY <1>2, <2>1 DEF Waits!NotifyOne
<1>3. ASSUME NEW moved \in [Users -> Site], NEW W, NEW O, Waits!NotifyAll(W, O, moved)
      PROVE  waitAt' \in [Users -> Site]
  BY <1>0, <1>3 DEF Waits!NotifyAll, WaitsTypes
<1>4. PICK t \in Users :
        \/ Waits!Spurious(t) \/ Waits!Tell(t)
        \/ \E o \in Stores :
            \/ Waits!Push(t, o) \/ Waits!PushAgain(t, o) \/ Waits!Pop(t, o)
            \/ Waits!TryPop(t, o) \/ Waits!Clear(t, o)
            \/ \E p \in Stores : Waits!Swap(t, o, p)
  BY DEF Waits!Next
<1>5. CASE Waits!Spurious(t)
  BY <1>0, <1>5 DEF Waits!Spurious, WaitsTypes
<1>6. CASE Waits!Tell(t)
  <2>1. Waits!Moved(t, Waits!Idle) \in [Users -> Site]
    BY <1>0, <1>1
  <2>2. waitAt' \in [Users -> Site]
    BY <1>3, <1>6, <2>1 DEF Waits!Tell
  <2> QED
    BY <1>6, <2>2 DEF Waits!Tell, WaitsTypes
<1>7. ASSUME NEW o \in Stores, Waits!Put(t, o)
      PROVE  items' \in [Stores -> Nat] /\ waitAt' \in [Users -> Site]
  <2>1. Waits!Moved(t, Waits!Idle) \in [Users -> Site]
    BY <1>0, <1>1
  <2>2. items' = [items EXCEPT ![o] = @ + 1]
    BY <1>7 DEF Waits!Put
  <2>3. waitAt' \in [Users -> Site]
    BY <1>2, <1>7, <2>1 DEF Waits!Put
  <2> QED
    BY <2>2, <2>3 DEF WaitsTypes
<1>8. ASSUME NEW o \in Stores, items[o] > 0, Waits!Take(t, o)
      PROVE  items' \in [Stores -> Nat] /\ waitAt' \in [Users -> Site]
  <2>1. Waits!Moved(t, Waits!Idle) \in [Users -> Site]
    BY <1>0, <1>1
  <2>2. waitAt' \in [Users -> Site]
    BY <1>2, <1>8, <2>1 DEF Waits!Take
  <2>3. items' = [items EXCEPT ![o] = @ - 1]
    BY <1>8 DEF Waits!Take
  <2>4. items' \in [Stores -> Nat]
    BY <1>8, <2>3 DEF WaitsTypes
  <2> QED
    BY <2>2, <2>4
<1>9. ASSUME NEW o \in Stores, NEW w \in Sites, Waits!Sleep(t, w, o)
      PROVE  items' = items /\ waitAt' \in [Users -> Site]
  BY <1>0, <1>1, <1>9 DEF Waits!Sleep
<1>10. ASSUME NEW o \in Stores,
              Waits!Push(t, o) \/ Waits!PushAgain(t, o) \/ Waits!Pop(t, o) \/ Waits!TryPop(t, o)
       PROVE  WaitsTypes'
  <2>1. UNCHANGED <<waitKind, maxCap>>
    BY <1>10 DEF Waits!Push, Waits!PushAgain, Waits!Pop, Waits!TryPop
  <2>2. \/ Waits!Put(t, o) \/ (items[o] > 0 /\ Waits!Take(t, o))
        \/ Waits!Sleep(t, "waits to push", o) \/ Waits!Sleep(t, "waits to pop", o)
    BY <1>10 DEF Waits!Push, Waits!PushAgain, Waits!Pop, Waits!TryPop
  <2>3. "waits to push" \in Sites /\ "waits to pop" \in Sites
    BY DEF Sites
  <2>4. items' \in [Stores -> Nat] /\ waitAt' \in [Users -> Site]
    BY <1>7, <1>8, <1>9, <2>2, <2>3 DEF WaitsTypes
  <2> QED
    BY <2>1, <2>4 DEF WaitsTypes
<1>11. ASSUME NEW o \in Stores, Waits!Clear(t, o) PROVE WaitsTypes'
  <2>1. waitAt' \in [Users -> Site]
    BY <1>3, <1>11 DEF Waits!Clear, WaitsTypes
  <2> QED
    BY <1>11, <2>1 DEF Waits!Clear, WaitsTypes
<1>12. ASSUME NEW o \in Stores, NEW p \in Stores, Waits!Swap(t, o, p) PROVE WaitsTypes'
  <2>1. [what |-> "tells", on |-> {o, p}] \in Site
    BY DEF Sites
  <2>2. waitAt' \in [Users -> Site]
    BY <1>1, <1>12, <2>1 DEF Waits!Swap
  <2> QED
    BY <1>12, <2>2 DEF Waits!Swap, WaitsTypes
<1> QED
  BY <1>4, <1>5, <1>6, <1>10, <1>11, <1>12

(* Who sleeps at an object, and who is on the way there.                   *)
AtWaitsAre(o) ==
    /\ PopSleepers(o) = {s \in Users : waitAt[s].what = "waits to pop" /\ waitAt[s].on = {o}}
    /\ PopWays(o) = {s \in Users : waitAt[s].what = "pops again" /\ waitAt[s].on = {o}}
    /\ PushSleepers(o) = {s \in Users : /\ waitAt[s].what = "waits to push"
                                        /\ waitAt[s].on = {o} /\ Waits!Bounded(o)}
    /\ PushWays(o) = {s \in Users : waitAt[s].what = "pushes again" /\ waitAt[s].on = {o}}

LEMMA BeingAtWaits ==
    ASSUME WaitsTypes, NEW o, NEW w, NEW s \in Users
    PROVE  s \in Waits!Being(w, o) <=> waitAt[s].what = w /\ waitAt[s].on = {o}
<1>1. waitAt[s] = Waits!In(w, o) <=> waitAt[s].what = w /\ waitAt[s].on = {o}
  BY DEF WaitsTypes, Waits!In
<1> QED
  BY <1>1 DEF Waits!Being

LEMMA MembersOfWaits ==
    ASSUME WaitsTypes, WaitsTypes', NEW o
    PROVE  AtWaitsAre(o) /\ AtWaitsAre(o)'
<1>1. ASSUME NEW w, NEW s \in Users
      PROVE  waitAt[s] = Waits!In(w, o) <=> waitAt[s].what = w /\ waitAt[s].on = {o}
  BY DEF WaitsTypes, Waits!In
<1>2. ASSUME NEW w, NEW s \in Users
      PROVE  waitAt'[s] = Waits!In(w, o) <=> waitAt'[s].what = w /\ waitAt'[s].on = {o}
  BY DEF WaitsTypes, Waits!In
<1>3. AtWaitsAre(o)
  <2>1. PopSleepers(o) = {s \in Users : waitAt[s].what = "waits to pop" /\ waitAt[s].on = {o}}
    BY <1>1 DEF PopSleepers, Waits!Being
  <2>2. PopWays(o) = {s \in Users : waitAt[s].what = "pops again" /\ waitAt[s].on = {o}}
    BY <1>1 DEF PopWays, Waits!Being
  <2>3. PushWays(o) = {s \in Users : waitAt[s].what = "pushes again" /\ waitAt[s].on = {o}}
    BY <1>1 DEF PushWays, Waits!Being
  <2>4. PushSleepers(o) = {s \in Users : /\ waitAt[s].what = "waits to push"
                                        /\ waitAt[s].on = {o} /\ Waits!Bounded(o)}
    BY <1>1 DEF PushSleepers, Waits!Being
  <2> QED
    BY <2>1, <2>2, <2>3, <2>4 DEF AtWaitsAre
<1>4. AtWaitsAre(o)'
  <2>1. PopSleepers(o)' = {s \in Users : waitAt'[s].what = "waits to pop" /\ waitAt'[s].on = {o}}
    BY <1>2 DEF PopSleepers, Waits!Being
  <2>2. PopWays(o)' = {s \in Users : waitAt'[s].what = "pops again" /\ waitAt'[s].on = {o}}
    BY <1>2 DEF PopWays, Waits!Being
  <2>3. PushWays(o)' = {s \in Users : waitAt'[s].what = "pushes again" /\ waitAt'[s].on = {o}}
    BY <1>2 DEF PushWays, Waits!Being
  <2>4. PushSleepers(o)' = {s \in Users : /\ waitAt'[s].what = "waits to push"
                                        /\ waitAt'[s].on = {o} /\ Waits!Bounded(o)'}
    BY <1>2 DEF PushSleepers, Waits!Being
  <2> QED
    BY <2>1, <2>2, <2>3, <2>4 DEF AtWaitsAre
<1> QED
  BY <1>3, <1>4

(* notify_one at an object: who is told wakes up there, the caller goes    *)
(* where it goes, all others stay.                                         *)
LEMMA ToldAtWaits ==
    ASSUME WaitsTypes, NEW t \in Users, NEW o \in Stores,
           NEW w, ~(waitAt[t].what = w /\ waitAt[t].on = {o}),
           Waits!NotifyOne(w, o, Waits!Moved(t, Waits!Idle))
    PROVE  \E u \in Users :
              /\ u = t \/ (waitAt[u].what = w /\ waitAt[u].on = {o})
              /\ \A s \in Users \ {t, u} : waitAt'[s] = waitAt[s]
              /\ waitAt'[t].what = "idle" /\ waitAt'[t].on = {}
              /\ u # t => waitAt'[u].what = Waits!Woken(w) /\ waitAt'[u].on = {o}
              /\ u = t => \A s \in Users : waitAt[s].what = w => waitAt[s].on # {o}
<1> DEFINE moved == Waits!Moved(t, Waits!Idle)
<1>1. \A s \in Users : moved[s] = IF s = t THEN Waits!Idle ELSE waitAt[s]
  BY DEF Waits!Moved, WaitsTypes
<1>2. DOMAIN moved = Users
  BY DEF Waits!Moved, WaitsTypes
<1>3. \A s \in Users : s \in Waits!Being(w, o) <=> waitAt[s].what = w /\ waitAt[s].on = {o}
  BY BeingAtWaits
<1>4. Waits!Idle.what = "idle" /\ Waits!Idle.on = {}
  BY DEF Waits!Idle
<1>5. Waits!In(Waits!Woken(w), o).what = Waits!Woken(w) /\ Waits!In(Waits!Woken(w), o).on = {o}
  BY DEF Waits!In
<1>6. CASE Waits!Being(w, o) = {} /\ waitAt' = moved
  BY <1>1, <1>3, <1>4, <1>6
<1>7. CASE \E u \in Waits!Being(w, o) : waitAt' = [moved EXCEPT ![u] = Waits!In(Waits!Woken(w), o)]
  <2> HIDE DEF moved
  <2>1. PICK u \in Waits!Being(w, o) : waitAt' = [moved EXCEPT ![u] = Waits!In(Waits!Woken(w), o)]
    BY <1>7
  <2>2. u \in Users /\ u # t /\ waitAt[u].what = w /\ waitAt[u].on = {o}
    BY <1>3 DEF Waits!Being
  <2>3. \A s \in Users : waitAt'[s] = IF s = u THEN Waits!In(Waits!Woken(w), o) ELSE moved[s]
    BY <1>2, <2>1, <2>2
  <2>4. waitAt'[t].what = "idle" /\ waitAt'[t].on = {}
    BY <1>1, <1>4, <2>2, <2>3
  <2> QED
    BY <1>1, <1>5, <2>2, <2>3, <2>4
<1> QED
  BY <1>6, <1>7 DEF Waits!NotifyOne

(* Who comes to push and to pop, for the first time or after a sleep.      *)
ComesToPush(t, o) ==
    \/ waitAt[t].what = "idle" /\ waitAt[t].on = {}
    \/ waitAt[t].what = "pushes again" /\ waitAt[t].on = {o}
ComesToPop(t, o) ==
    \/ waitAt[t].what = "idle" /\ waitAt[t].on = {}
    \/ waitAt[t].what = "pops again" /\ waitAt[t].on = {o}

(* notify_one: whom a push wakes goes to pop, and the other way round.     *)
LEMMA PopperTold ==
    ASSUME WaitsTypes, WaitsTypes', NEW t \in Users, NEW o \in Stores, ComesToPush(t, o),
           Waits!NotifyOne("waits to pop", o, Waits!Moved(t, Waits!Idle)), maxCap' = maxCap
    PROVE  /\ PopSleepers(o)' \subseteq PopSleepers(o)
           /\ \/ PopSleepers(o)' = {}
              \/ PopWays(o) \subseteq PopWays(o)' /\ \E u \in PopWays(o)' : u \notin PopWays(o)
           /\ PushSleepers(o)' \subseteq PushSleepers(o)
           /\ PushWays(o) \ {t} \subseteq PushWays(o)'
           /\ waitAt'[t].on = {}
           /\ \A s \in Users \ {t} :
                waitAt'[s] = waitAt[s] \/ (waitAt[s].on = {o} /\ waitAt'[s].on = {o})
<1>1. ~(waitAt[t].what = "waits to pop" /\ waitAt[t].on = {o})
  BY DEF ComesToPush
<1> DEFINE Told(w, woken) == \E u \in Users :
        /\ u = t \/ (waitAt[u].what = w /\ waitAt[u].on = {o})
        /\ \A s \in Users \ {t, u} : waitAt'[s] = waitAt[s]
        /\ waitAt'[t].what = "idle" /\ waitAt'[t].on = {}
        /\ u # t => waitAt'[u].what = woken /\ waitAt'[u].on = {o}
        /\ u = t => \A s \in Users : waitAt[s].what = w => waitAt[s].on # {o}
<1>2. Told("waits to pop", Waits!Woken("waits to pop"))
  BY <1>1, ToldAtWaits
<1>3. Waits!Woken("waits to pop") = "pops again"
  BY DEF Waits!Woken
<1>4. PICK u \in Users :
        /\ u = t \/ (waitAt[u].what = "waits to pop" /\ waitAt[u].on = {o})
        /\ \A s \in Users \ {t, u} : waitAt'[s] = waitAt[s]
        /\ waitAt'[t].what = "idle" /\ waitAt'[t].on = {}
        /\ u # t => waitAt'[u].what = "pops again" /\ waitAt'[u].on = {o}
        /\ u = t => \A s \in Users : waitAt[s].what = "waits to pop" => waitAt[s].on # {o}
  BY <1>2, <1>3
<1>5. AtWaitsAre(o) /\ AtWaitsAre(o)'
  BY MembersOfWaits
<1>6. Waits!Bounded(o)' <=> Waits!Bounded(o)
  BY DEF Waits!Bounded
<1>7. PopSleepers(o)' \subseteq PopSleepers(o)
  BY <1>4, <1>5 DEF AtWaitsAre
<1>8. PushSleepers(o)' \subseteq PushSleepers(o) /\ PushWays(o) \ {t} \subseteq PushWays(o)'
  BY <1>4, <1>5, <1>6 DEF AtWaitsAre
<1>9. CASE u = t
  <2>1. ASSUME NEW s \in PopSleepers(o)' PROVE FALSE
    <3>1. s \in Users /\ waitAt'[s].what = "waits to pop" /\ waitAt'[s].on = {o}
      BY <1>5 DEF AtWaitsAre
    <3>2. waitAt'[s] = waitAt[s]
      BY <1>4, <1>9, <3>1
    <3> QED
      BY <1>4, <1>9, <3>1, <3>2
  <2> QED
    BY <1>4, <1>7, <1>8, <1>9, <2>1
<1>10. CASE u # t
  <2>1. u \in PopWays(o)' /\ u \notin PopWays(o)
    BY <1>4, <1>5, <1>10 DEF AtWaitsAre
  <2>2. PopWays(o) \subseteq PopWays(o)'
    BY <1>4, <1>5, <1>10 DEF AtWaitsAre, ComesToPush
  <2> QED
    BY <1>4, <1>7, <1>8, <1>10, <2>1, <2>2
<1> QED
  BY <1>9, <1>10

LEMMA PusherTold ==
    ASSUME WaitsTypes, WaitsTypes', NEW t \in Users, NEW o \in Stores, ComesToPop(t, o),
           Waits!NotifyOne("waits to push", o, Waits!Moved(t, Waits!Idle)), maxCap' = maxCap, Waits!Bounded(o)
    PROVE  /\ PushSleepers(o)' \subseteq PushSleepers(o)
           /\ \/ PushSleepers(o)' = {}
              \/ PushWays(o) \subseteq PushWays(o)' /\ \E u \in PushWays(o)' : u \notin PushWays(o)
           /\ PopSleepers(o)' \subseteq PopSleepers(o)
           /\ PopWays(o) \ {t} \subseteq PopWays(o)'
           /\ waitAt'[t].on = {}
           /\ \A s \in Users \ {t} :
                waitAt'[s] = waitAt[s] \/ (waitAt[s].on = {o} /\ waitAt'[s].on = {o})
<1>1. ~(waitAt[t].what = "waits to push" /\ waitAt[t].on = {o})
  BY DEF ComesToPop
<1> DEFINE Told(w, woken) == \E u \in Users :
        /\ u = t \/ (waitAt[u].what = w /\ waitAt[u].on = {o})
        /\ \A s \in Users \ {t, u} : waitAt'[s] = waitAt[s]
        /\ waitAt'[t].what = "idle" /\ waitAt'[t].on = {}
        /\ u # t => waitAt'[u].what = woken /\ waitAt'[u].on = {o}
        /\ u = t => \A s \in Users : waitAt[s].what = w => waitAt[s].on # {o}
<1>2. Told("waits to push", Waits!Woken("waits to push"))
  BY <1>1, ToldAtWaits
<1>3. Waits!Woken("waits to push") = "pushes again"
  BY DEF Waits!Woken
<1>4. PICK u \in Users :
        /\ u = t \/ (waitAt[u].what = "waits to push" /\ waitAt[u].on = {o})
        /\ \A s \in Users \ {t, u} : waitAt'[s] = waitAt[s]
        /\ waitAt'[t].what = "idle" /\ waitAt'[t].on = {}
        /\ u # t => waitAt'[u].what = "pushes again" /\ waitAt'[u].on = {o}
        /\ u = t => \A s \in Users : waitAt[s].what = "waits to push" => waitAt[s].on # {o}
  BY <1>2, <1>3
<1>5. AtWaitsAre(o) /\ AtWaitsAre(o)'
  BY MembersOfWaits
<1>6. Waits!Bounded(o)' <=> Waits!Bounded(o)
  BY DEF Waits!Bounded
<1>7. PushSleepers(o)' \subseteq PushSleepers(o)
  BY <1>4, <1>5 DEF AtWaitsAre
<1>8. PopSleepers(o)' \subseteq PopSleepers(o) /\ PopWays(o) \ {t} \subseteq PopWays(o)'
  BY <1>4, <1>5, <1>6 DEF AtWaitsAre
<1>9. CASE u = t
  <2>1. ASSUME NEW s \in PushSleepers(o)' PROVE FALSE
    <3>1. s \in Users /\ waitAt'[s].what = "waits to push" /\ waitAt'[s].on = {o}
      BY <1>5 DEF AtWaitsAre
    <3>2. waitAt'[s] = waitAt[s]
      BY <1>4, <1>9, <3>1
    <3> QED
      BY <1>4, <1>9, <3>1, <3>2
  <2> QED
    BY <1>4, <1>7, <1>8, <1>9, <2>1
<1>10. CASE u # t
  <2>1. u \in PushWays(o)' /\ u \notin PushWays(o)
    BY <1>4, <1>5, <1>10 DEF AtWaitsAre
  <2>2. PushWays(o) \subseteq PushWays(o)'
    BY <1>4, <1>5, <1>10 DEF AtWaitsAre, ComesToPop
  <2> QED
    BY <1>4, <1>7, <1>8, <1>10, <2>1, <2>2
<1> QED
  BY <1>9, <1>10

(* push, and its wait: the caller fills a place and tells one that waits   *)
(* for an element.                                                         *)
LEMMA PutKeeps ==
    ASSUME WaitsTypes, WaitsTypes', NEW t \in Users, NEW o \in Stores, ComesToPush(t, o),
           Waits!Put(t, o), maxCap' = maxCap
    PROVE  BothKept(o)
<1>1. items' = [items EXCEPT ![o] = @ + 1]
  BY DEF Waits!Put
<1>2. items[o] \in Int /\ items'[o] = items[o] + 1 /\ Places(o) \in Int
      /\ Places(o)' = Places(o) - 1
  <2>1. items[o] \in Nat /\ maxCap[o] \in Nat /\ items'[o] = items[o] + 1
    BY <1>1 DEF WaitsTypes
  <2> QED
    BY <2>1 DEF Places
<1>3. Waits!NotifyOne("waits to pop", o, Waits!Moved(t, Waits!Idle))
  BY DEF Waits!Put
<1>4. /\ PopSleepers(o)' \subseteq PopSleepers(o)
      /\ \/ PopSleepers(o)' = {}
         \/ PopWays(o) \subseteq PopWays(o)' /\ \E u \in PopWays(o)' : u \notin PopWays(o)
      /\ PushSleepers(o)' \subseteq PushSleepers(o)
      /\ PushWays(o) \ {t} \subseteq PushWays(o)'
  BY <1>3, PopperTold
<1>5. PopsKept(o)
  BY <1>2, <1>4 DEF PopsKept, Keeps
<1>6. CASE t \in PushWays(o)
  BY <1>2, <1>4, <1>5, <1>6 DEF PushesKept, BothKept, Keeps
<1>7. CASE t \notin PushWays(o)
  <2>1. PushWays(o) \subseteq PushWays(o)'
    BY <1>4, <1>7
  <2> QED
    BY <1>2, <1>4, <1>5, <2>1 DEF PushesKept, BothKept, Keeps
<1> QED
  BY <1>6, <1>7

(* The pops: the caller takes an element and tells one that waits for a    *)
(* place, unless there is no bound.                                        *)
LEMMA TakeKeeps ==
    ASSUME WaitsTypes, WaitsTypes', NEW t \in Users, NEW o \in Stores, ComesToPop(t, o),
           Waits!Take(t, o), maxCap' = maxCap
    PROVE  BothKept(o)
<1>1. items' = [items EXCEPT ![o] = @ - 1]
  BY DEF Waits!Take
<1>2. items[o] \in Int /\ items'[o] = items[o] - 1 /\ Places(o) \in Int
      /\ Places(o)' = Places(o) + 1
  BY <1>1 DEF WaitsTypes, Places
<1>3. AtWaitsAre(o) /\ AtWaitsAre(o)'
  BY MembersOfWaits
<1>4. /\ PushSleepers(o)' \subseteq PushSleepers(o)
      /\ \/ PushSleepers(o)' = {}
         \/ PushWays(o) \subseteq PushWays(o)' /\ \E u \in PushWays(o)' : u \notin PushWays(o)
      /\ PopSleepers(o)' \subseteq PopSleepers(o)
      /\ PopWays(o) \ {t} \subseteq PopWays(o)'
  <2>1. CASE Waits!Bounded(o) /\ Waits!NotifyOne("waits to push", o, Waits!Moved(t, Waits!Idle))
    BY <2>1, PusherTold
  <2>2. CASE ~Waits!Bounded(o) /\ waitAt' = Waits!Moved(t, Waits!Idle)
    <3>1. \A s \in Users : waitAt'[s] = IF s = t THEN Waits!Idle ELSE waitAt[s]
      BY <2>2 DEF Waits!Moved, WaitsTypes
    <3>2. Waits!Idle.what = "idle"
      BY DEF Waits!Idle
    <3>3. PushSleepers(o)' = {}
      BY <1>3, <2>2 DEF AtWaitsAre, Waits!Bounded
    <3>4. PopSleepers(o)' \subseteq PopSleepers(o) /\ PopWays(o) \ {t} \subseteq PopWays(o)'
      BY <1>3, <3>1, <3>2 DEF AtWaitsAre
    <3> QED
      BY <3>3, <3>4
  <2> QED
    BY <2>1, <2>2 DEF Waits!Take
<1>5. PushesKept(o)
  BY <1>2, <1>4 DEF PushesKept, Keeps
<1>6. CASE t \in PopWays(o)
  BY <1>2, <1>4, <1>5, <1>6 DEF PopsKept, BothKept, Keeps
<1>7. CASE t \notin PopWays(o)
  <2>1. PopWays(o) \subseteq PopWays(o)'
    BY <1>4, <1>7
  <2> QED
    BY <1>2, <1>4, <1>5, <2>1 DEF PopsKept, BothKept, Keeps
<1> QED
  BY <1>6, <1>7

SleepsToPop(t, o) == Waits!Sleep(t, "waits to pop", o)
SleepsToPush(t, o) == Waits!Sleep(t, "waits to push", o)

(* The waits: who falls asleep has found no element, or no place.          *)
LEMMA WaitsForAnElement ==
    ASSUME WaitsTypes, WaitsTypes', NEW t \in Users, NEW o \in Stores, ComesToPop(t, o),
           items[o] = 0, SleepsToPop(t, o), maxCap' = maxCap
    PROVE  BothKept(o)
<1>1. items' = items
  BY DEF SleepsToPop, Waits!Sleep
<1> DEFINE there == Waits!In("waits to pop", o)
<1>0. there.what = "waits to pop" /\ waitAt' = Waits!Moved(t, there)
  BY DEF SleepsToPop, Waits!Sleep, Waits!In
<1> HIDE DEF there
<1>2. PopsKept(o)
  BY <1>1 DEF PopsKept, Keeps
<1>3. Places(o)' = Places(o) /\ Places(o) \in Int
  BY <1>1 DEF Places, WaitsTypes
<1>4. \A s \in Users \ {t} : waitAt'[s] = waitAt[s]
  BY <1>0 DEF Waits!Moved, WaitsTypes
<1>5. waitAt'[t].what = "waits to pop"
  BY <1>0 DEF Waits!Moved, WaitsTypes
<1>6. AtWaitsAre(o) /\ AtWaitsAre(o)' /\ (Waits!Bounded(o)' <=> Waits!Bounded(o))
  BY MembersOfWaits DEF Waits!Bounded
<1>7. PushSleepers(o)' \subseteq PushSleepers(o) /\ PushWays(o) \subseteq PushWays(o)'
  BY <1>4, <1>5, <1>6 DEF AtWaitsAre, ComesToPop
<1> QED
  BY <1>2, <1>3, <1>7 DEF BothKept, PushesKept, Keeps

LEMMA WaitsForAPlace ==
    ASSUME WaitsTypes, WaitsTypes', NEW t \in Users, NEW o \in Stores, ComesToPush(t, o),
           items[o] >= maxCap[o], SleepsToPush(t, o), maxCap' = maxCap
    PROVE  BothKept(o)
<1>1. items' = items
  BY DEF SleepsToPush, Waits!Sleep
<1> DEFINE there == Waits!In("waits to push", o)
<1>0. there.what = "waits to push" /\ waitAt' = Waits!Moved(t, there)
  BY DEF SleepsToPush, Waits!Sleep, Waits!In
<1> HIDE DEF there
<1>2. PushesKept(o)
  BY <1>1 DEF PushesKept, Keeps, Places, WaitsTypes
<1>3. items'[o] = items[o] /\ items[o] \in Int
  BY <1>1 DEF WaitsTypes
<1>4. \A s \in Users \ {t} : waitAt'[s] = waitAt[s]
  BY <1>0 DEF Waits!Moved, WaitsTypes
<1>5. waitAt'[t].what = "waits to push"
  BY <1>0 DEF Waits!Moved, WaitsTypes
<1>6. AtWaitsAre(o) /\ AtWaitsAre(o)'
  BY MembersOfWaits
<1>7. PopSleepers(o)' \subseteq PopSleepers(o) /\ PopWays(o) \subseteq PopWays(o)'
  BY <1>4, <1>5, <1>6 DEF AtWaitsAre, ComesToPush
<1> QED
  BY <1>2, <1>3, <1>7 DEF BothKept, PopsKept, Keeps

(* An object nobody acts upon keeps what it had.                           *)
LEMMA OthersAtWaits ==
    ASSUME WaitsTypes, WaitsTypes', NEW q \in Stores,
           items'[q] = items[q], maxCap'[q] = maxCap[q],
           \A s \in Users : waitAt'[s] = waitAt[s]
                \/ (waitAt[s].on # {q} /\ waitAt'[s].on # {q})
    PROVE  BothKept(q)
<1>1. AtWaitsAre(q) /\ AtWaitsAre(q)'
  BY MembersOfWaits
<1>2. Waits!Bounded(q)' <=> Waits!Bounded(q)
  BY DEF Waits!Bounded
<1>3. /\ PopSleepers(q)' = PopSleepers(q) /\ PopWays(q)' = PopWays(q)
      /\ PushSleepers(q)' = PushSleepers(q) /\ PushWays(q)' = PushWays(q)
  <2> SUFFICES ASSUME NEW s \in Users
               PROVE  /\ s \in PopSleepers(q)' <=> s \in PopSleepers(q)
                      /\ s \in PopWays(q)' <=> s \in PopWays(q)
                      /\ s \in PushSleepers(q)' <=> s \in PushSleepers(q)
                      /\ s \in PushWays(q)' <=> s \in PushWays(q)
    BY <1>1 DEF AtWaitsAre
  <2>1. CASE waitAt'[s] = waitAt[s]
    BY <1>1, <1>2, <2>1 DEF AtWaitsAre
  <2>2. CASE waitAt[s].on # {q} /\ waitAt'[s].on # {q}
    BY <1>1, <2>2 DEF AtWaitsAre
  <2> QED
    BY <2>1, <2>2
<1>4. items[q] \in Int /\ Places(q) \in Int /\ Places(q)' = Places(q)
  BY DEF WaitsTypes, Places
<1> QED
  BY <1>3, <1>4 DEF BothKept, PopsKept, PushesKept, Keeps

(* What a call does at its object.                                         *)
LEMMA CallsAtWaits ==
    ASSUME WaitsTypes, NEW t \in Users, NEW o \in Stores,
           Waits!Push(t, o) \/ Waits!PushAgain(t, o) \/ Waits!Pop(t, o) \/ Waits!TryPop(t, o)
    PROVE  \/ /\ ComesToPush(t, o)
              /\ Waits!Put(t, o) \/ (items[o] >= maxCap[o] /\ SleepsToPush(t, o))
           \/ /\ ComesToPop(t, o)
              /\ Waits!Take(t, o) \/ (items[o] = 0 /\ SleepsToPop(t, o))
<1>1. waitAt[t] = Waits!Idle => ComesToPush(t, o) /\ ComesToPop(t, o)
  BY DEF Waits!Idle, ComesToPush, ComesToPop
<1>2. ASSUME NEW w, waitAt[t] = Waits!In(w, o) PROVE waitAt[t].what = w /\ waitAt[t].on = {o}
  BY <1>2 DEF Waits!In
<1>4. CASE Waits!Push(t, o)
  BY <1>1, <1>4 DEF Waits!Push, SleepsToPush
<1>5. CASE Waits!PushAgain(t, o)
  BY <1>2, <1>5 DEF Waits!PushAgain, SleepsToPush, ComesToPush
<1>6. CASE Waits!Pop(t, o)
  BY <1>1, <1>2, <1>6 DEF Waits!Pop, SleepsToPop, ComesToPop
<1>7. CASE Waits!TryPop(t, o)
  BY <1>1, <1>7 DEF Waits!TryPop
<1> QED
  BY <1>4, <1>5, <1>6, <1>7

(* A step at an object keeps it covered; no other one is touched.          *)
LEMMA CallAtWaitsKeeps ==
    ASSUME WaitsTypes, WaitsTypes', NEW t \in Users, NEW o \in Stores,
           Waits!Push(t, o) \/ Waits!PushAgain(t, o) \/ Waits!Pop(t, o) \/ Waits!TryPop(t, o),
           NEW q \in Stores
    PROVE  BothKept(q)
<1>1. maxCap' = maxCap
  BY DEF Waits!Push, Waits!PushAgain, Waits!Pop, Waits!TryPop
<1>2. \/ /\ ComesToPush(t, o)
         /\ Waits!Put(t, o) \/ (items[o] >= maxCap[o] /\ SleepsToPush(t, o))
      \/ /\ ComesToPop(t, o)
         /\ Waits!Take(t, o) \/ (items[o] = 0 /\ SleepsToPop(t, o))
  BY CallsAtWaits
<1>3. CASE q = o
  BY <1>1, <1>2, <1>3, PutKeeps, TakeKeeps, WaitsForAPlace, WaitsForAnElement
<1>4. CASE q # o
  <2>1. items'[q] = items[q]
    BY <1>2, <1>4 DEF Waits!Put, Waits!Take, Waits!Sleep, SleepsToPop, SleepsToPush, WaitsTypes
  <2>2. waitAt[t].on # {q}
    BY <1>2, <1>4 DEF ComesToPush, ComesToPop
  <2>4. {o} # {q} /\ {} # {q}
    BY <1>4
  <2>3. \A s \in Users : waitAt'[s] = waitAt[s]
            \/ (waitAt[s].on # {q} /\ waitAt'[s].on # {q})
    <3>1. CASE Waits!Put(t, o) /\ ComesToPush(t, o)
      <4>1. Waits!NotifyOne("waits to pop", o, Waits!Moved(t, Waits!Idle))
        BY <3>1 DEF Waits!Put
      <4>2. waitAt'[t].on = {} /\ \A s \in Users \ {t} :
                waitAt'[s] = waitAt[s] \/ (waitAt[s].on = {o} /\ waitAt'[s].on = {o})
        BY <1>1, <3>1, <4>1, PopperTold
      <4> QED
        BY <2>2, <2>4, <4>2
    <3>2. CASE Waits!Take(t, o) /\ ComesToPop(t, o)
      <4>1. CASE Waits!Bounded(o) /\ Waits!NotifyOne("waits to push", o, Waits!Moved(t, Waits!Idle))
        <5>1. waitAt'[t].on = {} /\ \A s \in Users \ {t} :
                  waitAt'[s] = waitAt[s] \/ (waitAt[s].on = {o} /\ waitAt'[s].on = {o})
          BY <1>1, <3>2, <4>1, PusherTold
        <5> QED
          BY <2>2, <2>4, <5>1
      <4>2. CASE waitAt' = Waits!Moved(t, Waits!Idle)
        BY <2>2, <4>2 DEF Waits!Moved, Waits!Idle, WaitsTypes
      <4> QED
        BY <3>2, <4>1, <4>2 DEF Waits!Take
    <3>3. CASE SleepsToPush(t, o)
      BY <1>4, <2>2, <3>3 DEF SleepsToPush, Waits!Sleep, Waits!Moved, Waits!In, WaitsTypes
    <3>4. CASE SleepsToPop(t, o)
      BY <1>4, <2>2, <3>4 DEF SleepsToPop, Waits!Sleep, Waits!Moved, Waits!In, WaitsTypes
    <3> QED
      BY <1>2, <3>1, <3>2, <3>3, <3>4
  <2> QED
    BY <1>1, <2>1, <2>3, OthersAtWaits
<1> QED
  BY <1>3, <1>4

(* notify_all: who sleeps there is woken, the others do as they do.        *)
LEMMA AllToldAtWaits ==
    ASSUME WaitsTypes, NEW moved, NEW W, NEW O, Waits!NotifyAll(W, O, moved), NEW s \in Users
    PROVE  \/ /\ waitAt'[s] = moved[s]
              /\ \A w \in W, o \in O : ~(waitAt[s].what = w /\ waitAt[s].on = {o})
           \/ /\ waitAt'[s].what = Waits!Woken(waitAt[s].what) /\ waitAt'[s].on = waitAt[s].on
              /\ \E w \in W, o \in O : waitAt[s].what = w /\ waitAt[s].on = {o}
<1>1. CASE \E w \in W, o \in O : s \in Waits!Being(w, o)
  <2>1. waitAt'[s] = [what |-> Waits!Woken(waitAt[s].what), on |-> waitAt[s].on]
    BY <1>1 DEF Waits!NotifyAll
  <2>2. waitAt'[s].what = Waits!Woken(waitAt[s].what) /\ waitAt'[s].on = waitAt[s].on
    BY <2>1
  <2> QED
    BY <1>1, <2>2, BeingAtWaits
<1>2. CASE ~ \E w \in W, o \in O : s \in Waits!Being(w, o)
  <2>1. waitAt'[s] = moved[s]
    BY <1>2 DEF Waits!NotifyAll
  <2> QED
    BY <1>2, <2>1, BeingAtWaits
<1> QED
  BY <1>1, <1>2

(* So nobody sleeps there any more.                                        *)
LEMMA NobodyAsleepAtWaits ==
    ASSUME WaitsTypes, NEW moved, NEW W, NEW O, Waits!NotifyAll(W, O, moved),
           NEW o \in O, NEW w \in W, \A v : Waits!Woken(v) # w,
           \A s \in Users : moved[s].on = {o} => moved[s] = waitAt[s]
    PROVE  \A s \in Users : ~(waitAt'[s].what = w /\ waitAt'[s].on = {o})
<1> SUFFICES ASSUME NEW s \in Users, waitAt'[s].what = w, waitAt'[s].on = {o} PROVE FALSE
  OBVIOUS
<1> QED
  BY AllToldAtWaits

LEMMA ClearKeeps ==
    ASSUME WaitsTypes, WaitsTypes', NEW t \in Users, NEW o \in Stores, Waits!Clear(t, o),
           NEW q \in Stores
    PROVE  BothKept(q)
<1> DEFINE W == {IF waitKind = "queue" THEN "waits to pop" ELSE "waits to push"}
<1>1. maxCap' = maxCap /\ Waits!NotifyAll(W, {o}, waitAt) /\ items' = [items EXCEPT ![o] = 0]
  BY DEF Waits!Clear
<1>2. CASE q = o
  <2>1. items'[q] = 0
    BY <1>1, <1>2 DEF WaitsTypes
  <2>2. PopsKept(q)
    BY <2>1 DEF PopsKept, Keeps
  <2>3. PushSleepers(q)' = {}
    <3>1. CASE waitKind = "queue"
      BY <1>1, <3>1 DEF PushSleepers, Waits!Bounded, WaitsTypes
    <3>2. CASE waitKind # "queue"
      <4>1. \A s \in Users : ~(waitAt'[s].what = "waits to push" /\ waitAt'[s].on = {o})
        <5>1. \A v : Waits!Woken(v) # "waits to push"
          BY DEF Waits!Woken
        <5> QED
          BY <1>1, <3>2, <5>1, NobodyAsleepAtWaits
      <4>2. AtWaitsAre(o)'
        BY MembersOfWaits
      <4> QED
        BY <1>2, <4>1, <4>2 DEF AtWaitsAre
    <3> QED
      BY <3>1, <3>2
  <2> QED
    BY <2>2, <2>3 DEF BothKept, PushesKept, Keeps
<1>3. CASE q # o
  <2>1. \A s \in Users : waitAt'[s] = waitAt[s] \/ (waitAt[s].on = {o} /\ waitAt'[s].on = {o})
    <3> SUFFICES ASSUME NEW s \in Users, waitAt'[s] # waitAt[s]
                 PROVE  waitAt[s].on = {o} /\ waitAt'[s].on = {o}
      OBVIOUS
    <3> HIDE DEF W
    <3>1. \/ waitAt'[s] = waitAt[s]
          \/ /\ waitAt'[s].on = waitAt[s].on
             /\ \E w \in W, p \in {o} : waitAt[s].what = w /\ waitAt[s].on = {p}
      BY <1>1, AllToldAtWaits
    <3> QED
      BY <3>1
  <2>2. items'[q] = items[q]
    BY <1>1, <1>3 DEF WaitsTypes
  <2> QED
    BY <1>1, <1>3, <2>1, <2>2, OthersAtWaits
<1> QED
  BY <1>2, <1>3

LEMMA SpuriousAtWaitsKeeps ==
    ASSUME WaitsTypes, WaitsTypes', NEW t \in Users, Waits!Spurious(t), NEW q \in Stores
    PROVE  BothKept(q)
<1>1. items' = items /\ maxCap' = maxCap
  BY DEF Waits!Spurious
<1>2. /\ \A s \in Users \ {t} : waitAt'[s] = waitAt[s]
      /\ waitAt[t].what = "waits to pop" \/ waitAt[t].what = "waits to push"
      /\ waitAt'[t].what = "pops again" \/ waitAt'[t].what = "pushes again"
  BY DEF Waits!Spurious, Waits!Woken, WaitsTypes
<1>3. AtWaitsAre(q) /\ AtWaitsAre(q)' /\ (Waits!Bounded(q)' <=> Waits!Bounded(q))
  BY <1>1, MembersOfWaits DEF Waits!Bounded
<1>4. /\ PopSleepers(q)' \subseteq PopSleepers(q) /\ PopWays(q) \subseteq PopWays(q)'
      /\ PushSleepers(q)' \subseteq PushSleepers(q) /\ PushWays(q) \subseteq PushWays(q)'
  BY <1>2, <1>3 DEF AtWaitsAre
<1>5. items[q] \in Int /\ Places(q) \in Int /\ Places(q)' = Places(q)
  BY <1>1 DEF WaitsTypes, Places
<1> QED
  BY <1>1, <1>4, <1>5 DEF BothKept, PopsKept, PushesKept, Keeps

(* swap: of the two objects the caller has yet to tell.                    *)
LEMMA SwapKeeps ==
    ASSUME WaitsTypes, WaitsTypes', NEW t \in Users, NEW o \in Stores, NEW p \in Stores,
           Waits!Swap(t, o, p), NEW q \in Stores, ~Waits!Telling(q)'
    PROVE  ~Waits!Telling(q) /\ BothKept(q)
<1>1. /\ \A s \in Users \ {t} : waitAt'[s] = waitAt[s]
      /\ waitAt'[t].what = "tells" /\ waitAt'[t].on = {o, p}
      /\ waitAt[t].what = "idle" /\ waitAt[t].on = {}
  BY DEF Waits!Swap, Waits!Moved, Waits!Idle, WaitsTypes
<1>2. q # o /\ q # p
  BY <1>1 DEF Waits!Telling
<1>3. items'[q] = items[q] /\ maxCap'[q] = maxCap[q]
  BY <1>2 DEF Waits!Swap, WaitsTypes
<1>4. waitAt[t].on # {q} /\ waitAt'[t].on # {q}
  BY <1>1, <1>2
<1>5. BothKept(q)
  BY <1>1, <1>3, <1>4, OthersAtWaits
<1>6. ~Waits!Telling(q)
  BY <1>1 DEF Waits!Telling
<1> QED
  BY <1>5, <1>6

(* The notifications of a swap: nobody sleeps at either object any more.   *)
LEMMA TellKeeps ==
    ASSUME WaitsTypes, WaitsTypes', NEW t \in Users, Waits!Tell(t), NEW q \in Stores,
           ~Waits!Telling(q)'
    PROVE  \/ ~Waits!Telling(q) /\ BothKept(q)
           \/ PopSleepers(q)' = {} /\ PushSleepers(q)' = {}
<1> DEFINE W == {"waits to pop", "waits to push"}
           O == waitAt[t].on
           moved == Waits!Moved(t, Waits!Idle)
<1>1. Waits!NotifyAll(W, O, moved) /\ items' = items /\ maxCap' = maxCap
  BY DEF Waits!Tell
<1>2. /\ \A s \in Users \ {t} : moved[s] = waitAt[s]
      /\ moved[t].what = "idle" /\ moved[t].on = {} /\ waitAt[t].what = "tells"
  BY DEF Waits!Moved, Waits!Idle, Waits!Tell, WaitsTypes
<1>3. "waits to pop" \in W /\ "waits to push" \in W
  OBVIOUS
<1>4. \A s \in Users : moved[s].on # {} => moved[s] = waitAt[s]
  BY <1>2
<1>5. CASE q \in O
  <2>1. /\ \A v : Waits!Woken(v) # "waits to push"
        /\ \A v : Waits!Woken(v) # "waits to pop"
    BY DEF Waits!Woken
  <2>2. \A s \in Users : moved[s].on = {q} => moved[s] = waitAt[s]
    BY <1>4
  <2> HIDE DEF W, O, moved
  <2>3. ASSUME NEW w \in W, \A v : Waits!Woken(v) # w
        PROVE  \A s \in Users : ~(waitAt'[s].what = w /\ waitAt'[s].on = {q})
    BY <1>1, <1>5, <2>2, <2>3, NobodyAsleepAtWaits
  <2>4. /\ \A s \in Users : ~(waitAt'[s].what = "waits to push" /\ waitAt'[s].on = {q})
        /\ \A s \in Users : ~(waitAt'[s].what = "waits to pop" /\ waitAt'[s].on = {q})
    BY <1>3, <2>1, <2>3
  <2>5. AtWaitsAre(q)'
    BY MembersOfWaits
  <2> QED
    BY <2>4, <2>5 DEF AtWaitsAre
<1>6. CASE q \notin O
  <2>1. ASSUME NEW s \in Users, s # t
        PROVE  waitAt'[s] = waitAt[s] \/ (waitAt[s].on # {q} /\ waitAt'[s].on # {q})
    <3> HIDE DEF W, O, moved
    <3>1. \/ waitAt'[s] = moved[s]
          \/ waitAt'[s].on = waitAt[s].on /\ \E w \in W, p \in O : waitAt[s].on = {p}
      BY <1>1, AllToldAtWaits
    <3> QED
      BY <1>2, <1>6, <2>1, <3>1
  <2>2. waitAt'[t].what = "idle" /\ waitAt'[t].on = {}
    <3>1. ~ \E w \in W, p \in O : waitAt[t].what = w /\ waitAt[t].on = {p}
      BY <1>2
    <3> HIDE DEF W, O, moved
    <3>2. waitAt'[t] = moved[t]
      BY <1>1, <3>1, AllToldAtWaits
    <3> QED
      BY <1>2, <3>2
  <2>3. waitAt[t].on # {q}
    BY <1>6
  <2>4. BothKept(q)
    BY <1>1, <2>1, <2>2, <2>3, OthersAtWaits
  <2>5. ~Waits!Telling(q)
    <3> SUFFICES ASSUME NEW s \in Users, waitAt[s].what = "tells", q \in waitAt[s].on PROVE FALSE
      BY DEF Waits!Telling
    <3>1. s # t
      BY <1>6
    <3>2. waitAt'[s] = waitAt[s]
      <4>1. ~ \E w \in W, p \in O : waitAt[s].what = w /\ waitAt[s].on = {p}
        OBVIOUS
      <4> HIDE DEF W, O, moved
      <4>2. waitAt'[s] = moved[s]
        BY <1>1, <4>1, AllToldAtWaits
      <4> QED
        BY <1>2, <3>1, <4>2
    <3> QED
      BY <3>2 DEF Waits!Telling
  <2> QED
    BY <2>4, <2>5
<1> QED
  BY <1>5, <1>6

(* Whoever tells at another object than this one, it stays so.             *)
LEMMA TellingStays ==
    ASSUME WaitsTypes, NEW t \in Users, NEW o \in Stores, NEW q \in Stores,
           \/ Waits!Push(t, o) \/ Waits!PushAgain(t, o) \/ Waits!Pop(t, o) \/ Waits!TryPop(t, o)
           \/ Waits!Clear(t, o) \/ Waits!Spurious(t)
    PROVE  Waits!Telling(q) => Waits!Telling(q)'
<1> SUFFICES ASSUME NEW s \in Users, waitAt[s].what = "tells", q \in waitAt[s].on
             PROVE  waitAt'[s] = waitAt[s]
  BY DEF Waits!Telling
<1>1. ASSUME NEW w, w # "tells", ~(waitAt[t].what = w /\ waitAt[t].on = {o}), s # t,
             Waits!NotifyOne(w, o, Waits!Moved(t, Waits!Idle))
      PROVE  waitAt'[s] = waitAt[s]
  BY <1>1, ToldAtWaits
<1>2. ASSUME NEW x, s # t, waitAt' = Waits!Moved(t, x) PROVE waitAt'[s] = waitAt[s]
  BY <1>2 DEF Waits!Moved, WaitsTypes
<1>3. CASE \/ Waits!Push(t, o) \/ Waits!PushAgain(t, o) \/ Waits!Pop(t, o) \/ Waits!TryPop(t, o)
  <2>1. \/ /\ ComesToPush(t, o)
           /\ Waits!Put(t, o) \/ SleepsToPush(t, o)
        \/ /\ ComesToPop(t, o)
           /\ Waits!Take(t, o) \/ SleepsToPop(t, o)
    BY <1>3, CallsAtWaits
  <2>2. s # t
    BY <2>1 DEF ComesToPush, ComesToPop
  <2>3. CASE ComesToPush(t, o) /\ Waits!Put(t, o)
    <3>1. Waits!NotifyOne("waits to pop", o, Waits!Moved(t, Waits!Idle))
      BY <2>3 DEF Waits!Put
    <3>2. ~(waitAt[t].what = "waits to pop" /\ waitAt[t].on = {o})
      BY <2>3 DEF ComesToPush
    <3> QED
      BY <1>1, <2>2, <3>1, <3>2
  <2>4. CASE ComesToPop(t, o) /\ Waits!Take(t, o)
    <3>1. \/ Waits!NotifyOne("waits to push", o, Waits!Moved(t, Waits!Idle))
          \/ waitAt' = Waits!Moved(t, Waits!Idle)
      BY <2>4 DEF Waits!Take
    <3>2. ~(waitAt[t].what = "waits to push" /\ waitAt[t].on = {o})
      BY <2>4 DEF ComesToPop
    <3> QED
      BY <1>1, <1>2, <2>2, <3>1, <3>2
  <2>5. CASE SleepsToPush(t, o) \/ SleepsToPop(t, o)
    BY <1>2, <2>2, <2>5 DEF SleepsToPush, SleepsToPop, Waits!Sleep
  <2> QED
    BY <2>1, <2>3, <2>4, <2>5
<1>4. CASE Waits!Clear(t, o)
  <2> DEFINE W == {IF waitKind = "queue" THEN "waits to pop" ELSE "waits to push"}
  <2>1. Waits!NotifyAll(W, {o}, waitAt)
    BY <1>4 DEF Waits!Clear
  <2>2. \A w \in W : waitAt[s].what # w
    OBVIOUS
  <2> HIDE DEF W
  <2> QED
    BY <2>1, <2>2, AllToldAtWaits
<1>5. CASE Waits!Spurious(t)
  BY <1>5 DEF Waits!Spurious, WaitsTypes
<1> QED
  BY <1>3, <1>4, <1>5

(* The invariant of the stack and the queues.                              *)
LEMMA WaitsInvStep == WaitsInv /\ [Waits!Next]_waits => WaitsInv'
<1> SUFFICES ASSUME WaitsInv, [Waits!Next]_waits PROVE WaitsInv'
  OBVIOUS
<1>1. CASE UNCHANGED waits
  BY <1>1 DEF waits, WaitsInv, WaitsTypes, WaitsFacts, PopSleepers, PopWays, PushSleepers,
              PushWays, Places, Waits!Being, Waits!Bounded, Waits!Telling
<1>2. CASE Waits!Next
  <2>1. WaitsTypes /\ WaitsTypes'
    BY <1>2, WaitsTyped DEF WaitsInv
  <2> SUFFICES ASSUME NEW q \in Stores, ~Waits!Telling(q)'
               PROVE  /\ Covered(PopSleepers(q)', items'[q], PopWays(q)')
                      /\ Covered(PushSleepers(q)', Places(q)', PushWays(q)')
    BY <2>1 DEF WaitsInv, WaitsFacts
  <2>2. \/ ~Waits!Telling(q) /\ BothKept(q)
        \/ PopSleepers(q)' = {} /\ PushSleepers(q)' = {}
    <3>1. PICK t \in Users :
            \/ Waits!Spurious(t) \/ Waits!Tell(t)
            \/ \E o \in Stores :
                \/ Waits!Push(t, o) \/ Waits!PushAgain(t, o) \/ Waits!Pop(t, o)
                \/ Waits!TryPop(t, o) \/ Waits!Clear(t, o)
                \/ \E p \in Stores : Waits!Swap(t, o, p)
      BY <1>2 DEF Waits!Next
    <3>2. CASE Waits!Spurious(t)
      BY <2>1, <3>2, SpuriousAtWaitsKeeps, TellingStays
    <3>3. CASE Waits!Tell(t)
      BY <2>1, <3>3, TellKeeps
    <3>4. ASSUME NEW o \in Stores,
                 \/ Waits!Push(t, o) \/ Waits!PushAgain(t, o)
                 \/ Waits!Pop(t, o) \/ Waits!TryPop(t, o)
          PROVE  ~Waits!Telling(q) /\ BothKept(q)
      BY <2>1, <3>4, CallAtWaitsKeeps, TellingStays
    <3>5. ASSUME NEW o \in Stores, Waits!Clear(t, o) PROVE ~Waits!Telling(q) /\ BothKept(q)
      BY <2>1, <3>5, ClearKeeps, TellingStays
    <3>6. ASSUME NEW o \in Stores, NEW p \in Stores, Waits!Swap(t, o, p)
          PROVE  ~Waits!Telling(q) /\ BothKept(q)
      BY <2>1, <3>6, SwapKeeps
    <3> QED
      BY <3>1, <3>2, <3>3, <3>4, <3>5, <3>6
  <2>3. CASE PopSleepers(q)' = {} /\ PushSleepers(q)' = {}
    BY <2>3 DEF Covered
  <2>4. CASE ~Waits!Telling(q) /\ BothKept(q)
    <3>1. /\ Covered(PopSleepers(q), items[q], PopWays(q))
          /\ Covered(PushSleepers(q), Places(q), PushWays(q))
      BY <2>4 DEF WaitsInv, WaitsFacts
    <3>2. items[q] \in Int /\ items'[q] \in Int /\ Places(q) \in Int /\ Places(q)' \in Int
      BY <2>1 DEF WaitsTypes, Places
    <3>3. /\ IsFiniteSet(PopWays(q)) /\ IsFiniteSet(PopWays(q)')
          /\ IsFiniteSet(PushWays(q)) /\ IsFiniteSet(PushWays(q)')
      BY WaitersAreFinite
    <3>4. PopsKept(q) /\ PushesKept(q)
      BY <2>4 DEF BothKept
    <3>5. Covered(PopSleepers(q)', items'[q], PopWays(q)')
      BY <3>1, <3>2, <3>3, <3>4, KeepsCovered DEF PopsKept
    <3>6. Covered(PushSleepers(q)', Places(q)', PushWays(q)')
      BY <3>1, <3>2, <3>3, <3>4, KeepsCovered DEF PushesKept
    <3> QED
      BY <3>5, <3>6
  <2> QED
    BY <2>2, <2>3, <2>4
<1> QED
  BY <1>1, <1>2

LEMMA WaitsInvHolds == Waits!Init => WaitsInv
<1> SUFFICES ASSUME Waits!Init PROVE WaitsInv
  OBVIOUS
<1>1. WaitsTypes
  <2>1. items \in [Stores -> Nat]
    BY DEF Waits!Init
  <2>2. maxCap \in [Stores -> Nat] /\ (waitKind = "queue" => \A o \in Stores : maxCap[o] = 0)
    <3>1. CASE waitKind = "queue"
      BY <3>1 DEF Waits!Init
    <3>2. CASE waitKind # "queue"
      BY <3>2 DEF Waits!Init, WaitingAssumption
    <3> QED
      BY <3>1, <3>2
  <2>3. waitAt \in [Users -> [what : Sites, on : SUBSET Stores]]
    BY DEF Waits!Init, Waits!Idle, Sites
  <2> QED
    BY <2>1, <2>2, <2>3 DEF WaitsTypes
<1>2. \A o \in Stores : PopSleepers(o) = {} /\ PushSleepers(o) = {}
  BY DEF Waits!Init, PopSleepers, PushSleepers, Waits!Being, Waits!Idle, Waits!In
<1> QED
  BY <1>1, <1>2 DEF WaitsInv, WaitsFacts, Covered

LEMMA WaitsInvShows == WaitsInv => Waits!NobodySleepsThrough
<1> DEFINE Shown(o) ==
            /\ Waits!Being("waits to pop", o) # {}
                => items[o] <= Cardinality(Waits!Being("pops again", o))
            /\ Waits!Being("waits to push", o) # {} /\ Waits!Bounded(o)
                => maxCap[o] <= items[o] + Cardinality(Waits!Being("pushes again", o))
<1>0. (\A o \in Stores : ~Waits!Telling(o) => Shown(o)) => Waits!NobodySleepsThrough
  BY SameCardinality DEF Waits!NobodySleepsThrough
<1> SUFFICES ASSUME WaitsInv, NEW o \in Stores, ~Waits!Telling(o) PROVE Shown(o)
  <2> HIDE DEF Shown
  <2> QED
    BY <1>0
<1>1. /\ Covered(PopSleepers(o), items[o], PopWays(o))
      /\ Covered(PushSleepers(o), Places(o), PushWays(o))
  BY DEF WaitsInv, WaitsFacts
<1>2. Cardinality(PopWays(o)) \in Nat /\ Cardinality(PushWays(o)) \in Nat
  BY WaitersAreFinite, FS_CardinalityType
<1>3. items[o] \in Nat /\ maxCap[o] \in Nat
  BY DEF WaitsInv, WaitsTypes
<1>4. PopSleepers(o) # {} => items[o] <= Cardinality(PopWays(o))
  BY <1>1 DEF Covered
<1>5. PushSleepers(o) # {} => maxCap[o] <= items[o] + Cardinality(PushWays(o))
  BY <1>1, <1>2, <1>3 DEF Covered, Places
<1> QED
  BY <1>4, <1>5 DEF PopSleepers, PopWays, PushSleepers, PushWays

-----------------------------------------------------------------------------
(* The queue that can be closed.                                           *)
ClientPlaces ==
    {"idle", "pushes", "pops", "sleeps to push", "sleeps to pop", "tells one to pop",
     "tells one to push", "tells all"}
ClosableTypes ==
    /\ length \in 0 .. Bound
    /\ closableAt \in [Clients -> ClientPlaces]

Consumers == Closable!Being("sleeps to pop")
ItemWays == Closable!Being("pops") \cup Closable!Being("tells one to pop")
Producers == Closable!Being("sleeps to push")
RoomWays == Closable!Being("pushes") \cup Closable!Being("tells one to push")
Tellers == Closable!Being("tells all")
Room == Bound - length

ClosableFacts == Tellers = {} =>
    /\ tasksClosed => Consumers = {} /\ Producers = {}
    /\ Covered(Consumers, length, ItemWays)
    /\ cleared \/ Covered(Producers, Room, RoomWays)
ClosableInv == ClosableTypes /\ ClosableFacts

ItemsKept == Keeps(Consumers, length, ItemWays, Consumers', length', ItemWays')
RoomKept == Keeps(Producers, Room, RoomWays, Producers', Room', RoomWays')
QueueKept ==
    /\ Consumers' \subseteq Consumers \/ ~tasksClosed
    /\ Producers' \subseteq Producers \/ ~tasksClosed
    /\ tasksClosed' = tasksClosed
    /\ Tellers' = {} => Tellers = {}
    /\ cleared' \/ (~cleared /\ RoomKept)

LEMMA ClientsAreFinite ==
    /\ IsFiniteSet(ItemWays) /\ IsFiniteSet(ItemWays')
    /\ IsFiniteSet(RoomWays) /\ IsFiniteSet(RoomWays')
<1>1. /\ ItemWays \subseteq Clients /\ ItemWays' \subseteq Clients
      /\ RoomWays \subseteq Clients /\ RoomWays' \subseteq Clients
  BY DEF ItemWays, RoomWays, Closable!Being
<1> QED
  BY <1>1, FS_Subset DEF WaitingAssumption

LEMMA MovedAtClosable ==
    ASSUME ClosableTypes, NEW t \in Clients, NEW to, Closable!Goes(t, to)
    PROVE  closableAt'[t] = to /\ \A s \in Clients \ {t} : closableAt'[s] = closableAt[s]
  BY DEF Closable!Goes, ClosableTypes

(* Who sleeps, and who is on the way.                                      *)
AtClosableAre ==
    /\ Consumers = {s \in Clients : closableAt[s] = "sleeps to pop"}
    /\ ItemWays = {s \in Clients : closableAt[s] = "pops" \/ closableAt[s] = "tells one to pop"}
    /\ Producers = {s \in Clients : closableAt[s] = "sleeps to push"}
    /\ RoomWays = {s \in Clients : closableAt[s] = "pushes" \/ closableAt[s] = "tells one to push"}
    /\ Tellers = {s \in Clients : closableAt[s] = "tells all"}
LEMMA MembersOfClosable == AtClosableAre /\ AtClosableAre'
  BY DEF AtClosableAre, Consumers, ItemWays, Producers, RoomWays, Tellers, Closable!Being

(* Whoever comes to push, or to pop, leaves at most the one way.           *)
ToPush(t) == closableAt[t] = "idle" \/ closableAt[t] = "pushes"
ToPop(t) == closableAt[t] = "idle" \/ closableAt[t] = "pops"

Leaves(t, W) == W \ {t} \subseteq W' /\ (t \notin W => W \subseteq W')
Enters(t, W) == t \in W' /\ t \notin W /\ W \subseteq W'

LEMMA QueueMoves ==
    ASSUME ClosableTypes, NEW t \in Clients
    PROVE  /\ ToPush(t) /\ Closable!Goes(t, "tells one to pop") =>
                /\ Enters(t, ItemWays) /\ Leaves(t, RoomWays)
                /\ Consumers' = Consumers /\ Producers' = Producers /\ Tellers' = Tellers
           /\ ToPush(t) /\ Closable!Goes(t, "sleeps to push") =>
                /\ ItemWays' = ItemWays /\ Consumers' = Consumers /\ Tellers' = Tellers
           /\ ToPush(t) /\ Closable!Goes(t, "idle") =>
                /\ ItemWays' = ItemWays
                /\ Consumers' = Consumers /\ Producers' = Producers /\ Tellers' = Tellers
           /\ ToPop(t) /\ Closable!Goes(t, "tells one to push") =>
                /\ Enters(t, RoomWays) /\ Leaves(t, ItemWays)
                /\ Consumers' = Consumers /\ Producers' = Producers /\ Tellers' = Tellers
           /\ ToPop(t) /\ Closable!Goes(t, "sleeps to pop") =>
                /\ RoomWays' = RoomWays /\ Producers' = Producers /\ Tellers' = Tellers
           /\ ToPop(t) /\ Closable!Goes(t, "idle") =>
                /\ RoomWays' = RoomWays
                /\ Consumers' = Consumers /\ Producers' = Producers /\ Tellers' = Tellers
<1>0. AtClosableAre /\ AtClosableAre'
  BY MembersOfClosable
<1>1. ASSUME ToPush(t), Closable!Goes(t, "tells one to pop")
      PROVE  /\ Enters(t, ItemWays) /\ Leaves(t, RoomWays)
             /\ Consumers' = Consumers /\ Producers' = Producers /\ Tellers' = Tellers
  <2>1. closableAt'[t] = "tells one to pop" /\ \A s \in Clients \ {t} : closableAt'[s] = closableAt[s]
    BY <1>1, MovedAtClosable
  <2>2. closableAt[t] = "idle" \/ closableAt[t] = "pushes"
    BY <1>1 DEF ToPush
  <2> QED
    BY <1>0, <2>1, <2>2 DEF AtClosableAre, Enters, Leaves
<1>2. ASSUME ToPush(t), Closable!Goes(t, "sleeps to push")
      PROVE  ItemWays' = ItemWays /\ Consumers' = Consumers /\ Tellers' = Tellers
  <2>1. closableAt'[t] = "sleeps to push" /\ \A s \in Clients \ {t} : closableAt'[s] = closableAt[s]
    BY <1>2, MovedAtClosable
  <2>2. closableAt[t] = "idle" \/ closableAt[t] = "pushes"
    BY <1>2 DEF ToPush
  <2> QED
    BY <1>0, <2>1, <2>2 DEF AtClosableAre
<1>3. ASSUME ToPush(t), Closable!Goes(t, "idle")
      PROVE  /\ ItemWays' = ItemWays
             /\ Consumers' = Consumers /\ Producers' = Producers /\ Tellers' = Tellers
  <2>1. closableAt'[t] = "idle" /\ \A s \in Clients \ {t} : closableAt'[s] = closableAt[s]
    BY <1>3, MovedAtClosable
  <2>2. closableAt[t] = "idle" \/ closableAt[t] = "pushes"
    BY <1>3 DEF ToPush
  <2> QED
    BY <1>0, <2>1, <2>2 DEF AtClosableAre
<1>4. ASSUME ToPop(t), Closable!Goes(t, "tells one to push")
      PROVE  /\ Enters(t, RoomWays) /\ Leaves(t, ItemWays)
             /\ Consumers' = Consumers /\ Producers' = Producers /\ Tellers' = Tellers
  <2>1. closableAt'[t] = "tells one to push" /\ \A s \in Clients \ {t} : closableAt'[s] = closableAt[s]
    BY <1>4, MovedAtClosable
  <2>2. closableAt[t] = "idle" \/ closableAt[t] = "pops"
    BY <1>4 DEF ToPop
  <2> QED
    BY <1>0, <2>1, <2>2 DEF AtClosableAre, Enters, Leaves
<1>5. ASSUME ToPop(t), Closable!Goes(t, "sleeps to pop")
      PROVE  RoomWays' = RoomWays /\ Producers' = Producers /\ Tellers' = Tellers
  <2>1. closableAt'[t] = "sleeps to pop" /\ \A s \in Clients \ {t} : closableAt'[s] = closableAt[s]
    BY <1>5, MovedAtClosable
  <2>2. closableAt[t] = "idle" \/ closableAt[t] = "pops"
    BY <1>5 DEF ToPop
  <2> QED
    BY <1>0, <2>1, <2>2 DEF AtClosableAre
<1>6. ASSUME ToPop(t), Closable!Goes(t, "idle")
      PROVE  /\ RoomWays' = RoomWays
             /\ Consumers' = Consumers /\ Producers' = Producers /\ Tellers' = Tellers
  <2>1. closableAt'[t] = "idle" /\ \A s \in Clients \ {t} : closableAt'[s] = closableAt[s]
    BY <1>6, MovedAtClosable
  <2>2. closableAt[t] = "idle" \/ closableAt[t] = "pops"
    BY <1>6 DEF ToPop
  <2> QED
    BY <1>0, <2>1, <2>2 DEF AtClosableAre
<1> QED
  BY <1>1, <1>2, <1>3, <1>4, <1>5, <1>6

LEMMA ClosableTyped == ClosableTypes /\ Closable!Next => ClosableTypes'
<1> SUFFICES ASSUME ClosableTypes, Closable!Next PROVE ClosableTypes'
  OBVIOUS
<1>1. ASSUME NEW t \in Clients, NEW to \in ClientPlaces, Closable!Goes(t, to)
      PROVE  closableAt' \in [Clients -> ClientPlaces]
  BY <1>1 DEF Closable!Goes, ClosableTypes
<1>2. /\ \A w : Closable!Woken(w) \in ClientPlaces
      /\ "idle" \in ClientPlaces /\ "tells one to pop" \in ClientPlaces
      /\ "tells one to push" \in ClientPlaces /\ "sleeps to push" \in ClientPlaces
      /\ "sleeps to pop" \in ClientPlaces /\ "tells all" \in ClientPlaces
  BY DEF ClientPlaces, Closable!Woken
<1>3. ASSUME NEW t \in Clients, Closable!Enqueue(t) PROVE ClosableTypes'
  <2>1. closableAt' \in [Clients -> ClientPlaces]
    BY <1>1, <1>2, <1>3 DEF Closable!Enqueue
  <2>2. length < Bound /\ length' = length + 1
    BY <1>3 DEF Closable!Enqueue
  <2> QED
    BY <2>1, <2>2 DEF ClosableTypes, WaitingAssumption
<1>4. ASSUME NEW t \in Clients, Closable!Dequeue(t) PROVE ClosableTypes'
  <2>1. closableAt' \in [Clients -> ClientPlaces]
    BY <1>1, <1>2, <1>4 DEF Closable!Dequeue
  <2>2. length > 0 /\ length' = length - 1
    BY <1>4 DEF Closable!Dequeue
  <2> QED
    BY <2>1, <2>2 DEF ClosableTypes, WaitingAssumption
<1>5. ASSUME length' = length, closableAt' \in [Clients -> ClientPlaces] PROVE ClosableTypes'
  BY <1>5 DEF ClosableTypes
<1>6. PICK t \in Clients :
        \/ Closable!Push(t) \/ Closable!TryPush(t) \/ Closable!Pop(t) \/ Closable!TryPop(t)
        \/ Closable!TellOne(t) \/ Closable!Toggle(t) \/ Closable!TellAll(t)
        \/ Closable!Clear(t) \/ Closable!Spurious(t)
  BY DEF Closable!Next
<1>7. CASE Closable!Push(t) \/ Closable!TryPush(t)
  BY <1>1, <1>2, <1>3, <1>5, <1>7 DEF Closable!Push, Closable!TryPush
<1>8. CASE Closable!Pop(t) \/ Closable!TryPop(t)
  BY <1>1, <1>2, <1>4, <1>5, <1>8 DEF Closable!Pop, Closable!TryPop
<1>9. CASE Closable!TellOne(t)
  <2>1. closableAt' \in [Clients -> ClientPlaces]
    <3>1. CASE Closable!Goes(t, "idle")
      BY <1>1, <1>2, <3>1
    <3>2. ASSUME NEW u, closableAt' = [closableAt EXCEPT ![t] = "idle",
                                                  ![u] = Closable!Woken(closableAt[u])]
          PROVE  closableAt' \in [Clients -> ClientPlaces]
      BY <1>2, <3>2 DEF ClosableTypes
    <3> QED
      BY <1>9, <3>1, <3>2 DEF Closable!TellOne
  <2> QED
    BY <1>5, <1>9, <2>1 DEF Closable!TellOne
<1>10. CASE Closable!Toggle(t) \/ Closable!Spurious(t)
  BY <1>1, <1>2, <1>5, <1>10 DEF Closable!Toggle, Closable!Spurious
<1>11. CASE Closable!TellAll(t)
  BY <1>2, <1>5, <1>11 DEF Closable!TellAll, ClosableTypes
<1>12. CASE Closable!Clear(t)
  <2>1. length' = 0 /\ closableAt' = closableAt
    BY <1>12 DEF Closable!Clear
  <2> QED
    BY <2>1 DEF ClosableTypes, WaitingAssumption
<1> QED
  BY <1>6, <1>7, <1>8, <1>9, <1>10, <1>11, <1>12

LEMMA LengthIsANumber == ClosableTypes => length \in Int /\ Bound \in Int /\ Room \in Int
  BY DEF ClosableTypes, WaitingAssumption, Room

(* From one state of the queue to the next.                                *)
LEMMA QueueKeepsCovered ==
    ASSUME ClosableInv, ClosableTypes', ItemsKept, QueueKept
    PROVE  ClosableInv'
<1>1. SUFFICES ASSUME Tellers' = {}
      PROVE  /\ tasksClosed' => Consumers' = {} /\ Producers' = {}
             /\ Covered(Consumers', length', ItemWays')
             /\ cleared' \/ Covered(Producers', Room', RoomWays')
  BY DEF ClosableInv, ClosableFacts
<1>2. /\ tasksClosed => Consumers = {} /\ Producers = {}
      /\ Covered(Consumers, length, ItemWays)
      /\ cleared \/ Covered(Producers, Room, RoomWays)
  BY <1>1 DEF ClosableInv, ClosableFacts, QueueKept
<1>3. length \in Int /\ length' \in Int /\ Room \in Int /\ Room' \in Int
  BY DEF ClosableInv, ClosableTypes, Room, WaitingAssumption
<1>4. Covered(Consumers', length', ItemWays')
  BY <1>2, <1>3, ClientsAreFinite, KeepsCovered DEF ItemsKept
<1>5. cleared' \/ Covered(Producers', Room', RoomWays')
  BY <1>2, <1>3, ClientsAreFinite, KeepsCovered DEF RoomKept, QueueKept
<1> QED
  BY <1>2, <1>4, <1>5 DEF QueueKept

LEMMA EnqueueKeeps ==
    ASSUME ClosableTypes, NEW t \in Clients, ToPush(t), Closable!Enqueue(t),
           UNCHANGED <<tasksClosed, cleared>>
    PROVE  ItemsKept /\ QueueKept
<1>1. /\ Enters(t, ItemWays) /\ Leaves(t, RoomWays)
      /\ Consumers' = Consumers /\ Producers' = Producers /\ Tellers' = Tellers
  BY QueueMoves DEF Closable!Enqueue
<1>2. length' = length + 1 /\ Room' = Room - 1 /\ length \in Int /\ Room \in Int
  <2>1. length' = length + 1
    BY DEF Closable!Enqueue
  <2> QED
    BY <2>1, LengthIsANumber DEF Room
<1>3. ItemsKept
  BY <1>1, <1>2 DEF ItemsKept, Keeps, Enters
<1>4. RoomKept
  BY <1>1, <1>2 DEF RoomKept, Keeps, Leaves
<1> QED
  BY <1>1, <1>3, <1>4 DEF QueueKept

LEMMA DequeueKeeps ==
    ASSUME ClosableTypes, NEW t \in Clients, ToPop(t), Closable!Dequeue(t),
           UNCHANGED <<tasksClosed, cleared>>
    PROVE  ItemsKept /\ QueueKept
<1>1. /\ Enters(t, RoomWays) /\ Leaves(t, ItemWays)
      /\ Consumers' = Consumers /\ Producers' = Producers /\ Tellers' = Tellers
  BY QueueMoves DEF Closable!Dequeue
<1>2. length' = length - 1 /\ Room' = Room + 1 /\ length \in Int /\ Room \in Int
  <2>1. length' = length - 1
    BY DEF Closable!Dequeue
  <2> QED
    BY <2>1, LengthIsANumber DEF Room
<1>3. ItemsKept
  BY <1>1, <1>2 DEF ItemsKept, Keeps, Leaves
<1>4. RoomKept
  BY <1>1, <1>2 DEF RoomKept, Keeps, Enters
<1> QED
  BY <1>1, <1>3, <1>4 DEF QueueKept

(* A push that waits has found no room, one that gives up found it closed. *)
LEMMA PushAtClosableKeeps ==
    ASSUME ClosableInv, NEW t \in Clients, Closable!Push(t), Tellers' = {}
    PROVE  ItemsKept /\ QueueKept
<1>0. ClosableTypes /\ ToPush(t) /\ UNCHANGED <<tasksClosed, cleared>>
  BY DEF ClosableInv, Closable!Push, ToPush
<1>1. CASE Closable!Enqueue(t)
  BY <1>0, <1>1, EnqueueKeeps
<1>2. CASE ~tasksClosed /\ length = Bound /\ Closable!Goes(t, "sleeps to push") /\ UNCHANGED length
  <2>1. ItemWays' = ItemWays /\ Consumers' = Consumers /\ Tellers' = Tellers
    BY <1>0, <1>2, QueueMoves
  <2>2. length = Bound /\ length' = length /\ ~tasksClosed
    BY <1>2
  <2>3. length \in Int /\ Room' <= 0
    BY <1>0, <2>2, LengthIsANumber DEF Room
  <2> QED
    BY <1>0, <2>1, <2>2, <2>3 DEF ItemsKept, RoomKept, QueueKept, Keeps
<1>3. CASE tasksClosed /\ Closable!Goes(t, "idle") /\ UNCHANGED length
  <2>1. /\ ItemWays' = ItemWays
        /\ Consumers' = Consumers /\ Producers' = Producers /\ Tellers' = Tellers
    BY <1>0, <1>3, QueueMoves
  <2>2. length \in Int /\ length' = length
    BY <1>0, <1>3 DEF ClosableTypes
  <2>3. Producers' = {}
    BY <1>3, <2>1 DEF ClosableInv, ClosableFacts
  <2> QED
    BY <1>0, <2>1, <2>2, <2>3 DEF ItemsKept, RoomKept, QueueKept, Keeps
<1> QED
  BY <1>1, <1>2, <1>3 DEF Closable!Push

LEMMA PopAtClosableKeeps ==
    ASSUME ClosableInv, NEW t \in Clients, Closable!Pop(t)
    PROVE  ItemsKept /\ QueueKept
<1>0. ClosableTypes /\ ToPop(t) /\ UNCHANGED <<tasksClosed, cleared>>
  BY DEF ClosableInv, Closable!Pop, ToPop
<1>1. CASE Closable!Dequeue(t)
  BY <1>0, <1>1, DequeueKeeps
<1>2. CASE length = 0 /\ ~tasksClosed /\ Closable!Goes(t, "sleeps to pop") /\ UNCHANGED length
  <2>1. RoomWays' = RoomWays /\ Producers' = Producers /\ Tellers' = Tellers
    BY <1>0, <1>2, QueueMoves
  <2>2. length = 0 /\ length' = length /\ ~tasksClosed
    BY <1>2
  <2>3. length' <= 0 /\ Room' = Room /\ Room \in Int
    BY <1>0, <2>2, LengthIsANumber DEF Room
  <2> QED
    BY <1>0, <2>1, <2>2, <2>3 DEF ItemsKept, RoomKept, QueueKept, Keeps
<1>3. CASE length = 0 /\ tasksClosed /\ Closable!Goes(t, "idle") /\ UNCHANGED length
  <2>1. /\ RoomWays' = RoomWays
        /\ Consumers' = Consumers /\ Producers' = Producers /\ Tellers' = Tellers
    BY <1>0, <1>3, QueueMoves
  <2>2. length = 0 /\ length' = length
    BY <1>3
  <2>3. length' <= 0 /\ Room' = Room /\ Room \in Int
    BY <1>0, <2>2, LengthIsANumber DEF Room
  <2> QED
    BY <1>0, <2>1, <2>2, <2>3 DEF ItemsKept, RoomKept, QueueKept, Keeps
<1> QED
  BY <1>1, <1>2, <1>3 DEF Closable!Pop

(* notify_one: one of those who sleep takes the way of the one who tells.  *)
LEMMA TellOneKeeps ==
    ASSUME ClosableInv, NEW t \in Clients, Closable!TellOne(t)
    PROVE  ItemsKept /\ QueueKept
<1>0. ClosableTypes /\ UNCHANGED <<length, tasksClosed, cleared>>
  BY DEF ClosableInv, Closable!TellOne
<1>1. AtClosableAre /\ AtClosableAre'
  BY MembersOfClosable
<1>2. length \in Int /\ length' = length /\ Room \in Int /\ Room' = Room
  BY <1>0, LengthIsANumber DEF Room
<1>3. closableAt[t] = "tells one to pop" \/ closableAt[t] = "tells one to push"
  BY DEF Closable!TellOne
<1>4. CASE Closable!Listening(t) = {} /\ Closable!Goes(t, "idle")
  <2>1. closableAt'[t] = "idle" /\ \A s \in Clients \ {t} : closableAt'[s] = closableAt[s]
    BY <1>0, <1>4, MovedAtClosable
  <2>2. Consumers' = Consumers /\ Producers' = Producers /\ Tellers' = Tellers
    BY <1>1, <1>3, <2>1 DEF AtClosableAre
  <2>3. CASE closableAt[t] = "tells one to pop"
    <3>1. Consumers = {}
      BY <1>4, <2>3 DEF Closable!Listening, Consumers
    <3>2. RoomWays' = RoomWays
      BY <1>1, <2>1, <2>3 DEF AtClosableAre
    <3> QED
      BY <1>0, <1>2, <2>2, <3>1, <3>2 DEF ItemsKept, RoomKept, QueueKept, Keeps
  <2>4. CASE closableAt[t] = "tells one to push"
    <3>1. Producers = {}
      BY <1>4, <2>4 DEF Closable!Listening, Producers
    <3>2. ItemWays' = ItemWays
      BY <1>1, <2>1, <2>4 DEF AtClosableAre
    <3> QED
      BY <1>0, <1>2, <2>2, <3>1, <3>2 DEF ItemsKept, RoomKept, QueueKept, Keeps
  <2> QED
    BY <1>3, <2>3, <2>4
<1>5. CASE \E u \in Closable!Listening(t) :
             closableAt' = [closableAt EXCEPT ![t] = "idle", ![u] = Closable!Woken(closableAt[u])]
  <2>1. PICK u \in Closable!Listening(t) :
             closableAt' = [closableAt EXCEPT ![t] = "idle", ![u] = Closable!Woken(closableAt[u])]
    BY <1>5
  <2>2. CASE closableAt[t] = "tells one to pop"
    <3>1. u \in Clients /\ closableAt[u] = "sleeps to pop" /\ Closable!Woken(closableAt[u]) = "pops"
      BY <2>1, <2>2 DEF Closable!Listening, Closable!Being, Closable!Woken
    <3>2. /\ \A s \in Clients \ {t, u} : closableAt'[s] = closableAt[s]
          /\ closableAt'[t] = "idle" /\ closableAt'[u] = "pops" /\ u # t
      BY <1>0, <2>1, <2>2, <3>1 DEF ClosableTypes
    <3>3. /\ t \in ItemWays /\ u \in ItemWays' \ ItemWays /\ ItemWays \ {t} \subseteq ItemWays'
          /\ Consumers' \subseteq Consumers
      BY <1>1, <2>2, <3>1, <3>2 DEF AtClosableAre
    <3>4. RoomWays' = RoomWays /\ Producers' = Producers /\ Tellers' = Tellers
      BY <1>1, <2>2, <3>1, <3>2 DEF AtClosableAre
    <3> QED
      BY <1>0, <1>2, <3>3, <3>4 DEF ItemsKept, RoomKept, QueueKept, Keeps
  <2>3. CASE closableAt[t] = "tells one to push"
    <3>1. u \in Clients /\ closableAt[u] = "sleeps to push" /\ Closable!Woken(closableAt[u]) = "pushes"
      BY <2>1, <2>3 DEF Closable!Listening, Closable!Being, Closable!Woken
    <3>2. /\ \A s \in Clients \ {t, u} : closableAt'[s] = closableAt[s]
          /\ closableAt'[t] = "idle" /\ closableAt'[u] = "pushes" /\ u # t
      BY <1>0, <2>1, <2>3, <3>1 DEF ClosableTypes
    <3>3. /\ t \in RoomWays /\ u \in RoomWays' \ RoomWays /\ RoomWays \ {t} \subseteq RoomWays'
          /\ Producers' \subseteq Producers
      BY <1>1, <2>3, <3>1, <3>2 DEF AtClosableAre
    <3>4. ItemWays' = ItemWays /\ Consumers' = Consumers /\ Tellers' = Tellers
      BY <1>1, <2>3, <3>1, <3>2 DEF AtClosableAre
    <3> QED
      BY <1>0, <1>2, <3>3, <3>4 DEF ItemsKept, RoomKept, QueueKept, Keeps
  <2> QED
    BY <1>3, <2>2, <2>3
<1> QED
  BY <1>4, <1>5 DEF Closable!TellOne

(* A clear leaves nothing to sleep for, and says so if submitters sleep.   *)
LEMMA ClearAtClosableKeeps ==
    ASSUME ClosableInv, NEW t \in Clients, Closable!Clear(t)
    PROVE  ItemsKept /\ QueueKept
<1>1. /\ length' = 0 /\ closableAt' = closableAt /\ tasksClosed' = tasksClosed
      /\ cleared' = (cleared \/ Producers # {})
  BY DEF Closable!Clear, Producers
<1>2. Consumers' = Consumers /\ Producers' = Producers /\ Tellers' = Tellers
  BY <1>1 DEF Consumers, Producers, Tellers, Closable!Being
<1>3. ItemsKept
  BY <1>1 DEF ItemsKept, Keeps
<1>4. CASE cleared'
  BY <1>1, <1>2, <1>3, <1>4 DEF QueueKept
<1>5. CASE ~cleared'
  <2>1. ~cleared /\ Producers' = {}
    BY <1>1, <1>2, <1>5
  <2> QED
    BY <1>1, <1>2, <1>3, <2>1 DEF QueueKept, RoomKept, Keeps
<1> QED
  BY <1>4, <1>5

LEMMA SpuriousAtClosableKeeps ==
    ASSUME ClosableInv, NEW t \in Clients, Closable!Spurious(t)
    PROVE  ItemsKept /\ QueueKept
<1>0. ClosableTypes /\ UNCHANGED <<length, tasksClosed, cleared>>
  BY DEF ClosableInv, Closable!Spurious
<1>1. AtClosableAre /\ AtClosableAre'
  BY MembersOfClosable
<1>2. length \in Int /\ length' = length /\ Room \in Int /\ Room' = Room
  BY <1>0, LengthIsANumber DEF Room
<1>3. /\ closableAt[t] = "sleeps to pop" \/ closableAt[t] = "sleeps to push"
      /\ closableAt'[t] = "pops" \/ closableAt'[t] = "pushes"
      /\ \A s \in Clients \ {t} : closableAt'[s] = closableAt[s]
  BY <1>0, MovedAtClosable DEF Closable!Spurious, Closable!Asleep, Closable!Woken
<1>4. /\ Consumers' \subseteq Consumers /\ ItemWays \subseteq ItemWays'
      /\ Producers' \subseteq Producers /\ RoomWays \subseteq RoomWays' /\ Tellers' = Tellers
  BY <1>1, <1>3 DEF AtClosableAre
<1> QED
  BY <1>0, <1>2, <1>4 DEF ItemsKept, RoomKept, QueueKept, Keeps

(* The invariant of the queue that can be closed.                          *)
LEMMA ClosableInvStep == ClosableInv /\ [Closable!Next]_closable => ClosableInv'
<1> SUFFICES ASSUME ClosableInv, [Closable!Next]_closable PROVE ClosableInv'
  OBVIOUS
<1>1. CASE UNCHANGED closable
  BY <1>1 DEF closable, ClosableInv, ClosableTypes, ClosableFacts, Consumers, ItemWays,
              Producers, RoomWays, Tellers, Room, Closable!Being
<1>2. CASE Closable!Next
  <2>1. ClosableTypes /\ ClosableTypes'
    BY <1>2, ClosableTyped DEF ClosableInv
  <2>2. PICK t \in Clients :
          \/ Closable!Push(t) \/ Closable!TryPush(t) \/ Closable!Pop(t) \/ Closable!TryPop(t)
          \/ Closable!TellOne(t) \/ Closable!Toggle(t) \/ Closable!TellAll(t)
          \/ Closable!Clear(t) \/ Closable!Spurious(t)
    BY <1>2 DEF Closable!Next
  <2>3. CASE Tellers' # {}
    BY <2>1, <2>3 DEF ClosableInv, ClosableFacts
  <2>4. CASE Tellers' = {}
    <3>1. CASE Closable!Toggle(t)
      <4>1. closableAt'[t] = "tells all"
        BY <2>1, <3>1, MovedAtClosable DEF Closable!Toggle
      <4>2. t \in Tellers'
        BY <4>1, MembersOfClosable DEF AtClosableAre
      <4> QED
        BY <2>4, <4>2
    <3>2. CASE Closable!TellAll(t)
      <4>1. \A s \in Clients :
              closableAt'[s] # "sleeps to pop" /\ closableAt'[s] # "sleeps to push"
        BY <3>2 DEF Closable!TellAll, Closable!Asleep, Closable!Woken
      <4>2. Consumers' = {} /\ Producers' = {}
        BY <4>1, MembersOfClosable DEF AtClosableAre
      <4> QED
        BY <2>1, <4>2 DEF ClosableInv, ClosableFacts, Covered
    <3>3. CASE Closable!TryPush(t)
      <4>1. ToPush(t) /\ Closable!Enqueue(t) /\ UNCHANGED <<tasksClosed, cleared>>
        BY <3>3 DEF Closable!TryPush, ToPush
      <4> QED
        BY <2>1, <4>1, EnqueueKeeps, QueueKeepsCovered
    <3>4. CASE Closable!TryPop(t)
      <4>1. ToPop(t) /\ Closable!Dequeue(t) /\ UNCHANGED <<tasksClosed, cleared>>
        BY <3>4 DEF Closable!TryPop, ToPop
      <4> QED
        BY <2>1, <4>1, DequeueKeeps, QueueKeepsCovered
    <3> QED
      BY <2>1, <2>2, <2>4, <3>1, <3>2, <3>3, <3>4, PushAtClosableKeeps, PopAtClosableKeeps,
         TellOneKeeps, ClearAtClosableKeeps, SpuriousAtClosableKeeps, QueueKeepsCovered
  <2> QED
    BY <2>3, <2>4
<1> QED
  BY <1>1, <1>2

LEMMA ClosableInvHolds == Closable!Init => ClosableInv
<1> SUFFICES ASSUME Closable!Init PROVE ClosableInv
  OBVIOUS
<1>1. ClosableTypes
  BY DEF Closable!Init, ClosableTypes, ClientPlaces, WaitingAssumption
<1>2. Consumers = {} /\ Producers = {}
  BY DEF Closable!Init, Consumers, Producers, Closable!Being
<1> QED
  BY <1>1, <1>2 DEF ClosableInv, ClosableFacts, Covered

(* Who pops and who tells of an item are different threads.                *)
LEMMA ClosableInvShows == ClosableInv => Closable!NobodySleepsThrough
<1> SUFFICES ASSUME ClosableInv PROVE Closable!NobodySleepsThrough
  OBVIOUS
<1>1. CASE Tellers # {}
  BY <1>1 DEF Closable!NobodySleepsThrough, Tellers
<1>2. CASE Tellers = {}
  <2> DEFINE Pops == Closable!Being("pops")
             TellsOfItem == Closable!Being("tells one to pop")
             Pushes == Closable!Being("pushes")
             TellsOfRoom == Closable!Being("tells one to push")
  <2>1. /\ tasksClosed => Consumers = {} /\ Producers = {}
        /\ Covered(Consumers, length, ItemWays)
        /\ cleared \/ Covered(Producers, Room, RoomWays)
    BY <1>2 DEF ClosableInv, ClosableFacts
  <2>2. tasksClosed => \A t \in Clients : closableAt[t] \notin Closable!Asleep
    BY <2>1, MembersOfClosable DEF AtClosableAre, Closable!Asleep
  <2>3. /\ Pops \subseteq Clients /\ TellsOfItem \subseteq Clients
        /\ Pushes \subseteq Clients /\ TellsOfRoom \subseteq Clients
        /\ Pops \cap TellsOfItem = {} /\ Pushes \cap TellsOfRoom = {}
    BY DEF Closable!Being
  <2>4. /\ ItemWays = Pops \cup TellsOfItem /\ RoomWays = Pushes \cup TellsOfRoom
    BY DEF ItemWays, RoomWays
  <2>5. IsFiniteSet(Clients)
    BY DEF WaitingAssumption
  <2>6. /\ Consumers # {} => length <= Cardinality(Pops) + Cardinality(TellsOfItem)
        /\ Producers # {} /\ ~cleared
            => Bound - length <= Cardinality(Pushes) + Cardinality(TellsOfRoom)
    <3> HIDE DEF Pops, TellsOfItem, Pushes, TellsOfRoom
    <3>1. /\ IsFiniteSet(Pops) /\ IsFiniteSet(TellsOfItem)
          /\ IsFiniteSet(Pushes) /\ IsFiniteSet(TellsOfRoom)
      BY <2>3, <2>5, FS_Subset
    <3>2. /\ Cardinality(ItemWays) = Cardinality(Pops) + Cardinality(TellsOfItem)
          /\ Cardinality(RoomWays) = Cardinality(Pushes) + Cardinality(TellsOfRoom)
      <4>1. ASSUME NEW S, NEW T, IsFiniteSet(S), IsFiniteSet(T), S \cap T = {}
            PROVE  Cardinality(S \cup T) = Cardinality(S) + Cardinality(T)
        <5>1. Cardinality(S \cup T) = Cardinality(S) + Cardinality(T) - Cardinality(S \cap T)
          BY <4>1, FS_Union
        <5>2. Cardinality(S \cap T) = 0 /\ Cardinality(S) \in Nat /\ Cardinality(T) \in Nat
          BY <4>1, FS_EmptySet, FS_CardinalityType
        <5> QED
          BY <5>1, <5>2
      <4> QED
        BY <2>3, <2>4, <3>1, <4>1
    <3> QED
      BY <2>1, <3>2 DEF Covered, Room
  <2> QED
    BY <1>2, <2>2, <2>6, SameCardinality DEF Closable!NobodySleepsThrough, Consumers, Producers
<1> QED
  BY <1>1, <1>2

-----------------------------------------------------------------------------
(* The ordered task queues.  Least and Greatest choose a member.           *)
Below == {p \in Nat \X Nat : p[1] < p[2]}

LEMMA LeastIsAMember ==
    ASSUME NEW S \in SUBSET Nat, S # {}
    PROVE  Ranks!Least(S) \in S
<1>1. IsWellFoundedOn(Below, Nat)
  BY NatLessThanWellFounded DEF OpToRel, Below
<1>2. \E x \in S : \A y \in S : <<y, x>> \notin Below
  BY <1>1, WFMin
<1>3. \E x \in S : \A y \in S : x <= y
  <2>1. ASSUME NEW x \in S, NEW y \in S, <<y, x>> \notin Below PROVE x <= y
    <3>1. x \in Nat /\ y \in Nat /\ <<y, x>> \in Nat \X Nat
      OBVIOUS
    <3>2. ~(y < x)
      BY <2>1, <3>1 DEF Below
    <3> QED
      BY <3>1, <3>2
  <2> QED
    BY <1>2, <2>1
<1> QED
  BY <1>3 DEF Ranks!Least

LEMMA GreatestIsAMember ==
    ASSUME NEW S \in SUBSET Nat, IsFiniteSet(S), S # {}
    PROVE  Ranks!Greatest(S) \in S
<1> DEFINE Great(T) == \E x \in T : \A y \in T : x >= y
           Sizes == {n \in Nat : \E T \in SUBSET Nat :
                        IsFiniteSet(T) /\ T # {} /\ Cardinality(T) = n /\ ~Great(T)}
<1>1. ASSUME NEW T \in SUBSET Nat, IsFiniteSet(T), NEW x \in T, T \ {x} = {} \/ Great(T \ {x})
      PROVE  Great(T)
  <2>1. CASE T \ {x} = {}
    <3>1. \A y \in T : y = x /\ x \in Nat
      BY <2>1
    <3>2. \A y \in T : x >= y
      BY <3>1
    <3> QED
      BY <3>2
  <2>2. CASE Great(T \ {x})
    <3>1. PICK z \in T \ {x} : \A y \in T \ {x} : z >= y
      BY <2>2
    <3>2. CASE x >= z
      <4>1. \A y \in T : x >= y
        BY <3>1, <3>2
      <4> QED
        BY <4>1
    <3>3. CASE ~(x >= z)
      <4>1. \A y \in T : z >= y
        BY <3>1, <3>3
      <4> QED
        BY <4>1
    <3> QED
      BY <3>2, <3>3
  <2> QED
    BY <1>1, <2>1, <2>2
<1> HIDE DEF Great
<1>2. Sizes = {}
  <2> SUFFICES ASSUME Sizes # {} PROVE FALSE
    OBVIOUS
  <2>1. Sizes \subseteq Nat
    OBVIOUS
  <2>2. PICK n \in Sizes : \A m \in Sizes : <<m, n>> \notin Below
    BY <2>1, NatLessThanWellFounded, WFMin DEF OpToRel, Below
  <2>3. PICK T \in SUBSET Nat : IsFiniteSet(T) /\ T # {} /\ Cardinality(T) = n /\ ~Great(T)
    OBVIOUS
  <2>4. PICK x \in T : TRUE
    BY <2>3
  <2>5. IsFiniteSet(T \ {x}) /\ Cardinality(T \ {x}) = n - 1
    BY <2>3, FS_RemoveElement
  <2>6. Cardinality(T \ {x}) \in Nat
    BY <2>5, FS_CardinalityType
  <2>7. T \ {x} # {} /\ ~Great(T \ {x})
    BY <1>1, <2>3
  <2>8. n - 1 \in Sizes
    BY <2>5, <2>6, <2>7
  <2>9. <<n - 1, n>> \in Below
    BY <2>5, <2>6 DEF Below
  <2> QED
    BY <2>2, <2>8, <2>9
<1>3. Cardinality(S) \in Nat
  BY FS_CardinalityType
<1>4. Great(S)
  <2> SUFFICES ASSUME ~Great(S) PROVE FALSE
    OBVIOUS
  <2>1. Cardinality(S) \in Sizes
    BY <1>3
  <2> QED
    BY <1>2, <2>1
<1> DEFINE Highest(x) == \A y \in S : x >= y
<1>5. \E x \in S : Highest(x)
  BY <1>4 DEF Great
<1>6. Ranks!Greatest(S) = CHOOSE x \in S : Highest(x)
  BY DEF Ranks!Greatest
<1> HIDE DEF Highest
<1>7. (CHOOSE x \in S : Highest(x)) \in S
  BY <1>5, Zenon
<1> QED
  BY <1>6, <1>7

RankThreads == Submitters \cup Fetchers
RankTypes ==
    /\ queue \in SUBSET Nat /\ IsFiniteSet(queue)
    /\ DOMAIN unit = RankThreads /\ \A t \in RankThreads : unit[t].u \in Nat
    /\ DOMAIN rankAt = RankThreads

UnitSleepers == Ranks!SleepForUnits
Underway == Ranks!Underway
(* Where only those of a queue by time get to.                             *)
InBatch == Ranks!Sleepers("dozes in a batch") \cup Ranks!Sleepers("asleep in a batch")
             \cup Ranks!Sleepers("goes on")
Dozers == Ranks!Sleepers("dozes to pop") \cup Ranks!Sleepers("dozes for a time")
            \cup Ranks!Sleepers("dozes for units")

RankFacts == rankKind = "priority" =>
    /\ ~watching /\ InBatch = {}
    /\ Dozers # {} => queue = {}
    /\ Covered(UnitSleepers, Cardinality(queue), Underway)
RankInv == RankTypes /\ RankFacts

UnitsKept == Keeps(UnitSleepers, Cardinality(queue), Underway,
                   UnitSleepers', Cardinality(queue'), Underway')
NobodyInBatch == InBatch' = {} /\ watching' = watching
RankKept == UnitsKept /\ NobodyInBatch /\ (Dozers' # {} => queue' = {})

LEMMA RankThreadsAre == Ranks!Threads = RankThreads /\ IsFiniteSet(RankThreads)
  BY FS_Union DEF Ranks!Threads, RankThreads, WaitingAssumption

AtRanksAre ==
    /\ UnitSleepers = {s \in RankThreads : \/ rankAt[s] = "asleep to pop"
                                           \/ rankAt[s] = "asleep for a time"
                                           \/ rankAt[s] = "asleep for units"}
    /\ Underway = {s \in RankThreads : \/ rankAt[s] = "pops again" \/ rankAt[s] = "tries again"
                                       \/ rankAt[s] = "collects again"
                                       \/ rankAt[s] = "tells of a unit"}
    /\ InBatch = {s \in RankThreads : \/ rankAt[s] = "dozes in a batch"
                                      \/ rankAt[s] = "asleep in a batch" \/ rankAt[s] = "goes on"}
    /\ Dozers = {s \in RankThreads : \/ rankAt[s] = "dozes to pop" \/ rankAt[s] = "dozes for a time"
                                     \/ rankAt[s] = "dozes for units"}
LEMMA MembersOfRanks == AtRanksAre /\ AtRanksAre'
  BY RankThreadsAre DEF AtRanksAre, UnitSleepers, Underway, InBatch, Dozers, Ranks!Underway,
                        Ranks!SleepForUnits, Ranks!Sleepers

LEMMA RanksAreFinite == IsFiniteSet(Underway) /\ IsFiniteSet(Underway')
<1>1. Underway \subseteq RankThreads /\ Underway' \subseteq RankThreads
  BY MembersOfRanks DEF AtRanksAre
<1> QED
  BY <1>1, RankThreadsAre, FS_Subset

LEMMA MovedAtRanks ==
    ASSUME RankTypes, NEW t \in RankThreads, NEW to, rankAt' = Ranks!Moved(t, to)
    PROVE  rankAt'[t] = to /\ \A s \in RankThreads \ {t} : rankAt'[s] = rankAt[s]
  BY DEF Ranks!Moved, RankTypes

(* What the members of a group do when one of them moves.                  *)
LEMMA GroupsAtRanks ==
    ASSUME RankTypes, NEW t \in RankThreads, NEW to, rankAt' = Ranks!Moved(t, to)
    PROVE  /\ UnitSleepers \ {t} \subseteq UnitSleepers' /\ UnitSleepers' \ {t} \subseteq UnitSleepers
           /\ Underway \ {t} \subseteq Underway' /\ Underway' \ {t} \subseteq Underway
           /\ InBatch' \ {t} \subseteq InBatch /\ Dozers' \ {t} \subseteq Dozers
  BY MovedAtRanks, MembersOfRanks DEF AtRanksAre

LEMMA QueueCounts ==
    ASSUME RankTypes
    PROVE  /\ Cardinality(queue) \in Nat /\ (Cardinality(queue) = 0 <=> queue = {})
           /\ \A S \in SUBSET queue : IsFiniteSet(S) /\ Cardinality(S) <= Cardinality(queue)
           /\ \A S \in SUBSET queue : \A u : /\ IsFiniteSet(S \cup {u})
                                            /\ Cardinality(S \cup {u}) <= Cardinality(queue) + 1
           /\ \A u \in queue : Cardinality(queue \ {u}) = Cardinality(queue) - 1
<1>1. IsFiniteSet(queue)
  BY DEF RankTypes
<1>2. Cardinality(queue) \in Nat /\ (Cardinality(queue) = 0 <=> queue = {})
  BY <1>1, FS_CardinalityType, FS_EmptySet
<1>3. ASSUME NEW S \in SUBSET queue
      PROVE  IsFiniteSet(S) /\ Cardinality(S) <= Cardinality(queue) /\ Cardinality(S) \in Nat
  BY <1>1, FS_Subset, FS_CardinalityType
<1>4. ASSUME NEW S \in SUBSET queue, NEW u
      PROVE  IsFiniteSet(S \cup {u}) /\ Cardinality(S \cup {u}) <= Cardinality(queue) + 1
  <2>1. CASE u \in S
    <3>1. S \cup {u} = S
      BY <2>1
    <3> QED
      BY <1>2, <1>3, <3>1
  <2>2. CASE u \notin S
    <3>1. IsFiniteSet(S \cup {u}) /\ Cardinality(S \cup {u}) = Cardinality(S) + 1
      BY <1>3, <2>2, FS_AddElement
    <3> QED
      BY <1>2, <1>3, <3>1
  <2> QED
    BY <2>1, <2>2
<1>5. ASSUME NEW u \in queue PROVE Cardinality(queue \ {u}) = Cardinality(queue) - 1
  BY <1>1, FS_RemoveElement
<1> QED
  BY <1>2, <1>3, <1>4, <1>5

LEMMA RanksTyped == RankTypes /\ Ranks!Next => RankTypes'
<1> SUFFICES ASSUME RankTypes, Ranks!Next PROVE RankTypes'
  OBVIOUS
<1> DEFINE Placed(at) == DOMAIN at = RankThreads
           Brief(un) == DOMAIN un = RankThreads /\ \A t \in RankThreads : un[t].u \in Nat
           Queues == {S \in SUBSET Nat : IsFiniteSet(S)}
<1>1. ASSUME NEW t \in RankThreads, NEW to PROVE Placed(Ranks!Moved(t, to))
  BY DEF Ranks!Moved, RankTypes
<1>2. ASSUME NEW W, NEW moved, Placed(moved), Ranks!NotifyOne(W, moved) PROVE Placed(rankAt')
  BY <1>2 DEF Ranks!NotifyOne
<1>3. ASSUME NEW W, Ranks!NotifyAll(W) PROVE Placed(rankAt')
  BY <1>3, RankThreadsAre DEF Ranks!NotifyAll
<1>3a. ASSUME NEW t \in RankThreads, NEW b, b.u \in Nat, unit' = [unit EXCEPT ![t] = b]
      PROVE  Brief(unit')
  BY <1>3a DEF RankTypes
<1>3b. Ranks!NoUnit.u \in Nat
  BY DEF Ranks!NoUnit
<1>4. queue \in Queues /\ {} \in Queues /\ Placed(rankAt) /\ Brief(unit)
  BY FS_EmptySet DEF RankTypes
<1>5. \A S \in SUBSET queue : S \in Queues
  BY FS_Subset DEF RankTypes
<1>6. ASSUME NEW t \in RankThreads, NEW S \in SUBSET queue, Ranks!Insert(t, S)
      PROVE  queue' \in Queues /\ Brief(unit') /\ Placed(rankAt')
  <2>1. unit[t].u \in Nat
    BY DEF RankTypes
  <2>2. queue' \in Queues
    BY <1>6, <2>1, QueueCounts DEF Ranks!Insert, RankTypes
  <2>3. Brief(unit')
    BY <1>6, <1>3a, <1>3b DEF Ranks!Insert
  <2>4. Placed(rankAt')
    BY <1>1, <1>6 DEF Ranks!Insert
  <2> QED
    BY <2>2, <2>3, <2>4
<1>7. ASSUME NEW t \in RankThreads, Ranks!Refuse(t)
      PROVE  queue' \in Queues /\ Brief(unit') /\ Placed(rankAt')
  <2>1. Brief(unit')
    BY <1>7, <1>3a, <1>3b DEF Ranks!Refuse
  <2> QED
    BY <1>1, <1>4, <1>7, <2>1 DEF Ranks!Refuse
<1>8. ASSUME NEW t \in RankThreads, NEW to, Ranks!TakeFirst(t, to)
      PROVE  queue' \in Queues /\ Brief(unit') /\ Placed(rankAt')
  <2>1. queue \ {Ranks!First} \in Queues
    BY <1>5
  <2> QED
    BY <1>1, <1>4, <1>8, <2>1 DEF Ranks!TakeFirst
<1>9. ASSUME NEW t \in RankThreads, NEW to, Ranks!Moves(t, to)
      PROVE  queue' \in Queues /\ Brief(unit') /\ Placed(rankAt')
  BY <1>1, <1>4, <1>9 DEF Ranks!Moves
<1>10. ASSUME NEW t \in RankThreads, Ranks!FollowEnd(t)
       PROVE  queue' \in Queues /\ Brief(unit') /\ Placed(rankAt')
  BY <1>9, <1>10 DEF Ranks!FollowEnd
<1> SUFFICES queue' \in Queues /\ Brief(unit') /\ Placed(rankAt')
  BY DEF RankTypes
<1> HIDE DEF Placed, Brief, Queues
<1>11. ASSUME NEW t \in Submitters,
              \/ \E u \in Units, mode \in Ranks!Modes : Ranks!Push(t, u, mode)
              \/ Ranks!Enqueue(t) \/ Ranks!EnqueueAgain(t)
       PROVE  queue' \in Queues /\ Brief(unit') /\ Placed(rankAt')
  <2>0. t \in RankThreads
    BY DEF RankThreads
  <2>1. ASSUME NEW u \in Units, NEW mode \in Ranks!Modes, Ranks!Push(t, u, mode)
        PROVE  queue' \in Queues /\ Brief(unit') /\ Placed(rankAt')
    <3>1. Brief(unit')
      <4>1. unit' = [unit EXCEPT ![t] = [u |-> u, mode |-> mode]]
        BY <2>1 DEF Ranks!Push
      <4>2. [u |-> u, mode |-> mode].u \in Nat
        BY DEF WaitingAssumption
      <4> QED
        BY <1>3a, <2>0, <4>1, <4>2
    <3>2. Placed(rankAt') /\ queue' = queue
      BY <1>1, <2>0, <2>1 DEF Ranks!Push
    <3> QED
      BY <1>4, <3>1, <3>2
  <2>2. CASE Ranks!Enqueue(t)
    <3>1. \/ Ranks!Insert(t, queue) \/ Ranks!Insert(t, queue \ {Ranks!Last}) \/ Ranks!Refuse(t)
          \/ rankAt' = Ranks!Moved(t, "dozes to push") /\ UNCHANGED <<queue, unit>>
      BY <2>2 DEF Ranks!Enqueue
    <3> QED
      BY <1>1, <1>4, <1>6, <1>7, <2>0, <3>1
  <2>3. CASE Ranks!EnqueueAgain(t)
    <3>1. \/ Ranks!Insert(t, queue) \/ Ranks!Refuse(t)
          \/ rankAt' = Ranks!Moved(t, "dozes to push") /\ UNCHANGED <<queue, unit>>
      BY <2>3 DEF Ranks!EnqueueAgain
    <3> QED
      BY <1>1, <1>4, <1>6, <1>7, <2>0, <3>1
  <2> QED
    BY <1>11, <2>1, <2>2, <2>3
<1>12. ASSUME NEW t \in RankThreads,
              Ranks!TellOfUnit(t) \/ Ranks!TellOfRoom(t) \/ Ranks!FallAsleep(t) \/ Ranks!Spurious(t)
       PROVE  queue' \in Queues /\ Brief(unit') /\ Placed(rankAt')
  <2>1. queue' = queue /\ unit' = unit
    BY <1>12 DEF Ranks!TellOfUnit, Ranks!TellOfRoom, Ranks!FallAsleep, Ranks!Spurious
  <2>3. Placed(rankAt')
    BY <1>1, <1>2, <1>12
       DEF Ranks!TellOfUnit, Ranks!TellOfRoom, Ranks!FallAsleep, Ranks!Spurious
  <2> QED
    BY <1>4, <2>1, <2>3
<1>13. ASSUME NEW t \in Fetchers,
              \/ Ranks!PopByPriority(t) \/ Ranks!PopDeferred(t) \/ Ranks!PopDeferredAgain(t)
              \/ Ranks!TryPop(t) \/ Ranks!TryPopFor(t) \/ Ranks!TimedOut(t) \/ Ranks!TurnOfBatch(t)
              \/ \E n \in Batches : Ranks!PopBatch(t, n) \/ Ranks!BeginBatch(t, n)
       PROVE  queue' \in Queues /\ Brief(unit') /\ Placed(rankAt')
  <2>0. t \in RankThreads
    BY DEF RankThreads
  <2>1. CASE Ranks!PopByPriority(t)
    BY <1>8, <1>9, <2>0, <2>1 DEF Ranks!PopByPriority
  <2>2. CASE Ranks!PopDeferred(t)
    BY <1>9, <2>0, <2>2 DEF Ranks!PopDeferred
  <2>3. CASE Ranks!PopDeferredAgain(t)
    BY <1>8, <1>10, <2>0, <2>3 DEF Ranks!PopDeferredAgain
  <2>4. CASE Ranks!TryPop(t)
    BY <1>8, <2>0, <2>4 DEF Ranks!TryPop
  <2>5. CASE Ranks!TryPopFor(t)
    BY <1>8, <1>9, <1>10, <2>0, <2>5 DEF Ranks!TryPopFor
  <2>6. CASE Ranks!TimedOut(t)
    BY <1>8, <1>9, <2>0, <2>6 DEF Ranks!TimedOut
  <2>7. CASE Ranks!TurnOfBatch(t)
    BY <1>8, <1>9, <2>0, <2>7 DEF Ranks!TurnOfBatch
  <2>8. ASSUME NEW n \in Batches, Ranks!PopBatch(t, n)
        PROVE  queue' \in Queues /\ Brief(unit') /\ Placed(rankAt')
    <3>1. (\E S \in SUBSET queue : queue' = queue \ S) /\ unit' = unit
      BY <2>8 DEF Ranks!PopBatch, Ranks!TakeLeast, Ranks!Moves
    <3>2. \E to : rankAt' = Ranks!Moved(t, to)
      BY <2>8 DEF Ranks!PopBatch, Ranks!TakeLeast, Ranks!Moves
    <3> QED
      BY <1>1, <1>4, <1>5, <2>0, <3>1, <3>2
  <2>9. ASSUME NEW n \in Batches, Ranks!BeginBatch(t, n)
        PROVE  queue' \in Queues /\ Brief(unit') /\ Placed(rankAt')
    BY <1>9, <2>0, <2>9 DEF Ranks!BeginBatch
  <2> QED
    BY <1>13, <2>1, <2>2, <2>3, <2>4, <2>5, <2>6, <2>7, <2>8, <2>9
<1>14. CASE Ranks!Close \/ Ranks!CloseTells \/ Ranks!Clear \/ Ranks!Background \/ Ranks!Tick
  BY <1>2, <1>3, <1>4, <1>14
     DEF Ranks!Close, Ranks!CloseTells, Ranks!Clear, Ranks!Background, Ranks!Tick
<1> QED
  BY <1>11, <1>12, <1>13, <1>14, RankThreadsAre DEF Ranks!Next, RankThreads

(* How the units are kept covered: none are left, no more come than set    *)
(* out, or one of those on their way takes one.                            *)
LEMMA NothingQueued == queue' = {} => UnitsKept
<1>1. Cardinality({}) = 0
  BY FS_EmptySet
<1> QED
  BY <1>1 DEF UnitsKept, Keeps

LEMMA NoMoreQueued ==
    ASSUME UnitSleepers' \subseteq UnitSleepers, Underway \subseteq Underway',
           Cardinality(queue') <= Cardinality(queue)
    PROVE  UnitsKept
  BY DEF UnitsKept, Keeps

LEMMA OneMoreQueued ==
    ASSUME UnitSleepers' \subseteq UnitSleepers, Underway \subseteq Underway',
           NEW t \in Underway' \ Underway, Cardinality(queue') <= Cardinality(queue) + 1
    PROVE  UnitsKept
  BY DEF UnitsKept, Keeps

LEMMA FewerQueued ==
    ASSUME RankTypes, RankTypes', UnitSleepers' \subseteq UnitSleepers, NEW t,
           Underway \ {t} \subseteq Underway', Cardinality(queue') <= Cardinality(queue) - 1
    PROVE  UnitsKept
<1>1. Cardinality(queue') \in Nat /\ Cardinality(queue) \in Nat
  BY FS_CardinalityType DEF RankTypes
<1>2. CASE t \in Underway
  <2> QED
    BY <1>2 DEF UnitsKept, Keeps
<1>3. CASE t \notin Underway
  <2>1. Underway \subseteq Underway'
    BY <1>3
  <2> QED
    BY <1>1, <2>1, NoMoreQueued
<1> QED
  BY <1>2, <1>3

(* One thread moves to where nobody sleeps, while the queue gets no longer *)
(* than those on their way are more.                                       *)
LEMMA OneMoves ==
    ASSUME RankTypes, RankTypes', RankFacts, rankKind = "priority",
           NEW t \in RankThreads, NEW to, rankAt' = Ranks!Moved(t, to),
           to # "asleep to pop" /\ to # "asleep for a time" /\ to # "asleep for units",
           to # "dozes in a batch" /\ to # "asleep in a batch" /\ to # "goes on",
           to = "dozes to pop" \/ to = "dozes for a time" \/ to = "dozes for units" => queue' = {},
           Dozers = {} \/ queue' = {},
           watching' = watching,
           \/ queue' = {}
           \/ Cardinality(queue') <= Cardinality(queue) /\ t \notin Underway
           \/ Cardinality(queue') <= Cardinality(queue) - 1
           \/ /\ Cardinality(queue') <= Cardinality(queue) + 1
              /\ to = "tells of a unit" /\ t \notin Underway
    PROVE  RankKept
<1>1. rankAt'[t] = to /\ \A s \in RankThreads \ {t} : rankAt'[s] = rankAt[s]
  BY MovedAtRanks
<1>2. AtRanksAre /\ AtRanksAre'
  BY MembersOfRanks
<1>3. /\ UnitSleepers \ {t} \subseteq UnitSleepers' /\ UnitSleepers' \ {t} \subseteq UnitSleepers
      /\ Underway \ {t} \subseteq Underway' /\ Underway' \ {t} \subseteq Underway
      /\ InBatch' \ {t} \subseteq InBatch /\ Dozers' \ {t} \subseteq Dozers
  BY GroupsAtRanks
<1>4. t \notin UnitSleepers' /\ t \notin InBatch'
  BY <1>1, <1>2 DEF AtRanksAre
<1>5. UnitSleepers' \subseteq UnitSleepers /\ NobodyInBatch
  BY <1>3, <1>4 DEF RankFacts, NobodyInBatch
<1>6. Dozers' # {} => queue' = {}
  <2>1. CASE t \in Dozers'
    BY <1>1, <1>2, <2>1 DEF AtRanksAre
  <2>2. CASE t \notin Dozers'
    BY <1>3, <2>2
  <2> QED
    BY <2>1, <2>2
<1>7. Cardinality(queue) \in Nat /\ Cardinality(queue') \in Nat
  BY FS_CardinalityType DEF RankTypes
<1>8. UnitsKept
  <2>1. CASE queue' = {}
    BY <2>1, NothingQueued
  <2>2. CASE Cardinality(queue') <= Cardinality(queue) /\ t \notin Underway
    <3>1. Underway \subseteq Underway'
      BY <1>3, <2>2
    <3> QED
      BY <1>5, <2>2, <3>1, NoMoreQueued
  <2>3. CASE Cardinality(queue') <= Cardinality(queue) - 1
    BY <1>3, <1>5, <2>3, FewerQueued
  <2>4. CASE /\ Cardinality(queue') <= Cardinality(queue) + 1
             /\ to = "tells of a unit" /\ t \notin Underway
    <3>1. t \in Underway'
      BY <1>1, <1>2, <2>4 DEF AtRanksAre
    <3>2. Underway \subseteq Underway' /\ t \in Underway' \ Underway
      BY <1>3, <2>4, <3>1
    <3> QED
      BY <1>5, <2>4, <3>2, OneMoreQueued
  <2> QED
    BY <2>1, <2>2, <2>3, <2>4
<1> QED
  BY <1>5, <1>6, <1>8 DEF RankKept

(* Nobody dozes while the mutex is free.                                   *)
LEMMA NobodyDozes == Ranks!MutexFree => Dozers = {}
<1> SUFFICES ASSUME Ranks!MutexFree, NEW s \in RankThreads,
                    \/ rankAt[s] = "dozes to pop" \/ rankAt[s] = "dozes for a time"
                    \/ rankAt[s] = "dozes for units"
             PROVE  FALSE
  BY MembersOfRanks DEF AtRanksAre
<1> QED
  BY RankThreadsAre DEF Ranks!MutexFree, Ranks!Dozes

LEMMA SubmittersKeep ==
    ASSUME RankTypes, RankTypes', RankFacts, rankKind = "priority", NEW t \in Submitters,
           \/ \E u \in Units, mode \in Ranks!Modes : Ranks!Push(t, u, mode)
           \/ Ranks!Enqueue(t) \/ Ranks!EnqueueAgain(t)
    PROVE  RankKept
<1>0. t \in RankThreads
  BY DEF RankThreads
<1>1. ASSUME NEW S \in SUBSET queue, Ranks!Insert(t, S), Ranks!MutexFree, watching' = watching,
             t \notin Underway
      PROVE  RankKept
  <2>1. Cardinality(queue') <= Cardinality(queue) + 1
    BY <1>1, QueueCounts DEF Ranks!Insert
  <2>2. \E to : to = "tells of a unit" /\ rankAt' = Ranks!Moved(t, to)
    BY <1>1 DEF Ranks!Insert
  <2> QED
    BY <1>0, <1>1, <2>1, <2>2, NobodyDozes, OneMoves
<1>2. ASSUME NEW to, rankAt' = Ranks!Moved(t, to), to \in {"idle", "pushes", "dozes to push"},
             queue' = queue, watching' = watching, t \notin Underway
      PROVE  RankKept
  <2>1. Cardinality(queue') <= Cardinality(queue)
    BY <1>2, QueueCounts
  <2>2. Dozers = {} \/ queue' = {}
    BY <1>2 DEF RankFacts
  <2>3. /\ to # "asleep to pop" /\ to # "asleep for a time" /\ to # "asleep for units"
        /\ to # "dozes in a batch" /\ to # "asleep in a batch" /\ to # "goes on"
        /\ to # "dozes to pop" /\ to # "dozes for a time" /\ to # "dozes for units"
    BY <1>2
  <2> QED
    BY <1>0, <1>2, <2>1, <2>2, <2>3, OneMoves
<1>3. watching' = watching /\ t \notin Underway
  <2>1. watching' = watching
    BY DEF Ranks!Push, Ranks!Enqueue, Ranks!EnqueueAgain, Ranks!Steady
  <2>2. rankAt[t] = "idle" \/ rankAt[t] = "pushes" \/ rankAt[t] = "pushes again"
    BY DEF Ranks!Push, Ranks!Enqueue, Ranks!EnqueueAgain
  <2> QED
    BY <2>1, <2>2, MembersOfRanks DEF AtRanksAre
<1>4. \/ Ranks!MutexFree /\ \E S \in SUBSET queue : Ranks!Insert(t, S)
      \/ queue' = queue /\ \E to \in {"idle", "pushes", "dozes to push"} : rankAt' = Ranks!Moved(t, to)
  <2>1. CASE \E u \in Units, mode \in Ranks!Modes : Ranks!Push(t, u, mode)
    BY <2>1 DEF Ranks!Push
  <2>2. CASE Ranks!Enqueue(t)
    BY <2>2 DEF Ranks!Enqueue, Ranks!Refuse
  <2>3. CASE Ranks!EnqueueAgain(t)
    BY <2>3 DEF Ranks!EnqueueAgain, Ranks!Refuse
  <2> QED
    BY <2>1, <2>2, <2>3
<1> QED
  BY <1>1, <1>2, <1>3, <1>4

(* What a fetcher takes is in the queue.                                   *)
LEMMA FirstIsAMember == RankTypes /\ queue # {} => Ranks!First \in queue
  BY LeastIsAMember, GreatestIsAMember DEF RankTypes, Ranks!First

LEMMA WithoutFirst ==
    ASSUME RankTypes, RankTypes', queue # {}, queue' = queue \ {Ranks!First}
    PROVE  Cardinality(queue') <= Cardinality(queue) - 1
<1>1. Cardinality(queue) \in Nat /\ Cardinality(queue') = Cardinality(queue) - 1
  BY FirstIsAMember, QueueCounts
<1>2. Cardinality(queue') \in Nat
  BY FS_CardinalityType DEF RankTypes
<1> QED
  BY <1>1, <1>2

LEMMA TakeFirstKeeps ==
    ASSUME RankTypes, RankTypes', RankFacts, rankKind = "priority", NEW t \in Fetchers,
           Ranks!TakeFirst(t, "tells of room"), queue # {}, Ranks!MutexFree, watching' = watching
    PROVE  RankKept
<1>1. Cardinality(queue') <= Cardinality(queue) - 1
  <2>1. queue' = queue \ {Ranks!First}
    BY DEF Ranks!TakeFirst
  <2> QED
    BY <2>1, WithoutFirst
<1>2. \E to : to = "tells of room" /\ rankAt' = Ranks!Moved(t, to)
  BY DEF Ranks!TakeFirst
<1> QED
  BY <1>1, <1>2, NobodyDozes, OneMoves DEF RankThreads

LEMMA NothingToTakeKeeps ==
    ASSUME RankTypes, RankTypes', RankFacts, rankKind = "priority", NEW t \in Fetchers, NEW to,
           to = "idle" \/ to = "dozes to pop" \/ to = "dozes for a time" \/ to = "dozes for units",
           Ranks!Moves(t, to), queue = {}, watching' = watching
    PROVE  RankKept
<1>1. rankAt' = Ranks!Moved(t, to) /\ queue' = {}
  BY DEF Ranks!Moves
<1> QED
  BY <1>1, OneMoves DEF RankThreads

LEMMA PopBatchKeeps ==
    ASSUME RankTypes, RankTypes', RankFacts, rankKind = "priority", NEW t \in Fetchers,
           NEW n \in Batches, Ranks!PopBatch(t, n)
    PROVE  RankKept
<1>1. Ranks!MutexFree /\ watching' = watching
  BY DEF Ranks!PopBatch, Ranks!Steady
<1>2. ASSUME NEW k, k # 0, Ranks!TakeLeast(t, k) PROVE RankKept
  <2>1. PICK S \in SUBSET queue : Cardinality(S) = k /\ queue' = queue \ S
    BY <1>2, SameCardinality DEF Ranks!TakeLeast
  <2>2. S # {}
    BY <1>2, <2>1, FS_EmptySet
  <2>3. Cardinality(queue') <= Cardinality(queue) - 1
    <3>1. PICK x \in S : TRUE
      BY <2>2
    <3>2. x \in queue /\ queue \ S \subseteq queue \ {x} /\ IsFiniteSet(queue \ {x})
      BY <2>1, QueueCounts
    <3>3. /\ Cardinality(queue \ {x}) = Cardinality(queue) - 1
          /\ Cardinality(queue \ S) <= Cardinality(queue \ {x})
      BY <3>2, QueueCounts, FS_Subset
    <3>4. Cardinality(queue) \in Nat /\ Cardinality(queue') \in Nat
      BY FS_CardinalityType DEF RankTypes
    <3> QED
      BY <2>1, <3>3, <3>4
  <2>4. \E to : (to = "tells of room" \/ to = "idle") /\ rankAt' = Ranks!Moved(t, to)
    BY <1>2 DEF Ranks!TakeLeast
  <2> QED
    BY <1>1, <2>3, <2>4, NobodyDozes, OneMoves DEF RankThreads
<1>3. CASE queue = {} /\ (Ranks!Moves(t, "idle") \/ Ranks!Moves(t, "dozes for units"))
  BY <1>1, <1>3, NothingToTakeKeeps
<1>4. queue # {} => Ranks!Smaller(n, Ranks!Cardinality(queue)) # 0
  <2> SUFFICES ASSUME queue # {} PROVE Ranks!Smaller(n, Cardinality(queue)) # 0
    BY SameCardinality
  <2>1. n # 0 /\ Cardinality(queue) # 0
    BY QueueCounts, BatchAssumption
  <2> QED
    BY <2>1 DEF Ranks!Smaller
<1>5. \/ queue # {} /\ Ranks!TakeLeast(t, Ranks!Smaller(n, Ranks!Cardinality(queue)))
      \/ queue = {} /\ (Ranks!Moves(t, "idle") \/ Ranks!Moves(t, "dozes for units"))
  BY DEF Ranks!PopBatch
<1> QED
  BY <1>2, <1>3, <1>4, <1>5

LEMMA FetchersKeep ==
    ASSUME RankTypes, RankTypes', RankFacts, rankKind = "priority", NEW t \in Fetchers,
           \/ Ranks!PopByPriority(t) \/ Ranks!PopDeferred(t) \/ Ranks!PopDeferredAgain(t)
           \/ Ranks!TryPop(t) \/ Ranks!TryPopFor(t) \/ Ranks!TimedOut(t) \/ Ranks!TurnOfBatch(t)
           \/ \E n \in Batches : Ranks!PopBatch(t, n) \/ Ranks!BeginBatch(t, n)
    PROVE  RankKept
<1>1. CASE Ranks!PopByPriority(t)
  <2>1. Ranks!MutexFree /\ watching' = watching
    BY <1>1 DEF Ranks!PopByPriority, Ranks!Steady
  <2>2. \/ queue # {} /\ Ranks!TakeFirst(t, "tells of room")
        \/ queue = {} /\ Ranks!Moves(t, "idle")
        \/ queue = {} /\ Ranks!Moves(t, "dozes to pop")
    BY <1>1 DEF Ranks!PopByPriority
  <2> QED
    BY <2>1, <2>2, TakeFirstKeeps, NothingToTakeKeeps
<1>2. CASE Ranks!TryPop(t)
  BY <1>2, TakeFirstKeeps DEF Ranks!TryPop, Ranks!Steady
<1>3. CASE Ranks!TryPopFor(t)
  <2>1. \/ queue # {} /\ Ranks!TakeFirst(t, "tells of room")
        \/ queue = {} /\ Ranks!Moves(t, "idle")
        \/ queue = {} /\ Ranks!Moves(t, "dozes for a time")
    BY <1>3 DEF Ranks!TryPopFor
  <2>2. Ranks!MutexFree /\ watching' = watching
    BY <1>3 DEF Ranks!TryPopFor, Ranks!Steady
  <2> QED
    BY <2>1, <2>2, TakeFirstKeeps, NothingToTakeKeeps
<1>4. CASE Ranks!TimedOut(t)
  <2>1. \/ queue # {} /\ Ranks!TakeFirst(t, "tells of room")
        \/ queue = {} /\ Ranks!Moves(t, "idle")
    BY <1>4 DEF Ranks!TimedOut
  <2>2. Ranks!MutexFree /\ watching' = watching
    BY <1>4 DEF Ranks!TimedOut, Ranks!Steady
  <2> QED
    BY <2>1, <2>2, TakeFirstKeeps, NothingToTakeKeeps
<1>5. ~Ranks!TurnOfBatch(t)
  <2>1. t \in RankThreads /\ rankAt[t] # "goes on"
    BY MembersOfRanks DEF RankFacts, AtRanksAre, RankThreads
  <2> QED
    BY <2>1 DEF Ranks!TurnOfBatch
<1>6. ~Ranks!PopDeferred(t) /\ ~Ranks!PopDeferredAgain(t) /\ \A n \in Batches : ~Ranks!BeginBatch(t, n)
  BY DEF Ranks!PopDeferred, Ranks!PopDeferredAgain, Ranks!BeginBatch
<1> QED
  BY <1>1, <1>2, <1>3, <1>4, <1>5, <1>6, PopBatchKeeps

(* notify_one for a unit: the one who tells of it leaves the way, and one  *)
(* of those who sleep takes it, if there is one.                           *)
LEMMA TellOfUnitKeeps ==
    ASSUME RankTypes, RankFacts, rankKind = "priority", NEW t \in RankThreads, Ranks!TellOfUnit(t)
    PROVE  RankKept
<1>0. AtRanksAre /\ AtRanksAre'
  BY MembersOfRanks
<1>1. /\ rankAt[t] = "tells of a unit" /\ queue' = queue /\ watching' = watching
      /\ Ranks!NotifyOne(Ranks!ForUnits, Ranks!Moved(t, "idle"))
  BY DEF Ranks!TellOfUnit, Ranks!Steady
<1>2. CASE /\ {s \in Ranks!Threads : rankAt[s] \in Ranks!ForUnits} = {}
           /\ rankAt' = Ranks!Moved(t, "idle")
  <2>1. rankAt'[t] = "idle" /\ \A s \in RankThreads \ {t} : rankAt'[s] = rankAt[s]
    BY <1>2, MovedAtRanks
  <2>2. UnitSleepers = {}
    BY <1>0, <1>2, RankThreadsAre DEF AtRanksAre, Ranks!ForUnits
  <2>3. UnitSleepers' = {} /\ InBatch' \subseteq InBatch /\ Dozers' \subseteq Dozers
    BY <1>0, <2>1, <2>2 DEF AtRanksAre
  <2>4. UnitsKept
    BY <2>3 DEF UnitsKept, Keeps
  <2> QED
    BY <1>1, <2>3, <2>4 DEF RankKept, RankFacts, NobodyInBatch
<1>3. CASE \E s \in {s \in Ranks!Threads : rankAt[s] \in Ranks!ForUnits} :
             rankAt' = [Ranks!Moved(t, "idle") EXCEPT ![s] = Ranks!Woken(rankAt[s])]
  <2>1. PICK s \in RankThreads : /\ rankAt[s] \in Ranks!ForUnits
             /\ rankAt' = [Ranks!Moved(t, "idle") EXCEPT ![s] = Ranks!Woken(rankAt[s])]
    BY <1>3, RankThreadsAre
  <2>2. \/ rankAt[s] = "asleep to pop" \/ rankAt[s] = "asleep for a time"
        \/ rankAt[s] = "asleep for units"
    BY <1>0, <2>1 DEF Ranks!ForUnits, AtRanksAre, RankFacts
  <2>3. /\ s # t /\ rankAt'[t] = "idle"
        /\ \/ rankAt'[s] = "pops again" \/ rankAt'[s] = "tries again"
           \/ rankAt'[s] = "collects again"
        /\ \A r \in RankThreads \ {s, t} : rankAt'[r] = rankAt[r]
    BY <1>1, <2>1, <2>2 DEF Ranks!Moved, Ranks!Woken, RankTypes
  <2>4. /\ UnitSleepers' \subseteq UnitSleepers /\ t \in Underway /\ s \in Underway' \ Underway
        /\ Underway \ {t} \subseteq Underway' /\ InBatch' \subseteq InBatch /\ Dozers' \subseteq Dozers
    BY <1>0, <1>1, <2>2, <2>3 DEF AtRanksAre
  <2>5. UnitsKept
    <3>1. Cardinality(queue') <= Cardinality(queue)
      BY <1>1, QueueCounts
    <3> QED
      BY <2>4, <3>1 DEF UnitsKept, Keeps
  <2> QED
    BY <1>1, <2>4, <2>5 DEF RankKept, RankFacts, NobodyInBatch
<1> QED
  BY <1>1, <1>2, <1>3 DEF Ranks!NotifyOne

(* A step that leaves those who sleep for a unit, or are on their way,     *)
(* where they are.                                                         *)
LEMMA NobodyStirs ==
    ASSUME RankTypes, RankFacts, rankKind = "priority", queue' = queue, watching' = watching,
           UnitSleepers' = UnitSleepers, Underway' = Underway,
           InBatch' = InBatch, Dozers' = Dozers
    PROVE  RankKept
<1>1. Cardinality(queue') <= Cardinality(queue)
  BY QueueCounts
<1>2. UnitsKept
  BY <1>1, NoMoreQueued
<1> QED
  BY <1>2 DEF RankKept, RankFacts, NobodyInBatch

LEMMA TellOfRoomKeeps ==
    ASSUME RankTypes, RankFacts, rankKind = "priority", NEW t \in RankThreads, Ranks!TellOfRoom(t)
    PROVE  RankKept
<1>0. AtRanksAre /\ AtRanksAre'
  BY MembersOfRanks
<1>1. /\ rankAt[t] = "tells of room" /\ queue' = queue /\ watching' = watching
      /\ Ranks!NotifyOne(Ranks!ForRoom, Ranks!Moved(t, "idle"))
  BY DEF Ranks!TellOfRoom, Ranks!Steady
<1>2. CASE rankAt' = Ranks!Moved(t, "idle")
  <2>1. rankAt'[t] = "idle" /\ \A s \in RankThreads \ {t} : rankAt'[s] = rankAt[s]
    BY <1>2, MovedAtRanks
  <2>2. /\ UnitSleepers' = UnitSleepers /\ Underway' = Underway
        /\ InBatch' = InBatch /\ Dozers' = Dozers
    BY <1>0, <1>1, <2>1 DEF AtRanksAre
  <2> QED
    BY <1>1, <2>2, NobodyStirs
<1>3. CASE \E s \in {s \in Ranks!Threads : rankAt[s] \in Ranks!ForRoom} :
             rankAt' = [Ranks!Moved(t, "idle") EXCEPT ![s] = Ranks!Woken(rankAt[s])]
  <2>1. PICK s \in RankThreads : /\ rankAt[s] = "asleep to push"
             /\ rankAt' = [Ranks!Moved(t, "idle") EXCEPT ![s] = Ranks!Woken(rankAt[s])]
    BY <1>3, RankThreadsAre DEF Ranks!ForRoom
  <2>2. /\ s # t /\ rankAt'[t] = "idle" /\ rankAt'[s] = "pushes again"
        /\ \A r \in RankThreads \ {s, t} : rankAt'[r] = rankAt[r]
    BY <1>1, <2>1 DEF Ranks!Moved, Ranks!Woken, RankTypes
  <2>3. /\ UnitSleepers' = UnitSleepers /\ Underway' = Underway
        /\ InBatch' = InBatch /\ Dozers' = Dozers
    BY <1>0, <1>1, <2>1, <2>2 DEF AtRanksAre
  <2> QED
    BY <1>1, <2>3, NobodyStirs
<1> QED
  BY <1>1, <1>2, <1>3 DEF Ranks!NotifyOne

(* Whoever falls asleep for a unit has seen that there is none.            *)
LEMMA FallAsleepKeeps ==
    ASSUME RankTypes, RankFacts, rankKind = "priority", NEW t \in RankThreads, Ranks!FallAsleep(t)
    PROVE  RankKept
<1>0. AtRanksAre /\ AtRanksAre'
  BY MembersOfRanks
<1>1. queue' = queue /\ watching' = watching
  BY DEF Ranks!FallAsleep, Ranks!Steady
<1>2. \/ rankAt[t] = "dozes to pop" \/ rankAt[t] = "dozes for a time"
      \/ rankAt[t] = "dozes for units" \/ rankAt[t] = "dozes to push"
  BY <1>0 DEF Ranks!FallAsleep, Ranks!Dozes, AtRanksAre, RankFacts
<1>3. /\ rankAt'[t] = Ranks!Asleep(rankAt[t])
      /\ \A s \in RankThreads \ {t} : rankAt'[s] = rankAt[s]
  BY MovedAtRanks DEF Ranks!FallAsleep
<1>4. CASE rankAt[t] = "dozes to push"
  <2>1. rankAt'[t] = "asleep to push"
    BY <1>3, <1>4 DEF Ranks!Asleep
  <2>2. /\ UnitSleepers' = UnitSleepers /\ Underway' = Underway
        /\ InBatch' = InBatch /\ Dozers' = Dozers
    BY <1>0, <1>3, <1>4, <2>1 DEF AtRanksAre
  <2> QED
    BY <1>1, <2>2, NobodyStirs
<1>5. CASE \/ rankAt[t] = "dozes to pop" \/ rankAt[t] = "dozes for a time"
           \/ rankAt[t] = "dozes for units"
  <2>1. queue' = {}
    BY <1>0, <1>1, <1>5 DEF AtRanksAre, RankFacts
  <2>2. \/ rankAt'[t] = "asleep to pop" \/ rankAt'[t] = "asleep for a time"
        \/ rankAt'[t] = "asleep for units"
    BY <1>3, <1>5 DEF Ranks!Asleep
  <2>3. InBatch' = InBatch
    BY <1>0, <1>3, <1>5, <2>2 DEF AtRanksAre
  <2> QED
    BY <1>1, <2>1, <2>3, NothingQueued DEF RankKept, RankFacts, NobodyInBatch
<1> QED
  BY <1>2, <1>4, <1>5

LEMMA SpuriousAtRanksKeeps ==
    ASSUME RankTypes, RankTypes', RankFacts, rankKind = "priority", NEW t \in RankThreads,
           Ranks!Spurious(t)
    PROVE  RankKept
<1>0. AtRanksAre /\ AtRanksAre'
  BY MembersOfRanks
<1>1. queue' = queue /\ watching' = watching
  BY DEF Ranks!Spurious, Ranks!Steady
<1>2. \/ rankAt[t] = "asleep to pop" \/ rankAt[t] = "asleep for a time"
      \/ rankAt[t] = "asleep for units" \/ rankAt[t] = "asleep to push"
  BY <1>0 DEF Ranks!Spurious, Ranks!ForUnits, Ranks!ForRoom, AtRanksAre, RankFacts
<1>3. /\ rankAt'[t] = Ranks!Woken(rankAt[t])
      /\ \A s \in RankThreads \ {t} : rankAt'[s] = rankAt[s]
  BY MovedAtRanks DEF Ranks!Spurious
<1>4. \/ rankAt'[t] = "pops again" \/ rankAt'[t] = "tries again"
      \/ rankAt'[t] = "collects again" \/ rankAt'[t] = "pushes again"
  BY <1>2, <1>3 DEF Ranks!Woken
<1>5. /\ UnitSleepers' \subseteq UnitSleepers /\ Underway \subseteq Underway'
      /\ InBatch' = InBatch /\ Dozers' = Dozers
  BY <1>0, <1>2, <1>3, <1>4 DEF AtRanksAre
<1>6. Cardinality(queue') <= Cardinality(queue)
  BY <1>1, QueueCounts
<1>7. UnitsKept
  BY <1>5, <1>6, NoMoreQueued
<1> QED
  BY <1>1, <1>5, <1>7 DEF RankKept, RankFacts, NobodyInBatch

(* notify_all leaves nobody asleep for a unit; clear leaves no unit.       *)
LEMMA OthersKeep ==
    ASSUME RankTypes, RankFacts, rankKind = "priority",
           Ranks!Close \/ Ranks!CloseTells \/ Ranks!Clear \/ Ranks!Background \/ Ranks!Tick
    PROVE  RankKept
<1>0. AtRanksAre /\ AtRanksAre'
  BY MembersOfRanks
<1>1. rankAt' = rankAt => /\ UnitSleepers' = UnitSleepers /\ Underway' = Underway
                          /\ InBatch' = InBatch /\ Dozers' = Dozers
  BY <1>0 DEF AtRanksAre
<1>2. CASE Ranks!Close
  BY <1>1, <1>2, NobodyStirs DEF Ranks!Close
<1>3. CASE Ranks!CloseTells
  <2>1. queue' = queue /\ watching' = watching
    BY <1>3 DEF Ranks!CloseTells
  <2>2. CASE Ranks!NotifyAll(Ranks!ForUnits)
    <3>1. \A s \in RankThreads : rankAt'[s] =
            IF rankAt[s] \in {"asleep to pop", "asleep for a time", "asleep for units"}
              THEN Ranks!Woken(rankAt[s]) ELSE rankAt[s]
      BY <1>0, <2>2, RankThreadsAre DEF Ranks!NotifyAll, Ranks!ForUnits, AtRanksAre, RankFacts
    <3>2. /\ Ranks!Woken("asleep to pop") = "pops again"
          /\ Ranks!Woken("asleep for a time") = "tries again"
          /\ Ranks!Woken("asleep for units") = "collects again"
      BY DEF Ranks!Woken
    <3>3. UnitSleepers' = {} /\ InBatch' = InBatch /\ Dozers' = Dozers
      BY <1>0, <3>1, <3>2 DEF AtRanksAre
    <3>4. UnitsKept
      BY <3>3 DEF UnitsKept, Keeps
    <3> QED
      BY <2>1, <3>3, <3>4 DEF RankKept, RankFacts, NobodyInBatch
  <2>3. CASE Ranks!NotifyAll(Ranks!ForRoom)
    <3>1. \A s \in RankThreads : rankAt'[s] =
            IF rankAt[s] = "asleep to push" THEN Ranks!Woken(rankAt[s]) ELSE rankAt[s]
      BY <2>3, RankThreadsAre DEF Ranks!NotifyAll, Ranks!ForRoom
    <3>2. Ranks!Woken("asleep to push") = "pushes again"
      BY DEF Ranks!Woken
    <3>3. /\ UnitSleepers' = UnitSleepers /\ Underway' = Underway
          /\ InBatch' = InBatch /\ Dozers' = Dozers
      BY <1>0, <3>1, <3>2 DEF AtRanksAre
    <3> QED
      BY <2>1, <3>3, NobodyStirs
  <2> QED
    BY <1>3, <2>2, <2>3 DEF Ranks!CloseTells
<1>4. CASE Ranks!Clear
  <2>1. queue' = {} /\ rankAt' = rankAt /\ watching' = watching
    BY <1>4 DEF Ranks!Clear
  <2> QED
    BY <1>1, <2>1, NothingQueued DEF RankKept, RankFacts, NobodyInBatch
<1>5. ~Ranks!Background /\ ~Ranks!Tick
  BY DEF Ranks!Background, Ranks!Tick, RankFacts
<1> QED
  BY <1>2, <1>3, <1>4, <1>5

LEMMA RankStepKept ==
    ASSUME RankTypes, RankTypes', RankFacts, rankKind = "priority", Ranks!Next
    PROVE  RankKept
<1>1. ASSUME NEW t \in RankThreads,
             Ranks!TellOfUnit(t) \/ Ranks!TellOfRoom(t) \/ Ranks!FallAsleep(t) \/ Ranks!Spurious(t)
      PROVE  RankKept
  BY <1>1, TellOfUnitKeeps, TellOfRoomKeeps, FallAsleepKeeps, SpuriousAtRanksKeeps
<1> QED
  BY <1>1, SubmittersKeep, FetchersKeep, OthersKeep, RankThreadsAre DEF Ranks!Next

LEMMA KindStays == Ranks!Next => rankKind' = rankKind
  BY DEF Ranks!Next, Ranks!Steady, Ranks!Push, Ranks!Enqueue, Ranks!EnqueueAgain,
         Ranks!TellOfUnit, Ranks!TellOfRoom, Ranks!FallAsleep, Ranks!Spurious,
         Ranks!PopByPriority, Ranks!PopDeferred, Ranks!PopDeferredAgain, Ranks!TryPop,
         Ranks!TryPopFor, Ranks!TimedOut, Ranks!TurnOfBatch, Ranks!PopBatch, Ranks!TakeLeast,
         Ranks!BeginBatch, Ranks!FollowEnd, Ranks!Close, Ranks!CloseTells, Ranks!Clear, Ranks!Background, Ranks!Tick

(* The invariant of the ordered task queues.                               *)
LEMMA RankInvStep == RankInv /\ [Ranks!Next]_ranks => RankInv'
<1> SUFFICES ASSUME RankInv, [Ranks!Next]_ranks PROVE RankInv'
  OBVIOUS
<1>1. CASE UNCHANGED ranks
  BY <1>1 DEF ranks, RankInv, RankTypes, RankFacts, UnitSleepers, Underway, InBatch, Dozers,
              Ranks!Sleepers, Ranks!SleepForUnits, Ranks!Underway
<1>2. CASE Ranks!Next
  <2>1. RankTypes /\ RankTypes'
    BY <1>2, RanksTyped DEF RankInv
  <2>2. SUFFICES ASSUME rankKind' = "priority"
        PROVE  /\ ~watching' /\ InBatch' = {}
               /\ Dozers' # {} => queue' = {}
               /\ Covered(UnitSleepers', Cardinality(queue'), Underway')
    BY <2>1 DEF RankInv, RankFacts
  <2>3. rankKind = "priority" /\ RankFacts
    BY <1>2, <2>2, KindStays DEF RankInv
  <2>4. RankKept
    BY <1>2, <2>1, <2>3, RankStepKept
  <2>5. Covered(UnitSleepers', Cardinality(queue'), Underway')
    <3>1. Cardinality(queue) \in Int /\ Cardinality(queue') \in Int
      BY <2>1, FS_CardinalityType DEF RankTypes
    <3>2. Covered(UnitSleepers, Cardinality(queue), Underway)
      BY <2>3 DEF RankFacts
    <3>3. UnitsKept
      BY <2>4 DEF RankKept
    <3> QED
      BY <3>1, <3>2, <3>3, RanksAreFinite, KeepsCovered DEF UnitsKept
  <2> QED
    BY <2>3, <2>4, <2>5 DEF RankKept, NobodyInBatch, RankFacts
<1> QED
  BY <1>1, <1>2

LEMMA RankInvHolds == Ranks!Init => RankInv
<1> SUFFICES ASSUME Ranks!Init PROVE RankInv
  OBVIOUS
<1>1. RankTypes
  <2>1. \A t \in RankThreads : unit[t].u \in Nat
    BY RankThreadsAre DEF Ranks!Init, Ranks!NoUnit
  <2> QED
    BY <2>1, RankThreadsAre, FS_EmptySet DEF Ranks!Init, RankTypes
<1>2. \A t \in RankThreads : rankAt[t] = "idle"
  BY RankThreadsAre DEF Ranks!Init
<1>3. UnitSleepers = {} /\ InBatch = {} /\ Dozers = {}
  BY <1>2, MembersOfRanks DEF AtRanksAre
<1>4. rankKind = "priority" => ~watching
  BY DEF Ranks!Init
<1> QED
  BY <1>1, <1>3, <1>4 DEF RankInv, RankFacts, Covered

LEMMA RankInvShows == RankInv => Ranks!NoUnitSleptThrough
  BY SameCardinality DEF RankInv, RankFacts, Covered, UnitSleepers, Underway, Ranks!NoUnitSleptThrough

-----------------------------------------------------------------------------
(* The ring.  Who is where, and the slots behind its end.                  *)
AtPlace(at, what) == {t \in RingThreads : at[t] = what}
NumberAt(at, what) == Cardinality(AtPlace(at, what))
Wrapped(x) == IF x < RingLength THEN x ELSE x - RingLength

LEMMA WrappedIs ==
    ASSUME NEW x \in Int, 0 <= x, x < 2 * RingLength
    PROVE  x % RingLength = Wrapped(x) /\ Wrapped(x) \in 0 .. RingLength - 1
  BY DEF Wrapped

(* The elements stand in the slots from consume on.  Each slot has a free  *)
(* permit, or a thread that has it and may store, or an element, or a      *)
(* thread that has taken one; each element a permit, or a thread that has  *)
(* stored it, or one that may take it.  Or one thread clears, alone.       *)
RingTypes ==
    /\ slot \in [0 .. RingLength - 1 -> RingValues]
    /\ consume \in 0 .. RingLength - 1 /\ cnt \in 0 .. RingLength
    /\ free \in Nat /\ usedSlots \in Nat
    /\ DOMAIN ringAt = RingThreads
    /\ stored \in Seq(RingValues) /\ Len(stored) = cnt
RingOrder ==
    /\ produce = Wrapped(consume + cnt)
    /\ \A i \in 1 .. cnt : stored[i] = slot[Wrapped(consume + i - 1)]
(* Where threads are, by name: idle, with a permit, with their work done.  *)
Idle == "idle"
BeforeStore == "may store"
AfterStore == "has stored"
BeforeTake == "may take"
AfterTake == "has taken"
MayStore == NumberAt(ringAt, BeforeStore)
HaveStored == NumberAt(ringAt, AfterStore)
MayTake == NumberAt(ringAt, BeforeTake)
HaveTaken == NumberAt(ringAt, AfterTake)
Balanced ==
    /\ free + MayStore + cnt + HaveTaken = RingLength
    /\ usedSlots + HaveStored + MayTake = cnt
Permitted == Balanced /\ ~Ring!Clearing
ClearsAlone(t) ==
    /\ \A u \in RingThreads \ {t} : ringAt[u] = "idle"
    /\ produce = 0 /\ consume = 0 /\ cnt = 0
    /\ \/ ringAt[t] = "has cleared" /\ free = 0
       \/ ringAt[t] = "drains" /\ free = RingLength
RingFacts ==
    /\ RingTypes /\ RingOrder
    /\ Permitted \/ \E t \in RingThreads : ClearsAlone(t)
RingInv == ~spoiled => RingFacts

LEMMA NumbersAreFinite ==
    ASSUME NEW at, NEW what
    PROVE  IsFiniteSet(AtPlace(at, what)) /\ NumberAt(at, what) \in Nat
<1>1. AtPlace(at, what) \subseteq RingThreads
  BY DEF AtPlace
<1> QED
  BY <1>1, FS_Subset, FS_CardinalityType DEF NumberAt

(* One thread goes from one place to another.                              *)
LEMMA RingMoves ==
    ASSUME DOMAIN ringAt = RingThreads, NEW t \in RingThreads, NEW from, NEW to, from # to,
           Ring!Goes(t, from, to)
    PROVE  /\ NumberAt(ringAt', from) = NumberAt(ringAt, from) - 1 /\ NumberAt(ringAt', to) = NumberAt(ringAt, to) + 1
           /\ NumberAt(ringAt, from) >= 1
           /\ \A what : what # from /\ what # to => NumberAt(ringAt', what) = NumberAt(ringAt, what)
           /\ DOMAIN ringAt' = RingThreads /\ ringAt'[t] = to
           /\ \A u \in RingThreads \ {t} : ringAt'[u] = ringAt[u]
<1>0. /\ DOMAIN ringAt' = RingThreads /\ ringAt[t] = from /\ ringAt'[t] = to
      /\ \A u \in RingThreads \ {t} : ringAt'[u] = ringAt[u]
  BY DEF Ring!Goes
<1>1. /\ AtPlace(ringAt', from) = AtPlace(ringAt, from) \ {t} /\ t \in AtPlace(ringAt, from)
      /\ AtPlace(ringAt', to) = AtPlace(ringAt, to) \cup {t} /\ t \notin AtPlace(ringAt, to)
  BY <1>0 DEF AtPlace
<1>3. \A what : IsFiniteSet(AtPlace(ringAt, what))
  BY NumbersAreFinite
<1>4. NumberAt(ringAt', from) = NumberAt(ringAt, from) - 1
  BY <1>1, <1>3, FS_RemoveElement DEF NumberAt
<1>5. NumberAt(ringAt', to) = NumberAt(ringAt, to) + 1
  BY <1>1, <1>3, FS_AddElement DEF NumberAt
<1>6. ASSUME NEW what, what # from, what # to PROVE NumberAt(ringAt', what) = NumberAt(ringAt, what)
  BY <1>0, <1>6 DEF NumberAt, AtPlace
<1>7. NumberAt(ringAt, from) >= 1
  <2>1. NumberAt(ringAt', from) \in Nat /\ NumberAt(ringAt, from) \in Nat
    BY NumbersAreFinite
  <2> QED
    BY <1>4, <2>1
<1> QED
  BY <1>0, <1>4, <1>5, <1>6, <1>7

LEMMA CountsAreNumbers ==
    /\ MayStore \in Nat /\ HaveStored \in Nat /\ MayTake \in Nat /\ HaveTaken \in Nat
    /\ MayStore' \in Nat /\ HaveStored' \in Nat /\ MayTake' \in Nat /\ HaveTaken' \in Nat
  BY NumbersAreFinite DEF MayStore, HaveStored, MayTake, HaveTaken

LEMMA PlacesDiffer ==
    /\ Idle # BeforeStore /\ Idle # AfterStore /\ Idle # BeforeTake /\ Idle # AfterTake
    /\ BeforeStore # AfterStore /\ BeforeStore # BeforeTake /\ BeforeStore # AfterTake
    /\ AfterStore # BeforeTake /\ AfterStore # AfterTake /\ BeforeTake # AfterTake
  BY DEF Idle, BeforeStore, AfterStore, BeforeTake, AfterTake

LEMMA NobodyClearsNext ==
    ASSUME ~Ring!Clearing, NEW t \in RingThreads, DOMAIN ringAt = RingThreads, NEW from,
           NEW to \in {Idle, BeforeStore, AfterStore, BeforeTake, AfterTake},
           Ring!Goes(t, from, to)
    PROVE  ~Ring!Clearing' /\ DOMAIN ringAt' = RingThreads
<1>1. to # "has cleared" /\ to # "drains"
  BY DEF Idle, BeforeStore, AfterStore, BeforeTake, AfterTake
<1> QED
  BY <1>1 DEF Ring!Clearing, Ring!Goes

LEMMA GoesToStore ==
    ASSUME DOMAIN ringAt = RingThreads, ~Ring!Clearing, NEW t \in RingThreads,
           Ring!Goes(t, Idle, BeforeStore)
    PROVE  /\ MayStore' = MayStore + 1 /\ HaveStored' = HaveStored
           /\ MayTake' = MayTake /\ HaveTaken' = HaveTaken
           /\ DOMAIN ringAt' = RingThreads /\ ~Ring!Clearing'
  BY PlacesDiffer, RingMoves, NobodyClearsNext DEF MayStore, HaveStored, MayTake, HaveTaken

LEMMA GoesFromStore ==
    ASSUME DOMAIN ringAt = RingThreads, ~Ring!Clearing, NEW t \in RingThreads,
           Ring!Goes(t, BeforeStore, AfterStore)
    PROVE  /\ MayStore' = MayStore - 1 /\ MayStore >= 1 /\ HaveStored' = HaveStored + 1
           /\ MayTake' = MayTake /\ HaveTaken' = HaveTaken
           /\ DOMAIN ringAt' = RingThreads /\ ~Ring!Clearing'
  BY PlacesDiffer, RingMoves, NobodyClearsNext DEF MayStore, HaveStored, MayTake, HaveTaken

LEMMA HasStored ==
    ASSUME DOMAIN ringAt = RingThreads, ~Ring!Clearing, NEW t \in RingThreads,
           Ring!Goes(t, AfterStore, Idle)
    PROVE  /\ MayStore' = MayStore /\ HaveStored' = HaveStored - 1 /\ HaveStored >= 1
           /\ MayTake' = MayTake /\ HaveTaken' = HaveTaken
           /\ DOMAIN ringAt' = RingThreads /\ ~Ring!Clearing'
  BY PlacesDiffer, RingMoves, NobodyClearsNext DEF MayStore, HaveStored, MayTake, HaveTaken

LEMMA GoesToTake ==
    ASSUME DOMAIN ringAt = RingThreads, ~Ring!Clearing, NEW t \in RingThreads,
           Ring!Goes(t, Idle, BeforeTake)
    PROVE  /\ MayStore' = MayStore /\ HaveStored' = HaveStored
           /\ MayTake' = MayTake + 1 /\ HaveTaken' = HaveTaken
           /\ DOMAIN ringAt' = RingThreads /\ ~Ring!Clearing'
  BY PlacesDiffer, RingMoves, NobodyClearsNext DEF MayStore, HaveStored, MayTake, HaveTaken

LEMMA GoesFromTake ==
    ASSUME DOMAIN ringAt = RingThreads, ~Ring!Clearing, NEW t \in RingThreads,
           Ring!Goes(t, BeforeTake, AfterTake)
    PROVE  /\ MayStore' = MayStore /\ HaveStored' = HaveStored
           /\ MayTake' = MayTake - 1 /\ MayTake >= 1 /\ HaveTaken' = HaveTaken + 1
           /\ DOMAIN ringAt' = RingThreads /\ ~Ring!Clearing'
  BY PlacesDiffer, RingMoves, NobodyClearsNext DEF MayStore, HaveStored, MayTake, HaveTaken

LEMMA HasTaken ==
    ASSUME DOMAIN ringAt = RingThreads, ~Ring!Clearing, NEW t \in RingThreads,
           Ring!Goes(t, AfterTake, Idle)
    PROVE  /\ MayStore' = MayStore /\ HaveStored' = HaveStored
           /\ MayTake' = MayTake /\ HaveTaken' = HaveTaken - 1 /\ HaveTaken >= 1
           /\ DOMAIN ringAt' = RingThreads /\ ~Ring!Clearing'
  BY PlacesDiffer, RingMoves, NobodyClearsNext DEF MayStore, HaveStored, MayTake, HaveTaken

(* A permit passes from the semaphore to a thread, or from a thread to it. *)
LEMMA PermitsPass ==
    ASSUME RingTypes, RingOrder, free' \in Nat, usedSlots' \in Nat,
           UNCHANGED <<slot, produce, consume, cnt, stored>>,
           DOMAIN ringAt' = RingThreads, ~Ring!Clearing', Balanced'
    PROVE  RingFacts'
<1>1. RingTypes'
  BY DEF RingTypes
<1>2. RingOrder'
  BY DEF RingOrder
<1> QED
  BY <1>1, <1>2 DEF RingFacts, Permitted

LEMMA RingNumbers ==
    ASSUME RingTypes
    PROVE  /\ cnt \in Nat /\ cnt <= RingLength /\ RingLength \in Nat
           /\ consume \in Nat /\ consume < RingLength
           /\ free \in Nat /\ usedSlots \in Nat /\ DOMAIN ringAt = RingThreads
  BY DEF RingTypes

LEMMA PermitsKeep ==
    ASSUME RingTypes, RingOrder, Permitted, NEW t \in RingThreads,
           \/ Ring!AcquireFree(t) \/ Ring!ReleaseUsed(t)
           \/ Ring!AcquireUsed(t) \/ Ring!ReleaseFree(t)
    PROVE  RingFacts'
<1>1. UNCHANGED <<slot, produce, consume, cnt, stored>>
  BY DEF Ring!AcquireFree, Ring!ReleaseUsed, Ring!AcquireUsed, Ring!ReleaseFree, Ring!ring
<1>2. ~Ring!Clearing /\ Balanced /\ DOMAIN ringAt = RingThreads
  BY DEF RingTypes, Permitted
<1>3. CASE Ring!AcquireFree(t)
  <2>1. Ring!Goes(t, Idle, BeforeStore)
    BY <1>3 DEF Ring!AcquireFree, Ring!Asks, Idle, BeforeStore
  <2>0. free > 0 /\ free' = free - 1 /\ usedSlots' = usedSlots
    BY <1>3 DEF Ring!AcquireFree
  <2>2. free >= 1 /\ free' = free - 1 /\ usedSlots' = usedSlots
    BY <2>0, RingNumbers
  <2>3. free' \in Nat /\ usedSlots' \in Nat /\ Balanced'
    BY <1>1, <1>2, <2>1, <2>2, RingNumbers, CountsAreNumbers, GoesToStore DEF Balanced
  <2>4. DOMAIN ringAt' = RingThreads /\ ~Ring!Clearing'
    BY <1>2, <2>1, GoesToStore
  <2> QED
    BY <1>1, <2>3, <2>4, PermitsPass
<1>4. CASE Ring!ReleaseUsed(t)
  <2>1. Ring!Goes(t, AfterStore, Idle)
    BY <1>4 DEF Ring!ReleaseUsed, AfterStore, Idle
  <2>0. free' = free /\ usedSlots' = usedSlots + 1
    BY <1>4 DEF Ring!ReleaseUsed
  <2>2. free' = free /\ usedSlots' = usedSlots + 1
    BY <2>0, RingNumbers
  <2>3. free' \in Nat /\ usedSlots' \in Nat /\ Balanced'
    BY <1>1, <1>2, <2>1, <2>2, RingNumbers, CountsAreNumbers, HasStored DEF Balanced
  <2>4. DOMAIN ringAt' = RingThreads /\ ~Ring!Clearing'
    BY <1>2, <2>1, HasStored
  <2> QED
    BY <1>1, <2>3, <2>4, PermitsPass
<1>5. CASE Ring!AcquireUsed(t)
  <2>1. Ring!Goes(t, Idle, BeforeTake)
    BY <1>5 DEF Ring!AcquireUsed, Ring!Asks, Idle, BeforeTake
  <2>0. free' = free /\ usedSlots > 0 /\ usedSlots' = usedSlots - 1
    BY <1>5 DEF Ring!AcquireUsed
  <2>2. free' = free /\ usedSlots >= 1 /\ usedSlots' = usedSlots - 1
    BY <2>0, RingNumbers
  <2>3. free' \in Nat /\ usedSlots' \in Nat /\ Balanced'
    BY <1>1, <1>2, <2>1, <2>2, RingNumbers, CountsAreNumbers, GoesToTake DEF Balanced
  <2>4. DOMAIN ringAt' = RingThreads /\ ~Ring!Clearing'
    BY <1>2, <2>1, GoesToTake
  <2> QED
    BY <1>1, <2>3, <2>4, PermitsPass
<1>6. CASE Ring!ReleaseFree(t)
  <2>1. Ring!Goes(t, AfterTake, Idle)
    BY <1>6 DEF Ring!ReleaseFree, AfterTake, Idle
  <2>0. free' = free + 1 /\ usedSlots' = usedSlots
    BY <1>6 DEF Ring!ReleaseFree
  <2>2. free' = free + 1 /\ usedSlots' = usedSlots
    BY <2>0, RingNumbers
  <2>3. free' \in Nat /\ usedSlots' \in Nat /\ Balanced'
    BY <1>1, <1>2, <2>1, <2>2, RingNumbers, CountsAreNumbers, HasTaken DEF Balanced
  <2>4. DOMAIN ringAt' = RingThreads /\ ~Ring!Clearing'
    BY <1>2, <2>1, HasTaken
  <2> QED
    BY <1>1, <2>3, <2>4, PermitsPass
<1> QED
  BY <1>3, <1>4, <1>5, <1>6

(* Who has a permit stores at the end, which is no element's slot.         *)
LEMMA Stored ==
    ASSUME NEW v, NEW s, RingTypes, v \in RingValues, s = Append(stored, v)
    PROVE  /\ s \in Seq(RingValues) /\ Len(s) = cnt + 1 /\ s[cnt + 1] = v
           /\ \A i \in 1 .. cnt : s[i] = stored[i]
  BY DEF RingTypes

LEMMA StoreKeeps ==
    ASSUME RingTypes, RingOrder, Permitted, NEW t \in RingThreads, NEW v \in RingValues,
           Ring!Store(t, v)
    PROVE  RingFacts'
<1>0. produce' = (produce + 1) % RingLength /\ cnt' = (cnt + 1) % Wrap
  BY DEF Ring!Store
<1>1. slot' = [slot EXCEPT ![produce] = v] /\ consume' = consume /\ free' = free /\ usedSlots' = usedSlots
  BY DEF Ring!Store
<1>2. Ring!Goes(t, BeforeStore, AfterStore)
  BY DEF Ring!Store, BeforeStore, AfterStore
<1>3. stored' = Append(stored, v)
  BY DEF Ring!Store
<1>4. /\ stored' \in Seq(RingValues) /\ Len(stored') = cnt + 1 /\ stored'[cnt + 1] = v
      /\ \A i \in 1 .. cnt : stored'[i] = stored[i]
  BY <1>3, Stored
<1>5. ~Ring!Clearing /\ Balanced /\ DOMAIN ringAt = RingThreads
  BY DEF RingTypes, Permitted
<1>6. cnt < RingLength
  BY <1>2, <1>5, RingNumbers, CountsAreNumbers, GoesFromStore DEF Balanced
<1>7. cnt' = cnt + 1
  BY <1>0, <1>6, RingNumbers
<1>8. Balanced'
  BY <1>1, <1>2, <1>5, <1>7, RingNumbers, CountsAreNumbers, GoesFromStore DEF Balanced
<1>9. DOMAIN ringAt' = RingThreads /\ ~Ring!Clearing'
  BY <1>2, <1>5, GoesFromStore
<1>10. produce \in 0 .. RingLength - 1
  BY RingNumbers DEF RingOrder, Wrapped
<1>11. produce' = Wrapped(consume + (cnt + 1))
  <2>1. produce' = Wrapped(produce + 1)
    BY <1>0, <1>10, WrappedIs
  <2>2. produce = Wrapped(consume + cnt)
    BY DEF RingOrder
  <2> QED
    BY <1>6, <2>1, <2>2, RingNumbers DEF Wrapped
<1>12. slot' \in [0 .. RingLength - 1 -> RingValues]
  BY <1>1 DEF RingTypes
<1>13. RingTypes'
  <2>1. cnt' \in 0 .. RingLength
    BY <1>6, <1>7, RingNumbers
  <2>2. /\ consume' \in 0 .. RingLength - 1 /\ free' \in Nat /\ usedSlots' \in Nat
        /\ stored' \in Seq(RingValues) /\ Len(stored') = cnt' /\ DOMAIN ringAt' = RingThreads
    BY <1>1, <1>4, <1>7, <1>9 DEF RingTypes
  <2> QED
    BY <1>12, <2>1, <2>2 DEF RingTypes
<1>14. ASSUME NEW i \in 1 .. cnt + 1
       PROVE  stored'[i] = slot'[Wrapped(consume + i - 1)]
  <2>1. CASE i = cnt + 1
    <3>1. Wrapped(consume + i - 1) = produce
      BY <2>1, RingNumbers DEF RingOrder
    <3>2. slot'[produce] = v
      BY <1>1, <1>10 DEF RingTypes
    <3> QED
      BY <1>4, <2>1, <3>1, <3>2
  <2>2. CASE i \in 1 .. cnt
    <3>1. Wrapped(consume + i - 1) # produce /\ Wrapped(consume + i - 1) \in 0 .. RingLength - 1
      <4>1. produce = Wrapped(consume + cnt)
        BY DEF RingOrder
      <4> QED
        BY <1>6, <2>2, <4>1, RingNumbers DEF Wrapped
    <3>2. slot'[Wrapped(consume + i - 1)] = slot[Wrapped(consume + i - 1)]
      BY <1>1, <3>1 DEF RingTypes
    <3>3. stored[i] = slot[Wrapped(consume + i - 1)]
      BY <2>2 DEF RingOrder
    <3> QED
      BY <1>4, <2>2, <3>2, <3>3
  <2> QED
    BY <2>1, <2>2, RingNumbers
<1>15. RingOrder'
  BY <1>1, <1>7, <1>11, <1>14 DEF RingOrder
<1> QED
  BY <1>8, <1>9, <1>13, <1>15 DEF RingFacts, Permitted

(* And takes the first element, which there is.                            *)
LEMMA TakenOff ==
    ASSUME NEW s, RingTypes, cnt >= 1, s = IF stored = <<>> THEN <<>> ELSE Tail(stored)
    PROVE  /\ s \in Seq(RingValues) /\ Len(s) = cnt - 1
           /\ \A i \in 1 .. cnt - 1 : s[i] = stored[i + 1]
<1>1. stored # <<>>
  BY DEF RingTypes
<1> QED
  BY <1>1 DEF RingTypes

LEMMA TakeFromRingKeeps ==
    ASSUME RingTypes, RingOrder, Permitted, NEW t \in RingThreads, Ring!Take(t)
    PROVE  RingFacts'
<1>0. consume' = (consume + 1) % RingLength /\ cnt' = (cnt - 1) % Wrap
  BY DEF Ring!Take
<1>1. slot' = slot /\ produce' = produce /\ free' = free /\ usedSlots' = usedSlots
  BY DEF Ring!Take
<1>2. Ring!Goes(t, BeforeTake, AfterTake)
  BY DEF Ring!Take, BeforeTake, AfterTake
<1>3. ~Ring!Clearing /\ Balanced /\ DOMAIN ringAt = RingThreads
  BY DEF RingTypes, Permitted
<1>4. cnt >= 1
  BY <1>2, <1>3, RingNumbers, CountsAreNumbers, GoesFromTake DEF Balanced
<1>5. cnt' = cnt - 1
  BY <1>0, <1>4, RingNumbers
<1>6. Balanced'
  BY <1>1, <1>2, <1>3, <1>5, RingNumbers, CountsAreNumbers, GoesFromTake DEF Balanced
<1>7. DOMAIN ringAt' = RingThreads /\ ~Ring!Clearing'
  BY <1>2, <1>3, GoesFromTake
<1>8. /\ stored' \in Seq(RingValues) /\ Len(stored') = cnt - 1
      /\ \A i \in 1 .. cnt - 1 : stored'[i] = stored[i + 1]
  <2>1. stored' = IF stored = <<>> THEN <<>> ELSE Tail(stored)
    BY DEF Ring!Take
  <2> QED
    BY <1>4, <2>1, TakenOff
<1>9. consume' = Wrapped(consume + 1) /\ consume' \in 0 .. RingLength - 1
  BY <1>0, WrappedIs, RingNumbers
<1>10. RingTypes'
  <2>1. cnt' \in 0 .. RingLength
    BY <1>4, <1>5, RingNumbers
  <2>2. /\ slot' \in [0 .. RingLength - 1 -> RingValues] /\ free' \in Nat /\ usedSlots' \in Nat
        /\ stored' \in Seq(RingValues) /\ Len(stored') = cnt' /\ DOMAIN ringAt' = RingThreads
    BY <1>1, <1>5, <1>7, <1>8 DEF RingTypes
  <2> QED
    BY <1>9, <2>1, <2>2 DEF RingTypes
<1>11. produce' = Wrapped(consume' + cnt')
  <2>1. produce' = Wrapped(consume + cnt)
    BY <1>1 DEF RingOrder
  <2>2. consume' = Wrapped(consume + 1) /\ cnt' = cnt - 1
    BY <1>5, <1>9
  <2>3. Wrapped(Wrapped(consume + 1) + (cnt - 1)) = Wrapped(consume + cnt)
    BY <1>4, RingNumbers DEF Wrapped
  <2> QED
    BY <2>1, <2>2, <2>3
<1>12. ASSUME NEW i \in 1 .. cnt - 1
       PROVE  stored'[i] = slot'[Wrapped(consume' + i - 1)]
  <2>1. Wrapped(consume' + i - 1) = Wrapped(consume + (i + 1) - 1)
    BY <1>4, <1>9, RingNumbers DEF Wrapped
  <2>2. i + 1 \in 1 .. cnt
    BY <1>4, RingNumbers
  <2>3. stored[i + 1] = slot[Wrapped(consume + (i + 1) - 1)]
    BY <2>2 DEF RingOrder
  <2> QED
    BY <1>1, <1>8, <2>1, <2>3
<1>13. RingOrder'
  BY <1>5, <1>11, <1>12 DEF RingOrder
<1> QED
  BY <1>6, <1>7, <1>10, <1>13 DEF RingFacts, Permitted

(* Whoever works at the ring is not the one that clears it.                *)
LEMMA NobodyClears ==
    ASSUME RingFacts, ~Ring!Clearing PROVE RingTypes /\ RingOrder /\ Permitted
  BY DEF RingFacts, ClearsAlone, Ring!Clearing

LEMMA WorksUndisturbed ==
    ASSUME RingFacts, NEW t \in RingThreads,
           ringAt[t] \in {"may store", "has stored", "may take", "has taken"}
    PROVE  RingTypes /\ RingOrder /\ Permitted
<1> SUFFICES ASSUME NEW u \in RingThreads, ClearsAlone(u) PROVE FALSE
  BY DEF RingFacts
<1>1. ringAt[u] # ringAt[t]
  BY DEF ClearsAlone
<1> QED
  BY <1>1 DEF ClearsAlone

LEMMA ClearerIsAlone ==
    ASSUME RingFacts, NEW t \in RingThreads, ringAt[t] \in {"has cleared", "drains"}
    PROVE  RingTypes /\ RingOrder /\ ClearsAlone(t)
<1>1. Ring!Clearing
  BY DEF Ring!Clearing
<1>2. PICK u \in RingThreads : ClearsAlone(u)
  BY <1>1 DEF RingFacts, Permitted
<1>3. u = t
  BY <1>2 DEF ClearsAlone
<1> QED
  BY <1>2, <1>3 DEF RingFacts

(* A clear on a full ring, with nobody beside it, leaves an empty ring.    *)
LEMMA ClearRingKeeps ==
    ASSUME RingFacts, ~spoiled, ~spoiled', NEW t \in RingThreads, Ring!Clear(t)
    PROVE  RingFacts'
<1>1. /\ produce' = 0 /\ consume' = 0 /\ cnt' = 0 /\ stored' = <<>>
      /\ UNCHANGED <<slot, free, usedSlots>>
  BY DEF Ring!Clear
<1>2. RingTypes
  BY DEF RingFacts
<1>3. ~(free > 0) /\ \A u \in RingThreads \ {t} : ringAt[u] = "idle"
  BY DEF Ring!Clear
<1>4. free = 0
  BY <1>2, <1>3, RingNumbers
<1>5. /\ DOMAIN ringAt' = RingThreads /\ ringAt'[t] = "has cleared"
      /\ \A u \in RingThreads \ {t} : ringAt'[u] = "idle"
  BY <1>2, <1>3 DEF Ring!Clear, Ring!Asks, Ring!Goes, RingTypes
<1>6. stored' \in Seq(RingValues) /\ Len(stored') = 0
  BY <1>1
<1>7. DOMAIN ringAt' = RingThreads
  BY <1>5
<1>8. RingTypes'
  BY <1>1, <1>2, <1>6, <1>7 DEF RingTypes
<1>9. Wrapped(0 + 0) = 0
  BY DEF Wrapped
<1>10. RingOrder'
  BY <1>1, <1>9 DEF RingOrder
<1>11. ClearsAlone(t)'
  BY <1>1, <1>4, <1>5 DEF ClearsAlone
<1> QED
  BY <1>8, <1>10, <1>11 DEF RingFacts

LEMMA ReleaseAllKeeps ==
    ASSUME RingFacts, NEW t \in RingThreads, Ring!ReleaseAll(t)
    PROVE  RingFacts'
<1>1. /\ UNCHANGED <<slot, produce, consume, cnt, stored, usedSlots>>
      /\ Ring!Goes(t, "has cleared", "drains") /\ free' = free + RingLength
  BY DEF Ring!ReleaseAll, Ring!ring
<1>2. RingTypes /\ RingOrder /\ ClearsAlone(t)
  BY <1>1, ClearerIsAlone DEF Ring!Goes
<1>3. /\ DOMAIN ringAt' = RingThreads /\ ringAt'[t] = "drains"
      /\ \A u \in RingThreads \ {t} : ringAt'[u] = "idle"
  BY <1>1, <1>2 DEF Ring!Goes, RingTypes, ClearsAlone
<1>4. free = 0
  BY <1>1, <1>2 DEF ClearsAlone, Ring!Goes
<1>5. free' = RingLength
  <2>1. free' = free + RingLength
    BY <1>1
  <2> QED
    BY <1>4, <2>1
<1>6. RingTypes'
  BY <1>1, <1>2, <1>3, <1>5 DEF RingTypes
<1>7. RingOrder'
  BY <1>1, <1>2 DEF RingOrder
<1>8. ClearsAlone(t)'
  BY <1>1, <1>2, <1>3, <1>5 DEF ClearsAlone
<1> QED
  BY <1>6, <1>7, <1>8 DEF RingFacts

LEMMA NobodyAtTheRing ==
    ASSUME NEW at, \A t \in RingThreads : at[t] = Idle
    PROVE  /\ NumberAt(at, BeforeStore) = 0 /\ NumberAt(at, AfterStore) = 0
           /\ NumberAt(at, BeforeTake) = 0 /\ NumberAt(at, AfterTake) = 0
<1>1. ASSUME NEW what, what # Idle PROVE NumberAt(at, what) = 0
  <2>1. AtPlace(at, what) = {}
    BY <1>1 DEF AtPlace
  <2> QED
    BY <2>1, FS_EmptySet DEF NumberAt
<1> QED
  BY <1>1, PlacesDiffer

LEMMA DrainKeeps ==
    ASSUME RingFacts, NEW t \in RingThreads, Ring!Drain(t)
    PROVE  RingFacts'
<1>1. /\ UNCHANGED <<slot, produce, consume, cnt, stored, free>>
      /\ ringAt[t] = "drains"
  BY DEF Ring!Drain, Ring!ring, Ring!Goes
<1>2. RingTypes /\ RingOrder /\ ClearsAlone(t)
  BY <1>1, ClearerIsAlone
<1>3. RingOrder'
  BY <1>1, <1>2 DEF RingOrder
<1>4. CASE usedSlots > 0 /\ usedSlots' = usedSlots - 1 /\ UNCHANGED ringAt
  <2>1. usedSlots' \in Nat
    BY <1>2, <1>4, RingNumbers
  <2>2. RingTypes'
    BY <1>1, <1>2, <1>4, <2>1 DEF RingTypes
  <2>3. ClearsAlone(t)'
    BY <1>1, <1>2, <1>4 DEF ClearsAlone
  <2> QED
    BY <1>3, <2>2, <2>3 DEF RingFacts
<1>5. CASE usedSlots = 0 /\ UNCHANGED usedSlots /\ Ring!Goes(t, "drains", "idle")
  <2>1. DOMAIN ringAt' = RingThreads /\ \A u \in RingThreads : ringAt'[u] = Idle
    BY <1>2, <1>5 DEF Ring!Goes, RingTypes, ClearsAlone, Idle
  <2>2. RingTypes'
    BY <1>1, <1>2, <1>5, <2>1 DEF RingTypes
  <2>3. MayStore' = 0 /\ HaveStored' = 0 /\ MayTake' = 0 /\ HaveTaken' = 0
    BY <2>1, NobodyAtTheRing DEF MayStore, HaveStored, MayTake, HaveTaken
  <2>4. free = RingLength /\ cnt = 0
    BY <1>1, <1>2 DEF ClearsAlone
  <2>5. Balanced'
    BY <1>1, <1>5, <2>3, <2>4 DEF Balanced
  <2>6. ~Ring!Clearing'
    BY <2>1 DEF Ring!Clearing, Idle
  <2> QED
    BY <1>3, <2>2, <2>5, <2>6 DEF RingFacts, Permitted
<1> QED
  BY <1>4, <1>5 DEF Ring!Drain, Ring!ring

LEMMA RingInvStep == RingInv /\ [Ring!Next]_ring => RingInv'
<1> SUFFICES ASSUME RingInv, [Ring!Next]_ring, ~spoiled' PROVE RingFacts'
  BY DEF RingInv
<1>1. CASE UNCHANGED ring
  <2>1. RingFacts
    BY <1>1 DEF ring, RingInv
  <2> QED
    BY <1>1, <2>1 DEF ring, RingFacts, RingTypes, RingOrder, Permitted, Balanced, ClearsAlone,
                      Ring!Clearing, MayStore, HaveStored, MayTake, HaveTaken, NumberAt, AtPlace
<1>2. ASSUME NEW t \in RingThreads, Ring!AcquireFree(t) \/ Ring!AcquireUsed(t) PROVE RingFacts'
  <2>1. ~spoiled /\ ~Ring!Clearing
    BY <1>2 DEF Ring!AcquireFree, Ring!AcquireUsed
  <2> QED
    BY <1>2, <2>1, NobodyClears, PermitsKeep DEF RingInv
<1>3. ASSUME NEW t \in RingThreads, Ring!ReleaseUsed(t) \/ Ring!ReleaseFree(t) PROVE RingFacts'
  <2>1. RingFacts /\ ringAt[t] \in {"has stored", "has taken"}
    BY <1>3 DEF Ring!ReleaseUsed, Ring!ReleaseFree, Ring!Goes, RingInv
  <2> QED
    BY <1>3, <2>1, WorksUndisturbed, PermitsKeep
<1>4. ASSUME NEW t \in RingThreads, NEW v \in RingValues, Ring!Store(t, v) PROVE RingFacts'
  <2>1. RingFacts /\ ringAt[t] = "may store"
    BY <1>4 DEF Ring!Store, Ring!Goes, RingInv
  <2> QED
    BY <1>4, <2>1, WorksUndisturbed, StoreKeeps
<1>5. ASSUME NEW t \in RingThreads, Ring!Take(t) PROVE RingFacts'
  <2>1. RingFacts /\ ringAt[t] = "may take"
    BY <1>5 DEF Ring!Take, Ring!Goes, RingInv
  <2> QED
    BY <1>5, <2>1, WorksUndisturbed, TakeFromRingKeeps
<1>6. ASSUME NEW t \in RingThreads, Ring!Clear(t) PROVE RingFacts'
  <2>1. ~spoiled
    BY <1>6 DEF Ring!Clear
  <2> QED
    BY <1>6, <2>1, ClearRingKeeps DEF RingInv
<1>7. ASSUME NEW t \in RingThreads, Ring!ReleaseAll(t) \/ Ring!Drain(t) PROVE RingFacts'
  <2>1. RingFacts
    BY <1>7 DEF Ring!ReleaseAll, Ring!Drain, RingInv
  <2> QED
    BY <1>7, <2>1, ReleaseAllKeeps, DrainKeeps
<1> QED
  BY <1>1, <1>2, <1>3, <1>4, <1>5, <1>6, <1>7 DEF Ring!Next

LEMMA RingInvHolds == Ring!Init => RingInv
<1> SUFFICES ASSUME Ring!Init PROVE RingFacts
  BY DEF RingInv
<1>1. /\ slot \in [0 .. RingLength - 1 -> RingValues]
      /\ produce = 0 /\ consume = 0 /\ cnt = 0 /\ free = RingLength /\ usedSlots = 0
      /\ ringAt = [t \in RingThreads |-> "idle"] /\ stored = <<>>
  BY DEF Ring!Init, Ring!Slots
<1>2. RingTypes
  BY <1>1 DEF RingTypes
<1>3. RingOrder
  BY <1>1 DEF RingOrder, Wrapped
<1>4. \A t \in RingThreads : ringAt[t] = Idle
  BY <1>1 DEF Idle
<1>5. MayStore = 0 /\ HaveStored = 0 /\ MayTake = 0 /\ HaveTaken = 0
  BY <1>4, NobodyAtTheRing DEF MayStore, HaveStored, MayTake, HaveTaken
<1>6. Balanced
  BY <1>1, <1>5 DEF Balanced
<1>7. ~Ring!Clearing
  BY <1>1 DEF Ring!Clearing
<1> QED
  BY <1>2, <1>3, <1>6, <1>7 DEF RingFacts, Permitted

(* So the slots from consume on are what has been stored.                  *)
LEMMA RingInvShows == RingInv => Ring!RingKeepsOrder
<1> SUFFICES ASSUME RingFacts PROVE Ring!RingIsQueue
  BY DEF RingInv, Ring!RingKeepsOrder
<1>1. RingTypes /\ RingOrder
  BY DEF RingFacts
<1>2. cnt <= RingLength
  BY <1>1, RingNumbers
<1>3. ASSUME NEW i \in 1 .. cnt
      PROVE  slot[(consume + i - 1) % RingLength] = stored[i]
  <2>1. (consume + i - 1) % RingLength = Wrapped(consume + i - 1)
    BY <1>1, WrappedIs, RingNumbers
  <2> QED
    BY <1>1, <2>1 DEF RingOrder
<1>4. stored = [i \in 1 .. cnt |-> stored[i]]
  BY <1>1 DEF RingTypes
<1>5. Ring!Snapshot = stored
  BY <1>3, <1>4 DEF Ring!Snapshot
<1> QED
  BY <1>2, <1>5 DEF Ring!RingIsQueue

-----------------------------------------------------------------------------
(* An ordered task queue.  A unit is with one submitter, or in the queue,  *)
(* or handed out, or lost.                                                 *)
Bringing == {"pushes", "pushes again", "dozes to push", "asleep to push"}
Known == queue \cup fetched \cup lost
BroughtOnce ==
    \A t \in RankThreads : rankAt[t] \in Bringing =>
        /\ t \in Submitters /\ unit[t].u \notin Known
        /\ \A s \in RankThreads \ {t} : rankAt[s] \in Bringing => unit[s].u # unit[t].u
UnitsInv == RankTypes /\ Ranks!HandedOutOnce /\ BroughtOnce
NobodyBegins ==
    \A s \in RankThreads : rankAt'[s] \in Bringing => rankAt[s] \in Bringing /\ unit'[s] = unit[s]

LEMMA NothingNew ==
    ASSUME UnitsInv, NobodyBegins, Known' \subseteq Known, Ranks!HandedOutOnce'
    PROVE  Ranks!HandedOutOnce' /\ BroughtOnce'
  BY DEF UnitsInv, BroughtOnce, NobodyBegins

(* A thread goes where it brings nothing, or where it is already bringing. *)
LEMMA GoesOn ==
    ASSUME RankTypes, NEW t \in RankThreads, NEW to, rankAt' = Ranks!Moved(t, to), unit' = unit,
           to \in Bringing => rankAt[t] \in Bringing
    PROVE  NobodyBegins
  BY MovedAtRanks DEF NobodyBegins

LEMMA TakesFirst ==
    ASSUME UnitsInv, NEW t \in RankThreads, NEW to, to \notin Bringing, queue # {},
           Ranks!TakeFirst(t, to)
    PROVE  Ranks!HandedOutOnce' /\ BroughtOnce'
<1>0. Ranks!First \in queue
  BY FirstIsAMember DEF UnitsInv
<1>1. queue' = queue \ {Ranks!First} /\ fetched' = fetched \cup {Ranks!First} /\ lost' = lost
  BY DEF Ranks!TakeFirst
<1>2. Known' \subseteq Known /\ Ranks!HandedOutOnce'
  BY <1>0, <1>1 DEF Known, Ranks!HandedOutOnce, UnitsInv
<1>3. NobodyBegins
  BY GoesOn DEF Ranks!TakeFirst, UnitsInv
<1> QED
  BY <1>2, <1>3, NothingNew

LEMMA OnlyMoves ==
    ASSUME UnitsInv, NEW t \in RankThreads, NEW to, to \notin Bringing, Ranks!Moves(t, to)
    PROVE  Ranks!HandedOutOnce' /\ BroughtOnce'
<1>1. Known' \subseteq Known /\ Ranks!HandedOutOnce'
  BY DEF Known, Ranks!HandedOutOnce, UnitsInv, Ranks!Moves
<1>2. NobodyBegins
  BY GoesOn DEF Ranks!Moves, UnitsInv
<1> QED
  BY <1>1, <1>2, NothingNew

(* Who is told goes on with what it brings.                                *)
LEMMA WokenBrings ==
    ASSUME NEW s \in RankThreads, rankAt[s] \in Ranks!ForUnits \cup Ranks!ForRoom,
           Ranks!Woken(rankAt[s]) \in Bringing
    PROVE  rankAt[s] \in Bringing
  BY DEF Ranks!Woken, Ranks!ForUnits, Ranks!ForRoom, Bringing

LEMMA AfterNotifyOne ==
    ASSUME RankTypes, unit' = unit, NEW whats \in SUBSET (Ranks!ForUnits \cup Ranks!ForRoom),
           NEW moved, DOMAIN moved = RankThreads,
           \A s \in RankThreads : moved[s] \in Bringing => rankAt[s] \in Bringing,
           Ranks!NotifyOne(whats, moved)
    PROVE  NobodyBegins
<1>1. CASE rankAt' = moved
  BY <1>1 DEF NobodyBegins
<1>2. ASSUME NEW s \in RankThreads, rankAt[s] \in whats,
             rankAt' = [moved EXCEPT ![s] = Ranks!Woken(rankAt[s])]
      PROVE  NobodyBegins
  BY <1>2, WokenBrings DEF NobodyBegins
<1> QED
  BY <1>1, <1>2, RankThreadsAre DEF Ranks!NotifyOne

(* What a submitter brings is put into the queue or refused.               *)
LEMMA Inserted ==
    ASSUME UnitsInv, NEW t \in RankThreads, rankAt[t] \in Bringing, NEW kept \in SUBSET queue,
           Ranks!Insert(t, kept), fetched' = fetched
    PROVE  Ranks!HandedOutOnce' /\ BroughtOnce'
<1>1. /\ queue' = kept \cup {unit[t].u} /\ lost' = lost \cup (queue \ kept)
      /\ rankAt'[t] = "tells of a unit" /\ \A s \in RankThreads \ {t} : rankAt'[s] = rankAt[s]
      /\ \A s \in RankThreads \ {t} : unit'[s] = unit[s]
  BY MovedAtRanks DEF Ranks!Insert, UnitsInv, RankTypes
<1>2. Known' \subseteq Known \cup {unit[t].u} /\ unit[t].u \notin Known
  BY <1>1 DEF Known, UnitsInv, BroughtOnce
<1>3. Ranks!HandedOutOnce'
  <2>1. /\ queue \cap fetched = {} /\ queue \cap lost = {} /\ fetched \cap lost = {}
        /\ unit[t].u \notin queue /\ unit[t].u \notin fetched /\ unit[t].u \notin lost
        /\ queue' = kept \cup {unit[t].u} /\ lost' = lost \cup (queue \ kept) /\ fetched' = fetched
    BY <1>1, <1>2 DEF Known, Ranks!HandedOutOnce, UnitsInv
  <2>2. queue' \cap fetched' = {} /\ queue' \cap lost' = {} /\ fetched' \cap lost' = {}
    BY <2>1
  <2> QED
    BY <2>2 DEF Ranks!HandedOutOnce
<1>4. rankAt'[t] \notin Bringing
  BY <1>1 DEF Bringing
<1>5. BroughtOnce'
  BY <1>1, <1>2, <1>4 DEF UnitsInv, BroughtOnce
<1> QED
  BY <1>3, <1>5

LEMMA Refused ==
    ASSUME UnitsInv, NEW t \in RankThreads, Ranks!Refuse(t), fetched' = fetched
    PROVE  Ranks!HandedOutOnce' /\ BroughtOnce'
<1>1. /\ rankAt'[t] = "idle" /\ \A s \in RankThreads \ {t} : rankAt'[s] = rankAt[s] /\ unit'[s] = unit[s]
  BY MovedAtRanks DEF Ranks!Refuse, UnitsInv, RankTypes
<1>2. NobodyBegins
  BY <1>1 DEF NobodyBegins, Bringing
<1>3. Known' \subseteq Known /\ Ranks!HandedOutOnce'
  BY DEF Known, Ranks!Refuse, Ranks!HandedOutOnce, UnitsInv
<1> QED
  BY <1>2, <1>3, NothingNew

LEMMA PushBrings ==
    ASSUME UnitsInv, NEW t \in Submitters, NEW u \in Units, NEW mode \in Ranks!Modes,
           Ranks!Push(t, u, mode)
    PROVE  Ranks!HandedOutOnce' /\ BroughtOnce'
<1>1. t \in RankThreads
  BY DEF RankThreads
<1>2. /\ u \notin Known /\ \A s \in Submitters : unit[s].u # u
      /\ rankAt' = Ranks!Moved(t, "pushes") /\ unit' = [unit EXCEPT ![t] = [u |-> u, mode |-> mode]]
      /\ queue' = queue /\ fetched' = fetched /\ lost' = lost
  BY DEF Ranks!Push, Known
<1>3. unit'[t].u = u /\ \A s \in RankThreads \ {t} : unit'[s] = unit[s] /\ rankAt'[s] = rankAt[s]
  BY <1>1, <1>2, MovedAtRanks DEF UnitsInv, RankTypes
<1>4. Known' = Known /\ Ranks!HandedOutOnce'
  BY <1>2 DEF Known, Ranks!HandedOutOnce, UnitsInv
<1>5. BroughtOnce'
  BY <1>1, <1>2, <1>3, <1>4 DEF UnitsInv, BroughtOnce
<1> QED
  BY <1>4, <1>5

LEMMA EnqueueBrings ==
    ASSUME UnitsInv, NEW t \in Submitters, Ranks!Enqueue(t) \/ Ranks!EnqueueAgain(t)
    PROVE  Ranks!HandedOutOnce' /\ BroughtOnce'
<1>1. t \in RankThreads /\ rankAt[t] \in Bringing /\ fetched' = fetched
  BY DEF RankThreads, Ranks!Enqueue, Ranks!EnqueueAgain, Bringing
<1>2. \/ Ranks!Insert(t, queue) \/ Ranks!Insert(t, queue \ {Ranks!Last}) \/ Ranks!Refuse(t)
      \/ rankAt' = Ranks!Moved(t, "dozes to push") /\ UNCHANGED <<queue, unit, lost>>
  BY DEF Ranks!Enqueue, Ranks!EnqueueAgain
<1>3. ASSUME rankAt' = Ranks!Moved(t, "dozes to push"), UNCHANGED <<queue, unit, lost>>
      PROVE  Ranks!HandedOutOnce' /\ BroughtOnce'
  <2>1. NobodyBegins
    BY <1>1, <1>3, GoesOn DEF UnitsInv
  <2>2. Known' \subseteq Known /\ Ranks!HandedOutOnce'
    BY <1>1, <1>3 DEF Known, Ranks!HandedOutOnce, UnitsInv
  <2> QED
    BY <2>1, <2>2, NothingNew
<1> QED
  BY <1>1, <1>2, <1>3, Inserted, Refused

(* Whoever tells, sleeps or wakes leaves the units where they are.         *)
LEMMA OthersBring ==
    ASSUME UnitsInv, NEW t \in RankThreads,
           \/ Ranks!TellOfUnit(t) \/ Ranks!TellOfRoom(t) \/ Ranks!FallAsleep(t) \/ Ranks!Spurious(t)
    PROVE  Ranks!HandedOutOnce' /\ BroughtOnce'
<1>1. UNCHANGED <<queue, unit, fetched, lost>>
  BY DEF Ranks!TellOfUnit, Ranks!TellOfRoom, Ranks!FallAsleep, Ranks!Spurious
<1>2. NobodyBegins
  <2>1. DOMAIN Ranks!Moved(t, "idle") = RankThreads
        /\ \A s \in RankThreads : Ranks!Moved(t, "idle")[s] \in Bringing => rankAt[s] \in Bringing
    BY DEF Ranks!Moved, UnitsInv, RankTypes, Bringing
  <2>2. CASE Ranks!TellOfUnit(t)
    BY <1>1, <2>1, <2>2, AfterNotifyOne DEF Ranks!TellOfUnit, UnitsInv
  <2>3. CASE Ranks!TellOfRoom(t)
    BY <1>1, <2>1, <2>3, AfterNotifyOne DEF Ranks!TellOfRoom, UnitsInv
  <2>4. CASE Ranks!FallAsleep(t)
    <3>1. rankAt[t] \in Ranks!Dozes /\ rankAt' = Ranks!Moved(t, Ranks!Asleep(rankAt[t]))
      BY <2>4 DEF Ranks!FallAsleep
    <3>2. Ranks!Asleep(rankAt[t]) \in Bringing => rankAt[t] \in Bringing
      BY <3>1 DEF Ranks!Dozes, Ranks!Asleep, Bringing
    <3> QED
      BY <1>1, <3>1, <3>2, GoesOn DEF UnitsInv
  <2>5. CASE Ranks!Spurious(t)
    <3>1. /\ rankAt[t] \in Ranks!ForUnits \cup Ranks!ForRoom
          /\ rankAt' = Ranks!Moved(t, Ranks!Woken(rankAt[t]))
      BY <2>5 DEF Ranks!Spurious
    <3> QED
      BY <1>1, <3>1, WokenBrings, GoesOn DEF UnitsInv
  <2> QED
    BY <2>2, <2>3, <2>4, <2>5
<1>3. Known' \subseteq Known /\ Ranks!HandedOutOnce'
  BY <1>1 DEF Known, Ranks!HandedOutOnce, UnitsInv
<1> QED
  BY <1>2, <1>3, NothingNew

LEMMA FetchersBring ==
    ASSUME UnitsInv, NEW t \in Fetchers,
           \/ Ranks!PopByPriority(t) \/ Ranks!PopDeferred(t) \/ Ranks!PopDeferredAgain(t)
           \/ Ranks!TryPop(t) \/ Ranks!TryPopFor(t) \/ Ranks!TimedOut(t) \/ Ranks!TurnOfBatch(t)
           \/ \E n \in Batches : Ranks!BeginBatch(t, n)
    PROVE  Ranks!HandedOutOnce' /\ BroughtOnce'
<1>1. t \in RankThreads
  BY DEF RankThreads
<1> DEFINE Quiet == {"idle", "tells of room", "goes on", "dozes to pop", "dozes for a time",
                     "dozes in a batch"}
<1>2. \A to \in Quiet : to \notin Bringing
  BY DEF Bringing
<1>3. (\E to \in Quiet : Ranks!Moves(t, to)) \/ (queue # {} /\ \E to \in Quiet : Ranks!TakeFirst(t, to))
  BY DEF Ranks!PopByPriority, Ranks!PopDeferred, Ranks!PopDeferredAgain, Ranks!TryPop,
         Ranks!TryPopFor, Ranks!TimedOut, Ranks!TurnOfBatch, Ranks!BeginBatch, Ranks!FollowEnd
<1> HIDE DEF Quiet
<1>4. ASSUME NEW to \in Quiet, Ranks!Moves(t, to) PROVE Ranks!HandedOutOnce' /\ BroughtOnce'
  BY <1>1, <1>2, <1>4, OnlyMoves
<1>5. ASSUME NEW to \in Quiet, queue # {}, Ranks!TakeFirst(t, to)
      PROVE  Ranks!HandedOutOnce' /\ BroughtOnce'
  BY <1>1, <1>2, <1>5, TakesFirst
<1> QED
  BY <1>3, <1>4, <1>5

LEMMA PopBatchBrings ==
    ASSUME UnitsInv, NEW t \in Fetchers, NEW n \in Batches, Ranks!PopBatch(t, n)
    PROVE  Ranks!HandedOutOnce' /\ BroughtOnce'
<1>1. t \in RankThreads
  BY DEF RankThreads
<1>2. CASE Ranks!Moves(t, "idle") \/ Ranks!Moves(t, "dozes for units")
  BY <1>1, <1>2, OnlyMoves DEF Bringing
<1>3. ASSUME NEW k, Ranks!TakeLeast(t, k) PROVE Ranks!HandedOutOnce' /\ BroughtOnce'
  <2>1. PICK S \in SUBSET queue : queue' = queue \ S /\ fetched' = fetched \cup S
    BY <1>3 DEF Ranks!TakeLeast
  <2>2. PICK to \in {"tells of room", "idle"} : rankAt' = Ranks!Moved(t, to)
    BY <1>3 DEF Ranks!TakeLeast
  <2>3. to \notin Bringing /\ unit' = unit /\ lost' = lost
    BY <1>3 DEF Bringing, Ranks!TakeLeast
  <2>4. NobodyBegins
    BY <1>1, <2>2, <2>3, GoesOn DEF UnitsInv
  <2>5. Known' \subseteq Known /\ Ranks!HandedOutOnce'
    BY <2>1, <2>3 DEF Known, Ranks!HandedOutOnce, UnitsInv
  <2> QED
    BY <2>4, <2>5, NothingNew
<1> QED
  BY <1>2, <1>3 DEF Ranks!PopBatch

LEMMA CloserBrings ==
    ASSUME UnitsInv,
           Ranks!Close \/ Ranks!CloseTells \/ Ranks!Clear \/ Ranks!Background \/ Ranks!Tick
    PROVE  Ranks!HandedOutOnce' /\ BroughtOnce'
<1>1. unit' = unit /\ fetched' = fetched
  BY DEF Ranks!Close, Ranks!CloseTells, Ranks!Clear, Ranks!Background, Ranks!Tick
<1>2. \/ queue' = queue /\ lost' = lost
      \/ queue' = {} /\ lost' = lost \cup queue
  BY DEF Ranks!Close, Ranks!CloseTells, Ranks!Clear, Ranks!Background, Ranks!Tick
<1>3. Known' \subseteq Known /\ Ranks!HandedOutOnce'
  BY <1>1, <1>2 DEF Known, Ranks!HandedOutOnce, UnitsInv
<1>4. NobodyBegins
  <2>1. CASE rankAt' = rankAt
    BY <1>1, <2>1 DEF NobodyBegins
  <2>2. ASSUME NEW whats \in SUBSET (Ranks!ForUnits \cup Ranks!ForRoom), Ranks!NotifyAll(whats)
        PROVE  NobodyBegins
    <3>1. ASSUME NEW s \in RankThreads, rankAt'[s] \in Bringing PROVE rankAt[s] \in Bringing
      <4>1. rankAt'[s] = IF rankAt[s] \in whats THEN Ranks!Woken(rankAt[s]) ELSE rankAt[s]
        BY <2>2, RankThreadsAre DEF Ranks!NotifyAll
      <4> QED
        BY <2>2, <3>1, <4>1, WokenBrings
    <3> QED
      BY <1>1, <3>1 DEF NobodyBegins
  <2>3. CASE Ranks!NotifyOne(Ranks!ForUnits, rankAt)
    BY <1>1, <2>3, AfterNotifyOne DEF UnitsInv, RankTypes
  <2>4. CASE Ranks!CloseTells
    BY <2>2, <2>4 DEF Ranks!CloseTells
  <2>5. CASE Ranks!Background
    BY <2>1, <2>3, <2>5 DEF Ranks!Background
  <2>6. CASE Ranks!Close \/ Ranks!Clear \/ Ranks!Tick
    BY <2>1, <2>6 DEF Ranks!Close, Ranks!Clear, Ranks!Tick
  <2> QED
    BY <2>4, <2>5, <2>6
<1> QED
  BY <1>3, <1>4, NothingNew

LEMMA UnitsInvStep == UnitsInv /\ [Ranks!Next]_ranks => UnitsInv'
<1> SUFFICES ASSUME UnitsInv, [Ranks!Next]_ranks PROVE UnitsInv'
  OBVIOUS
<1>1. CASE UNCHANGED ranks
  BY <1>1 DEF ranks, UnitsInv, RankTypes, Ranks!HandedOutOnce, BroughtOnce, Known
<1>2. CASE Ranks!Next
  <2>1. RankTypes'
    BY <1>2, RanksTyped DEF UnitsInv
  <2>2. Ranks!HandedOutOnce' /\ BroughtOnce'
    BY <1>2, RankThreadsAre, PushBrings, EnqueueBrings, OthersBring, FetchersBring, PopBatchBrings,
       CloserBrings
       DEF Ranks!Next
  <2> QED
    BY <2>1, <2>2 DEF UnitsInv
<1> QED
  BY <1>1, <1>2

LEMMA UnitsInvHolds == Ranks!Init => UnitsInv
<1> SUFFICES ASSUME Ranks!Init PROVE UnitsInv
  OBVIOUS
<1>1. RankTypes
  BY RankThreadsAre, FS_EmptySet DEF Ranks!Init, RankTypes, Ranks!NoUnit
<1>2. \A t \in RankThreads : rankAt[t] \notin Bringing
  BY RankThreadsAre DEF Ranks!Init, Bringing
<1>3. Ranks!HandedOutOnce
  BY DEF Ranks!Init, Ranks!HandedOutOnce
<1> QED
  BY <1>1, <1>2, <1>3 DEF UnitsInv, BroughtOnce

-----------------------------------------------------------------------------
(* Whatever the threads do at the waiting containers, none of them sleeps  *)
(* while there is an element, a unit or a place for it and nobody awake is *)
(* on the way to it or about to tell of it (wait_pop, wait_push and the    *)
(* notify calls of concurrent_stack.hpp, concurrent_queue.hpp and          *)
(* concurrent_priority_queue.hpp, rank_priority, the closable queue).      *)
THEOREM NobodySleepsBesideWork == WaitingSpec => []NobodySleepsThrough
<1> DEFINE Inv == WaitsInv /\ RankInv /\ ClosableInv
<1>1. WaitingInit => Inv
  BY WaitsInvHolds, RankInvHolds, ClosableInvHolds DEF WaitingInit
<1>2. Inv /\ [AtWaits \/ AtRanks \/ AtClosable \/ AtRing]_<<waits, ranks, closable, ring>> => Inv'
  <2> SUFFICES ASSUME Inv,
                      [AtWaits \/ AtRanks \/ AtClosable \/ AtRing]_<<waits, ranks, closable, ring>>
               PROVE  Inv'
    OBVIOUS
  <2>1. [Waits!Next]_waits /\ [Ranks!Next]_ranks /\ [Closable!Next]_closable
    BY DEF AtWaits, AtRanks, AtClosable, AtRing
  <2> QED
    BY <2>1, WaitsInvStep, RankInvStep, ClosableInvStep
<1>3. Inv => NobodySleepsThrough
  BY WaitsInvShows, RankInvShows, ClosableInvShows DEF NobodySleepsThrough
<1> HIDE DEF Inv
<1> QED
  BY <1>1, <1>2, <1>3, PTL DEF WaitingSpec

(* However calls of the ring cross, what is stored and not taken is in the *)
(* slots that snapshot and pop_front read, in its order, as long as clear  *)
(* comes on a full ring only and alone (concurrent_annular_queue.hpp); and *)
(* whatever waits, overwrites, batches, clears and closes there are, an    *)
(* ordered task queue hands a unit out once and none that was lost         *)
(* (rank_priority, rank_deferred).                                         *)
THEOREM OrderIsAlwaysKept == WaitingSpec => []OrderIsKept
<1> DEFINE Inv == RingInv /\ UnitsInv
<1>1. WaitingInit => Inv
  BY RingInvHolds, UnitsInvHolds DEF WaitingInit
<1>2. Inv /\ [AtWaits \/ AtRanks \/ AtClosable \/ AtRing]_<<waits, ranks, closable, ring>> => Inv'
  <2> SUFFICES ASSUME Inv,
                      [AtWaits \/ AtRanks \/ AtClosable \/ AtRing]_<<waits, ranks, closable, ring>>
               PROVE  Inv'
    OBVIOUS
  <2>1. [Ranks!Next]_ranks /\ [Ring!Next]_ring
    BY DEF AtWaits, AtRanks, AtClosable, AtRing
  <2> QED
    BY <2>1, RingInvStep, UnitsInvStep
<1>3. Inv => OrderIsKept
  BY RingInvShows DEF UnitsInv, OrderIsKept
<1> HIDE DEF Inv
<1> QED
  BY <1>1, <1>2, <1>3, PTL DEF WaitingSpec

-----------------------------------------------------------------------------
(* Strings, vectors and lists and their blocks.                            *)
Fits(k, v, n) ==
    k # "list" => v.size <= v.capacity /\ (IF k = "string" THEN v.capacity + 1 ELSE v.capacity) <= n
(* A vector without a block is empty.                                      *)
Sane(k, v) == /\ ~v.alive => v.block = 0
              /\ k = "vector" /\ v.block = 0 => v.size = 0 /\ v.capacity = 0
BufferRecord == [alive : BOOLEAN, block : {0} \cup Blocks, size : Nat, capacity : Nat]

BufferTypes ==
    /\ bufferKind \in {"string", "vector", "list"}
    /\ object \in [Owners -> BufferRecord]
    /\ DOMAIN room \subseteq Blocks
BufferFacts ==
    /\ \A o, p \in Owners : o # p => object[o].block = 0 \/ object[o].block # object[p].block
    /\ \A o \in Owners : object[o].block # 0 =>
        object[o].block \in DOMAIN room /\ Fits(bufferKind, object[o], room[object[o].block])
    /\ bufferKind = "string" => \A b \in DOMAIN room : \E o \in Owners : object[o].block = b
    /\ \A o \in Owners : Sane(bufferKind, object[o])
BufferInv == BufferTypes /\ BufferFacts

(* The rooms of all others stay what they are.                             *)
OthersKeepRoom(o) ==
    \A x \in DOMAIN room : x # object[o].block => x \in DOMAIN room' /\ room'[x] = room[x]
HasRoom(v) == v.block # 0 => v.block \in DOMAIN room' /\ Fits(bufferKind, v, room'[v.block])
Unused == Blocks \ DOMAIN room

(* One buffer changes: it keeps its block, gives it up or gets a new one.  *)
LEMMA OneBufferChanges ==
    ASSUME BufferInv, NEW o \in Owners, NEW v \in BufferRecord,
           object' = [object EXCEPT ![o] = v], bufferKind' = bufferKind, DOMAIN room' \subseteq Blocks,
           v.block = 0 \/ v.block = object[o].block \/ v.block \in Unused,
           OthersKeepRoom(o), HasRoom(v), Sane(bufferKind, v),
           bufferKind = "string" =>
             \A x \in DOMAIN room' : x = v.block \/ (x \in DOMAIN room /\ x # object[o].block)
    PROVE  BufferInv'
<1>0. /\ object'[o] = v /\ \A p \in Owners \ {o} : object'[p] = object[p]
      /\ object \in [Owners -> BufferRecord]
  BY DEF BufferInv, BufferTypes
<1>1. BufferTypes'
  BY DEF BufferInv, BufferTypes
<1>2. \A q \in Owners : object[q].block # 0 => object[q].block \in DOMAIN room
  BY DEF BufferInv, BufferFacts
<1>3. ASSUME NEW p \in Owners, NEW q \in Owners, p # q
      PROVE  object'[p].block = 0 \/ object'[p].block # object'[q].block
  BY <1>0, <1>2, <1>3 DEF BufferInv, BufferFacts, Unused
<1>4. ASSUME NEW p \in Owners, object'[p].block # 0
      PROVE  /\ object'[p].block \in DOMAIN room'
             /\ Fits(bufferKind, object'[p], room'[object'[p].block])
  <2>1. CASE p = o
    BY <1>0, <1>4, <2>1 DEF HasRoom
  <2>2. CASE p # o
    BY <1>0, <1>4, <2>2 DEF BufferInv, BufferFacts, OthersKeepRoom
  <2> QED
    BY <2>1, <2>2
<1>5. ASSUME bufferKind = "string", NEW b \in DOMAIN room' PROVE \E p \in Owners : object'[p].block = b
  BY <1>0, <1>5 DEF BufferInv, BufferFacts
<1>6. \A p \in Owners : Sane(bufferKind, object'[p])
  BY <1>0 DEF BufferInv, BufferFacts
<1> QED
  BY <1>1, <1>3, <1>4, <1>5, <1>6 DEF BufferInv, BufferFacts

(* Two buffers change: the first takes what the second has.                *)
LEMMA TwoBuffersChange ==
    ASSUME BufferInv, NEW o \in Owners, NEW p \in Owners, o # p,
           NEW v \in BufferRecord, NEW w \in BufferRecord,
           object' = [object EXCEPT ![o] = v, ![p] = w], bufferKind' = bufferKind,
           DOMAIN room' \subseteq Blocks,
           v.block = object[p].block,
           w.block = 0 \/ w.block = object[o].block \/ w.block \in Unused,
           OthersKeepRoom(o), HasRoom(v), HasRoom(w), Sane(bufferKind, v), Sane(bufferKind, w),
           bufferKind = "string" =>
             \A x \in DOMAIN room' : x = w.block \/ (x \in DOMAIN room /\ x # object[o].block)
    PROVE  BufferInv'
<1>0. /\ object'[o] = v /\ object'[p] = w
      /\ \A q \in Owners \ {o, p} : object'[q] = object[q]
      /\ object \in [Owners -> BufferRecord]
  BY DEF BufferInv, BufferTypes
<1>1. BufferTypes'
  BY DEF BufferInv, BufferTypes
<1>2. \A q \in Owners : object[q].block # 0 => object[q].block \in DOMAIN room
  BY DEF BufferInv, BufferFacts
<1>3. ASSUME NEW r \in Owners, NEW q \in Owners, r # q
      PROVE  object'[r].block = 0 \/ object'[r].block # object'[q].block
  BY <1>0, <1>2, <1>3 DEF BufferInv, BufferFacts, Unused
<1>4. ASSUME NEW q \in Owners, object'[q].block # 0
      PROVE  /\ object'[q].block \in DOMAIN room'
             /\ Fits(bufferKind, object'[q], room'[object'[q].block])
  <2>1. CASE q = o \/ q = p
    BY <1>0, <1>4, <2>1 DEF HasRoom
  <2>2. CASE q # o /\ q # p
    BY <1>0, <1>4, <2>2 DEF BufferInv, BufferFacts, OthersKeepRoom
  <2> QED
    BY <2>1, <2>2
<1>5. ASSUME bufferKind = "string", NEW b \in DOMAIN room' PROVE \E q \in Owners : object'[q].block = b
  <2>1. CASE b = w.block
    BY <1>0, <2>1
  <2>2. CASE b \in DOMAIN room /\ b # object[o].block
    <3>1. PICK q \in Owners : object[q].block = b
      BY <1>5, <2>2 DEF BufferInv, BufferFacts
    <3> QED
      BY <1>0, <2>2, <3>1
  <2> QED
    BY <1>5, <2>1, <2>2
<1>6. \A q \in Owners : Sane(bufferKind, object'[q])
  BY <1>0 DEF BufferInv, BufferFacts
<1> QED
  BY <1>1, <1>3, <1>4, <1>5, <1>6 DEF BufferInv, BufferFacts

LEMMA UnusedBlock ==
    /\ Buffers!Fresh = Unused /\ Buffers!None = 0
    /\ Buffers!Fresh # {} => Buffers!NextFresh \in Unused
  BY DEF Buffers!Fresh, Buffers!NextFresh, Buffers!Allocated, Buffers!None, Unused

(* The three ways in which one buffer changes.                             *)
Bounded(k, v) == /\ k # "list" => v.size <= v.capacity
                 /\ k = "vector" /\ v.block = 0 => v.size = 0

LEMMA KeepsItsBlock ==
    ASSUME BufferInv, NEW o \in Owners, NEW v \in BufferRecord, Buffers!Put(o, v),
           UNCHANGED <<bufferKind, room>>, v.alive,
           v.block = object[o].block, v.capacity = object[o].capacity,
           Bounded(bufferKind, v)
    PROVE  BufferInv'
<1>1. object' = [object EXCEPT ![o] = v] /\ room' = room /\ bufferKind' = bufferKind
  BY DEF Buffers!Put
<1>2. DOMAIN room' \subseteq Blocks /\ OthersKeepRoom(o)
  BY <1>1 DEF BufferInv, BufferTypes, OthersKeepRoom
<1>3. HasRoom(v)
  BY <1>1 DEF HasRoom, Fits, Bounded, BufferInv, BufferFacts
<1>4. Sane(bufferKind, v)
  BY DEF Sane, Bounded, BufferInv, BufferFacts
<1>5. bufferKind = "string" =>
        \A x \in DOMAIN room' : x = v.block \/ (x \in DOMAIN room /\ x # object[o].block)
  BY <1>1
<1> QED
  BY <1>1, <1>2, <1>3, <1>4, <1>5, OneBufferChanges

LEMMA GetsABlock ==
    ASSUME BufferInv, NEW o \in Owners, NEW v \in BufferRecord, NEW n, NEW r,
           Buffers!Put(o, v), bufferKind' = bufferKind, Buffers!Fresh # {},
           v.alive, v.block = Buffers!NextFresh, Fits(bufferKind, v, n),
           \/ r = room /\ object[o].block = 0
           \/ r = Buffers!Without(room, object[o].block),
           room' = Buffers!With(r, Buffers!NextFresh, n)
    PROVE  BufferInv'
<1>1. object' = [object EXCEPT ![o] = v] /\ v.block \in Unused
  BY UnusedBlock DEF Buffers!Put
<1>2. /\ DOMAIN r = DOMAIN room \ {object[o].block}
      /\ \A x \in DOMAIN r : r[x] = room[x]
  <2>1. CASE r = room /\ object[o].block = 0
    BY <2>1 DEF BufferInv, BufferTypes, MemoryAssumption
  <2>2. CASE r = Buffers!Without(room, object[o].block)
    BY <2>2 DEF Buffers!Without
  <2> QED
    BY <2>1, <2>2
<1>3. /\ DOMAIN room' = DOMAIN r \cup {v.block} /\ room'[v.block] = n
      /\ \A x \in DOMAIN r : x # v.block => room'[x] = r[x]
  BY DEF Buffers!With
<1>4. DOMAIN room' \subseteq Blocks /\ OthersKeepRoom(o)
  BY <1>1, <1>2, <1>3 DEF BufferInv, BufferTypes, OthersKeepRoom, Unused
<1>5. HasRoom(v)
  BY <1>3 DEF HasRoom
<1>6. Sane(bufferKind, v)
  BY <1>1 DEF Sane, Unused, MemoryAssumption
<1>7. \A x \in DOMAIN room' : x = v.block \/ (x \in DOMAIN room /\ x # object[o].block)
  BY <1>2, <1>3
<1> QED
  BY <1>1, <1>4, <1>5, <1>6, <1>7, OneBufferChanges

LEMMA LosesItsBlock ==
    ASSUME BufferInv, NEW o \in Owners, NEW v \in BufferRecord,
           Buffers!Put(o, v), bufferKind' = bufferKind,
           v.block = 0, bufferKind = "vector" => v.size = 0 /\ v.capacity = 0,
           \/ room' = room /\ object[o].block = 0
           \/ room' = Buffers!Without(room, object[o].block)
    PROVE  BufferInv'
<1>1. object' = [object EXCEPT ![o] = v]
  BY DEF Buffers!Put
<1>2. /\ DOMAIN room' = DOMAIN room \ {object[o].block}
      /\ \A x \in DOMAIN room' : room'[x] = room[x]
  <2>1. CASE room' = room /\ object[o].block = 0
    BY <2>1 DEF BufferInv, BufferTypes, MemoryAssumption
  <2>2. CASE room' = Buffers!Without(room, object[o].block)
    BY <2>2 DEF Buffers!Without
  <2> QED
    BY <2>1, <2>2
<1>3. DOMAIN room' \subseteq Blocks /\ OthersKeepRoom(o)
  BY <1>2 DEF BufferInv, BufferTypes, OthersKeepRoom
<1>4. HasRoom(v) /\ Sane(bufferKind, v)
  BY DEF HasRoom, Sane
<1> QED
  BY <1>1, <1>2, <1>3, <1>4, OneBufferChanges

LEMMA EndsWell == BufferInv /\ UNCHANGED <<bufferKind, object, room>> => BufferInv'
  BY DEF BufferInv, BufferTypes, BufferFacts

(* What a buffer is and what it may become.                                *)
LEMMA ABuffer ==
    ASSUME BufferInv, NEW o \in Owners
    PROVE  /\ object[o] \in BufferRecord /\ object[o].size \in Nat /\ object[o].capacity \in Nat
           /\ object[o].block \in {0} \cup Blocks
           /\ ~object[o].alive => object[o].block = 0
           /\ bufferKind = "vector" /\ object[o].block = 0 => object[o].size = 0 /\ object[o].capacity = 0
           /\ bufferKind # "list" /\ object[o].block # 0 => object[o].size <= object[o].capacity
  BY DEF BufferInv, BufferTypes, BufferFacts, BufferRecord, Sane, Fits

LEMMA HoldingIs ==
    ASSUME NEW b, NEW s, NEW c
    PROVE  /\ Buffers!Holding(b, s, c).alive /\ Buffers!Holding(b, s, c).block = b
           /\ Buffers!Holding(b, s, c).size = s /\ Buffers!Holding(b, s, c).capacity = c
           /\ b \in {0} \cup Blocks /\ s \in Nat /\ c \in Nat => Buffers!Holding(b, s, c) \in BufferRecord
  BY DEF Buffers!Holding, BufferRecord

LEMMA LengthIs ==
    \A v, c : /\ v.capacity = c /\ c \in Nat /\ bufferKind # "list" /\ v.size <= c
                   => Fits(bufferKind, v, Buffers!Length(c))
              /\ bufferKind = "list" => Fits(bufferKind, v, 0)
  BY DEF Buffers!Length, Fits

LEMMA ConstructKeeps ==
    ASSUME BufferInv, NEW o \in Owners,
           Buffers!ConstructEmpty(o) \/ \E n \in 0 .. 2 : Buffers!Construct(o, n)
    PROVE  BufferInv'
<1>1. ASSUME NEW n \in 0 .. 2, Buffers!Construct(o, n) PROVE BufferInv'
  <2> DEFINE c == IF bufferKind = "list" THEN 0 ELSE n
             l == IF bufferKind = "list" THEN 0 ELSE Buffers!Length(n)
             v == Buffers!Holding(Buffers!NextFresh, n, c)
  <2>1. /\ Buffers!Put(o, v) /\ room' = Buffers!With(room, Buffers!NextFresh, l)
        /\ bufferKind' = bufferKind /\ Buffers!Fresh # {} /\ ~object[o].alive
    BY <1>1 DEF Buffers!Construct
  <2>2. v \in BufferRecord /\ v.alive /\ v.block = Buffers!NextFresh /\ v.size = n /\ v.capacity = c
    BY <2>1, UnusedBlock, HoldingIs DEF Unused
  <2>3. Fits(bufferKind, v, l)
    BY <2>2, LengthIs
  <2>4. object[o].block = 0
    BY <2>1, ABuffer
  <2> HIDE DEF v, l, c
  <2> QED
    BY <2>1, <2>2, <2>3, <2>4, GetsABlock
<1>2. CASE Buffers!ConstructEmpty(o)
  <2> DEFINE v == Buffers!Nothing
  <2>1. Buffers!Put(o, v) /\ room' = room /\ bufferKind' = bufferKind /\ ~object[o].alive
    BY <1>2 DEF Buffers!ConstructEmpty
  <2>2. v \in BufferRecord /\ v.block = 0 /\ v.size = 0 /\ v.capacity = 0
    BY HoldingIs, UnusedBlock DEF Buffers!Nothing
  <2>3. object[o].block = 0
    BY <2>1, ABuffer
  <2> HIDE DEF v
  <2> QED
    BY <2>1, <2>2, <2>3, LosesItsBlock
<1> QED
  BY <1>1, <1>2

LEMMA CopyConstructKeeps ==
    ASSUME BufferInv, NEW o \in Owners, NEW p \in Owners,
           Buffers!CopyConstruct(o, p)
    PROVE  BufferInv'
<1>0. object[o].block = 0 /\ Buffers!Fresh # {} /\ bufferKind' = bufferKind
  BY ABuffer DEF Buffers!CopyConstruct, Buffers!Ends
<1>1. CASE Buffers!Ends("null")
  BY <1>1, EndsWell DEF Buffers!Ends
<1>2. CASE object[p].capacity = 0 /\ bufferKind = "vector"
           /\ Buffers!Put(o, Buffers!Nothing) /\ UNCHANGED room
  <2> DEFINE v == Buffers!Nothing
  <2>1. v \in BufferRecord /\ v.block = 0 /\ v.size = 0 /\ v.capacity = 0
    BY HoldingIs, UnusedBlock DEF Buffers!Nothing
  <2> HIDE DEF v
  <2> QED
    BY <1>0, <1>2, <2>1, LosesItsBlock DEF v
<1>3. CASE LET s == object[p] l == IF bufferKind = "list" THEN 0 ELSE Buffers!Length(s.capacity)
           IN  /\ bufferKind # "vector" \/ s.capacity > 0
               /\ ~(s.block = 0 /\ bufferKind # "vector")
               /\ Buffers!Put(o, [s EXCEPT !.block = Buffers!NextFresh])
               /\ room' = Buffers!With(room, Buffers!NextFresh, l)
  <2> DEFINE v == [object[p] EXCEPT !.block = Buffers!NextFresh]
             l == IF bufferKind = "list" THEN 0 ELSE Buffers!Length(object[p].capacity)
  <2>1. /\ Buffers!Put(o, v) /\ room' = Buffers!With(room, Buffers!NextFresh, l)
    BY <1>3
  <2>2. object[p].block # 0
    BY <1>3, ABuffer
  <2>3. /\ v \in BufferRecord /\ v.block = Buffers!NextFresh /\ v.alive = object[p].alive
        /\ v.size = object[p].size /\ v.capacity = object[p].capacity
    BY <1>0, ABuffer, UnusedBlock DEF BufferRecord, Unused
  <2>4. v.alive
    BY <2>2, <2>3, ABuffer
  <2>5. Fits(bufferKind, v, l)
    BY <2>2, <2>3, ABuffer, LengthIs
  <2> HIDE DEF v, l
  <2> QED
    BY <1>0, <2>1, <2>3, <2>4, <2>5, GetsABlock
<1> QED
  BY <1>1, <1>2, <1>3, UnusedBlock DEF Buffers!CopyConstruct

LEMMA DestroyKeeps ==
    ASSUME BufferInv, NEW o \in Owners, Buffers!Destroy(o)
    PROVE  BufferInv'
<1>1. CASE Buffers!Ends("null")
  BY <1>1, EndsWell DEF Buffers!Ends
<1>2. CASE /\ Buffers!Put(o, Buffers!Dead) /\ room' = Buffers!Without(room, object[o].block)
           /\ bufferKind' = bufferKind
  <2> DEFINE v == Buffers!Dead
  <2>1. v \in BufferRecord /\ v.block = 0 /\ v.size = 0 /\ v.capacity = 0
    BY UnusedBlock DEF Buffers!Dead, BufferRecord
  <2> HIDE DEF v
  <2> QED
    BY <1>2, <2>1, LosesItsBlock DEF v
<1> QED
  BY <1>1, <1>2 DEF Buffers!Destroy

LEMMA CopyAssignKeeps ==
    ASSUME BufferInv, NEW o \in Owners, NEW p \in Owners,
           Buffers!CopyAssign(o, p)
    PROVE  BufferInv'
<1> DEFINE s == object[p]
           freed == Buffers!Without(room, object[o].block)
           l == IF bufferKind = "list" THEN 0 ELSE Buffers!Length(s.capacity)
<1>0. Buffers!Fresh # {} /\ bufferKind' = bufferKind /\ object[p].alive
  BY DEF Buffers!CopyAssign, Buffers!Ends, Buffers!Ready
<1>1. CASE Buffers!Ends("null")
  BY <1>1, EndsWell DEF Buffers!Ends
<1>2. CASE /\ bufferKind = "vector" /\ s.capacity = 0
           /\ Buffers!Put(o, [s EXCEPT !.block = 0]) /\ room' = freed
  <2> DEFINE v == [s EXCEPT !.block = 0]
  <2>1. /\ v \in BufferRecord /\ v.block = 0 /\ v.capacity = 0 /\ v.size = s.size
    BY <1>2, ABuffer DEF BufferRecord
  <2>2. v.size = 0
    BY <1>2, <2>1, ABuffer
  <2>3. Buffers!Put(o, v) /\ room' = freed
    BY <1>2
  <2> HIDE DEF v
  <2> QED
    BY <1>0, <2>1, <2>2, <2>3, LosesItsBlock
<1>3. CASE /\ ~(bufferKind = "vector" /\ s.capacity = 0)
           /\ ~(s.block = 0 /\ (bufferKind = "list" \/ (bufferKind = "string" /\ s.size > 0)))
           /\ Buffers!Put(o, [s EXCEPT !.block = Buffers!NextFresh])
           /\ room' = Buffers!With(freed, Buffers!NextFresh, l)
  <2> DEFINE v == [s EXCEPT !.block = Buffers!NextFresh]
  <2>1. /\ v \in BufferRecord /\ v.block = Buffers!NextFresh /\ v.alive = s.alive
        /\ v.size = s.size /\ v.capacity = s.capacity
    BY <1>0, ABuffer, UnusedBlock DEF BufferRecord, Unused
  <2>2. bufferKind # "list" => s.size <= s.capacity
    <3>1. s.block = 0 => (bufferKind = "string" /\ s.size = 0) \/ bufferKind = "list"
      BY <1>3, ABuffer DEF BufferInv, BufferTypes
    <3> QED
      BY <3>1, ABuffer
  <2>3. Fits(bufferKind, v, l)
    BY <2>1, <2>2, ABuffer, LengthIs
  <2>4. Buffers!Put(o, v) /\ room' = Buffers!With(freed, Buffers!NextFresh, l)
    BY <1>3
  <2> HIDE DEF v, l, s
  <2>5. v.alive
    BY <1>0, <2>1 DEF s
  <2> QED
    BY <1>0, <2>1, <2>3, <2>4, <2>5, GetsABlock
<1>4. Buffers!NextFresh # 0
  BY <1>0, UnusedBlock DEF Unused, MemoryAssumption
<1> QED
  BY <1>1, <1>2, <1>3, <1>4, UnusedBlock DEF Buffers!CopyAssign

LEMMA MovedFromIs ==
    ASSUME NEW s \in BufferRecord
    PROVE  /\ Buffers!MovedFrom(s) \in BufferRecord /\ Buffers!MovedFrom(s).block = 0
           /\ Sane(bufferKind, Buffers!MovedFrom(s))
<1>1. CASE bufferKind = "vector"
  <2>1. Buffers!MovedFrom(s) = Buffers!Holding(0, 0, 0)
    BY <1>1, UnusedBlock DEF Buffers!MovedFrom, Buffers!Nothing
  <2> QED
    BY <1>1, <2>1, HoldingIs DEF Sane
<1>2. CASE bufferKind # "vector"
  BY <1>2 DEF Buffers!MovedFrom, Buffers!None, BufferRecord, Sane
<1> QED
  BY <1>1, <1>2

LEMMA MoveConstructKeeps ==
    ASSUME BufferInv, NEW o \in Owners, NEW p \in Owners,
           Buffers!MoveConstruct(o, p)
    PROVE  BufferInv'
<1> DEFINE s == object[p]
           w == Buffers!MovedFrom(s)
<1>1. /\ object' = [object EXCEPT ![o] = s, ![p] = w] /\ bufferKind' = bufferKind
      /\ ~object[o].alive /\ object[p].alive
      /\ \/ room' = room
         \/ /\ Buffers!Fresh # {} /\ bufferKind # "string"
            /\ room' = Buffers!With(room, Buffers!NextFresh, 0)
  BY DEF Buffers!MoveConstruct, Buffers!Ready
<1>2. s \in BufferRecord /\ Sane(bufferKind, s) /\ w \in BufferRecord /\ w.block = 0 /\ Sane(bufferKind, w)
  BY ABuffer, MovedFromIs DEF BufferInv, BufferFacts
<1>3. o # p /\ object[o].block = 0
  BY <1>1, ABuffer
<1>4. DOMAIN room' \subseteq Blocks /\ \A x \in DOMAIN room : x \in DOMAIN room' /\ room'[x] = room[x]
  <2>1. CASE room' = room
    BY <2>1 DEF BufferInv, BufferTypes
  <2>2. CASE /\ Buffers!Fresh # {}
             /\ room' = Buffers!With(room, Buffers!NextFresh, 0)
    <3>1. Buffers!NextFresh \in Unused
      BY <2>2, UnusedBlock
    <3> QED
      BY <2>2, <3>1 DEF BufferInv, BufferTypes, Buffers!With, Unused
  <2> QED
    BY <1>1, <2>1, <2>2
<1>5. OthersKeepRoom(o)
  BY <1>4 DEF OthersKeepRoom
<1>6. HasRoom(s) /\ HasRoom(w)
  BY <1>2, <1>4 DEF HasRoom, BufferInv, BufferFacts
<1>7. bufferKind = "string" => \A x \in DOMAIN room' : x \in DOMAIN room /\ x # object[o].block
  BY <1>1, <1>3, <1>4 DEF MemoryAssumption
<1> HIDE DEF w
<1> QED
  BY <1>1, <1>2, <1>3, <1>4, <1>5, <1>6, <1>7, TwoBuffersChange

LEMMA MoveAssignKeeps ==
    ASSUME BufferInv, NEW o \in Owners, NEW p \in Owners,
           Buffers!MoveAssign(o, p)
    PROVE  BufferInv'
<1> DEFINE s == object[p]
           w == Buffers!MovedFrom(s)
           new == Buffers!Holding(Buffers!NextFresh, 0, 0)
<1>1. /\ bufferKind' = bufferKind /\ o # p
      /\ \/ /\ object' = [object EXCEPT ![o] = s, ![p] = w]
            /\ bufferKind = "string" /\ room' = Buffers!Without(room, object[o].block)
         \/ /\ object' = [object EXCEPT ![o] = s, ![p] = w]
            /\ bufferKind # "string" /\ room' = room
         \/ /\ object' = [object EXCEPT ![o] = s, ![p] = new] /\ bufferKind = "list"
            /\ Buffers!Fresh # {} /\ room' = Buffers!With(room, Buffers!NextFresh, 0)
  BY DEF Buffers!MoveAssign
<1>2. s \in BufferRecord /\ Sane(bufferKind, s) /\ w \in BufferRecord /\ w.block = 0 /\ Sane(bufferKind, w)
  BY ABuffer, MovedFromIs DEF BufferInv, BufferFacts
<1>3. s.block # 0 => /\ s.block \in DOMAIN room /\ s.block # object[o].block
                     /\ Fits(bufferKind, s, room[s.block])
  BY <1>1 DEF BufferInv, BufferFacts
<1>4. DOMAIN room \subseteq Blocks
  BY DEF BufferInv, BufferTypes
<1>5. CASE /\ object' = [object EXCEPT ![o] = s, ![p] = w]
           /\ bufferKind = "string" /\ room' = Buffers!Without(room, object[o].block)
  <2>1. /\ DOMAIN room' = DOMAIN room \ {object[o].block}
        /\ \A x \in DOMAIN room' : room'[x] = room[x]
    BY <1>5 DEF Buffers!Without
  <2>2. OthersKeepRoom(o) /\ HasRoom(s) /\ HasRoom(w)
    BY <1>2, <1>3, <2>1 DEF OthersKeepRoom, HasRoom
  <2> HIDE DEF w
  <2> QED
    BY <1>1, <1>2, <1>4, <1>5, <2>1, <2>2, TwoBuffersChange
<1>6. CASE /\ object' = [object EXCEPT ![o] = s, ![p] = w]
           /\ bufferKind # "string" /\ room' = room
  <2>1. OthersKeepRoom(o) /\ HasRoom(s) /\ HasRoom(w)
    BY <1>2, <1>3, <1>6 DEF OthersKeepRoom, HasRoom
  <2> HIDE DEF w
  <2> QED
    BY <1>1, <1>2, <1>4, <1>6, <2>1, TwoBuffersChange
<1>7. CASE /\ object' = [object EXCEPT ![o] = s, ![p] = new] /\ bufferKind = "list"
           /\ Buffers!Fresh # {} /\ room' = Buffers!With(room, Buffers!NextFresh, 0)
  <2>1. Buffers!NextFresh \in Unused
    BY <1>7, UnusedBlock
  <2>2. new \in BufferRecord /\ new.alive /\ new.block = Buffers!NextFresh
    BY <2>1, HoldingIs DEF Unused
  <2>3. /\ DOMAIN room' = DOMAIN room \cup {Buffers!NextFresh}
        /\ room'[Buffers!NextFresh] = 0
        /\ \A x \in DOMAIN room : room'[x] = room[x]
    BY <1>7, <2>1 DEF Buffers!With, Unused
  <2>4. OthersKeepRoom(o) /\ HasRoom(s) /\ HasRoom(new) /\ Sane(bufferKind, new)
    BY <1>3, <1>7, <2>2, <2>3 DEF OthersKeepRoom, HasRoom, Sane, Fits
  <2>5. DOMAIN room' \subseteq Blocks
    BY <1>4, <2>1, <2>3 DEF Unused
  <2> HIDE DEF new
  <2> QED
    BY <1>1, <1>2, <1>7, <2>1, <2>2, <2>4, <2>5, TwoBuffersChange
<1> QED
  BY <1>1, <1>5, <1>6, <1>7

LEMMA ExchangeKeeps ==
    ASSUME BufferInv, NEW o \in Owners, NEW p \in Owners, Buffers!Swap(o, p)
    PROVE  BufferInv'
<1>1. object[o] \in BufferRecord /\ object[p] \in BufferRecord
  BY ABuffer
<1> SUFFICES ASSUME NEW v \in BufferRecord, NEW w \in BufferRecord,
                    v = object[p], w = object[o]
             PROVE  BufferInv'
  BY <1>1
<1>2. /\ object' = [object EXCEPT ![o] = v, ![p] = w] /\ o # p
      /\ bufferKind' = bufferKind /\ room' = room
  BY DEF Buffers!Swap
<1>3. Sane(bufferKind, v) /\ Sane(bufferKind, w) /\ DOMAIN room' \subseteq Blocks
  BY <1>2 DEF BufferInv, BufferFacts, BufferTypes
<1>4. OthersKeepRoom(o) /\ HasRoom(v) /\ HasRoom(w)
  BY <1>2 DEF OthersKeepRoom, HasRoom, BufferInv, BufferFacts
<1>5. v.block = object[p].block /\ w.block = object[o].block
  OBVIOUS
<1>6. bufferKind = "string" =>
        \A x \in DOMAIN room' : x = w.block \/ (x \in DOMAIN room /\ x # object[o].block)
  BY <1>2, <1>5
<1> QED
  BY <1>2, <1>3, <1>4, <1>5, <1>6, TwoBuffersChange

(* A new block, long enough for what it is to hold.                        *)
LEMMA HoldsInNewBlock ==
    ASSUME BufferInv, NEW o \in Owners, NEW s \in Nat, NEW c \in Nat, s <= c,
           bufferKind # "list", Buffers!Fresh # {}, bufferKind' = bufferKind,
           Buffers!Put(o, Buffers!Holding(Buffers!NextFresh, s, c)),
           room' = Buffers!With(Buffers!Without(room, object[o].block), Buffers!NextFresh,
                                Buffers!Length(c))
    PROVE  BufferInv'
<1> DEFINE v == Buffers!Holding(Buffers!NextFresh, s, c)
<1>1. v \in BufferRecord /\ v.alive /\ v.block = Buffers!NextFresh /\ v.size = s /\ v.capacity = c
  BY UnusedBlock, HoldingIs DEF Unused
<1>2. Fits(bufferKind, v, Buffers!Length(c))
  BY <1>1, LengthIs
<1>3. Buffers!Put(o, v)
  OBVIOUS
<1> HIDE DEF v
<1> QED
  BY <1>1, <1>2, <1>3, GetsABlock

(* The same block, with another length.                                    *)
SizeSuits(o, n) == /\ bufferKind # "list" => n <= object[o].capacity
                   /\ bufferKind = "vector" /\ object[o].block = 0 => n = 0
LEMMA ChangesItsSize ==
    ASSUME BufferInv, NEW o \in Owners, NEW n \in Nat, object[o].alive,
           Buffers!Put(o, [object[o] EXCEPT !.size = n]), UNCHANGED <<bufferKind, room>>,
           SizeSuits(o, n)
    PROVE  BufferInv'
<1> DEFINE v == [object[o] EXCEPT !.size = n]
<1>1. /\ v \in BufferRecord /\ v.alive = object[o].alive /\ v.block = object[o].block /\ v.size = n
      /\ v.capacity = object[o].capacity
  BY ABuffer DEF BufferRecord
<1>2. Buffers!Put(o, v) /\ v.alive
  BY <1>1
<1>3. Bounded(bufferKind, v)
  BY <1>1 DEF Bounded, SizeSuits
<1> HIDE DEF v
<1> QED
  BY <1>1, <1>2, <1>3, KeepsItsBlock

LEMMA ReserveKeeps ==
    ASSUME BufferInv, NEW o \in Owners, NEW n \in 0 .. 2, Buffers!Reserve(o, n)
    PROVE  BufferInv'
<1>1. CASE Buffers!Ends("null")
  BY <1>1, EndsWell DEF Buffers!Ends
<1>2. CASE /\ ~(bufferKind = "string" /\ object[o].block = 0)
           /\ Buffers!Reallocate(o, n) /\ bufferKind' = bufferKind
  <2> DEFINE v == [object[o] EXCEPT !.block = Buffers!NextFresh, !.capacity = n]
  <2>1. Buffers!Fresh # {} /\ object[o].alive /\ bufferKind # "list" /\ n > object[o].capacity
    BY DEF Buffers!Reserve, Buffers!Ready
  <2>2. /\ v \in BufferRecord /\ v.alive = object[o].alive /\ v.block = Buffers!NextFresh
        /\ v.size = object[o].size /\ v.capacity = n
    <3>1. n \in Nat /\ Buffers!NextFresh \in {0} \cup Blocks
      BY <2>1, UnusedBlock DEF Unused
    <3> QED
      BY <3>1, ABuffer DEF BufferRecord
  <2>3. object[o].size <= object[o].capacity
    BY <1>2, <2>1, ABuffer DEF BufferInv, BufferTypes
  <2>4. n \in Nat /\ v.size <= n
    BY <2>1, <2>2, <2>3, ABuffer
  <2>5. Fits(bufferKind, v, Buffers!Length(n))
    BY <2>1, <2>2, <2>4, LengthIs
  <2>6. Buffers!Put(o, v)
    BY <1>2 DEF Buffers!Reallocate, Buffers!Put, BufferInv, BufferTypes
  <2>7. room' = Buffers!With(Buffers!Without(room, object[o].block), Buffers!NextFresh,
                             Buffers!Length(n))
    BY <1>2 DEF Buffers!Reallocate
  <2> HIDE DEF v
  <2> QED
    BY <1>2, <2>1, <2>2, <2>5, <2>6, <2>7, GetsABlock
<1> QED
  BY <1>1, <1>2, UnusedBlock DEF Buffers!Reserve

LEMMA PushKeeps ==
    ASSUME BufferInv, NEW o \in Owners, Buffers!Push(o)
    PROVE  BufferInv'
<1> DEFINE v == object[o]
           c == Buffers!DoubledCapacity(v)
<1>0. Buffers!Fresh # {} /\ v.alive /\ v.size \in Nat /\ v.capacity \in Nat
  BY ABuffer DEF Buffers!Push, Buffers!Ready
<1>1. CASE Buffers!Ends("null") \/ Buffers!Ends("outside")
  BY <1>1, EndsWell DEF Buffers!Ends
<1>2. CASE /\ ~(bufferKind # "vector" /\ v.block = 0)
           /\ ~(bufferKind = "vector" /\ v.size = v.capacity /\ c = 0)
           /\ bufferKind # "list" /\ v.size = v.capacity
           /\ Buffers!Put(o, Buffers!Holding(Buffers!NextFresh, v.size + 1, c))
           /\ room' = Buffers!With(Buffers!Without(room, v.block), Buffers!NextFresh,
                                   Buffers!Length(c))
           /\ bufferKind' = bufferKind
  <2>1. c \in Nat /\ v.size + 1 <= c
    <3>1. bufferKind = "vector" /\ v.block = 0 => v.size = 0
      BY ABuffer
    <3>2. c = IF bufferKind = "string" THEN IF v.capacity = 0 THEN 2 ELSE v.capacity * 2
              ELSE IF v.block = 0 THEN 10 ELSE v.capacity * 2
      BY UnusedBlock DEF Buffers!DoubledCapacity
    <3>3. bufferKind = "string" \/ bufferKind = "vector"
      BY <1>2 DEF BufferInv, BufferTypes
    <3>4. CASE bufferKind = "string"
      BY <1>0, <1>2, <3>2, <3>4
    <3>5. CASE bufferKind = "vector" /\ v.block = 0
      BY <1>0, <3>1, <3>2, <3>5
    <3>6. CASE bufferKind = "vector" /\ v.block # 0
      <4>1. c = v.capacity * 2 /\ c # 0
        BY <1>2, <3>2, <3>6
      <4> QED
        BY <1>0, <1>2, <4>1
    <3> QED
      BY <3>3, <3>4, <3>5, <3>6
  <2> HIDE DEF c
  <2> QED
    BY <1>0, <1>2, <2>1, HoldsInNewBlock
<1>3. CASE /\ ~(bufferKind # "vector" /\ v.block = 0)
           /\ bufferKind = "list" \/ v.size < v.capacity
           /\ Buffers!Put(o, [v EXCEPT !.size = @ + 1])
           /\ UNCHANGED <<bufferKind, room>>
  <2>1. Buffers!Put(o, [v EXCEPT !.size = v.size + 1])
    BY <1>3
  <2>2. bufferKind = "vector" => v.block # 0
    BY <1>3, ABuffer
  <2>3. bufferKind # "list" => v.size + 1 <= v.capacity
    BY <1>0, <1>3
  <2>4. SizeSuits(o, v.size + 1) /\ v.size + 1 \in Nat
    BY <1>0, <2>2, <2>3 DEF SizeSuits
  <2>5. UNCHANGED <<bufferKind, room>>
    BY <1>3
  <2> QED
    BY <1>0, <2>1, <2>4, <2>5, ChangesItsSize
<1>4. bufferKind \in {"string", "list"} <=> bufferKind # "vector"
  BY DEF BufferInv, BufferTypes
<1> QED
  BY <1>1, <1>2, <1>3, <1>4, UnusedBlock DEF Buffers!Push

LEMMA ShrinkKeeps ==
    ASSUME BufferInv, NEW o \in Owners,
           Buffers!Pop(o) \/ Buffers!Clear(o) \/ Buffers!Erase(o)
    PROVE  BufferInv'
<1> DEFINE v == object[o]
<1>0. v.size \in Nat /\ v.capacity \in Nat /\ v.alive
  BY ABuffer DEF Buffers!Pop, Buffers!Clear, Buffers!Erase, Buffers!Ready
<1>1. CASE Buffers!Ends("null") \/ Buffers!Ends("outside")
  BY <1>1, EndsWell DEF Buffers!Ends
<1>2. CASE \E n \in Nat : /\ n <= v.size /\ Buffers!Put(o, [v EXCEPT !.size = n])
                          /\ UNCHANGED <<bufferKind, room>>
                          /\ bufferKind # "string"
  <2>1. PICK n \in Nat : /\ n <= v.size /\ Buffers!Put(o, [v EXCEPT !.size = n])
                         /\ UNCHANGED <<bufferKind, room>> /\ bufferKind # "string"
    BY <1>2
  <2>2. bufferKind # "list" => v.size <= v.capacity
    BY <2>1, ABuffer DEF BufferInv, BufferTypes
  <2>3. bufferKind = "vector" /\ v.block = 0 => n = 0
    <3>1. bufferKind = "vector" /\ v.block = 0 => v.size = 0
      BY ABuffer
    <3> QED
      BY <2>1, <3>1
  <2>4. bufferKind # "list" => n <= v.capacity
    BY <1>0, <2>1, <2>2
  <2>5. SizeSuits(o, n)
    BY <2>3, <2>4 DEF SizeSuits
  <2> QED
    BY <1>0, <2>1, <2>5, ChangesItsSize
<1>3. CASE Buffers!Pop(o) /\ ~Buffers!Ends("null") /\ ~Buffers!Ends("outside")
  <2> DEFINE n == IF v.size = 0 THEN 0 ELSE v.size - 1
  <2>1. /\ Buffers!Put(o, [v EXCEPT !.size = n]) /\ UNCHANGED <<bufferKind, room>>
        /\ bufferKind # "string"
    BY <1>3 DEF Buffers!Pop
  <2>2. n \in Nat /\ n <= v.size
    BY <1>0
  <2> QED
    BY <1>2, <2>1, <2>2
<1>4. CASE Buffers!Clear(o) /\ ~Buffers!Ends("null")
  <2>1. /\ Buffers!Put(o, [v EXCEPT !.size = 0]) /\ UNCHANGED <<bufferKind, room>>
        /\ bufferKind # "string"
    BY <1>4 DEF Buffers!Clear
  <2> QED
    BY <1>0, <1>2, <2>1
<1>5. CASE Buffers!Erase(o)
  <2>1. /\ Buffers!Put(o, [v EXCEPT !.size = v.size - 1]) /\ UNCHANGED <<bufferKind, room>>
        /\ bufferKind # "string" /\ v.size > 0
    BY <1>5 DEF Buffers!Erase
  <2>2. v.size - 1 \in Nat /\ v.size - 1 <= v.size
    BY <1>0, <2>1
  <2> QED
    BY <1>2, <2>1, <2>2
<1> QED
  BY <1>1, <1>3, <1>4, <1>5

LEMMA AppendKeeps ==
    ASSUME BufferInv, NEW o \in Owners, NEW p \in Owners, Buffers!Append(o, p)
    PROVE  BufferInv'
<1> DEFINE v == object[o]
           n == v.size + object[p].size
<1>0. /\ Buffers!Fresh # {} /\ v.alive /\ v.size \in Nat /\ v.capacity \in Nat
      /\ object[p].size \in Nat
  BY ABuffer DEF Buffers!Append, Buffers!Ready
<1>1. CASE Buffers!Ends("null")
  BY <1>1, EndsWell DEF Buffers!Ends
<1>2. CASE /\ bufferKind # "list" /\ bufferKind' = bufferKind
           /\ Buffers!Put(o, Buffers!Holding(Buffers!NextFresh, n, n))
           /\ room' = Buffers!With(Buffers!Without(room, v.block), Buffers!NextFresh,
                                   Buffers!Length(n))
  <2>1. n \in Nat /\ n <= n
    BY <1>0
  <2> HIDE DEF n
  <2> QED
    BY <1>0, <1>2, <2>1, HoldsInNewBlock
<1>3. CASE /\ \/ bufferKind = "list" \/ n <= v.capacity
              \/ bufferKind = "vector" /\ object[p].size = 0
           /\ bufferKind = "string" => v.block # 0
           /\ Buffers!Put(o, [v EXCEPT !.size = n]) /\ UNCHANGED <<bufferKind, room>>
  <2>1. n \in Nat
    BY <1>0
  <2>2. bufferKind # "list" => v.size <= v.capacity
    <3>1. v.block = 0 /\ bufferKind = "vector" => v.size = 0
      BY ABuffer
    <3>2. v.block # 0 /\ bufferKind # "list" => v.size <= v.capacity
      BY ABuffer
    <3> QED
      BY <1>0, <1>3, <3>1, <3>2
  <2>3. bufferKind # "list" => n <= v.capacity
    BY <1>0, <1>3, <2>2
  <2>4. bufferKind = "vector" /\ v.block = 0 => n = 0
    <3>1. bufferKind = "vector" /\ v.block = 0 => v.capacity = 0
      BY ABuffer
    <3> QED
      BY <2>1, <2>3, <3>1
  <2>5. SizeSuits(o, n)
    BY <2>3, <2>4 DEF SizeSuits
  <2> HIDE DEF n
  <2>6. Buffers!Put(o, [v EXCEPT !.size = n]) /\ UNCHANGED <<bufferKind, room>>
    BY <1>3
  <2> QED
    BY <1>0, <2>1, <2>5, <2>6, ChangesItsSize
<1> QED
  BY <1>1, <1>2, <1>3, UnusedBlock DEF Buffers!Append, Buffers!FollowsNull

LEMMA ResizeKeeps ==
    ASSUME BufferInv, NEW o \in Owners, NEW n \in 0 .. 2, Buffers!Resize(o, n)
    PROVE  BufferInv'
<1> DEFINE v == object[o]
           size == IF bufferKind = "vector" /\ n > v.size THEN v.size ELSE n
<1>0. /\ Buffers!Fresh # {} /\ v.alive /\ v.size \in Nat /\ v.capacity \in Nat
      /\ bufferKind # "list" /\ n \in Nat
  BY ABuffer DEF Buffers!Resize, Buffers!Ready
<1>1. size \in Nat /\ size <= n
  BY <1>0
<1>2. CASE Buffers!Ends("null")
  BY <1>2, EndsWell DEF Buffers!Ends
<1>3. CASE /\ bufferKind' = bufferKind
           /\ Buffers!Put(o, Buffers!Holding(Buffers!NextFresh, size, n))
           /\ room' = Buffers!With(Buffers!Without(room, v.block), Buffers!NextFresh,
                                   Buffers!Length(n))
  <2> HIDE DEF size
  <2> QED
    BY <1>0, <1>1, <1>3, HoldsInNewBlock
<1>4. CASE /\ n <= v.capacity /\ Buffers!Put(o, [v EXCEPT !.size = size])
           /\ UNCHANGED <<bufferKind, room>>
  <2>1. size <= v.capacity
    BY <1>0, <1>1, <1>4
  <2>2. bufferKind = "vector" /\ v.block = 0 => size = 0
    <3>1. bufferKind = "vector" /\ v.block = 0 => v.capacity = 0
      BY ABuffer
    <3> QED
      BY <1>1, <2>1, <3>1
  <2>3. SizeSuits(o, size)
    BY <2>1, <2>2 DEF SizeSuits
  <2> HIDE DEF size
  <2>4. Buffers!Put(o, [v EXCEPT !.size = size]) /\ UNCHANGED <<bufferKind, room>>
    BY <1>4
  <2> QED
    BY <1>0, <1>1, <2>3, <2>4, ChangesItsSize
<1> QED
  BY <1>2, <1>3, <1>4, UnusedBlock DEF Buffers!Resize

LEMMA InsertTextKeeps ==
    ASSUME BufferInv, NEW o \in Owners, NEW n \in 0 .. 2, Buffers!InsertText(o, n)
    PROVE  BufferInv'
<1> DEFINE v == object[o]
           m == v.size + n
<1>0. /\ Buffers!Fresh # {} /\ v.alive /\ v.size \in Nat /\ v.capacity \in Nat
      /\ bufferKind = "string" /\ m \in Nat /\ m <= m
  BY ABuffer DEF Buffers!InsertText, Buffers!Ready
<1>1. CASE Buffers!Ends("null")
  BY <1>1, EndsWell DEF Buffers!Ends
<1>2. CASE /\ bufferKind' = bufferKind
           /\ Buffers!Put(o, Buffers!Holding(Buffers!NextFresh, m, m))
           /\ room' = Buffers!With(Buffers!Without(room, v.block), Buffers!NextFresh,
                                   Buffers!Length(m))
  <2> HIDE DEF m
  <2> QED
    BY <1>0, <1>2, HoldsInNewBlock
<1>3. CASE /\ m <= v.capacity /\ Buffers!Put(o, [v EXCEPT !.size = @ + n])
           /\ UNCHANGED <<bufferKind, room>>
  <2>1. Buffers!Put(o, [v EXCEPT !.size = m])
    BY <1>3
  <2>2. SizeSuits(o, m)
    BY <1>0, <1>3 DEF SizeSuits
  <2> HIDE DEF m
  <2>3. UNCHANGED <<bufferKind, room>>
    BY <1>3
  <2> QED
    BY <1>0, <2>1, <2>2, <2>3, ChangesItsSize
<1> QED
  BY <1>1, <1>2, <1>3, UnusedBlock DEF Buffers!InsertText

(* The invariant of the buffers.                                           *)
LEMMA BufferInvStep == BufferInv /\ [Buffers!Next]_buffers => BufferInv'
<1> SUFFICES ASSUME BufferInv, [Buffers!Next]_buffers PROVE BufferInv'
  OBVIOUS
<1>1. CASE UNCHANGED buffers
  BY <1>1, EndsWell DEF buffers
<1>2. ASSUME NEW o \in Owners,
             \/ Buffers!ConstructEmpty(o) \/ Buffers!Destroy(o) \/ Buffers!Push(o)
             \/ Buffers!Pop(o) \/ Buffers!Clear(o) \/ Buffers!Erase(o)
      PROVE  BufferInv'
  BY <1>2, ConstructKeeps, DestroyKeeps, PushKeeps, ShrinkKeeps
<1>3. ASSUME NEW o \in Owners, NEW n \in 0 .. 2,
             \/ Buffers!Construct(o, n) \/ Buffers!Resize(o, n) \/ Buffers!Reserve(o, n)
             \/ Buffers!InsertText(o, n)
      PROVE  BufferInv'
  BY <1>3, ConstructKeeps, ResizeKeeps, ReserveKeeps, InsertTextKeeps
<1>4. ASSUME NEW o \in Owners, NEW p \in Owners,
             Buffers!CopyConstruct(o, p) \/ Buffers!MoveConstruct(o, p)
      PROVE  BufferInv'
  BY <1>4, CopyConstructKeeps, MoveConstructKeeps
<1>5. ASSUME NEW o \in Owners, NEW p \in Owners,
             Buffers!CopyAssign(o, p) \/ Buffers!MoveAssign(o, p)
      PROVE  BufferInv'
  BY <1>5, CopyAssignKeeps, MoveAssignKeeps
<1>6. ASSUME NEW o \in Owners, NEW p \in Owners, Buffers!Swap(o, p) \/ Buffers!Append(o, p)
      PROVE  BufferInv'
  BY <1>6, ExchangeKeeps, AppendKeeps
<1> QED
  BY <1>1, <1>2, <1>3, <1>4, <1>5, <1>6 DEF Buffers!Next

LEMMA BufferInvHolds == Buffers!Init => BufferInv
<1> SUFFICES ASSUME Buffers!Init PROVE BufferInv
  OBVIOUS
<1>1. \A o \in Owners : object[o] = Buffers!Dead
  BY DEF Buffers!Init
<1>2. /\ Buffers!Dead \in BufferRecord /\ Buffers!Dead.block = 0
      /\ Buffers!Dead.size = 0 /\ Buffers!Dead.capacity = 0
  BY UnusedBlock DEF Buffers!Dead, BufferRecord
<1>3. DOMAIN room = {}
  BY DEF Buffers!Init
<1>4. BufferTypes
  BY <1>2, <1>3 DEF Buffers!Init, BufferTypes
<1> HIDE DEF Buffers!Dead
<1> QED
  BY <1>1, <1>2, <1>3, <1>4 DEF BufferInv, BufferFacts, Sane

LEMMA BufferInvShows == BufferInv => Buffers!OneOwner
<1> SUFFICES ASSUME BufferInv PROVE Buffers!OneOwner
  OBVIOUS
<1>1. \A o \in Owners : object[o].block # 0 =>
        /\ object[o].block \in DOMAIN room
        /\ bufferKind # "list" =>
             /\ object[o].size <= object[o].capacity
             /\ Buffers!Length(object[o].capacity) <= room[object[o].block]
  BY DEF BufferInv, BufferFacts, Fits, Buffers!Length
<1> QED
  BY <1>1, UnusedBlock DEF BufferInv, BufferFacts, Buffers!OneOwner, Buffers!Allocated

-----------------------------------------------------------------------------
(* The smart pointers.  What holds of those that share and of those that   *)
(* own alone, for any pointers pt, things th and counts ct.                *)
PtrRecord == [alive : BOOLEAN, thing : {0} \cup Things, counter : {0} \cup Counters]
PtrTypes(pt) == pt \in [Handles -> PtrRecord]
Sharers(pt, c) == {q \in Handles : pt[q].alive /\ pt[q].counter = c}
Nothing == [alive |-> FALSE, thing |-> 0, counter |-> 0]
Emptied(c) == [alive |-> TRUE, thing |-> 0, counter |-> c]

Counted(pt, ct) == \A p \in Handles : pt[p].alive =>
    pt[p].counter \in DOMAIN ct /\ ct[pt[p].counter] = Cardinality(Sharers(pt, pt[p].counter))
Present(pt, th) == \A p \in Handles : pt[p].alive => pt[p].thing \in th \cup {0}
Owned(pt, th) == \A t \in th : \E p \in Handles : pt[p].alive /\ pt[p].thing = t
OneThing(pt) == \A p, q \in Handles :
    pt[p].alive /\ pt[q].alive /\ pt[p].counter = pt[q].counter => pt[p].thing = pt[q].thing
OneCounter(pt) == \A p, q \in Handles :
    pt[p].alive /\ pt[q].alive /\ pt[p].thing = pt[q].thing /\ pt[p].thing # 0
        => pt[p].counter = pt[q].counter
Alone(pt) == \A p, q \in Handles :
    pt[p].alive /\ pt[q].alive /\ pt[p].thing = pt[q].thing /\ pt[p].thing # 0 => p = q

SharedWell(pt, th, ct) ==
    PtrTypes(pt) /\ Counted(pt, ct) /\ Present(pt, th) /\ Owned(pt, th) /\ OneThing(pt) /\ OneCounter(pt)
SoleWell(k, pt, th) ==
    PtrTypes(pt) /\ Present(pt, th) /\ Alone(pt) /\ (k = "unique" => Owned(pt, th))

LEMMA SharersAreFinite ==
    ASSUME NEW pt, NEW c
    PROVE  IsFiniteSet(Sharers(pt, c)) /\ Cardinality(Sharers(pt, c)) \in Nat
<1>1. Sharers(pt, c) \subseteq Handles
  BY DEF Sharers
<1> QED
  BY <1>1, FS_Subset, FS_CardinalityType DEF MemoryAssumption

(* A new counter counts the one pointer it is made for.                    *)
LEMMA SharedConstruct ==
    ASSUME NEW pt, NEW th \in SUBSET Things, NEW ct, SharedWell(pt, th, ct),
           NEW p \in Handles, ~pt[p].alive, NEW t \in {0} \cup (Things \ th),
           NEW c \in Counters, c \notin DOMAIN ct, NEW pt2, NEW ct2, NEW th2,
           pt2 = [pt EXCEPT ![p] = [alive |-> TRUE, thing |-> t, counter |-> c]],
           DOMAIN ct2 = DOMAIN ct \cup {c}, ct2[c] = 1, \A x \in DOMAIN ct : ct2[x] = ct[x],
           th2 = th \cup ({t} \ {0})
    PROVE  SharedWell(pt2, th2, ct2)
<1>0. /\ pt2[p].alive /\ pt2[p].thing = t /\ pt2[p].counter = c
      /\ \A q \in Handles \ {p} : pt2[q] = pt[q]
      /\ \A q \in Handles : pt[q].alive => pt[q].counter \in DOMAIN ct /\ pt[q].thing \in th \cup {0}
  BY DEF SharedWell, PtrTypes, Counted, Present
<1>1. PtrTypes(pt2)
  BY DEF SharedWell, PtrTypes, PtrRecord
<1>2. Counted(pt2, ct2)
  <2>1. Sharers(pt2, c) = {p}
    BY <1>0 DEF Sharers
  <2>2. Cardinality(Sharers(pt2, c)) = 1
    BY <2>1, FS_Singleton
  <2>3. \A x \in DOMAIN ct : Sharers(pt2, x) = Sharers(pt, x)
    BY <1>0 DEF Sharers
  <2> SUFFICES ASSUME NEW r \in Handles, pt2[r].alive
               PROVE  /\ pt2[r].counter \in DOMAIN ct2
                      /\ ct2[pt2[r].counter] = Cardinality(Sharers(pt2, pt2[r].counter))
    BY DEF Counted
  <2>4. CASE r = p
    BY <1>0, <2>2, <2>4
  <2>5. CASE r # p
    <3>1. pt[r].counter \in DOMAIN ct /\ ct[pt[r].counter] = Cardinality(Sharers(pt, pt[r].counter))
      BY <1>0, <2>5 DEF SharedWell, Counted
    <3> QED
      BY <1>0, <2>3, <2>5, <3>1
  <2> QED
    BY <2>4, <2>5
<1>3. Present(pt2, th2)
  BY <1>0 DEF Present
<1>4. Owned(pt2, th2)
  BY <1>0 DEF SharedWell, Owned
<1>5. OneThing(pt2)
  BY <1>0 DEF SharedWell, OneThing
<1>6. OneCounter(pt2)
  BY <1>0 DEF SharedWell, OneCounter
<1> QED
  BY <1>1, <1>2, <1>3, <1>4, <1>5, <1>6 DEF SharedWell

(* release: the last owner deletes, any other one leaves the rest.         *)
LEMMA SharedRelease ==
    ASSUME NEW pt, NEW th \in SUBSET Things, NEW ct, SharedWell(pt, th, ct),
           NEW p \in Handles, pt[p].alive, NEW pt2, NEW ct2, NEW th2,
           pt2 = [pt EXCEPT ![p] = Nothing],
           \/ /\ ct[pt[p].counter] = 1 /\ pt[p].thing # 0
              /\ DOMAIN ct2 = DOMAIN ct \ {pt[p].counter} /\ th2 = th \ {pt[p].thing}
           \/ /\ ~(ct[pt[p].counter] = 1 /\ pt[p].thing # 0)
              /\ DOMAIN ct2 = DOMAIN ct /\ ct2[pt[p].counter] = ct[pt[p].counter] - 1
              /\ th2 = th,
           \A x \in DOMAIN ct2 \ {pt[p].counter} : ct2[x] = ct[x]
    PROVE  SharedWell(pt2, th2, ct2)
<1> DEFINE c == pt[p].counter
           t == pt[p].thing
<1>0. /\ ~pt2[p].alive /\ \A q \in Handles \ {p} : pt2[q] = pt[q]
      /\ \A q \in Handles : pt[q].alive => pt[q].counter \in DOMAIN ct /\ pt[q].thing \in th \cup {0}
  BY DEF SharedWell, PtrTypes, Counted, Present, Nothing
<1>1. PtrTypes(pt2)
  BY DEF SharedWell, PtrTypes, PtrRecord, Nothing
<1>2. /\ Sharers(pt2, c) = Sharers(pt, c) \ {p} /\ p \in Sharers(pt, c)
      /\ \A x : x # c => Sharers(pt2, x) = Sharers(pt, x)
  BY <1>0 DEF Sharers
<1>3. /\ ct[c] = Cardinality(Sharers(pt, c))
      /\ Cardinality(Sharers(pt2, c)) = Cardinality(Sharers(pt, c)) - 1
      /\ Cardinality(Sharers(pt, c)) \in Nat
  <2>1. ct[c] = Cardinality(Sharers(pt, c))
    BY DEF SharedWell, Counted
  <2>2. IsFiniteSet(Sharers(pt, c)) /\ Cardinality(Sharers(pt, c)) \in Nat
    BY SharersAreFinite
  <2>3. Cardinality(Sharers(pt, c) \ {p}) = Cardinality(Sharers(pt, c)) - 1
    BY <1>2, <2>2, FS_RemoveElement
  <2> QED
    BY <1>2, <2>1, <2>2, <2>3
<1>4. ct[c] = 1 => \A q \in Handles \ {p} : pt[q].alive => pt[q].counter # c
  <2> SUFFICES ASSUME ct[c] = 1 PROVE Sharers(pt2, c) = {}
    BY <1>0 DEF Sharers
  <2>1. Cardinality(Sharers(pt2, c)) = 0
    BY <1>3
  <2> QED
    BY <2>1, SharersAreFinite, FS_EmptySet
<1>5. ct[c] # 1 => \E q \in Handles \ {p} : pt[q].alive /\ pt[q].counter = c
  <2> SUFFICES ASSUME ct[c] # 1, Sharers(pt2, c) = {} PROVE FALSE
    BY <1>0 DEF Sharers
  <2>1. Cardinality(Sharers(pt2, c)) = 0
    BY FS_EmptySet
  <2> QED
    BY <1>3, <2>1
<1>6. Counted(pt2, ct2)
  <2> SUFFICES ASSUME NEW q \in Handles, pt2[q].alive
               PROVE  /\ pt2[q].counter \in DOMAIN ct2
                      /\ ct2[pt2[q].counter] = Cardinality(Sharers(pt2, pt2[q].counter))
    BY DEF Counted
  <2>1. q # p /\ pt2[q] = pt[q] /\ pt[q].alive
    BY <1>0
  <2>2. CASE pt[q].counter = c
    BY <1>0, <1>3, <1>4, <2>1, <2>2
  <2>3. CASE pt[q].counter # c
    <3>1. pt[q].counter \in DOMAIN ct2 /\ ct2[pt[q].counter] = ct[pt[q].counter]
      BY <1>0, <2>1, <2>3
    <3>2. ct[pt[q].counter] = Cardinality(Sharers(pt, pt[q].counter))
      BY <2>1 DEF SharedWell, Counted
    <3> QED
      BY <1>2, <2>1, <2>3, <3>1, <3>2
  <2> QED
    BY <2>2, <2>3
<1>7. Present(pt2, th2)
  <2> SUFFICES ASSUME NEW q \in Handles, pt2[q].alive PROVE pt2[q].thing \in th2 \cup {0}
    BY DEF Present
  <2>1. q # p /\ pt2[q] = pt[q] /\ pt[q].alive
    BY <1>0
  <2>2. CASE ct[c] = 1 /\ t # 0
    <3>1. pt[q].counter # c
      BY <1>4, <2>1, <2>2
    <3>2. pt[q].thing # t
      BY <2>1, <2>2, <3>1 DEF SharedWell, OneCounter
    <3> QED
      BY <1>0, <2>1, <2>2, <3>2
  <2>3. CASE ~(ct[c] = 1 /\ t # 0)
    BY <1>0, <2>1, <2>3
  <2> QED
    BY <2>2, <2>3
<1>8. Owned(pt2, th2)
  <2> SUFFICES ASSUME NEW x \in th2 PROVE \E q \in Handles : pt2[q].alive /\ pt2[q].thing = x
    BY DEF Owned
  <2>1. x \in th /\ x # 0
    BY DEF MemoryAssumption
  <2>2. PICK r \in Handles : pt[r].alive /\ pt[r].thing = x
    BY <2>1 DEF SharedWell, Owned
  <2>3. CASE r # p
    BY <1>0, <2>2, <2>3
  <2>4. CASE r = p
    <3>1. ct[c] # 1
      BY <2>1, <2>2, <2>4
    <3>2. PICK q \in Handles \ {p} : pt[q].alive /\ pt[q].counter = c
      BY <1>5, <3>1
    <3>3. pt[q].thing = x
      BY <2>2, <2>4, <3>2 DEF SharedWell, OneThing
    <3> QED
      BY <1>0, <3>2, <3>3
  <2> QED
    BY <2>3, <2>4
<1>9. OneThing(pt2) /\ OneCounter(pt2)
  BY <1>0 DEF SharedWell, OneThing, OneCounter
<1> QED
  BY <1>1, <1>6, <1>7, <1>8, <1>9 DEF SharedWell

(* A copy is counted.                                                      *)
LEMMA SharedCopy ==
    ASSUME NEW pt, NEW th \in SUBSET Things, NEW ct, SharedWell(pt, th, ct),
           NEW p \in Handles, ~pt[p].alive, NEW q \in Handles, pt[q].alive, NEW pt2, NEW ct2,
           pt2 = [pt EXCEPT ![p] = pt[q]], ct2 = [ct EXCEPT ![pt[q].counter] = @ + 1]
    PROVE  SharedWell(pt2, th, ct2)
<1> DEFINE c == pt[q].counter
<1>0. /\ pt2[p] = pt[q] /\ p # q /\ \A r \in Handles \ {p} : pt2[r] = pt[r]
      /\ \A r \in Handles : pt[r].alive => pt[r].counter \in DOMAIN ct
  BY DEF SharedWell, PtrTypes, Counted
<1>1. PtrTypes(pt2)
  BY DEF SharedWell, PtrTypes
<1>2. /\ Sharers(pt2, c) = Sharers(pt, c) \cup {p} /\ p \notin Sharers(pt, c)
      /\ \A x : x # c => Sharers(pt2, x) = Sharers(pt, x)
  BY <1>0 DEF Sharers
<1>3. Cardinality(Sharers(pt2, c)) = Cardinality(Sharers(pt, c)) + 1
  BY <1>2, SharersAreFinite, FS_AddElement
<1>4. DOMAIN ct2 = DOMAIN ct /\ ct2[c] = ct[c] + 1 /\ \A x \in DOMAIN ct : x # c => ct2[x] = ct[x]
  BY <1>0
<1>5. Counted(pt2, ct2)
  <2> SUFFICES ASSUME NEW r \in Handles, pt2[r].alive
               PROVE  /\ pt2[r].counter \in DOMAIN ct2
                      /\ ct2[pt2[r].counter] = Cardinality(Sharers(pt2, pt2[r].counter))
    BY DEF Counted
  <2>1. \E s \in Handles : pt[s].alive /\ pt[s].counter = pt2[r].counter
    BY <1>0
  <2>2. /\ pt2[r].counter \in DOMAIN ct
        /\ ct[pt2[r].counter] = Cardinality(Sharers(pt, pt2[r].counter))
    BY <2>1 DEF SharedWell, Counted
  <2> QED
    BY <1>2, <1>3, <1>4, <2>2
<1>6. Present(pt2, th)
  BY <1>0 DEF SharedWell, Present
<1>7. Owned(pt2, th)
  BY <1>0 DEF SharedWell, Owned
<1>8. OneThing(pt2)
  BY <1>0 DEF SharedWell, OneThing
<1>9. OneCounter(pt2)
  BY <1>0 DEF SharedWell, OneCounter
<1> QED
  BY <1>1, <1>5, <1>6, <1>7, <1>8, <1>9 DEF SharedWell

(* A move puts one pointer in the place of another, which gets a new       *)
(* counter.                                                                *)
LEMMA SharedMove ==
    ASSUME NEW pt, NEW th \in SUBSET Things, NEW ct, SharedWell(pt, th, ct),
           NEW p \in Handles, ~pt[p].alive, NEW q \in Handles, pt[q].alive,
           NEW c \in Counters, c \notin DOMAIN ct, NEW pt2, NEW ct2, PtrTypes(pt2),
           pt2[p] = pt[q], pt2[q] = Emptied(c), \A r \in Handles \ {p, q} : pt2[r] = pt[r],
           DOMAIN ct2 = DOMAIN ct \cup {c}, ct2[c] = 1, \A x \in DOMAIN ct : ct2[x] = ct[x]
    PROVE  SharedWell(pt2, th, ct2)
<1> DEFINE d == pt[q].counter
<1>0. /\ p # q /\ pt2[q].alive /\ pt2[q].thing = 0 /\ pt2[q].counter = c
      /\ \A r \in Handles : pt[r].alive => pt[r].counter \in DOMAIN ct
  BY DEF SharedWell, Counted, Emptied
<1>1. PtrTypes(pt2)
  OBVIOUS
<1>2. /\ Sharers(pt2, d) = (Sharers(pt, d) \ {q}) \cup {p}
      /\ q \in Sharers(pt, d) /\ p \notin Sharers(pt, d)
      /\ \A x : x # d /\ x # c => Sharers(pt2, x) = Sharers(pt, x)
      /\ Sharers(pt2, c) = {q}
  <2>1. c # d /\ \A r \in Handles : pt[r].alive => pt[r].counter # c
    BY <1>0
  <2>2. Sharers(pt2, d) = (Sharers(pt, d) \ {q}) \cup {p}
    BY <1>0, <2>1 DEF Sharers
  <2>3. q \in Sharers(pt, d) /\ p \notin Sharers(pt, d)
    BY DEF Sharers
  <2>4. \A x : x # d /\ x # c => Sharers(pt2, x) = Sharers(pt, x)
    BY <1>0 DEF Sharers
  <2>5. Sharers(pt2, c) = {q}
    BY <1>0, <2>1 DEF Sharers
  <2> QED
    BY <2>2, <2>3, <2>4, <2>5
<1>3. Cardinality(Sharers(pt2, d)) = Cardinality(Sharers(pt, d))
  <2>1. /\ IsFiniteSet(Sharers(pt, d) \ {q})
        /\ Cardinality(Sharers(pt, d) \ {q}) = Cardinality(Sharers(pt, d)) - 1
    BY <1>2, SharersAreFinite, FS_RemoveElement
  <2>2. Cardinality((Sharers(pt, d) \ {q}) \cup {p}) = Cardinality(Sharers(pt, d) \ {q}) + 1
    <3> DEFINE rest == Sharers(pt, d) \ {q}
    <3>1. p \notin rest /\ IsFiniteSet(rest)
      BY <1>2, <2>1
    <3> HIDE DEF rest
    <3>2. Cardinality(rest \cup {p}) = Cardinality(rest) + 1
      BY <3>1, FS_AddElement
    <3> QED
      BY <3>2 DEF rest
  <2>3. Cardinality(Sharers(pt, d)) \in Nat
    BY SharersAreFinite
  <2> QED
    BY <1>2, <2>1, <2>2, <2>3
<1>4. Cardinality(Sharers(pt2, c)) = 1
  BY <1>2, FS_Singleton
<1>5. Counted(pt2, ct2)
  <2> SUFFICES ASSUME NEW r \in Handles, pt2[r].alive
               PROVE  /\ pt2[r].counter \in DOMAIN ct2
                      /\ ct2[pt2[r].counter] = Cardinality(Sharers(pt2, pt2[r].counter))
    BY DEF Counted
  <2>1. CASE r = q
    BY <1>0, <1>4, <2>1
  <2>2. CASE r # q
    <3>1. \E s \in Handles : pt[s].alive /\ pt[s].counter = pt2[r].counter
      BY <1>0, <2>2
    <3>2. /\ pt2[r].counter \in DOMAIN ct
          /\ ct[pt2[r].counter] = Cardinality(Sharers(pt, pt2[r].counter))
      BY <3>1 DEF SharedWell, Counted
    <3> QED
      BY <1>2, <1>3, <3>2
  <2> QED
    BY <2>1, <2>2
<1>6. Present(pt2, th)
  BY <1>0 DEF SharedWell, Present
<1>7. Owned(pt2, th)
  <2> SUFFICES ASSUME NEW x \in th PROVE \E r \in Handles : pt2[r].alive /\ pt2[r].thing = x
    BY DEF Owned
  <2>1. PICK r \in Handles : pt[r].alive /\ pt[r].thing = x
    BY DEF SharedWell, Owned
  <2>2. CASE r = q
    BY <1>0, <2>1, <2>2
  <2>3. CASE r # q
    BY <1>0, <2>1, <2>3
  <2> QED
    BY <2>2, <2>3
<1> DEFINE From(r) == IF r = p THEN q ELSE r
<1>8. \A r \in Handles \ {q} : From(r) \in Handles /\ pt2[r] = pt[From(r)]
  BY <1>0
<1>9. \A r \in Handles \ {q} : pt2[r].alive => pt2[r].counter # c
  BY <1>0, <1>8
<1> HIDE DEF From
<1>10. OneThing(pt2)
  BY <1>0, <1>8, <1>9 DEF SharedWell, OneThing
<1>11. OneCounter(pt2)
  BY <1>0, <1>8 DEF SharedWell, OneCounter
<1> QED
  BY <1>1, <1>5, <1>6, <1>7, <1>10, <1>11 DEF SharedWell

(* Those that own alone: made, deleted, forgotten and moved.               *)
LEMMA SoleConstruct ==
    ASSUME NEW k, NEW pt, NEW th \in SUBSET Things, SoleWell(k, pt, th),
           NEW p \in Handles, ~pt[p].alive, NEW t \in {0} \cup (Things \ th), NEW pt2, PtrTypes(pt2),
           pt2[p].alive, pt2[p].thing = t, \A r \in Handles \ {p} : pt2[r] = pt[r]
    PROVE  SoleWell(k, pt2, th \cup ({t} \ {0}))
<1>1. Present(pt2, th \cup ({t} \ {0}))
  BY DEF SoleWell, Present
<1>2. Alone(pt2)
  BY DEF SoleWell, Alone, Present
<1>3. k = "unique" => Owned(pt2, th \cup ({t} \ {0}))
  BY DEF SoleWell, Owned
<1> QED
  BY <1>1, <1>2, <1>3 DEF SoleWell

LEMMA SoleRelease ==
    ASSUME NEW k, NEW pt, NEW th \in SUBSET Things, SoleWell(k, pt, th),
           NEW p \in Handles, pt[p].alive, NEW pt2, PtrTypes(pt2),
           ~pt2[p].alive, \A r \in Handles \ {p} : pt2[r] = pt[r]
    PROVE  /\ SoleWell(k, pt2, th \ {pt[p].thing})
           /\ k # "unique" => SoleWell(k, pt2, th)
<1>1. Present(pt2, th \ {pt[p].thing}) /\ Present(pt2, th)
  BY DEF SoleWell, Present, Alone
<1>2. Alone(pt2)
  BY DEF SoleWell, Alone
<1>3. k = "unique" => Owned(pt2, th \ {pt[p].thing})
  BY DEF SoleWell, Owned
<1> QED
  BY <1>1, <1>2, <1>3 DEF SoleWell

LEMMA SoleMove ==
    ASSUME NEW k, NEW pt, NEW th \in SUBSET Things, SoleWell(k, pt, th),
           NEW p \in Handles, ~pt[p].alive, NEW q \in Handles, pt[q].alive, NEW pt2, PtrTypes(pt2),
           pt2[p] = pt[q], pt2[q].alive, pt2[q].thing = 0,
           \A r \in Handles \ {p, q} : pt2[r] = pt[r]
    PROVE  SoleWell(k, pt2, th)
<1>1. Present(pt2, th)
  BY DEF SoleWell, Present
<1>2. Alone(pt2)
  BY DEF SoleWell, Alone
<1>3. k = "unique" => Owned(pt2, th)
  <2> SUFFICES ASSUME Owned(pt, th), NEW x \in th
               PROVE  \E r \in Handles : pt2[r].alive /\ pt2[r].thing = x
    BY DEF SoleWell, Owned
  <2>1. PICK r \in Handles : pt[r].alive /\ pt[r].thing = x
    BY DEF Owned
  <2>2. CASE r = q
    BY <2>1, <2>2
  <2>3. CASE r # q
    BY <2>1, <2>3
  <2> QED
    BY <2>2, <2>3
<1> QED
  BY <1>1, <1>2, <1>3 DEF SoleWell

(* The invariant of the pointers; a weak one that looks through none has   *)
(* nothing it could delete.                                                *)
PointerTypes ==
    /\ pointerKind \in {"smart", "unique", "shared"} /\ ~twice
    /\ things \in SUBSET Things /\ DOMAIN count \subseteq Counters
    /\ DOMAIN weak = Watchers
BlindHaveNothing == \A w \in Watchers : weak[w].via = 0 => weak[w].thing = 0
PointersWell ==
    /\ PtrTypes(ptr)
    /\ pointerKind = "shared" => SharedWell(ptr, things, count)
    /\ pointerKind # "shared" => SoleWell(pointerKind, ptr, things)
PointerInv == PointerTypes /\ BlindHaveNothing /\ PointersWell

LEMMA FreshIsUnused ==
    ASSUME NEW S, NEW used, NEW x \in Pointers!Fresh(S, used)
    PROVE  x \in S \ used
  BY DEF Pointers!Fresh

LEMMA FreshCounterIs ==
    ASSUME NEW c \in Pointers!FreshCounters
    PROVE  /\ pointerKind = "shared" => c \in Counters /\ c \notin DOMAIN count
           /\ pointerKind # "shared" => c = 0
  BY FreshIsUnused DEF Pointers!FreshCounters, Pointers!Shared, Pointers!None

LEMMA OwningIs ==
    ASSUME NEW t, NEW c
    PROVE  /\ Pointers!Owning(t, c) = [alive |-> TRUE, thing |-> t, counter |-> c]
           /\ Pointers!Owning(Pointers!None, c) = Emptied(c)
           /\ Pointers!Dead = Nothing /\ Pointers!None = 0
  BY DEF Pointers!Owning, Pointers!None, Pointers!Dead, Emptied, Nothing

LEMMA PointerConstructKeeps ==
    ASSUME PointerInv, NEW p \in Handles,
           NEW t \in {Pointers!None} \cup Pointers!Fresh(Things, things), Pointers!Construct(p, t)
    PROVE  PointerInv'
<1>1. PICK c \in Pointers!FreshCounters :
        /\ ptr' = [ptr EXCEPT ![p] = Pointers!Owning(t, c)]
        /\ count' = Pointers!WithCount(count, c, 1)
  BY DEF Pointers!Construct
<1>2. /\ things' = things \cup ({t} \ {0}) /\ pointerKind' = pointerKind /\ weak' = weak
      /\ twice' = twice /\ ~ptr[p].alive
  BY DEF Pointers!Construct, Pointers!None
<1>3. t \in {0} \cup (Things \ things)
  BY FreshIsUnused DEF Pointers!None
<1>4. ptr' = [ptr EXCEPT ![p] = [alive |-> TRUE, thing |-> t, counter |-> c]]
  BY <1>1, OwningIs
<1>5. /\ pointerKind = "shared" => c \in Counters /\ c \notin DOMAIN count
      /\ pointerKind # "shared" => c = 0
  BY FreshCounterIs
<1>6. PtrTypes(ptr')
  BY <1>3, <1>4, <1>5 DEF PointerInv, PointersWell, PtrTypes, PtrRecord
<1>7. DOMAIN count' \subseteq Counters
  BY <1>1, <1>5 DEF PointerInv, PointerTypes, Pointers!WithCount, Pointers!None
<1>8. CASE pointerKind = "shared"
  <2>1. c \in Counters /\ c # 0 /\ c \notin DOMAIN count
    BY <1>5, <1>8 DEF MemoryAssumption
  <2>2. /\ DOMAIN count' = DOMAIN count \cup {c} /\ count'[c] = 1
        /\ \A x \in DOMAIN count : count'[x] = count[x]
    BY <1>1, <2>1 DEF Pointers!WithCount, Pointers!None
  <2>3. SharedWell(ptr', things', count')
    BY <1>2, <1>3, <1>4, <1>8, <2>1, <2>2, SharedConstruct DEF PointerInv, PointerTypes, PointersWell
  <2> QED
    BY <1>2, <1>3, <1>6, <1>7, <1>8, <2>3 DEF PointerInv, PointerTypes, PointersWell, BlindHaveNothing
<1>9. CASE pointerKind # "shared"
  <2>1. /\ ptr'[p].alive /\ ptr'[p].thing = t /\ \A r \in Handles \ {p} : ptr'[r] = ptr[r]
    BY <1>4 DEF PointerInv, PointersWell, PtrTypes
  <2>2. SoleWell(pointerKind, ptr', things')
    BY <1>2, <1>3, <1>6, <1>9, <2>1, SoleConstruct DEF PointerInv, PointerTypes, PointersWell
  <2> QED
    BY <1>2, <1>3, <1>6, <1>7, <1>9, <2>2 DEF PointerInv, PointerTypes, PointersWell, BlindHaveNothing
<1> QED
  BY <1>8, <1>9

(* Where nothing is missing, something is deleted once.                    *)
LEMMA NothingMissing ==
    ASSUME PointerInv, NEW p \in Handles, ptr[p].alive
    PROVE  ~Pointers!Missing(ptr[p].thing)
  BY DEF Pointers!Missing, Pointers!None, PointerInv, PointersWell, SharedWell, SoleWell, Present

LEMMA DestroyPointerKeeps ==
    ASSUME PointerInv, NEW p \in Handles, Pointers!Destroy(p)
    PROVE  PointerInv'
<1>1. /\ ptr' = [ptr EXCEPT ![p] = Nothing] /\ things' = things \ {ptr[p].thing}
      /\ pointerKind' = pointerKind /\ weak' = weak /\ count' = count
      /\ pointerKind # "shared" /\ ptr[p].alive
  BY OwningIs DEF Pointers!Destroy, Pointers!Shared, Pointers!Deleted
<1>2. ~twice'
  <2>1. ~twice /\ ~Pointers!Missing(ptr[p].thing)
    BY <1>1, NothingMissing DEF PointerInv, PointerTypes
  <2> QED
    BY <2>1 DEF Pointers!Destroy
<1>3. PtrTypes(ptr') /\ ~ptr'[p].alive /\ \A r \in Handles \ {p} : ptr'[r] = ptr[r]
  BY <1>1 DEF PointerInv, PointersWell, PtrTypes, PtrRecord, Nothing
<1>4. SoleWell(pointerKind, ptr', things')
  BY <1>1, <1>3, SoleRelease DEF PointerInv, PointerTypes, PointersWell
<1> QED
  BY <1>1, <1>2, <1>3, <1>4 DEF PointerInv, PointerTypes, PointersWell, BlindHaveNothing

(* release, as ~shared_ptr and the move assignment do it.                  *)
LEMMA ReleasedIs ==
    ASSUME PointerInv, pointerKind = "shared", NEW p \in Handles, ptr[p].alive,
           NEW pt2, pt2 = [ptr EXCEPT ![p] = Nothing]
    PROVE  /\ SharedWell(pt2, Pointers!Left(ptr[p]), Pointers!Released(count, ptr[p]))
           /\ DOMAIN Pointers!Released(count, ptr[p]) \subseteq DOMAIN count
           /\ Pointers!Left(ptr[p]) \subseteq things
<1> DEFINE c == ptr[p].counter
           ct2 == Pointers!Released(count, ptr[p])
           th2 == Pointers!Left(ptr[p])
<1>1. SharedWell(ptr, things, count) /\ things \in SUBSET Things /\ c \in DOMAIN count
  BY DEF PointerInv, PointerTypes, PointersWell, SharedWell, Counted
<1>2. CASE count[c] = 1 /\ ptr[p].thing # 0
  <2>1. Pointers!Last(ptr[p])
    BY <1>2 DEF Pointers!Last, Pointers!None
  <2>2. /\ DOMAIN ct2 = DOMAIN count \ {c} /\ th2 = things \ {ptr[p].thing}
        /\ \A x \in DOMAIN ct2 \ {c} : ct2[x] = count[x]
    BY <2>1 DEF Pointers!Released, Pointers!Left, Pointers!Deleted, Pointers!Without
  <2> HIDE DEF ct2, th2
  <2>3. SharedWell(pt2, th2, ct2)
    BY <1>1, <1>2, <2>2, SharedRelease
  <2> QED
    BY <2>2, <2>3 DEF ct2, th2
<1>3. CASE ~(count[c] = 1 /\ ptr[p].thing # 0)
  <2>1. ~Pointers!Last(ptr[p])
    BY <1>3 DEF Pointers!Last, Pointers!None
  <2>2. ct2 = [count EXCEPT ![c] = @ - 1] /\ th2 = things
    BY <2>1 DEF Pointers!Released, Pointers!Left
  <2>3. /\ DOMAIN ct2 = DOMAIN count /\ ct2[c] = count[c] - 1
        /\ \A x \in DOMAIN ct2 \ {c} : ct2[x] = count[x]
    BY <1>1, <2>2
  <2> HIDE DEF ct2, th2
  <2>4. SharedWell(pt2, th2, ct2)
    BY <1>1, <1>3, <2>2, <2>3, SharedRelease
  <2> QED
    BY <2>2, <2>3, <2>4 DEF ct2, th2
<1> QED
  BY <1>2, <1>3

LEMMA DestroySharedKeeps ==
    ASSUME PointerInv, NEW p \in Handles, Pointers!DestroyShared(p)
    PROVE  PointerInv'
<1>1. /\ ptr' = [ptr EXCEPT ![p] = Nothing] /\ things' = Pointers!Left(ptr[p])
      /\ count' = Pointers!Released(count, ptr[p])
      /\ pointerKind' = pointerKind /\ weak' = weak /\ pointerKind = "shared" /\ ptr[p].alive
  BY OwningIs DEF Pointers!DestroyShared, Pointers!Shared
<1>2. ~twice'
  <2>1. ~twice /\ ~Pointers!Missing(ptr[p].thing)
    BY <1>1, NothingMissing DEF PointerInv, PointerTypes
  <2> QED
    BY <2>1 DEF Pointers!DestroyShared
<1>3. /\ SharedWell(ptr', things', count') /\ DOMAIN count' \subseteq DOMAIN count
      /\ things' \subseteq things
  BY <1>1, ReleasedIs
<1>4. PtrTypes(ptr')
  BY <1>3 DEF SharedWell
<1> QED
  BY <1>1, <1>2, <1>3, <1>4 DEF PointerInv, PointerTypes, PointersWell, BlindHaveNothing

LEMMA CopyPointerKeeps ==
    ASSUME PointerInv, NEW p \in Handles, NEW q \in Handles, Pointers!Copy(p, q)
    PROVE  PointerInv'
<1>1. /\ ptr' = [ptr EXCEPT ![p] = ptr[q]]
      /\ count' = [count EXCEPT ![ptr[q].counter] = @ + 1]
      /\ pointerKind' = pointerKind /\ weak' = weak /\ things' = things /\ twice' = twice
      /\ pointerKind = "shared" /\ ~ptr[p].alive /\ ptr[q].alive
  BY DEF Pointers!Copy, Pointers!Shared
<1>2. SharedWell(ptr', things, count')
  BY <1>1, SharedCopy DEF PointerInv, PointerTypes, PointersWell
<1>3. PtrTypes(ptr') /\ DOMAIN count' = DOMAIN count
  BY <1>1, <1>2 DEF SharedWell
<1> QED
  BY <1>1, <1>2, <1>3 DEF PointerInv, PointerTypes, PointersWell, BlindHaveNothing

LEMMA MovePointerKeeps ==
    ASSUME PointerInv, NEW p \in Handles, NEW q \in Handles,
           Pointers!MoveConstruct(p, q)
    PROVE  PointerInv'
<1>1. PICK c \in Pointers!FreshCounters :
        /\ ptr' = [ptr EXCEPT ![p] = ptr[q], ![q] = Emptied(c)]
        /\ count' = Pointers!WithCount(count, c, 1)
  BY OwningIs DEF Pointers!MoveConstruct
<1>2. /\ pointerKind' = pointerKind /\ weak' = weak /\ twice' = twice /\ things' = things
      /\ ~ptr[p].alive /\ ptr[q].alive /\ p # q
  BY DEF Pointers!MoveConstruct
<1>3. /\ pointerKind = "shared" => c \in Counters /\ c \notin DOMAIN count
      /\ pointerKind # "shared" => c = 0
  BY FreshCounterIs
<1>4. PtrTypes(ptr')
  BY <1>1, <1>3 DEF PointerInv, PointersWell, PtrTypes, PtrRecord, Emptied
<1>5. DOMAIN count' \subseteq Counters
  BY <1>1, <1>3 DEF PointerInv, PointerTypes, Pointers!WithCount, Pointers!None
<1>6. /\ ptr'[p] = ptr[q] /\ ptr'[q] = Emptied(c)
      /\ \A r \in Handles \ {p, q} : ptr'[r] = ptr[r]
  BY <1>1, <1>2 DEF PointerInv, PointersWell, PtrTypes
<1>7. CASE pointerKind = "shared"
  <2>1. c \in Counters /\ c # 0 /\ c \notin DOMAIN count
    BY <1>3, <1>7 DEF MemoryAssumption
  <2>2. /\ DOMAIN count' = DOMAIN count \cup {c} /\ count'[c] = 1
        /\ \A x \in DOMAIN count : count'[x] = count[x]
    BY <1>1, <2>1 DEF Pointers!WithCount, Pointers!None
  <2>3. SharedWell(ptr', things, count')
    BY <1>2, <1>4, <1>6, <1>7, <2>1, <2>2, SharedMove DEF PointerInv, PointerTypes, PointersWell
  <2> QED
    BY <1>2, <1>4, <1>5, <1>7, <2>3 DEF PointerInv, PointerTypes, PointersWell, BlindHaveNothing
<1>8. CASE pointerKind # "shared"
  <2>1. ptr'[q].alive /\ ptr'[q].thing = 0
    BY <1>6 DEF Emptied
  <2>2. SoleWell(pointerKind, ptr', things)
    BY <1>2, <1>4, <1>6, <1>8, <2>1, SoleMove DEF PointerInv, PointerTypes, PointersWell
  <2> QED
    BY <1>2, <1>4, <1>5, <1>8, <2>2 DEF PointerInv, PointerTypes, PointersWell, BlindHaveNothing
<1> QED
  BY <1>7, <1>8

(* A move assignment gives up what the target has, then moves: smart_ptr   *)
(* forgets it, unique_ptr deletes it.                                      *)
LEMMA SoleMoveKeeps ==
    ASSUME PointerInv, NEW p \in Handles, NEW q \in Handles,
           Pointers!MoveSmart(p, q) \/ Pointers!MoveUnique(p, q)
    PROVE  PointerInv'
<1>1. /\ ptr' = [ptr EXCEPT ![p] = ptr[q], ![q] = Emptied(0)]
      /\ pointerKind' = pointerKind /\ weak' = weak /\ count' = count
      /\ p # q /\ ptr[p].alive /\ ptr[q].alive
      /\ \/ pointerKind = "smart" /\ things' = things /\ twice' = twice
         \/ pointerKind = "unique" /\ things' = things \ {ptr[p].thing}
  BY OwningIs DEF Pointers!MoveSmart, Pointers!MoveUnique, Pointers!Deleted
<1>2. ~twice'
  <2>1. ~twice /\ ~Pointers!Missing(ptr[p].thing)
    BY <1>1, NothingMissing DEF PointerInv, PointerTypes
  <2> QED
    BY <2>1 DEF Pointers!MoveSmart, Pointers!MoveUnique
<1> DEFINE pt == [ptr EXCEPT ![p] = Nothing]
<1>3. PtrTypes(ptr) /\ things \in SUBSET Things /\ SoleWell(pointerKind, ptr, things)
  BY <1>1 DEF PointerInv, PointerTypes, PointersWell
<1>4. /\ PtrTypes(pt) /\ ~pt[p].alive /\ \A r \in Handles \ {p} : pt[r] = ptr[r]
      /\ PtrTypes(ptr')
  BY <1>1, <1>3 DEF PtrTypes, PtrRecord, Nothing, Emptied
<1>5. /\ ptr'[p] = pt[q] /\ ptr'[q].alive /\ ptr'[q].thing = 0
      /\ \A r \in Handles \ {p, q} : ptr'[r] = pt[r]
  BY <1>1, <1>3, <1>4 DEF PtrTypes, Emptied
<1>6. pt[q].alive
  BY <1>1, <1>4
<1> HIDE DEF pt
<1>7. SoleWell(pointerKind, pt, things') /\ things' \in SUBSET Things
  <2>1. /\ SoleWell(pointerKind, pt, things \ {ptr[p].thing})
        /\ pointerKind # "unique" => SoleWell(pointerKind, pt, things)
    BY <1>1, <1>3, <1>4, SoleRelease
  <2> QED
    BY <1>1, <1>3, <2>1
<1>8. SoleWell(pointerKind, ptr', things')
  BY <1>4, <1>5, <1>6, <1>7, SoleMove
<1> QED
  BY <1>1, <1>2, <1>4, <1>7, <1>8 DEF PointerInv, PointerTypes, PointersWell, BlindHaveNothing

LEMMA SharedMoveKeeps ==
    ASSUME PointerInv, NEW p \in Handles, NEW q \in Handles,
           Pointers!MoveShared(p, q)
    PROVE  PointerInv'
<1> DEFINE ct == Pointers!Released(count, ptr[p])
           pt == [ptr EXCEPT ![p] = Nothing]
<1>1. PICK c \in Pointers!FreshCounters :
        /\ ptr' = [ptr EXCEPT ![p] = ptr[q], ![q] = Emptied(c)]
        /\ count' = Pointers!WithCount(ct, c, 1)
  BY OwningIs DEF Pointers!MoveShared
<1>2. /\ pointerKind' = pointerKind /\ weak' = weak /\ things' = Pointers!Left(ptr[p])
      /\ p # q /\ ptr[p].alive /\ ptr[q].alive /\ pointerKind = "shared"
  BY DEF Pointers!MoveShared, Pointers!Shared
<1>3. ~twice'
  <2>1. ~twice /\ ~Pointers!Missing(ptr[p].thing)
    BY <1>2, NothingMissing DEF PointerInv, PointerTypes
  <2> QED
    BY <2>1 DEF Pointers!MoveShared
<1>4. /\ SharedWell(pt, things', ct) /\ DOMAIN ct \subseteq DOMAIN count /\ things' \subseteq things
  BY <1>2, ReleasedIs
<1>5. c \in Counters /\ c # 0 /\ c \notin DOMAIN count
  BY <1>2, FreshCounterIs DEF MemoryAssumption
<1>6. /\ DOMAIN count' = DOMAIN ct \cup {c} /\ count'[c] = 1
      /\ \A x \in DOMAIN ct : count'[x] = ct[x]
  <2>1. c \notin DOMAIN ct
    BY <1>4, <1>5
  <2> HIDE DEF ct
  <2> QED
    BY <1>1, <1>5, <2>1 DEF Pointers!WithCount, Pointers!None
<1>7. PtrTypes(ptr)
  BY DEF PointerInv, PointersWell
<1>8. /\ ~pt[p].alive /\ \A r \in Handles \ {p} : pt[r] = ptr[r]
  BY <1>7 DEF PtrTypes, Nothing
<1>9. PtrTypes(ptr')
  BY <1>1, <1>5, <1>7 DEF PtrTypes, PtrRecord, Emptied
<1>10. /\ ptr'[p] = pt[q] /\ ptr'[q] = Emptied(c)
       /\ \A r \in Handles \ {p, q} : ptr'[r] = pt[r]
  BY <1>1, <1>2, <1>7, <1>8 DEF PtrTypes
<1>11. pt[q].alive
  BY <1>2, <1>8
<1>12. things' \in SUBSET Things /\ DOMAIN count' \subseteq Counters /\ c \notin DOMAIN ct
  BY <1>4, <1>5, <1>6 DEF PointerInv, PointerTypes
<1> HIDE DEF pt, ct
<1>13. SharedWell(ptr', things', count')
  BY <1>4, <1>5, <1>6, <1>8, <1>9, <1>10, <1>11, <1>12, SharedMove
<1> QED
  BY <1>2, <1>3, <1>9, <1>12, <1>13 DEF PointerInv, PointerTypes, PointersWell, BlindHaveNothing

(* Weak pointers change nothing but themselves.                            *)
LEMMA WatchersKeep ==
    ASSUME PointerInv, NEW w \in Watchers,
           \/ Pointers!Watch(w) \/ Pointers!EndWatch(w)
           \/ \E v \in Watchers : Pointers!CopyWatch(w, v) \/ Pointers!MoveWatch(w, v)
    PROVE  PointerInv'
<1>1. ASSUME UNCHANGED <<pointerKind, ptr, things, count>>, ~twice',
             DOMAIN weak' = Watchers, BlindHaveNothing'
      PROVE  PointerInv'
  BY <1>1 DEF PointerInv, PointerTypes, PointersWell
<1>2. Pointers!None = 0 /\ Pointers!Blind.via = 0 /\ Pointers!Blind.thing = 0
  BY DEF Pointers!None, Pointers!Blind
<1>3. CASE Pointers!Watch(w)
  <2>1. PICK v : weak' = [weak EXCEPT ![w] = v] /\ (v.via = 0 => v.thing = 0)
    <3>1. CASE weak' = [weak EXCEPT ![w] = [Pointers!Blind EXCEPT !.alive = TRUE]]
      <4>1. [Pointers!Blind EXCEPT !.alive = TRUE].thing = 0
        BY DEF Pointers!Blind, Pointers!None
      <4> QED
        BY <3>1, <4>1
    <3>2. CASE \E p \in Handles :
            weak' = [weak EXCEPT ![w] = [alive |-> TRUE, thing |-> ptr[p].thing, via |-> p]]
      <4>1. PICK p \in Handles :
            weak' = [weak EXCEPT ![w] = [alive |-> TRUE, thing |-> ptr[p].thing, via |-> p]]
        BY <3>2
      <4>2. [alive |-> TRUE, thing |-> ptr[p].thing, via |-> p].via # 0
        BY DEF MemoryAssumption
      <4> QED
        BY <4>1, <4>2
    <3> QED
      BY <1>3, <3>1, <3>2 DEF Pointers!Watch
  <2>2. UNCHANGED <<pointerKind, ptr, things, count, twice>>
    BY <1>3 DEF Pointers!Watch
  <2>3. DOMAIN weak' = Watchers
    BY <2>1 DEF PointerInv, PointerTypes
  <2>4. ASSUME NEW x \in Watchers, weak'[x].via = 0 PROVE weak'[x].thing = 0
    <3>1. CASE x = w
      <4>1. weak'[x] = v
        BY <2>1, <3>1 DEF PointerInv, PointerTypes
      <4> QED
        BY <2>1, <2>4, <4>1
    <3>2. CASE x # w
      <4>1. weak'[x] = weak[x]
        BY <2>1, <3>2 DEF PointerInv, PointerTypes
      <4> QED
        BY <2>4, <4>1 DEF PointerInv, BlindHaveNothing
    <3> QED
      BY <3>1, <3>2
  <2> QED
    BY <1>1, <2>2, <2>3, <2>4 DEF PointerInv, PointerTypes, BlindHaveNothing
<1>4. CASE \E v \in Watchers : Pointers!CopyWatch(w, v)
  BY <1>1, <1>4 DEF Pointers!CopyWatch, PointerInv, PointerTypes, BlindHaveNothing
<1>5. CASE \E v \in Watchers : Pointers!MoveWatch(w, v)
  <2>1. PICK v \in Watchers :
          weak' = [weak EXCEPT ![w] = weak[v], ![v] = [Pointers!Blind EXCEPT !.alive = TRUE]]
    BY <1>5 DEF Pointers!MoveWatch
  <2>2. [Pointers!Blind EXCEPT !.alive = TRUE].thing = 0
    BY DEF Pointers!Blind, Pointers!None
  <2>3. UNCHANGED <<pointerKind, ptr, things, count, twice>>
    BY <1>5 DEF Pointers!MoveWatch
  <2>4. DOMAIN weak' = Watchers /\ BlindHaveNothing'
    BY <2>1, <2>2 DEF PointerInv, PointerTypes, BlindHaveNothing
  <2> QED
    BY <1>1, <2>3, <2>4 DEF PointerInv, PointerTypes
<1>6. CASE Pointers!EndWatch(w)
  <2>1. (IF weak[w].via = Pointers!None THEN weak[w].thing ELSE Pointers!None) = 0
    BY <1>2 DEF PointerInv, BlindHaveNothing
  <2>2. /\ weak' = [weak EXCEPT ![w] = Pointers!Blind] /\ things' = Pointers!Deleted(0)
        /\ twice' = (twice \/ Pointers!Missing(0))
        /\ UNCHANGED <<pointerKind, ptr, count>>
    BY <1>6, <2>1 DEF Pointers!EndWatch
  <2>3. things' = things /\ ~Pointers!Missing(0)
    BY <2>2 DEF Pointers!Deleted, Pointers!Missing, Pointers!None, PointerInv, PointerTypes,
                MemoryAssumption
  <2>4. ~twice'
    BY <2>2, <2>3 DEF PointerInv, PointerTypes
  <2>5. DOMAIN weak' = Watchers /\ BlindHaveNothing'
    BY <1>2, <2>2 DEF PointerInv, PointerTypes, BlindHaveNothing
  <2> QED
    BY <1>1, <2>2, <2>3, <2>4, <2>5
<1> QED
  BY <1>3, <1>4, <1>5, <1>6

LEMMA PointerInvStep == PointerInv /\ [Pointers!Next]_pointers => PointerInv'
<1> SUFFICES ASSUME PointerInv, [Pointers!Next]_pointers PROVE PointerInv'
  OBVIOUS
<1>1. CASE UNCHANGED pointers
  BY <1>1 DEF pointers, PointerInv, PointerTypes, PointersWell, BlindHaveNothing
<1>2. CASE Pointers!Next
  BY <1>2, PointerConstructKeeps, DestroyPointerKeeps, DestroySharedKeeps, CopyPointerKeeps,
     MovePointerKeeps, SoleMoveKeeps, SharedMoveKeeps, WatchersKeep DEF Pointers!Next
<1> QED
  BY <1>1, <1>2

LEMMA PointerInvHolds == Pointers!Init => PointerInv
<1> SUFFICES ASSUME Pointers!Init PROVE PointerInv
  OBVIOUS
<1>1. /\ ptr = [p \in Handles |-> Nothing] /\ things = {} /\ DOMAIN count = {}
      /\ \A w \in Watchers : weak[w].thing = 0
  BY OwningIs DEF Pointers!Init, Pointers!Blind
<1>2. \A p \in Handles : ptr[p] = Nothing /\ ~ptr[p].alive
  BY <1>1 DEF Nothing
<1>3. PtrTypes(ptr)
  BY <1>1 DEF PtrTypes, PtrRecord, Nothing
<1>4. SharedWell(ptr, things, count) /\ SoleWell(pointerKind, ptr, things)
  BY <1>1, <1>2, <1>3 DEF SharedWell, SoleWell, Counted, Present, Owned, OneThing, OneCounter, Alone
<1>5. PointerTypes
  BY <1>1 DEF Pointers!Init, PointerTypes
<1> QED
  BY <1>1, <1>3, <1>4, <1>5 DEF PointerInv, PointersWell, BlindHaveNothing

LEMMA PointerInvShows == PointerInv => Pointers!OwnedOnce
<1> SUFFICES ASSUME PointerInv PROVE Pointers!OwnedOnce
  OBVIOUS
<1> DEFINE alive == {p \in Handles : ptr[p].alive}
           owners(t) == {p \in alive : ptr[p].thing = t}
<1>1. ~twice /\ Pointers!None = 0 /\ 0 \notin things
  BY DEF PointerInv, PointerTypes, Pointers!None, MemoryAssumption
<1>2. \A p \in alive : ptr[p].thing \in things \cup {0}
  BY DEF PointerInv, PointersWell, SharedWell, SoleWell, Present
<1>3. ASSUME NEW t \in things, pointerKind = "shared"
      PROVE  Cardinality({ptr[p].counter : p \in owners(t)}) = 1
  <2>1. PICK p \in Handles : ptr[p].alive /\ ptr[p].thing = t
    BY <1>3 DEF PointerInv, PointersWell, SharedWell, Owned
  <2>2. \A q \in owners(t) : ptr[q].counter = ptr[p].counter
    BY <1>1, <1>3, <2>1 DEF PointerInv, PointersWell, SharedWell, OneCounter
  <2>3. {ptr[q].counter : q \in owners(t)} = {ptr[p].counter}
    BY <2>1, <2>2
  <2> QED
    BY <2>3, FS_Singleton
<1>4. ASSUME NEW t \in things, pointerKind # "shared"
      PROVE  /\ Cardinality(owners(t)) <= 1
             /\ pointerKind = "unique" => Cardinality(owners(t)) = 1
  <2>1. \A p, q \in owners(t) : p = q
    BY <1>1, <1>4 DEF PointerInv, PointersWell, SoleWell, Alone
  <2>2. CASE owners(t) = {}
    <3>1. pointerKind # "unique"
      BY <1>4, <2>2 DEF PointerInv, PointersWell, SoleWell, Owned
    <3>2. Cardinality(owners(t)) = 0
      BY <2>2, FS_EmptySet
    <3> QED
      BY <3>1, <3>2
  <2>3. CASE owners(t) # {}
    <3>1. \E p : owners(t) = {p}
      BY <2>1, <2>3
    <3>2. Cardinality(owners(t)) = 1
      BY <3>1, FS_Singleton
    <3> QED
      BY <3>2
  <2> QED
    BY <2>2, <2>3
<1>5. ASSUME NEW p \in alive, pointerKind = "shared"
      PROVE  count[ptr[p].counter] = Cardinality({q \in alive : ptr[q].counter = ptr[p].counter})
  <2>1. Sharers(ptr, ptr[p].counter) = {q \in alive : ptr[q].counter = ptr[p].counter}
    BY DEF Sharers
  <2> QED
    BY <1>5, <2>1 DEF PointerInv, PointersWell, SharedWell, Counted
<1> QED
  BY <1>1, <1>2, <1>3, <1>4, <1>5, SameCardinality DEF Pointers!OwnedOnce, Pointers!Shared

-----------------------------------------------------------------------------
(* Whatever is made, copied, moved, assigned, grown and destroyed, no two  *)
(* strings, vectors or lists own the same memory and none uses what it gave*)
(* up; no smart pointer deletes what another one has or what is gone, and  *)
(* shared ones count their owners (simulate_string.hpp,                    *)
(* simulate_vector.hpp, simulate_list.hpp, simulate_pointer.hpp).          *)
THEOREM MemoryIsOwnedOnce == MemorySpec => []MemoryHasOneOwner
<1> DEFINE Inv == BufferInv /\ PointerInv
<1>1. MemoryInit => Inv
  BY BufferInvHolds, PointerInvHolds DEF MemoryInit
<1>2. Inv /\ [AtBuffers \/ AtPointers]_<<buffers, pointers>> => Inv'
  <2> SUFFICES ASSUME Inv, [AtBuffers \/ AtPointers]_<<buffers, pointers>> PROVE Inv'
    OBVIOUS
  <2>1. [Buffers!Next]_buffers /\ [Pointers!Next]_pointers
    BY DEF AtBuffers, AtPointers
  <2> QED
    BY <2>1, BufferInvStep, PointerInvStep
<1>3. Inv => MemoryHasOneOwner
  BY BufferInvShows, PointerInvShows DEF MemoryHasOneOwner
<1> HIDE DEF Inv
<1> QED
  BY <1>1, <1>2, <1>3, PTL DEF MemorySpec
=============================================================================
