------------------------ MODULE SharedContainers_proofs ------------------------
(***************************************************************************)
(* Proofs about SharedContainers, for any threads and any objects of any   *)
(* of the fifteen classes: two threads never meet in a container one of    *)
(* them is writing, and calls that order their locks never wait for each   *)
(* other in a circle.                                                      *)
(***************************************************************************)
EXTENDS SharedContainers, FiniteSetTheorems, SequenceTheorems, WellFoundedInduction, TLAPS

Roles == {"self", "other"}
Modes == {"shared", "unique"}
Orders == {"written", "address", "together"}
Kinds == [locks : Seq([role : Roles, mode : Modes]), reads : SUBSET Roles,
          writes : SUBSET Roles, order : Orders, distinct : BOOLEAN, bare : SUBSET Roles]

(* A method locks what it touches: what it reads in some mode, what it     *)
(* writes alone, but for what it empties bare.  By address it locks two    *)
(* objects.                                                                *)
Proper(m) ==
    /\ m \in Kinds /\ Len(m.locks) <= 2
    /\ \A r \in m.reads : \E i \in DOMAIN m.locks : m.locks[i].role = r
    /\ \A r \in m.writes :
         \/ \E i \in DOMAIN m.locks : m.locks[i].role = r /\ m.locks[i].mode = "unique"
         \/ r \in m.bare
    /\ m.order = "address" =>
         /\ m.distinct /\ Len(m.locks) = 2
         /\ m.locks[1].role = "self" /\ m.locks[2].role = "other"

-----------------------------------------------------------------------------
(* The classes *)

LEMMA NoLocks ==
    ASSUME NEW bare \in SUBSET Roles
    PROVE  Proper([locks |-> <<>>, reads |-> {}, writes |-> bare, order |-> "written",
                   distinct |-> FALSE, bare |-> bare])
  BY DEF Proper, Kinds, Roles, Modes, Orders

LEMMA OneLock ==
    ASSUME NEW r \in Roles, NEW x \in Modes, NEW reads \in SUBSET {r}, NEW writes \in SUBSET Roles,
           NEW d \in BOOLEAN, NEW bare \in SUBSET Roles,
           x = "shared" => writes = {}, writes \subseteq {r} \cup bare
    PROVE  Proper([locks |-> <<[role |-> r, mode |-> x]>>, reads |-> reads, writes |-> writes,
                   order |-> "written", distinct |-> d, bare |-> bare])
<1> DEFINE s == <<[role |-> r, mode |-> x]>>
<1>1. s \in Seq([role : Roles, mode : Modes]) /\ Len(s) = 1 /\ DOMAIN s = {1}
      /\ s[1].role = r /\ s[1].mode = x
  OBVIOUS
<1> HIDE DEF s
<1>2. reads \in SUBSET Roles
  OBVIOUS
<1> QED
  BY <1>1, <1>2 DEF Proper, Kinds, Roles, Modes, Orders

LEMMA TwoLocks ==
    ASSUME NEW x \in Modes, NEW y \in Modes, NEW reads \in SUBSET Roles,
           NEW writes \in SUBSET Roles, NEW o \in Orders, NEW d \in BOOLEAN,
           "self" \in writes => x = "unique", "other" \in writes => y = "unique",
           o = "address" => d
    PROVE  Proper([locks |-> <<[role |-> "self", mode |-> x], [role |-> "other", mode |-> y]>>,
                   reads |-> reads, writes |-> writes, order |-> o, distinct |-> d, bare |-> {}])
<1> DEFINE s == <<[role |-> "self", mode |-> x], [role |-> "other", mode |-> y]>>
<1>1. s \in Seq([role : Roles, mode : Modes]) /\ Len(s) = 2 /\ DOMAIN s = {1, 2}
      /\ s[1].role = "self" /\ s[1].mode = x /\ s[2].role = "other" /\ s[2].mode = y
  BY DEF Roles
<1> HIDE DEF s
<1> DEFINE m == [locks |-> s, reads |-> reads, writes |-> writes, order |-> o, distinct |-> d, bare |-> {}]
<1>2. /\ m.locks = s /\ m.reads = reads /\ m.writes = writes /\ m.order = o /\ m.distinct = d
      /\ m.bare = {} /\ m \in Kinds
  BY <1>1 DEF Kinds
<1> HIDE DEF m
<1>3. \A r \in m.reads : \E i \in DOMAIN s : s[i].role = r
  BY <1>1, <1>2 DEF Roles
<1>4. \A r \in m.writes : \E i \in DOMAIN s : s[i].role = r /\ s[i].mode = "unique"
  BY <1>1, <1>2 DEF Roles
<1>5. m.order = "address" => m.distinct
  BY <1>2
<1>6. Len(s) = 2 /\ s[1].role = "self" /\ s[2].role = "other"
  BY <1>1
<1>7. Proper(m)
  BY <1>2, <1>3, <1>4, <1>5, <1>6 DEF Proper
<1> QED
  BY <1>7 DEF m, s

(* The ways in which the classes are put together.                         *)
AllProper(class) == \A m \in class : Proper(Kind(m))

LEMMA Kinded ==
    ASSUME NEW n, NEW locks, NEW reads, NEW writes,
           Proper([locks |-> locks, reads |-> reads, writes |-> writes, order |-> "written",
                   distinct |-> FALSE, bare |-> {}])
    PROVE  Proper(Kind(Method(n, locks, reads, writes)))
<1>1. Kind(Method(n, locks, reads, writes))
        = [locks |-> locks, reads |-> reads, writes |-> writes, order |-> "written",
           distinct |-> FALSE, bare |-> {}]
  BY DEF Kind, Method
<1> QED
  BY <1>1

LEMMA OwnObject ==
    ASSUME NEW n
    PROVE  /\ Proper(Kind(Method(n, <<Shared("self")>>, {"self"}, {})))
           /\ Proper(Kind(Method(n, <<Unique("self")>>, {}, {"self"})))
           /\ Proper(Kind(Method(n, <<Unique("self")>>, {"self"}, {})))
           /\ Proper(Kind(Method(n, <<>>, {}, {})))
<1>0. "self" \in Roles /\ "shared" \in Modes /\ "unique" \in Modes
      /\ {"self"} \in SUBSET Roles /\ {} \in SUBSET Roles /\ FALSE \in BOOLEAN
  BY DEF Roles, Modes
<1>1. Proper([locks |-> <<Shared("self")>>, reads |-> {"self"}, writes |-> {},
              order |-> "written", distinct |-> FALSE, bare |-> {}])
  BY <1>0, OneLock DEF Shared
<1>2. Proper([locks |-> <<Unique("self")>>, reads |-> {}, writes |-> {"self"},
              order |-> "written", distinct |-> FALSE, bare |-> {}])
  BY <1>0, OneLock DEF Unique
<1>3. Proper([locks |-> <<Unique("self")>>, reads |-> {"self"}, writes |-> {},
              order |-> "written", distinct |-> FALSE, bare |-> {}])
  BY <1>0, OneLock DEF Unique
<1>4. Proper([locks |-> <<>>, reads |-> {}, writes |-> {},
              order |-> "written", distinct |-> FALSE, bare |-> {}])
  BY <1>0, NoLocks
<1> QED
  BY <1>1, <1>2, <1>3, <1>4, Kinded

LEMMA BothObjects ==
    ASSUME NEW n
    PROVE  /\ Proper(Kind(Method(n, <<Shared("self"), Shared("other")>>, {"self", "other"}, {})))
           /\ Proper(Kind(Method(n, <<Unique("self"), Shared("other")>>, {"other"}, {"self"})))
<1>0. "shared" \in Modes /\ "unique" \in Modes /\ FALSE \in BOOLEAN /\ "written" \in Orders
      /\ {"self"} \in SUBSET Roles /\ {"other"} \in SUBSET Roles /\ {} \in SUBSET Roles
      /\ {"self", "other"} \in SUBSET Roles
  BY DEF Roles, Modes, Orders
<1>1. Proper([locks |-> <<Shared("self"), Shared("other")>>, reads |-> {"self", "other"},
              writes |-> {}, order |-> "written", distinct |-> FALSE, bare |-> {}])
  BY <1>0, TwoLocks DEF Shared
<1>2. Proper([locks |-> <<Unique("self"), Shared("other")>>, reads |-> {"other"},
              writes |-> {"self"}, order |-> "written", distinct |-> FALSE, bare |-> {}])
  BY <1>0, TwoLocks DEF Shared, Unique
<1> QED
  BY <1>1, <1>2, Kinded

LEMMA Lists ==
    ASSUME NEW names
    PROVE  /\ AllProper(Reading(names)) /\ AllProper(Writing(names))
           /\ AllProper(LookingUp(names)) /\ AllProper(Unguarded(names))
           /\ AllProper(Comparing(names)) /\ AllProper(Updating(names))
<1>1. AllProper(Reading(names))
  BY OwnObject, Zenon DEF AllProper, Reading
<1>2. AllProper(Writing(names))
  BY OwnObject, Zenon DEF AllProper, Writing
<1>3. AllProper(LookingUp(names))
  BY OwnObject, Zenon DEF AllProper, LookingUp
<1>4. AllProper(Unguarded(names))
  BY OwnObject, Zenon DEF AllProper, Unguarded
<1>5. AllProper(Comparing(names))
  BY BothObjects, Zenon DEF AllProper, Comparing
<1>6. AllProper(Updating(names))
  BY BothObjects, Zenon DEF AllProper, Updating
<1> QED
  BY <1>1, <1>2, <1>3, <1>4, <1>5, <1>6

(* The methods that stand for themselves.                                  *)
LEMMA Single ==
    /\ Proper(Kind(CopyConstruct)) /\ Proper(Kind(CopyAssign)) /\ Proper(Kind(Swap))
    /\ Proper(Kind(SwapByAddress)) /\ Proper(Kind(SwapTogether)) /\ Proper(Kind(Merge))
    /\ Proper(Kind(MultimapMove)) /\ Proper(Kind(MultimapMoveAssign))
    /\ Proper(Kind(BareMove)) /\ Proper(Kind(BareMoveAssign))
<1>0. /\ "self" \in Roles /\ "other" \in Roles /\ "shared" \in Modes /\ "unique" \in Modes
      /\ TRUE \in BOOLEAN /\ FALSE \in BOOLEAN
      /\ {"self"} \in SUBSET Roles /\ {"other"} \in SUBSET Roles /\ {} \in SUBSET Roles
      /\ {"self", "other"} \in SUBSET Roles
      /\ "written" \in Orders /\ "address" \in Orders /\ "together" \in Orders
  BY DEF Roles, Modes, Orders
<1>1. Proper(Kind(CopyConstruct))
  <2>1. Kind(CopyConstruct)
          = [locks |-> <<[role |-> "other", mode |-> "shared"]>>, reads |-> {"other"},
             writes |-> {}, order |-> "written", distinct |-> FALSE, bare |-> {}]
    BY DEF Kind, CopyConstruct, Method, Shared
  <2>2. Proper([locks |-> <<[role |-> "other", mode |-> "shared"]>>, reads |-> {"other"},
                writes |-> {}, order |-> "written", distinct |-> FALSE, bare |-> {}])
    BY <1>0, OneLock
  <2> QED
    BY <2>1, <2>2
<1>2. Proper(Kind(CopyAssign))
  <2>1. Kind(CopyAssign)
          = [locks |-> <<[role |-> "self", mode |-> "unique"], [role |-> "other", mode |-> "shared"]>>,
             reads |-> {"other"}, writes |-> {"self"}, order |-> "written", distinct |-> TRUE, bare |-> {}]
    BY DEF Kind, CopyAssign, OfDistinct, Method, Shared, Unique
  <2>2. Proper([locks |-> <<[role |-> "self", mode |-> "unique"],
                            [role |-> "other", mode |-> "shared"]>>,
                reads |-> {"other"}, writes |-> {"self"}, order |-> "written",
                distinct |-> TRUE, bare |-> {}])
    BY <1>0, TwoLocks
  <2> QED
    BY <2>1, <2>2
<1>3. ASSUME NEW o \in Orders, NEW m,
             Kind(m) = [locks |-> <<[role |-> "self", mode |-> "unique"],
                                    [role |-> "other", mode |-> "unique"]>>,
                        reads |-> {}, writes |-> {"self", "other"}, order |-> o, distinct |-> TRUE, bare |-> {}]
      PROVE  Proper(Kind(m))
  <2>1. Proper([locks |-> <<[role |-> "self", mode |-> "unique"],
                            [role |-> "other", mode |-> "unique"]>>,
                reads |-> {}, writes |-> {"self", "other"}, order |-> o, distinct |-> TRUE, bare |-> {}])
    BY <1>0, TwoLocks
  <2> QED
    BY <1>3, <2>1
<1>4. /\ Proper(Kind(Swap)) /\ Proper(Kind(SwapByAddress)) /\ Proper(Kind(SwapTogether))
      /\ Proper(Kind(MultimapMoveAssign))
  <2>1. /\ Swap.locks = <<[role |-> "self", mode |-> "unique"], [role |-> "other", mode |-> "unique"]>>
        /\ Swap.reads = {} /\ Swap.writes = {"self", "other"} /\ Swap.order = "written"
        /\ Swap.distinct = TRUE /\ Swap.bare = {}
        /\ DOMAIN Swap = {"name", "locks", "reads", "writes", "order", "distinct", "bare"}
    BY DEF Swap, OfDistinct, Method, Unique
  <2>2. Kind(Swap) = [locks |-> <<[role |-> "self", mode |-> "unique"],
                                  [role |-> "other", mode |-> "unique"]>>,
                      reads |-> {}, writes |-> {"self", "other"}, order |-> "written",
                      distinct |-> TRUE, bare |-> {}]
    BY <2>1 DEF Kind
  <2>3. Kind(SwapByAddress) = [locks |-> <<[role |-> "self", mode |-> "unique"],
                                           [role |-> "other", mode |-> "unique"]>>,
                               reads |-> {}, writes |-> {"self", "other"}, order |-> "address",
                               distinct |-> TRUE, bare |-> {}]
    BY <2>1 DEF Kind, SwapByAddress
  <2>4. Kind(SwapTogether) = [locks |-> <<[role |-> "self", mode |-> "unique"],
                                          [role |-> "other", mode |-> "unique"]>>,
                              reads |-> {}, writes |-> {"self", "other"}, order |-> "together",
                              distinct |-> TRUE, bare |-> {}]
    BY <2>1 DEF Kind, SwapTogether
  <2>5. Kind(MultimapMoveAssign) = [locks |-> <<[role |-> "self", mode |-> "unique"],
                                                [role |-> "other", mode |-> "unique"]>>,
                                    reads |-> {}, writes |-> {"self", "other"},
                                    order |-> "written", distinct |-> TRUE, bare |-> {}]
    BY <2>1 DEF Kind, MultimapMoveAssign
  <2> QED
    BY <1>0, <1>3, <2>2, <2>3, <2>4, <2>5
<1>5. Proper(Kind(Merge))
  <2>1. Kind(Merge)
          = [locks |-> <<[role |-> "self", mode |-> "unique"], [role |-> "other", mode |-> "unique"]>>,
             reads |-> {}, writes |-> {"self", "other"}, order |-> "written", distinct |-> FALSE, bare |-> {}]
    BY DEF Kind, Merge, Method, Unique
  <2>2. Proper([locks |-> <<[role |-> "self", mode |-> "unique"],
                            [role |-> "other", mode |-> "unique"]>>,
                reads |-> {}, writes |-> {"self", "other"}, order |-> "written",
                distinct |-> FALSE, bare |-> {}])
    BY <1>0, TwoLocks
  <2> QED
    BY <2>1, <2>2
<1>6. Proper(Kind(MultimapMove))
  <2>1. Kind(MultimapMove)
          = [locks |-> <<[role |-> "other", mode |-> "unique"]>>, reads |-> {},
             writes |-> {"other"}, order |-> "written", distinct |-> FALSE, bare |-> {}]
    BY DEF Kind, MultimapMove, Method, Unique
  <2>2. Proper([locks |-> <<[role |-> "other", mode |-> "unique"]>>, reads |-> {},
                writes |-> {"other"}, order |-> "written", distinct |-> FALSE, bare |-> {}])
    BY <1>0, OneLock
  <2> QED
    BY <2>1, <2>2
<1>7. Proper(Kind(BareMoveAssign))
  <2>1. Kind(BareMoveAssign)
          = [locks |-> <<[role |-> "self", mode |-> "unique"]>>, reads |-> {},
             writes |-> {"self", "other"}, order |-> "written", distinct |-> TRUE,
             bare |-> {"other"}]
    BY DEF Kind, BareMoveAssign, Method, Unique
  <2>2. Proper([locks |-> <<[role |-> "self", mode |-> "unique"]>>, reads |-> {},
                writes |-> {"self", "other"}, order |-> "written", distinct |-> TRUE,
                bare |-> {"other"}])
    BY <1>0, OneLock
  <2> QED
    BY <2>1, <2>2
<1>8. Proper(Kind(BareMove))
  <2>1. Kind(BareMove)
          = [locks |-> <<>>, reads |-> {}, writes |-> {"other"}, order |-> "written",
             distinct |-> FALSE, bare |-> {"other"}]
    BY DEF Kind, BareMove, Method
  <2> QED
    BY <1>0, <2>1, NoLocks
<1> QED
  BY <1>1, <1>2, <1>4, <1>5, <1>6, <1>7, <1>8

(* Whatever a class offers, every method of it is proper.                  *)
LEMMA Classed ==
    ASSUME NEW class \in Classes
    PROVE  AllProper(class)
<1>1. /\ AllProper(ConcurrentVector)
      /\ AllProper(ConcurrentArray)
      /\ AllProper(ConcurrentForwardList)
      /\ AllProper(ConcurrentList)
      /\ AllProper(ConcurrentDeque)
  BY Lists, Single, Zenon
     DEF AllProper, ConcurrentVector, ConcurrentVectorElements, ConcurrentVectorWhole,
         ConcurrentArray, ConcurrentForwardList, ConcurrentForwardListFront,
         ConcurrentForwardListPlaces, ConcurrentList, ConcurrentListEnds, ConcurrentListPlaces,
         ConcurrentDeque, ConcurrentDequeEnds, ConcurrentDequeWhole
<1>2. /\ AllProper(ConcurrentString)
      /\ AllProper(ConcurrentBitset)
      /\ AllProper(ConcurrentMap)
      /\ AllProper(ConcurrentMultimap)
      /\ AllProper(ConcurrentMultiset)
  BY Lists, Single, Zenon
     DEF AllProper, ConcurrentString, ConcurrentStringContents, ConcurrentStringPairs,
         ConcurrentBitset, ConcurrentBitsetBits, ConcurrentBitsetWhole, ConcurrentMap,
         ConcurrentMapElements, ConcurrentMapPlaces, ConcurrentMapWhole, ConcurrentMultimap,
         ConcurrentMultimapElements, ConcurrentMultimapPlaces, ConcurrentMultimapWhole,
         ConcurrentMultiset, ConcurrentMultisetElements, ConcurrentMultisetWhole
<1>3. /\ AllProper(ConcurrentSet)
      /\ AllProper(UnorderedMap)
      /\ AllProper(UnorderedMultimap)
      /\ AllProper(UnorderedMultiset)
      /\ AllProper(UnorderedSet)
  BY Lists, Single, Zenon
     DEF AllProper, ConcurrentSet, ConcurrentSetElements, ConcurrentSetWhole, UnorderedMap,
         UnorderedMapElements, UnorderedMapWhole, UnorderedMultimap, UnorderedMultimapElements,
         UnorderedMultimapWhole, UnorderedMultiset, UnorderedMultisetElements,
         UnorderedMultisetPlaces, UnorderedMultisetWhole, UnorderedSet, UnorderedSetElements,
         UnorderedSetWhole, Tuning
<1> QED
  BY <1>1, <1>2, <1>3 DEF Classes

-----------------------------------------------------------------------------
(* Calls *)

Lockings == [object : Objects, mode : Modes]

(* What a proper method becomes when it is called with two objects.        *)
CallRecord ==
    [locks : Seq(Lockings), reads : SUBSET Objects, writes : SUBSET Objects,
     bare : SUBSET Objects, order : Orders]
CallOK(c) ==
    /\ c \in CallRecord
    /\ Len(c.locks) <= 2
    /\ \A o \in c.reads : \E i \in DOMAIN c.locks : c.locks[i].object = o
    /\ \A o \in c.writes :
         \/ o \in c.bare
         \/ \E i \in DOMAIN c.locks : c.locks[i] = [object |-> o, mode |-> "unique"]
    /\ c.order = "address" =>
         Len(c.locks) = 2 /\ c.locks[1].object < c.locks[2].object

(* A reversed sequence has the same elements.                              *)
LEMMA Reversed ==
    ASSUME NEW S, NEW s \in Seq(S)
    PROVE  /\ Reverse(s) \in Seq(S) /\ Len(Reverse(s)) = Len(s)
           /\ DOMAIN Reverse(s) = DOMAIN s
           /\ \A i \in DOMAIN s : Reverse(s)[i] = s[Len(s) - i + 1]
           /\ \A i \in DOMAIN s : \E j \in DOMAIN s : s[i] = Reverse(s)[j]
           /\ \A i \in DOMAIN s : \E j \in DOMAIN s : s[j] = Reverse(s)[i]
<1>1. Len(s) \in Nat /\ DOMAIN s = 1 .. Len(s) /\ \A i \in 1 .. Len(s) : s[i] \in S
  OBVIOUS
<1>2. \A i \in 1 .. Len(s) : Len(s) - i + 1 \in 1 .. Len(s)
                             /\ Len(s) - (Len(s) - i + 1) + 1 = i
  BY <1>1
<1>3. Reverse(s) = [i \in 1 .. Len(s) |-> s[Len(s) - i + 1]]
  BY DEF Reverse
<1>4. Reverse(s) \in Seq(S) /\ Len(Reverse(s)) = Len(s)
  BY <1>1, <1>2, <1>3
<1>5. \A i \in 1 .. Len(s) : Reverse(s)[i] = s[Len(s) - i + 1]
  BY <1>3
<1>6. \A i \in 1 .. Len(s) : s[i] = Reverse(s)[Len(s) - i + 1]
  BY <1>2, <1>5
<1>7. DOMAIN Reverse(s) = 1 .. Len(s)
  BY <1>3
<1> HIDE DEF Reverse
<1>8. /\ \A i \in 1 .. Len(s) : \E j \in 1 .. Len(s) : s[i] = Reverse(s)[j]
      /\ \A i \in 1 .. Len(s) : \E j \in 1 .. Len(s) : s[j] = Reverse(s)[i]
  BY <1>2, <1>5, <1>6, Zenon
<1> QED
  BY <1>1, <1>4, <1>5, <1>7, <1>8

LEMMA ProperParts ==
    ASSUME NEW m, Proper(m)
    PROVE  /\ m.locks \in Seq([role : Roles, mode : Modes])
           /\ Len(m.locks) \in Nat /\ DOMAIN m.locks = 1 .. Len(m.locks)
           /\ \A i \in DOMAIN m.locks : m.locks[i].role \in Roles /\ m.locks[i].mode \in Modes
           /\ m.reads \subseteq Roles /\ m.writes \subseteq Roles /\ m.order \in Orders
           /\ m.bare \subseteq Roles
           /\ Len(m.locks) <= 2 /\ (m.order = "address" => Len(m.locks) = 2)
<1>1. m.locks \in Seq([role : Roles, mode : Modes])
  BY DEF Proper, Kinds
<1>2. /\ m.reads \subseteq Roles /\ m.writes \subseteq Roles /\ m.order \in Orders
      /\ m.bare \subseteq Roles
      /\ Len(m.locks) <= 2 /\ (m.order = "address" => Len(m.locks) = 2)
  BY DEF Proper, Kinds
<1>3. Len(m.locks) \in Nat /\ DOMAIN m.locks = 1 .. Len(m.locks)
  BY <1>1
<1>4. \A i \in DOMAIN m.locks : m.locks[i] \in [role : Roles, mode : Modes]
  BY <1>1, <1>3, ElementOfSeq, Zenon
<1> QED
  BY <1>1, <1>2, <1>3, <1>4

LEMMA NoCallOK == CallOK(NoCall)
  BY DEF CallOK, CallRecord, NoCall, Orders

(* The locks of a call are those of its method, on the objects it is       *)
(* called with.                                                            *)
Locking(m, object, i) == [object |-> object[m.locks[i].role], mode |-> m.locks[i].mode]

TakenInOrder(m, object) ==
    /\ Locks(m, object) \in Seq(Lockings) /\ Len(Locks(m, object)) = Len(m.locks)
    /\ DOMAIN Locks(m, object) = DOMAIN m.locks
    /\ \A i \in DOMAIN m.locks : \E j \in DOMAIN m.locks :
         Locking(m, object, i) = Locks(m, object)[j]
    /\ \A i \in DOMAIN m.locks : \E j \in DOMAIN m.locks :
         Locking(m, object, j) = Locks(m, object)[i]
    /\ m.order = "address" => Locks(m, object)[1].object < Locks(m, object)[2].object

LEMMA LocksTaken ==
    ASSUME NEW m, Proper(m), NEW o \in Objects, NEW p \in Objects, Objects \subseteq Nat,
           m.distinct => o # p,
           NEW object, object = [self |-> o, other |-> p]
    PROVE  TakenInOrder(m, object)
<1> DEFINE written == [i \in DOMAIN m.locks |-> Locking(m, object, i)]
           taken == Locks(m, object)
<1>0. /\ object["self"] = o /\ object["other"] = p
      /\ \A r \in Roles : object[r] \in Objects
  BY DEF Roles
<1>1. /\ Len(m.locks) \in Nat /\ DOMAIN m.locks = 1 .. Len(m.locks)
      /\ \A i \in DOMAIN m.locks : m.locks[i].role \in Roles /\ m.locks[i].mode \in Modes
  BY ProperParts
<1>2. \A i \in DOMAIN m.locks : Locking(m, object, i) \in Lockings
  BY <1>0, <1>1 DEF Lockings, Locking
<1>3. written \in Seq(Lockings) /\ Len(written) = Len(m.locks) /\ DOMAIN written = DOMAIN m.locks
  BY <1>1, <1>2
<1>4. taken = IF m.order = "address" /\ p < o THEN Reverse(written) ELSE written
  BY <1>0 DEF Locks, Locking
<1>5. \A i \in DOMAIN m.locks : written[i] = Locking(m, object, i)
  OBVIOUS
<1> HIDE DEF written, taken
<1>6. /\ Reverse(written) \in Seq(Lockings) /\ Len(Reverse(written)) = Len(written)
      /\ DOMAIN Reverse(written) = DOMAIN written
      /\ \A i \in DOMAIN written : Reverse(written)[i] = written[Len(written) - i + 1]
      /\ \A i \in DOMAIN written : \E j \in DOMAIN written : written[i] = Reverse(written)[j]
      /\ \A i \in DOMAIN written : \E j \in DOMAIN written : written[j] = Reverse(written)[i]
  BY <1>3, Reversed
<1>7. m.order = "address" => taken[1].object < taken[2].object
  <2> SUFFICES ASSUME m.order = "address" PROVE taken[1].object < taken[2].object
    OBVIOUS
  <2>1. o # p /\ Len(m.locks) = 2 /\ m.locks[1].role = "self" /\ m.locks[2].role = "other"
    BY DEF Proper
  <2>2. DOMAIN m.locks = {1, 2}
    BY <1>1, <2>1
  <2>3. written[1].object = o /\ written[2].object = p
    BY <1>0, <1>5, <2>1, <2>2 DEF Locking
  <2>4. Reverse(written)[1] = written[2] /\ Reverse(written)[2] = written[1]
    BY <1>3, <1>6, <2>1, <2>2
  <2>5. o \in Nat /\ p \in Nat
    OBVIOUS
  <2>6. CASE p < o
    BY <1>4, <2>3, <2>4, <2>6
  <2>7. CASE ~(p < o)
    BY <1>4, <2>1, <2>3, <2>5, <2>7
  <2> QED
    BY <2>6, <2>7
<1>8. CASE taken = written
  BY <1>3, <1>5, <1>7, <1>8 DEF taken, TakenInOrder
<1>9. CASE taken = Reverse(written)
  <2>1. /\ \A i \in DOMAIN m.locks : \E j \in DOMAIN m.locks : Locking(m, object, i) = taken[j]
        /\ \A i \in DOMAIN m.locks : \E j \in DOMAIN m.locks : Locking(m, object, j) = taken[i]
    BY <1>3, <1>5, <1>6, <1>9
  <2>2. taken \in Seq(Lockings) /\ Len(taken) = Len(m.locks) /\ DOMAIN taken = DOMAIN m.locks
    BY <1>3, <1>6, <1>9
  <2> QED
    BY <1>7, <2>1, <2>2 DEF taken, TakenInOrder
<1> QED
  BY <1>4, <1>8, <1>9

LEMMA Called ==
    ASSUME NEW m, Proper(m), NEW o \in Objects, NEW p \in Objects, Objects \subseteq Nat,
           m.distinct => o # p
    PROVE  CallOK(CallOf(m, [self |-> o, other |-> p]))
<1> DEFINE object == [self |-> o, other |-> p]
           taken == Locks(m, object)
           reads == {object[r] : r \in m.reads}
           writes == {object[r] : r \in m.writes}
           bare == {object[r] : r \in m.bare}
<1>0. /\ object["self"] = o /\ object["other"] = p
      /\ \A r \in Roles : object[r] \in Objects
  BY DEF Roles
<1>1. /\ m.reads \subseteq Roles /\ m.writes \subseteq Roles /\ m.order \in Orders
      /\ m.bare \subseteq Roles
      /\ Len(m.locks) <= 2 /\ (m.order = "address" => Len(m.locks) = 2)
      /\ \A i \in DOMAIN m.locks : m.locks[i].role \in Roles /\ m.locks[i].mode \in Modes
  BY ProperParts
<1>2. /\ taken \in Seq(Lockings) /\ Len(taken) = Len(m.locks)
      /\ DOMAIN taken = DOMAIN m.locks
      /\ \A i \in DOMAIN m.locks : \E j \in DOMAIN m.locks : Locking(m, object, i) = taken[j]
      /\ \A i \in DOMAIN m.locks : \E j \in DOMAIN m.locks : Locking(m, object, j) = taken[i]
      /\ m.order = "address" => taken[1].object < taken[2].object
  <2>1. object = [self |-> o, other |-> p]
    OBVIOUS
  <2> HIDE DEF object
  <2>2. TakenInOrder(m, object)
    BY <2>1, LocksTaken, Zenon
  <2> QED
    BY <2>2 DEF TakenInOrder
<1> HIDE DEF taken, object
<1>3. reads \subseteq Objects /\ writes \subseteq Objects /\ bare \subseteq Objects
  BY <1>0, <1>1
<1>4. \A x \in reads : \E j \in DOMAIN taken : taken[j].object = x
  <2> TAKE x \in reads
  <2>1. PICK r \in m.reads : x = object[r]
    OBVIOUS
  <2>2. PICK i \in DOMAIN m.locks : m.locks[i].role = r
    BY DEF Proper
  <2>3. PICK j \in DOMAIN m.locks : Locking(m, object, i) = taken[j]
    BY <1>2
  <2> QED
    BY <1>2, <2>1, <2>2, <2>3 DEF Locking
<1>5. ASSUME NEW x \in writes, x \notin bare
      PROVE  \E j \in DOMAIN taken : taken[j] = [object |-> x, mode |-> "unique"]
  <2>1. PICK r \in m.writes : x = object[r]
    BY <1>5
  <2>2. r \notin m.bare
    BY <1>5, <2>1
  <2>3. PICK i \in DOMAIN m.locks : m.locks[i].role = r /\ m.locks[i].mode = "unique"
    BY <2>2 DEF Proper
  <2>4. PICK j \in DOMAIN m.locks : Locking(m, object, i) = taken[j]
    BY <1>2
  <2> QED
    BY <1>2, <2>1, <2>3, <2>4 DEF Locking
<1> DEFINE c == [locks |-> taken, order |-> m.order, reads |-> reads, writes |-> writes,
                 bare |-> bare]
<1>6. /\ c.locks = taken /\ c.reads = reads /\ c.writes = writes /\ c.order = m.order
      /\ c.bare = bare /\ c \in CallRecord
  BY <1>1, <1>2, <1>3 DEF CallRecord
<1> HIDE DEF c, reads, writes, bare
<1>7. CallOK(c)
  BY <1>1, <1>2, <1>4, <1>5, <1>6 DEF CallOK
<1> QED
  BY <1>7 DEF c, taken, reads, writes, bare, object, CallOf

(* Turning the locks round changes nothing of what a call may do.          *)
LEMMA TurnedRound ==
    ASSUME NEW c, CallOK(c), c.order = "together"
    PROVE  CallOK([c EXCEPT !.locks = Reverse(@)])
<1> DEFINE d == [c EXCEPT !.locks = Reverse(@)]
<1>1. c.locks \in Seq(Lockings)
  BY DEF CallOK, CallRecord
<1>2. /\ Reverse(c.locks) \in Seq(Lockings) /\ Len(Reverse(c.locks)) = Len(c.locks)
      /\ DOMAIN Reverse(c.locks) = DOMAIN c.locks
      /\ \A i \in DOMAIN c.locks : \E j \in DOMAIN c.locks : c.locks[i] = Reverse(c.locks)[j]
      /\ \A i \in DOMAIN c.locks : \E j \in DOMAIN c.locks : c.locks[j] = Reverse(c.locks)[i]
  BY <1>1, Reversed
<1>3. /\ d.locks = Reverse(c.locks) /\ d.reads = c.reads /\ d.writes = c.writes
      /\ d.order = "together" /\ d.bare = c.bare /\ d \in CallRecord
  BY <1>2 DEF CallOK, CallRecord
<1> HIDE DEF d
<1> DEFINE lock == c.locks
           turned == Reverse(c.locks)
<1>4. /\ Len(lock) <= 2
      /\ \A o \in c.reads : \E i \in DOMAIN lock : lock[i].object = o
      /\ \A o \in c.writes : \/ o \in c.bare
           \/ \E i \in DOMAIN lock : lock[i] = [object |-> o, mode |-> "unique"]
  BY DEF CallOK
<1>5. /\ Len(turned) = Len(lock) /\ DOMAIN turned = DOMAIN lock
      /\ \A i \in DOMAIN lock : \E j \in DOMAIN lock : lock[i] = turned[j]
      /\ \A i \in DOMAIN lock : \E j \in DOMAIN lock : lock[j] = turned[i]
  BY <1>2
<1>6. d.locks = turned
  BY <1>3
<1> HIDE DEF lock, turned
<1>7. \A o \in d.reads : \E i \in DOMAIN turned : turned[i].object = o
  <2> TAKE o \in d.reads
  <2>1. PICK i \in DOMAIN lock : lock[i].object = o
    BY <1>3, <1>4
  <2> QED
    BY <1>5, <2>1
<1>8. ASSUME NEW o \in d.writes, o \notin d.bare
      PROVE  \E i \in DOMAIN turned : turned[i] = [object |-> o, mode |-> "unique"]
  <2>1. PICK j \in DOMAIN lock : lock[j] = [object |-> o, mode |-> "unique"]
    BY <1>3, <1>4, <1>8
  <2> QED
    BY <1>5, <2>1
<1>9. CallOK(d)
  BY <1>3, <1>4, <1>5, <1>6, <1>7, <1>8 DEF CallOK
<1> QED
  BY <1>9 DEF d

-----------------------------------------------------------------------------
(* The locks that threads have *)

Calls == {c \in CallRecord : CallOK(c)}

LEMMA CallParts ==
    ASSUME NEW c
    PROVE  /\ CallOK(c) <=> c \in Calls
           /\ c \in Calls => /\ c.locks \in Seq(Lockings)
                             /\ Len(c.locks) \in Nat /\ DOMAIN c.locks = 1 .. Len(c.locks)
<1>1. CallOK(c) <=> c \in Calls
  BY DEF CallOK, Calls
<1>2. c \in Calls => c.locks \in Seq(Lockings)
  BY DEF Calls, CallRecord
<1>3. c.locks \in Seq(Lockings)
        => Len(c.locks) \in Nat /\ DOMAIN c.locks = 1 .. Len(c.locks)
  OBVIOUS
<1> QED
  BY <1>1, <1>2, <1>3

(* What a call may be, how many locks a thread has of it and when, and     *)
(* that no two threads have locks that exclude each other.                 *)
CallsInv ==
    /\ \A m \in methods : Proper(m)
    /\ at \in [Callers -> {"idle", "locking", "inside"}]
    /\ call \in [Callers -> Calls]
    /\ got \in [Callers -> Nat]
GotInv ==
    \A t \in Callers :
        /\ got[t] <= Len(call[t].locks)
        /\ at[t] = "idle" => got[t] = 0
        /\ at[t] = "inside" => got[t] = Len(call[t].locks)
Apart ==
    \A t, u \in Callers : t # u =>
        \A i \in 1 .. got[t], j \in 1 .. got[u] :
            ~InTheWay(call[t].locks[i], call[u].locks[j])
LockInv == CallsInv /\ GotInv /\ Apart

LEMMA LockInvInit ==
    ASSUME Init
    PROVE  LockInv
<1>1. \A m \in methods : Proper(m)
  <2>1. PICK class \in Classes : methods = {Kind(m) : m \in class}
    BY DEF Init
  <2> QED
    BY <2>1, Classed DEF AllProper
<1>2. NoCall \in Calls /\ Len(NoCall.locks) = 0
  BY NoCallOK, CallParts DEF NoCall
<1>3. CallsInv
  BY <1>1, <1>2 DEF CallsInv, Init
<1>4. GotInv /\ Apart
  BY <1>2 DEF GotInv, Apart, Init
<1> QED
  BY <1>3, <1>4 DEF LockInv

(* A thread that has no lock, or keeps the locks it has, comes near        *)
(* nobody.                                                                 *)
LEMMA Quiet ==
    ASSUME LockInv, NEW t \in Callers,
           got' = got \/ got' = [got EXCEPT ![t] = 0],
           \/ call' = call
           \/ got'[t] = 0 /\ \E c : call' = [call EXCEPT ![t] = c]
    PROVE  Apart'
<1>1. got \in [Callers -> Nat] /\ call \in [Callers -> Calls]
  BY DEF LockInv, CallsInv
<1> SUFFICES ASSUME NEW v \in Callers, NEW u \in Callers, v # u,
                    NEW i \in 1 .. got'[v], NEW j \in 1 .. got'[u]
             PROVE  ~InTheWay(call'[v].locks[i], call'[u].locks[j])
  BY DEF Apart, InTheWay
<1>2. got'[v] = got[v] /\ got'[u] = got[u]
  BY <1>1
<1>3. call'[v] = call[v] /\ call'[u] = call[u]
  BY <1>1
<1> QED
  BY <1>2, <1>3 DEF LockInv, Apart

LEMMA LockInvStep ==
    ASSUME LockInv, Objects \subseteq Nat, [Next]_vars
    PROVE  LockInv'
<1>0. /\ at \in [Callers -> {"idle", "locking", "inside"}]
      /\ call \in [Callers -> Calls] /\ got \in [Callers -> Nat]
      /\ \A m \in methods : Proper(m)
      /\ \A t \in Callers : Len(call[t].locks) \in Nat
      /\ NoCall \in Calls /\ Len(NoCall.locks) = 0
  <2>1. NoCall \in Calls /\ Len(NoCall.locks) = 0
    BY NoCallOK, CallParts DEF NoCall
  <2> QED
    BY <2>1, CallParts DEF LockInv, CallsInv
<1>1. ASSUME NEW t \in Callers, Begin(t)
      PROVE  LockInv'
  <2>1. PICK m \in methods, o \in Objects, p \in Objects :
          /\ at[t] = "idle" /\ (m.distinct => o # p)
          /\ at' = [at EXCEPT ![t] = "locking"]
          /\ call' = [call EXCEPT ![t] = CallOf(m, [self |-> o, other |-> p])]
          /\ UNCHANGED <<methods, got>>
    BY <1>1 DEF Begin
  <2> DEFINE c == CallOf(m, [self |-> o, other |-> p])
  <2>2. CallOK(c)
    <3>1. Proper(m)
      BY <1>0
    <3>2. m.distinct => o # p
      BY <2>1
    <3> QED
      BY <3>1, <3>2, Called, Zenon
  <2>3. call' = [call EXCEPT ![t] = c]
    BY <2>1
  <2> HIDE DEF c
  <2>4. c \in Calls /\ Len(c.locks) \in Nat
    BY <2>2, CallParts
  <2>5. got[t] = 0
    BY <2>1 DEF LockInv, GotInv
  <2>6. CallsInv'
    BY <1>0, <2>1, <2>3, <2>4 DEF CallsInv
  <2>7. GotInv'
    BY <1>0, <2>1, <2>3, <2>4, <2>5 DEF LockInv, GotInv
  <2>8. Apart'
    BY <2>1, <2>3, <2>5, Quiet
  <2> QED
    BY <2>6, <2>7, <2>8 DEF LockInv
<1>2. ASSUME NEW t \in Callers, Acquire(t)
      PROVE  LockInv'
  <2>1. /\ at[t] = "locking" /\ got[t] < Len(call[t].locks) /\ Blockers(t) = {}
        /\ got' = [got EXCEPT ![t] = @ + 1] /\ UNCHANGED <<methods, at, call>>
    BY <1>2 DEF Acquire
  <2>2. CallsInv'
    BY <1>0, <2>1 DEF CallsInv
  <2>3. GotInv'
    BY <1>0, <2>1 DEF LockInv, GotInv
  <2>4. ASSUME NEW u \in Callers, u # t, NEW j \in 1 .. got[u]
        PROVE  ~InTheWay(call[u].locks[j], call[t].locks[got[t] + 1])
    <3>1. \A l \in Held(u) : ~InTheWay(l, Wanted(t))
      BY <1>0, <2>1 DEF Blockers
    <3>2. call[u].locks[j] \in Held(u)
      BY DEF Held
    <3> QED
      BY <3>1, <3>2 DEF Wanted
  <2>5. Apart'
    <3> SUFFICES ASSUME NEW v \in Callers, NEW u \in Callers, v # u,
                        NEW i \in 1 .. got'[v], NEW j \in 1 .. got'[u]
                 PROVE  ~InTheWay(call[v].locks[i], call[u].locks[j])
      BY <2>1 DEF Apart, InTheWay
    <3>1. CASE v = t
      <4>1. got'[u] = got[u] /\ got'[v] = got[t] + 1
        BY <1>0, <2>1, <3>1
      <4>2. i \in 1 .. got[t] \/ i = got[t] + 1
        BY <1>0, <4>1
      <4>3. ~InTheWay(call[u].locks[j], call[t].locks[i])
        BY <2>4, <3>1, <4>1, <4>2 DEF LockInv, Apart
      <4> QED
        BY <3>1, <4>3 DEF InTheWay
    <3>2. CASE u = t
      <4>1. got'[v] = got[v] /\ got'[u] = got[t] + 1
        BY <1>0, <2>1, <3>2
      <4>2. j \in 1 .. got[t] \/ j = got[t] + 1
        BY <1>0, <4>1
      <4> QED
        BY <2>4, <3>2, <4>1, <4>2 DEF LockInv, Apart
    <3>3. CASE v # t /\ u # t
      <4>1. got'[v] = got[v] /\ got'[u] = got[u]
        BY <1>0, <2>1, <3>3
      <4> QED
        BY <4>1 DEF LockInv, Apart
    <3> QED
      BY <3>1, <3>2, <3>3
  <2> QED
    BY <2>2, <2>3, <2>5 DEF LockInv
<1>3. ASSUME NEW t \in Callers, BackOff(t)
      PROVE  LockInv'
  <2>1. /\ at[t] = "locking" /\ call[t].order = "together"
        /\ got' = [got EXCEPT ![t] = 0]
        /\ call' = [call EXCEPT ![t].locks = Reverse(@)] /\ UNCHANGED <<methods, at>>
    BY <1>3 DEF BackOff
  <2> DEFINE c == [call[t] EXCEPT !.locks = Reverse(@)]
  <2>2. call' = [call EXCEPT ![t] = c]
    BY <2>1
  <2>3. CallOK(c)
    <3>1. CallOK(call[t])
      BY <1>0, CallParts
    <3> QED
      BY <2>1, <3>1, TurnedRound
  <2> HIDE DEF c
  <2>4. c \in Calls /\ Len(c.locks) \in Nat
    BY <2>3, CallParts
  <2>5. CallsInv'
    BY <1>0, <2>1, <2>2, <2>4 DEF CallsInv
  <2>6. GotInv'
    BY <1>0, <2>1, <2>2, <2>4 DEF LockInv, GotInv
  <2>7. Apart'
    BY <1>0, <2>1, <2>2, Quiet
  <2> QED
    BY <2>5, <2>6, <2>7 DEF LockInv
<1>4. ASSUME NEW t \in Callers, Enter(t)
      PROVE  LockInv'
  <2>1. /\ at[t] = "locking" /\ got[t] = Len(call[t].locks)
        /\ at' = [at EXCEPT ![t] = "inside"] /\ UNCHANGED <<methods, call, got>>
    BY <1>4 DEF Enter
  <2>2. CallsInv'
    BY <1>0, <2>1 DEF CallsInv
  <2>3. GotInv'
    BY <1>0, <2>1 DEF LockInv, GotInv
  <2>4. Apart'
    <3>1. got' = got /\ call' = call
      BY <2>1
    <3> QED
      BY <3>1, Quiet
  <2> QED
    BY <2>2, <2>3, <2>4 DEF LockInv
<1>5. ASSUME NEW t \in Callers, Leave(t)
      PROVE  LockInv'
  <2>1. /\ at' = [at EXCEPT ![t] = "idle"] /\ call' = [call EXCEPT ![t] = NoCall]
        /\ got' = [got EXCEPT ![t] = 0] /\ methods' = methods
    BY <1>5 DEF Leave
  <2>2. CallsInv'
    BY <1>0, <2>1 DEF CallsInv
  <2>3. GotInv'
    BY <1>0, <2>1 DEF LockInv, GotInv
  <2>4. Apart'
    BY <1>0, <2>1, Quiet
  <2> QED
    BY <2>2, <2>3, <2>4 DEF LockInv
<1>6. CASE UNCHANGED vars
  <2>1. CallsInv' /\ GotInv'
    BY <1>6 DEF vars, LockInv, CallsInv, GotInv
  <2>2. Apart'
    BY <1>6 DEF vars, LockInv, Apart, InTheWay
  <2> QED
    BY <2>1, <2>2 DEF LockInv
<1> QED
  BY <1>1, <1>2, <1>3, <1>4, <1>5, <1>6 DEF Next

LEMMA LocksStayApart ==
    ASSUME Objects \subseteq Nat
    PROVE  Spec => []LockInv
<1>1. Init => LockInv
  BY LockInvInit
<1>2. LockInv /\ [Next]_vars => LockInv'
  BY LockInvStep
<1> QED
  BY <1>1, <1>2, PTL DEF Spec

-----------------------------------------------------------------------------
(* Two threads never meet in a container that one of them is writing, for  *)
(* any class of Asio/model/concurrent, any threads and any containers,     *)
(* whichever two of them the methods are called with, but for the source   *)
(* of a move of concurrent_unordered_multiset.                             *)
THEOREM LockedWritersAreAlone ==
    ASSUME Objects \subseteq Nat
    PROVE  Spec => []WritersAreAlone
<1>1. LockInv => WritersAreAlone
  <2> SUFFICES ASSUME LockInv, NEW t \in Callers, NEW u \in Callers, t # u,
                      at[t] = "inside", at[u] = "inside",
                      NEW o \in call[t].writes \cap Touched(u),
                      o \notin call[t].bare, o \notin call[u].bare
               PROVE  FALSE
    BY DEF WritersAreAlone
  <2>1. /\ CallOK(call[t]) /\ CallOK(call[u])
        /\ DOMAIN call[t].locks = 1 .. got[t] /\ DOMAIN call[u].locks = 1 .. got[u]
    BY CallParts DEF LockInv, CallsInv, GotInv
  <2>2. PICK i \in DOMAIN call[t].locks :
          call[t].locks[i] = [object |-> o, mode |-> "unique"]
    BY <2>1 DEF CallOK
  <2>3. PICK j \in DOMAIN call[u].locks : call[u].locks[j].object = o
    <3>1. CASE o \in call[u].reads
      BY <2>1, <3>1 DEF CallOK
    <3>2. CASE o \in call[u].writes
      <4>1. PICK j \in DOMAIN call[u].locks :
              call[u].locks[j] = [object |-> o, mode |-> "unique"]
        BY <2>1, <3>2 DEF CallOK
      <4> QED
        BY <4>1
    <3> QED
      BY <3>1, <3>2 DEF Touched
  <2>4. ~InTheWay(call[t].locks[i], call[u].locks[j])
    BY <2>1 DEF LockInv, Apart
  <2> QED
    BY <2>2, <2>3, <2>4 DEF InTheWay
<1> QED
  BY <1>1, LocksStayApart, PTL

(* A thread of a circle has one lock of the two it takes by address, so    *)
(* the next it wants is on a greater object than the one it has.           *)
LEMMA Climbs ==
    ASSUME LockInv, Objects \subseteq Nat, NEW t \in Callers, NEW u \in Callers,
           InOrder(u), u \in Blockers(t), Blockers(u) # {},
           ~(got[u] > 0 /\ call[u].order = "together")
    PROVE  /\ Wanted(t).object \in Nat /\ Wanted(u).object \in Nat
           /\ Wanted(t).object < Wanted(u).object
<1>1. /\ call \in [Callers -> Calls] /\ got \in [Callers -> Nat]
      /\ got[t] <= Len(call[t].locks) /\ got[u] <= Len(call[u].locks)
  BY DEF LockInv, CallsInv, GotInv
<1>2. /\ call[t].locks \in Seq(Lockings) /\ Len(call[t].locks) \in Nat
      /\ call[u].locks \in Seq(Lockings) /\ Len(call[u].locks) \in Nat
      /\ CallOK(call[u])
  BY <1>1, CallParts
<1>3. got[t] # Len(call[t].locks) /\ got[u] # Len(call[u].locks)
  BY DEF Blockers
<1>4. PICK l \in Held(u) : InTheWay(l, Wanted(t))
  BY <1>3 DEF Blockers
<1>5. PICK i \in 1 .. got[u] : l = call[u].locks[i]
  BY <1>4 DEF Held
<1>6. Len(call[u].locks) <= 2 /\ call[u].order \in Orders
  BY <1>2 DEF CallOK, CallRecord
<1>7. got[u] = 1 /\ i = 1 /\ Len(call[u].locks) = 2
  <2> DEFINE n == Len(call[u].locks)
             k == got[u]
  <2>1. k \in Nat /\ n \in Nat /\ k <= n /\ k # n /\ n <= 2
    BY <1>1, <1>2, <1>3, <1>6
  <2>2. i \in 1 .. k
    OBVIOUS
  <2> HIDE DEF n, k
  <2>3. k = 1 /\ i = 1 /\ n = 2
    BY <2>1, <2>2
  <2> QED
    BY <2>3 DEF n, k
<1>8. call[u].order = "address"
  BY <1>6, <1>7 DEF InOrder, Orders
<1>9. call[u].locks[1].object < call[u].locks[2].object
  BY <1>2, <1>8 DEF CallOK
<1>10. Wanted(t).object = call[u].locks[1].object /\ Wanted(u) = call[u].locks[2]
  BY <1>4, <1>5, <1>7 DEF InTheWay, Wanted
<1>11. call[u].locks[1] \in Lockings /\ call[u].locks[2] \in Lockings
  BY <1>2, <1>7, ElementOfSeq
<1>12. call[u].locks[1].object \in Nat /\ call[u].locks[2].object \in Nat
  BY <1>11 DEF Lockings
<1> QED
  BY <1>9, <1>10, <1>12

Below == {p \in Nat \X Nat : p[1] < p[2]}

LEMMA BelowIsWellFounded == IsWellFoundedOn(Below, Nat)
  BY NatLessThanWellFounded DEF OpToRel, Below

(* A finite set of numbers, given by what each member of a group wants,    *)
(* has a greatest: the member above which the fewest are.                  *)
LEMMA Highest ==
    ASSUME NEW group, IsFiniteSet(group), group # {},
           NEW height, \A t \in group : height[t] \in Nat
    PROVE  \E t \in group : \A u \in group : height[u] <= height[t]
<1> DEFINE above(t) == {u \in group : height[u] > height[t]}
           counts == {Cardinality(above(t)) : t \in group}
<1>1. \A t \in group : IsFiniteSet(above(t)) /\ Cardinality(above(t)) \in Nat
  BY FS_Subset, FS_CardinalityType
<1>2. counts \subseteq Nat /\ counts # {}
  BY <1>1
<1>3. \E n \in counts : \A k \in counts : <<k, n>> \notin Below
  <2> HIDE DEF counts
  <2> QED
    BY <1>2, BelowIsWellFounded, WFMin
<1>4. PICK n \in counts : \A k \in counts : <<k, n>> \notin Below
  BY <1>3
<1>5. PICK t \in group : n = Cardinality(above(t))
  OBVIOUS
<1>6. ASSUME NEW u \in group, height[u] > height[t] PROVE FALSE
  <2>1. above(u) \subseteq above(t) /\ u \in above(t) /\ u \notin above(u)
    BY <1>6
  <2>2. above(u) \in SUBSET above(t) /\ above(u) # above(t)
    BY <2>1
  <2>3. /\ Cardinality(above(u)) <= Cardinality(above(t))
        /\ Cardinality(above(u)) # Cardinality(above(t))
    <3>1. IsFiniteSet(above(t))
      BY <1>1
    <3> HIDE DEF above
    <3> QED
      BY <2>2, <3>1, FS_Subset
  <2>4. Cardinality(above(u)) \in Nat /\ Cardinality(above(t)) \in Nat
    BY <1>1
  <2>5. Cardinality(above(u)) < Cardinality(above(t))
    BY <2>3, <2>4
  <2>6. Cardinality(above(u)) \in counts
    OBVIOUS
  <2> QED
    BY <1>4, <1>5, <2>4, <2>5, <2>6 DEF Below
<1> QED
  BY <1>6

(* Calls that lock by address or with std::lock, and calls that lock one   *)
(* object, never wait for each other in a circle: the thread that wants    *)
(* the greatest object waits for none of the others.                       *)
THEOREM OrderedLocksDoNotCircle ==
    ASSUME Objects \subseteq Nat, IsFiniteSet(Callers)
    PROVE  Spec => []NoCircle
<1>1. LockInv => NoCircle
  <2> SUFFICES ASSUME LockInv, NEW group \in SUBSET Callers, group # {},
                      \A t \in group : InOrder(t),
                      \A t \in group : Blockers(t) \cap group # {},
                      \A t \in group : ~(got[t] > 0 /\ call[t].order = "together")
               PROVE  FALSE
    BY DEF NoCircle
  <2> DEFINE height == [t \in group |-> Wanted(t).object]
  <2>1. ASSUME NEW t \in group
        PROVE  \E u \in group : height[t] \in Nat /\ height[u] \in Nat /\ height[t] < height[u]
    <3>1. PICK u \in group : u \in Blockers(t)
      OBVIOUS
    <3>2. Blockers(u) # {}
      OBVIOUS
    <3>3. t \in Callers /\ u \in Callers /\ InOrder(u)
          /\ ~(got[u] > 0 /\ call[u].order = "together")
      OBVIOUS
    <3>4. Wanted(t).object \in Nat /\ Wanted(u).object \in Nat
          /\ Wanted(t).object < Wanted(u).object
      BY <3>1, <3>2, <3>3, Climbs
    <3> QED
      BY <3>4
  <2>2. IsFiniteSet(group)
    BY FS_Subset
  <2> HIDE DEF height
  <2>3. PICK t \in group : \A u \in group : height[u] <= height[t]
    BY <2>1, <2>2, Highest
  <2>4. PICK u \in group : height[t] \in Nat /\ height[u] \in Nat /\ height[t] < height[u]
    BY <2>1
  <2> QED
    BY <2>3, <2>4
<1> QED
  BY <1>1, LocksStayApart, PTL
=============================================================================
