----------------------------- MODULE AnnularQueue -----------------------------
(***************************************************************************)
(* concurrent_annular_queue (Asio/model/concurrent): a ring of slots under *)
(* a shared_mutex between two counting semaphores, one permit for each     *)
(* free slot and one for each element.                                     *)
(***************************************************************************)
EXTENDS Integers, Sequences, FiniteSets

CONSTANTS
    Threads,
    Values,
    Capacity,     \* the length of the ring
    Wrap,         \* where _cnt turns over
    MaxFree       \* no clear that would leave more permits than this

VARIABLES
    slot,         \* _vector
    produce, consume, cnt,
    free, used,   \* the permits of _sem_free and _sem_used
    at,           \* where each thread is
    stored,       \* the elements put into the ring and not taken out
    spoiled       \* a clear found the ring not full, or was not alone

vars == <<slot, produce, consume, cnt, free, used, at, stored, spoiled>>
ring == <<slot, produce, consume, cnt, stored>>

Slots == 0 .. Capacity - 1

Init ==
    /\ slot \in [Slots -> Values]
    /\ produce = 0 /\ consume = 0 /\ cnt = 0
    /\ free = Capacity /\ used = 0
    /\ at = [t \in Threads |-> "idle"]
    /\ stored = <<>> /\ spoiled = FALSE

Goes(t, from, to) == at[t] = from /\ at' = [at EXCEPT ![t] = to]

(* A spoiled ring gets no new calls: what it does then is of no use.       *)
Asks(t, to) == ~spoiled /\ Goes(t, "idle", to)

Clearing == \E t \in Threads : at[t] \in {"has cleared", "drains"}

(* Mutant: the permit for a free slot is not waited for. *)
AcquireFreeAnyway(t) ==
    /\ Asks(t, "may store")
    /\ spoiled' = (spoiled \/ Clearing)
    /\ UNCHANGED <<ring, free, used>>

(* push_back, emplace_back, try_push_back, push_back_for, and push_range   *)
(* one after the other; without a permit they wait or give up, which       *)
(* changes nothing.                                                        *)
AcquireFree(t) ==
    /\ Asks(t, "may store")
    /\ free > 0 /\ free' = free - 1
    /\ spoiled' = (spoiled \/ Clearing)
    /\ UNCHANGED <<ring, used>>

Store(t, v) ==
    /\ Goes(t, "may store", "has stored")
    /\ slot' = [slot EXCEPT ![produce] = v]
    /\ produce' = (produce + 1) % Capacity
    /\ cnt' = (cnt + 1) % Wrap
    /\ stored' = Append(stored, v)
    /\ UNCHANGED <<consume, free, used, spoiled>>

ReleaseUsed(t) ==
    /\ Goes(t, "has stored", "idle")
    /\ used' = used + 1
    /\ UNCHANGED <<ring, free, spoiled>>

(* pop_front, try_pop_front, pop_front_for, pop_range                      *)
AcquireUsed(t) ==
    /\ Asks(t, "may take")
    /\ used > 0 /\ used' = used - 1
    /\ spoiled' = (spoiled \/ Clearing)
    /\ UNCHANGED <<ring, free>>

Take(t) ==
    /\ Goes(t, "may take", "has taken")
    /\ consume' = (consume + 1) % Capacity
    /\ cnt' = (cnt - 1) % Wrap
    /\ stored' = IF stored = <<>> THEN <<>> ELSE Tail(stored)
    /\ UNCHANGED <<slot, produce, free, used, spoiled>>

ReleaseFree(t) ==
    /\ Goes(t, "has taken", "idle")
    /\ free' = free + 1
    /\ UNCHANGED <<ring, used, spoiled>>

(* clear empties the ring under its lock, gives back permits for a whole   *)
(* ring, whatever there is of them, and takes the elements' one by one.    *)
Clear(t) ==
    /\ Asks(t, "has cleared")
    /\ produce' = 0 /\ consume' = 0 /\ cnt' = 0 /\ stored' = <<>>
    /\ spoiled' = (spoiled \/ free > 0 \/ \E u \in Threads \ {t} : at[u] # "idle")
    /\ UNCHANGED <<slot, free, used>>

ReleaseAll(t) ==
    /\ Goes(t, "has cleared", "drains")
    /\ free + Capacity <= MaxFree
    /\ free' = free + Capacity
    /\ UNCHANGED <<ring, used, spoiled>>

Drain(t) ==
    \/ /\ at[t] = "drains" /\ used > 0
       /\ used' = used - 1
       /\ UNCHANGED <<ring, free, at, spoiled>>
    \/ /\ used = 0 /\ Goes(t, "drains", "idle")
       /\ UNCHANGED <<ring, free, used, spoiled>>

Next ==
    \E t \in Threads :
        \/ AcquireFree(t) \/ ReleaseUsed(t) \/ AcquireUsed(t) \/ Take(t) \/ ReleaseFree(t)
        \/ Clear(t) \/ ReleaseAll(t) \/ Drain(t)
        \/ \E v \in Values : Store(t, v)

Spec == Init /\ [][Next]_vars

-----------------------------------------------------------------------------
(* What size, snapshot and the next pops see is what has been stored and   *)
(* not taken, in its order, and no element is written over.                *)
Snapshot == [i \in 1 .. cnt |-> slot[(consume + i - 1) % Capacity]]

RingIsQueue == cnt <= Capacity /\ Snapshot = stored

(* As long as clear is called on a full ring only and by nobody beside     *)
(* other calls, a permit stands for one free slot or one element, and the  *)
(* ring is a queue (the semaphores, push_back, pop_front, clear).          *)
RingKeepsOrder == ~spoiled => RingIsQueue
=============================================================================
