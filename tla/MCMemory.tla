------------------------------- MODULE MCMemory -------------------------------
(***************************************************************************)
(* The containers of Asio/model/container that own memory by hand: Buffers *)
(* are string, vector and list with their blocks, Pointers the smart       *)
(* pointers.  They stand side by side and do not act on each other.        *)
(***************************************************************************)
EXTENDS Naturals, FiniteSets

CONSTANTS
    Owners, Blocks,            \* strings, vectors or lists, and their blocks
    MaxSize,                   \* bound: no operation beyond this length
    Handles, Watchers,         \* smart pointers, weak ones
    Things, Counters           \* what they point at, what they count with

(* Null is none of them, and the pointers that count are finitely many.    *)
ASSUME MemoryAssumption ==
    /\ 0 \notin Blocks \cup Handles \cup Things \cup Counters
    /\ IsFiniteSet(Handles)

VARIABLES
    bufferKind, object, room, fate,                          \* Buffers
    pointerKind, ptr, weak, things, count, twice             \* Pointers

buffers == <<bufferKind, object, room, fate>>
pointers == <<pointerKind, ptr, weak, things, count, twice>>

Buffers == INSTANCE SimulatedBuffers WITH
    Kinds <- {"string", "vector", "list"}, Objects <- Owners, kind <- bufferKind
Pointers == INSTANCE SimulatedPointers WITH
    Kinds <- {"smart", "unique", "shared"}, Pointers <- Handles, kind <- pointerKind

MemoryInit == Buffers!Init /\ Pointers!Init
AtBuffers == Buffers!Next /\ UNCHANGED pointers
AtPointers == Pointers!Next /\ UNCHANGED buffers
MemorySpec == MemoryInit /\ [][AtBuffers \/ AtPointers]_<<buffers, pointers>>

-----------------------------------------------------------------------------
(* No two strings, vectors or lists own the same memory, none uses what it *)
(* gave up, and a string leaks nothing; no smart pointer deletes what      *)
(* another one has or what is gone, and shared ones count their owners.    *)
MemoryHasOneOwner == Buffers!OneOwner /\ Pointers!OwnedOnce
=============================================================================
