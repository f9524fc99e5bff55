---------------------------- MODULE MCContainers ----------------------------
(***************************************************************************)
(* The containers side by side: a behaviour takes one part and leaves the  *)
(* others as they began.  The locked containers are SharedContainers       *)
(* itself, those at which threads wait are in MCWaiting and those that own *)
(* memory in MCMemory.  Trees, Hash, Heap, List, String and Vector are     *)
(* those of Asio/model/container, Messages the custom messages of          *)
(* Asio/model/network/agreement, which keep a text beside their contents.  *)
(***************************************************************************)
EXTENDS SharedContainers, MCWaiting, MCMemory, TLC

VARIABLES
    part,
    treeKind, tree, contents,                                \* Trees
    capacity, chain, order, size, key, hashHistory, hashFate, \* Hash
    heap, heapHistory,                                       \* Heap
    node, held, listed,                                      \* List
    cell, used, text, textFate,                              \* String
    block, filled, elements, elementsFate,                   \* Vector
    messageKind, message, kept                               \* Messages

trees == <<treeKind, tree, contents>>
hash == <<capacity, chain, order, size, key, hashHistory, hashFate>>
heaps == <<heap, heapHistory>>
list == <<node, held, listed>>
string == <<cell, used, text, textFate>>
vector == <<block, filled, elements, elementsFate>>
sequences == <<list, string, vector>>
messages == <<messageKind, message, kept>>

Trees == INSTANCE SimulatedTrees WITH
    Kinds <- {"binary", "balance", "red_black"}, Keys <- 1 .. 6, kind <- treeKind
Hash == INSTANCE SimulatedHash WITH
    Keys <- 1 .. 4, Nodes <- 1 .. 4, Capacities <- {0, 1, 2}, LoadFactor <- 7,
    history <- hashHistory, fate <- hashFate
Heap == INSTANCE SimulatedHeap WITH
    Values <- 1 .. 3, MaxLength <- 7, history <- heapHistory
List == INSTANCE SimulatedList WITH
    Sentinel <- 0, Nodes <- 1 .. 4, contents <- listed
String == INSTANCE SimulatedString WITH
    Letters <- {"a", "b"}, MaxLength <- 3, size <- used, fate <- textFate
Vector == INSTANCE SimulatedVector WITH
    Values <- {1, 2}, MaxLength <- 4, size <- filled, contents <- elements,
    fate <- elementsFate
Messages == INSTANCE ProtocolMessages WITH
    Messages <- {1, 2}, Writers <- {1}, MaxChanged <- 1, MaxFields <- 1,
    kind <- messageKind

Alike == Permutations(Submitters) \cup Permutations(Fetchers)

(* A part that is not taken begins in one way only.                        *)
MCInit ==
    /\ part \in {"trees", "hash", "heap", "list", "string", "vector", "buffers", "locks",
                "waits", "ring", "ranks", "pointers", "messages", "closable"}
    /\ Trees!Init /\ (part # "trees" => treeKind = "binary")
    /\ Hash!Init /\ (part # "hash" => capacity = 0)
    /\ Heap!Init /\ List!Init
    /\ String!Init /\ (part # "string" => text = <<"a">>)
    /\ Vector!Init /\ (part # "vector" => elements = <<>>)
    /\ MemoryInit
    /\ (part # "buffers" => bufferKind = "string")
    /\ (part # "pointers" => pointerKind = "smart")
    /\ Init /\ (part # "locks" => methods = {Kind(m) : m \in ConcurrentVector})
    /\ WaitingInit
    /\ (part # "waits" => waitKind = "queue")
    /\ (part # "ranks" => rankKind = "priority")
    /\ (part # "ring" => slot = [s \in Ring!Slots |-> 1])
    /\ Messages!Init /\ (part # "messages" => messageKind = "request")

algorithms == <<trees, hash, heaps, sequences>>
memory == <<buffers, pointers>>
shared == <<vars, waits, ring, closable>>

TreesStep ==
    /\ part = "trees" /\ Trees!Next
    /\ UNCHANGED <<part, hash, heaps, sequences, memory, shared, ranks, messages>>
HashStep ==
    /\ part = "hash" /\ Hash!Next
    /\ UNCHANGED <<part, trees, heaps, sequences, memory, shared, ranks, messages>>
HeapStep ==
    /\ part = "heap" /\ Heap!Next
    /\ UNCHANGED <<part, trees, hash, sequences, memory, shared, ranks, messages>>
others == <<trees, hash, heaps, memory, shared, ranks, messages>>
ListStep ==
    /\ part = "list" /\ List!Next
    /\ UNCHANGED <<part, others, string, vector>>
StringStep ==
    /\ part = "string" /\ String!Next
    /\ UNCHANGED <<part, others, list, vector>>
VectorStep ==
    /\ part = "vector" /\ Vector!Next
    /\ UNCHANGED <<part, others, list, string>>
BuffersStep ==
    /\ part = "buffers" /\ AtBuffers
    /\ UNCHANGED <<part, algorithms, shared, ranks, messages>>
LocksStep ==
    /\ part = "locks" /\ Next
    /\ UNCHANGED <<part, waits, ring, closable, algorithms, memory, ranks, messages>>
WaitsStep ==
    /\ part = "waits" /\ AtWaits
    /\ UNCHANGED <<part, vars, algorithms, memory, messages>>
RingStep ==
    /\ part = "ring" /\ AtRing
    /\ UNCHANGED <<part, vars, algorithms, memory, messages>>
RanksStep ==
    /\ part = "ranks" /\ AtRanks
    /\ UNCHANGED <<part, vars, algorithms, memory, messages>>
PointersStep ==
    /\ part = "pointers" /\ AtPointers
    /\ UNCHANGED <<part, algorithms, shared, ranks, messages>>
MessagesStep ==
    /\ part = "messages" /\ Messages!Next
    /\ UNCHANGED <<part, algorithms, memory, shared, ranks>>
ClosableStep ==
    /\ part = "closable" /\ AtClosable
    /\ UNCHANGED <<part, vars, algorithms, memory, messages>>

MCNext ==
    \/ TreesStep \/ HashStep \/ HeapStep
    \/ ListStep \/ StringStep \/ VectorStep \/ BuffersStep
    \/ LocksStep \/ WaitsStep \/ RingStep \/ RanksStep
    \/ PointersStep \/ MessagesStep \/ ClosableStep

MCSpec == MCInit /\ [][MCNext]_<<part, algorithms, memory, shared, ranks, messages>>

-----------------------------------------------------------------------------
(* Whatever is pushed and popped, a container that still answers shows     *)
(* what it has been given: the trees in the order of the keys, forwards    *)
(* and backwards, the list too, the hash table in its list, the heap the   *)
(* greatest on top, the blocks of string and vector what they are          *)
(* documented to hold, but for the exceptions named with BlockHoldsText,   *)
(* BlockHoldsContents and ListIsHistory, after which nothing is claimed; a *)
(* message keeps no text that has become stale, and a text that is         *)
(* accepted holds the message it was made from.                            *)
ContentsAreKept ==
    /\ part = "trees" => Trees!IterationIsContents
    /\ part = "hash" => Hash!ListIsHistory
    /\ part = "heap" => Heap!TopIsGreatest
    /\ part = "list" => List!RingIsContents
    /\ part = "string" => String!BlockHoldsText
    /\ part = "vector" => Vector!BlockHoldsContents
    /\ part = "messages" => Messages!CacheIsHonest /\ Messages!MessageSurvives

(* A push leaves a red-black tree with its colours right.                  *)
PushKeepsColours == Trees!PushKeepsColours
=============================================================================
