---------------------------- MODULE SimulatedString ----------------------------
(***************************************************************************)
(* The characters of a string (Asio/model/container/simulate_string.hpp)   *)
(* in its block, where memmove, strncpy and strcpy put them: one object    *)
(* that is edited, cut, copied and appended to itself, beside the text that*)
(* the description at the head of the file promises.  Where the code is    *)
(* known to do something else the string meets its fate, which names the   *)
(* disagreement, and its story ends.                                       *)
(***************************************************************************)
EXTENDS Integers, SequencesExt

CONSTANTS
    Letters,
    MaxLength      \* no operation beyond this length

Zero == "zero"     \* '\0'
Blank == "blank"   \* what a string is made of by default
Junk == "junk"     \* what new char[] finds

VARIABLES
    cell,          \* _data: the characters from 0 to the capacity
    size,          \* _size
    text,          \* history: what the caller has been promised
    fate           \* "none", or why the text is not there

vars == <<cell, size, text, fate>>

Capacity(block) == Cardinality(DOMAIN block) - 1
Cells(t) == [i \in 0 .. Len(t) - 1 |-> t[i + 1]]
Part(block, from, n) == [i \in 0 .. n - 1 |-> block[from + i]]
Room(capacity) == [i \in 0 .. capacity |-> Junk]
Copied(block, to, source) ==
    [i \in DOMAIN block |-> IF i - to \in DOMAIN source THEN source[i - to] ELSE block[i]]
Ended(block, at) == [block EXCEPT ![at] = Zero]

(* strncpy stops at the first '\0' and fills up with it.                   *)
UpToZero(source) ==
    [i \in DOMAIN source |-> IF \E j \in 0 .. i : source[j] = Zero THEN Zero ELSE source[i]]

(* string, from a text; its default argument.                              *)
New(t) == Ended(Copied(Room(Len(t)), 0, Cells(t)), Len(t))
Default == New(<<Blank>>)

(* allocate_resources                                                      *)
Allocated(block, used, capacity) ==
    IF capacity <= Capacity(block) THEN block
    ELSE Ended(Copied(Room(capacity), 0, Part(block, 0, used + 1)), used)

(* "" by default: the string is " ".                                       *)
Texts == UNION {[1 .. n -> Letters] : n \in 1 .. 2}
Init ==
    \/ \E t \in Texts : text = t /\ size = Len(t) /\ cell = New(t) /\ fate = "none"
    \/ text = <<>> /\ size = 1 /\ cell = Default /\ fate = "blank"

Turns(block, n, t, f) ==
    /\ fate = "none" /\ n <= MaxLength
    /\ cell' = block /\ size' = n /\ text' = t /\ fate' = f
Becomes(block, t) == Turns(block, Len(t), t, "none")

(* Copied with strncpy: what stands behind a '\0' of the source is lost.   *)
Torn(t) == \E i, j \in DOMAIN t : i < j /\ t[i] = Zero /\ t[j] # Zero
Through(source, block, t) ==
    Turns(block, Len(t), t, IF Torn(source) THEN "cut" ELSE "none")

-----------------------------------------------------------------------------
(* Making it longer                                                        *)

Pushed(block, used, c) ==
    LET full == used = Capacity(block)
        room == IF full THEN Allocated(block, used, IF used = 0 THEN 2 ELSE 2 * used) ELSE block
    IN  Ended([room EXCEPT ![used] = c], used + 1)
PushBack(c) == Becomes(Pushed(cell, size, c), Append(text, c))

(* push_back of a text or a string, and +=.  The string may be this one,   *)
(* whose block has just been replaced.                                     *)
AppendText(t) ==
    LET room == Allocated(cell, size, size + Len(t))
    IN  Becomes(Ended(Copied(room, size, Cells(t)), size + Len(t)), text \o t)
AppendSelf ==
    LET room == Allocated(cell, size, size + size)
    IN  Through(text, Ended(Copied(room, size, UpToZero(Part(room, 0, size))), size + size),
                text \o text)

(* operator+                                                               *)
PlusSelf ==
    LET room == Allocated(Default, 1, size + size)
        once == UpToZero(Part(cell, 0, size))
    IN  Through(text, Ended(Copied(Copied(room, 0, once), size, once), size + size),
                text \o text)

(* prepend and insert_sub_string: the old characters are set aside, those  *)
(* behind the place return behind the new ones.                            *)
Insert(t, at) ==
    LET room == Allocated(cell, size, size + Len(t))
        moved == Copied(room, at + Len(t), Part(room, at, size - at + 1))
    IN  /\ at <= size
        /\ Becomes(Ended(Copied(moved, at, Cells(t)), size + Len(t)),
                   SubSeq(text, 1, at) \o t \o SubSeq(text, at + 1, size))

(* resize, which is to fill what it adds, does so beyond the capacity only.*)
Resize(n, c) ==
    \/ /\ n > Capacity(cell)
       /\ Becomes(Ended(Copied(Allocated(cell, size, n), size, [i \in 0 .. n - size - 1 |-> c]), n),
                  text \o [i \in 1 .. n - size |-> c])
    \/ n <= size /\ Becomes(Ended(cell, n), SubSeq(text, 1, n))
    \/ /\ n > size /\ n <= Capacity(cell)
       /\ Turns(Ended(cell, n), n, text \o [i \in 1 .. n - size |-> c], "not filled")
Reserve(n) ==
    /\ n <= MaxLength
    /\ Becomes(Allocated(cell, size, n), text)

-----------------------------------------------------------------------------
(* New strings, which take the place of the old one                        *)

(* The copy constructor copies with strcpy, which ends at the first '\0';  *)
(* the copy assignment does not.                                           *)
Copy ==
    LET zero == CHOOSE i \in DOMAIN cell : cell[i] = Zero /\ \A j \in 0 .. i - 1 : cell[j] # Zero
    IN  Turns(Copied(Room(Capacity(cell)), 0, Part(cell, 0, zero + 1)), size, text,
              IF Zero \in ToSet(text) THEN "cut" ELSE "none")
Assign ==
    Through(text, Ended(Copied(Room(Capacity(cell)), 0, UpToZero(Part(cell, 0, size))), size),
            text)

(* sub_string, sub_string_from                                             *)
SubString(from, to) ==
    LET room == Allocated(Default, 1, to - from)
        part == SubSeq(text, from + 1, to)
    IN  /\ from <= to /\ to <= size
        /\ Through(part, Ended(Copied(room, 0, UpToZero(Part(cell, from, to - from))), to - from),
                   part)

(* reverse, reverse_sub_string: the blank of the new string stays in front *)
(* of what is to be the text.                                              *)
ReverseSubString(from, to) ==
    LET pushed[n \in Nat] ==
            IF n = 0 THEN Default ELSE Pushed(pushed[n - 1], n, cell[to - n])
    IN  /\ from <= to /\ to <= size /\ size > 0
        /\ Turns(pushed[to - from], to - from + 1, Reverse(SubSeq(text, from + 1, to)), "blank")

Next ==
    \/ \E c \in Letters \cup {Zero} :
        PushBack(c) \/ \E n \in 0 .. MaxLength : Resize(n, c)
    \/ \E t \in Texts : AppendText(t) \/ \E at \in 0 .. MaxLength : Insert(t, at)
    \/ AppendSelf \/ PlusSelf \/ Copy \/ Assign
    \/ \E from, to \in 0 .. MaxLength : SubString(from, to) \/ ReverseSubString(from, to)
    \/ \E n \in 1 .. MaxLength : Reserve(n)

Spec == Init /\ [][Next]_vars

-----------------------------------------------------------------------------
(* The block holds the promised text and its end.  Excepted are a string   *)
(* made by default or reversed, which has a blank in front; one that resize*)
(* made longer within its capacity, which is not filled; and a copy of one *)
(* that has a '\0' inside, which ends there.                               *)
BlockHoldsText ==
    fate = "none" =>
        /\ size = Len(text) /\ size <= Capacity(cell)
        /\ \A i \in DOMAIN text : cell[i - 1] = text[i]
        /\ cell[size] = Zero
=============================================================================
