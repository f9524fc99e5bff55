---------------------------- MODULE ProtocolMessages ----------------------------
(***************************************************************************)
(* The custom messages of network/agreement (protocol.hpp, auxiliary.hpp): *)
(* a request or a response is a header and a body, keeps the text it was   *)
(* last turned into, and is read back from text or from JSON.              *)
(*                                                                         *)
(* A string is one of a few by what the reader can tell apart: how many    *)
(* words it has, whether it is longer than allowed, whether blanks         *)
(* surround it.  A text is the words of its first line, its field lines    *)
(* and its body.  Two bodies never have the same check code.               *)
(***************************************************************************)
EXTENDS Naturals, Sequences, FiniteSets, SequencesExt

CONSTANTS
    Messages,      \* the objects
    Writers,       \* those whose setters are called
    MaxChanged,    \* no setter changes more of a header than this at a time
    MaxFields      \* max_headers - 10

VARIABLES
    kind,          \* "request" or "response"
    message,       \* header, body, cached text and whether it is valid
    kept           \* a reference was kept, and the header changed behind a valid text

vars == <<kind, message, kept>>

Types == {"CRC32", "SHA256", "CUSTOM"}     \* MD5 behaves as SHA256
Bodies == {"", "ab", "ac"}       \* "ac" is what a body becomes on its way
Size(body) == IF body = "" THEN 0 ELSE 2
Split(s) ==
    CASE s = "" -> <<>> [] s = "two words" -> <<"two", "words">> [] OTHER -> <<s>>
Trim(s) == IF s = " padded " THEN "padded" ELSE s

(* method and target of a request, status code and message of a response   *)
Firsts == IF kind = "request" THEN {"", "one", "two words", "overlong"}
          ELSE {"200", "600"}
Seconds == {"", "one", "two words", "overlong"}
Own == "own"                  \* "User-Agent", "Server": the field with a line of its own
Keys == {Own, "Timestamp", "k", "l"}

NewHeader ==
    [words |-> <<IF kind = "request" THEN "one" ELSE "200", "one">>, named |-> "",
     stamp |-> "past", type |-> "CRC32", code |-> <<>>, length |-> 0, fields |-> <<>>]
NoText == <<>>
NewMessage == [header |-> NewHeader, body |-> "", cached |-> NoText, valid |-> FALSE]

Init ==
    /\ kind \in {"request", "response"}
    /\ message = [m \in Messages |-> NewMessage]
    /\ kept = [m \in Messages |-> FALSE]

-----------------------------------------------------------------------------
(* Writing.                                                                *)

(* calculate_check_code: none for a custom type                            *)
CheckCode(type, body) == IF type = "CUSTOM" THEN <<>> ELSE <<type, body>>
Stamped(h, body) ==
    [h EXCEPT !.code = CheckCode(h.type, body), !.length = Size(body)]

Numbers(h) == <<h.type, h.code, h.length>>
RequestLine(h) == Split(h.words[1]) \o Split(h.words[2]) \o <<"version">> \o Numbers(h)
ResponseLine(h) == <<"version">> \o Split(h.words[1]) \o Split(h.words[2]) \o Numbers(h)

(* to_string of the header and the body after it                           *)
TextOf(h, body) ==
    [line |-> IF kind = "request" THEN RequestLine(h) ELSE ResponseLine(h), named |-> h.named, stamp |-> h.stamp,
     fields |-> h.fields, body |-> body]

(* What to_string returns, and what it leaves behind.                      *)
Told(m) == IF m.valid THEN m.cached ELSE TextOf(Stamped(m.header, m.body), m.body)
AfterTold(m) ==
    IF m.valid THEN m
    ELSE [m EXCEPT !.header = Stamped(m.header, m.body), !.cached = Told(m), !.valid = TRUE]

-----------------------------------------------------------------------------
(* Reading.  The two words stand where the writer puts one word each.      *)

WordsOf(line) == IF kind = "request" THEN SubSeq(line, 1, 2) ELSE SubSeq(line, 2, 3)

Plain(fields) == {k \in DOMAIN fields : k \notin {Own, "Timestamp"}}

(* from_string of the header: a field that bears the name of a special     *)
(* line replaces it, or is dropped when it is no number.                   *)
Parsed(text) ==
    [words |-> WordsOf(text.line),
     named |-> Trim(IF Own \in DOMAIN text.fields THEN text.fields[Own] ELSE text.named),
     stamp |-> text.stamp,
     type |-> text.line[4], code |-> text.line[5], length |-> text.line[6],
     fields |-> [k \in Plain(text.fields) |-> Trim(text.fields[k])]]

FieldsAccepted(text) ==
    /\ Parsed(text).named # "overlong"
    /\ text.stamp # "future"
    /\ Cardinality(Plain(text.fields)) <= MaxFields

RequestAccepted(text) ==
    /\ Len(text.line) = 6 /\ text.line[4] # "CUSTOM"
    /\ text.line[1] # "overlong" /\ text.line[2] # "overlong"
    /\ FieldsAccepted(text)

ResponseAccepted(text) ==
    /\ Len(text.line) = 6 /\ text.line[4] # "CUSTOM"
    /\ text.line[2] # "600" /\ text.line[3] # "overlong"
    /\ FieldsAccepted(text)

HeaderAccepted(text) ==
    IF kind = "request" THEN RequestAccepted(text) ELSE ResponseAccepted(text)

(* verify_integrity                                                        *)
Intact(h, body) == Size(body) = h.length /\ CheckCode(h.type, body) = h.code

(* from_string: the header and the body are taken over before the check.   *)
AfterReading(m, text) ==
    IF HeaderAccepted(text)
    THEN [m EXCEPT !.header = Parsed(text), !.body = text.body,
                   !.cached = NoText, !.valid = FALSE]
    ELSE m
Accepted(text) == HeaderAccepted(text) /\ Intact(Parsed(text), text.body)

-----------------------------------------------------------------------------
(* The calls.                                                              *)

Put(m, new) == message' = [message EXCEPT ![m] = new]
Changed(h) ==
    Cardinality({f \in {"words", "named", "stamp", "type", "fields"} :
                    h[f] # NewHeader[f]})
Values(key) == IF key = "k" THEN {"one", " padded "} ELSE {"one"}

HeadersNear(h) ==
    {[h EXCEPT !.words[1] = w] : w \in Firsts} \union {[h EXCEPT !.words[2] = w] : w \in Seconds}
    \union {[h EXCEPT !.named = s] : s \in {"one", " padded ", "overlong"}}
    \union {[h EXCEPT !.stamp = "future"]} \union {[h EXCEPT !.type = t] : t \in Types}
    \union UNION {{[h EXCEPT !.fields = (key :> v) @@ @] : v \in Values(key)} : key \in Keys}
    \union {[h EXCEPT !.fields = [k \in DOMAIN @ \ {key} |-> @[k]]] : key \in Keys}

Invalidated(m) == [m EXCEPT !.cached = NoText, !.valid = FALSE]

(* header().set_...; together the headers differ in at most MaxChanged     *)
(* things from new ones, and have one field too many at most.              *)
SetHeader(m) == \E h \in HeadersNear(message[m].header) :
    /\ Changed(h) + MapThenSumSet(LAMBDA n : Changed(message[n].header), Messages \ {m})
        <= MaxChanged
    /\ Cardinality(DOMAIN h.fields) <= MaxFields + 1
    /\ Put(m, [Invalidated(message[m]) EXCEPT !.header = h])
    /\ kept' = [kept EXCEPT ![m] = FALSE]
    /\ UNCHANGED kind

(* The same through a reference that header() gave before.                 *)
SetHeaderLater(m) == \E t \in Types \ {message[m].header.type} :
    /\ Put(m, [message[m] EXCEPT !.header.type = t])
    /\ Changed(message[m].header) = 0
    /\ kept' = [kept EXCEPT ![m] = message[m].valid]
    /\ UNCHANGED kind

SetMessage(m) == \E body \in Bodies \ {"ac"} :
    /\ Put(m, [Invalidated(message[m]) EXCEPT !.body = body])
    /\ kept' = [kept EXCEPT ![m] = FALSE]
    /\ UNCHANGED kind

(* operator= by copy: the text is not copied.                              *)
Assign(m, n) ==
    /\ m # n
    /\ Put(m, [Invalidated(message[n]) EXCEPT !.cached = NoText])
    /\ kept' = [kept EXCEPT ![m] = FALSE]
    /\ UNCHANGED kind

(* operator= by move: the text goes along.  Strings and fields leave the   *)
(* source empty, numbers stay.                                             *)
Emptied(h) ==
    [h EXCEPT !.words = <<IF kind = "request" THEN "" ELSE @[1], "">>,
              !.named = "", !.fields = <<>>]
Move(m, n) ==
    /\ m # n
    /\ message' = [message EXCEPT
            ![m] = message[n],
            ![n] = [header |-> Emptied(message[n].header), body |-> "",
                    cached |-> NoText, valid |-> FALSE]]
    /\ kept' = [kept EXCEPT ![m] = kept[n], ![n] = FALSE]
    /\ UNCHANGED kind

(* The text of one message is read by another, perhaps with another body.  *)
Carry(m, n) == \E body \in {message[m].body, "ac"} :
    LET text == Told(message[m])
        arrived == [text EXCEPT !.body = body]
    IN  /\ m # n
        /\ message' = [message EXCEPT
                ![m] = AfterTold(message[m]), ![n] = AfterReading(message[n], arrived)]
        /\ kept' = [kept EXCEPT ![n] = IF HeaderAccepted(arrived) THEN FALSE ELSE @]
        /\ UNCHANGED kind

(* to_json and from_json: the header is written as an object and looked    *)
(* for as a string, so that only the body is taken over.                   *)
CarryJson(m, n) ==
    /\ m # n
    /\ message' = [message EXCEPT
            ![m].header = Stamped(@, message[m].body),
            ![n] = [Invalidated(@) EXCEPT !.body = message[m].body]]
    /\ kept' = [kept EXCEPT ![n] = FALSE]
    /\ UNCHANGED kind

Next == \E m \in Messages :
    \/ m \in Writers /\ (SetHeader(m) \/ SetHeaderLater(m) \/ SetMessage(m))
    \/ \E n \in Messages : Assign(m, n) \/ Move(m, n) \/ Carry(m, n) \/ CarryJson(m, n)

Spec == Init /\ [][Next]_vars

-----------------------------------------------------------------------------
(* A text that is kept is the text of the message, whatever was set,       *)
(* assigned, moved and read since (_full_cache_valid), unless a header was *)
(* changed through a reference from before.                                *)
CacheIsHonest == \A m \in Messages :
    message[m].valid /\ ~kept[m] =>
        message[m].cached = TextOf(message[m].header, message[m].body)

(* A text that is accepted holds the body that was written, and what a     *)
(* message can express arrives: two single words, values without blanks    *)
(* around them and without the names of special lines (to_string,          *)
(* from_string, verify_integrity).                                         *)
Single(s) == Len(Split(s)) = 1
Expressible(h) ==
    /\ Single(h.words[1]) /\ Single(h.words[2])
    /\ h.words[1] \notin {"overlong", "600"} /\ h.words[2] # "overlong"
    /\ h.type # "CUSTOM" /\ h.stamp # "future" /\ h.named \in {"", "one", "padded"}
    /\ Cardinality(DOMAIN h.fields) <= MaxFields /\ Plain(h.fields) = DOMAIN h.fields
    /\ \A k \in DOMAIN h.fields : Trim(h.fields[k]) = h.fields[k]

MessageSurvives == \A m \in Messages, body \in Bodies :
    LET after == AfterTold(message[m])
        arrived == [Told(message[m]) EXCEPT !.body = body]
    IN  ~kept[m] =>
            /\ Accepted(arrived) => body = message[m].body
            /\ Expressible(message[m].header) /\ body = message[m].body =>
                Accepted(arrived) /\ Parsed(arrived) = after.header
=============================================================================
