----------------------------- MODULE XisfHeader -----------------------------
(***************************************************************************)
(* The header-only XISF parser: a prologue that declares the length of the *)
(* XML after it, then one scan of that XML, item by item, with the stack   *)
(* of open elements.  An item is a record:                                 *)
(*   kind   "open", "close", "empty" (self-closing), "skip" (comment,      *)
(*          processing instruction, declaration), "cut" (never closed) or  *)
(*          "malformed" (its name or its attributes)                       *)
(*   name   the element                                                    *)
(*   key    its name or id attribute, or NoAttribute                       *)
(*   value  its value attribute, or NoAttribute                            *)
(***************************************************************************)
EXTENDS Integers, Sequences, SequencesExt, FiniteSetsExt

CONSTANTS
  NoAttribute,             \* the attribute is not there
  BadReference,            \* a value with a character reference beyond Unicode
  MaxXml                   \* 16 MB: the longest XML header trusted

ASSUME AttributesAssumption == NoAttribute # BadReference

-----------------------------------------------------------------------------
(* Items.  Only a start tag is read for attributes.                         *)

StartTags == {"open", "empty"}
XmlItems ==
  {item \in [kind : StartTags \cup {"close", "skip", "cut", "malformed"}, name : STRING,
             key : {NoAttribute} \cup STRING,
             value : {NoAttribute, BadReference} \cup Seq(STRING)] :
     item.kind \notin StartTags => item.key = NoAttribute /\ item.value = NoAttribute}

-----------------------------------------------------------------------------
(* scanXml(): an element is collected where it opens, whatever encloses it. *)

NewScan == [stack |-> <<>>, keywords |-> <<>>, properties |-> <<>>, outcome |-> "ok"]

\* map.set(key, value)
Set(map, key, value) ==
  [k \in DOMAIN map \cup {key} |-> IF k = key THEN value ELSE map[k]]

ScanFails(s, code) == [s EXCEPT !.outcome = code]

\* Mutant: any closing tag closes the last element opened.
ClosesAny(s, item) ==
  IF s.stack # <<>> THEN [s EXCEPT !.stack = Front(@)] ELSE ScanFails(s, "MALFORMED_XML")

Closes(s, item) ==
  IF s.stack # <<>> /\ Last(s.stack) = item.name
  THEN [s EXCEPT !.stack = Front(@)]
  ELSE ScanFails(s, "MALFORMED_XML")

\* Texts are sequences of words, the empty text the empty one.
Text(value) == IF value = NoAttribute THEN <<>> ELSE value

Collect(s, item) ==
  IF item.key = NoAttribute \/ item.name \notin {"FITSKeyword", "Property"} THEN s
  ELSE IF item.name = "FITSKeyword"
  THEN [s EXCEPT !.keywords = Set(@, item.key, Text(item.value))]
  ELSE [s EXCEPT !.properties = Set(@, item.key, Text(item.value))]

\* String.fromCodePoint throws out of the parser on a reference beyond Unicode.
Opens(s, item) ==
  IF item.value = BadReference THEN ScanFails(s, "RangeError")
  ELSE [Collect(s, item) EXCEPT !.stack = IF item.kind = "open" THEN Append(@, item.name) ELSE @]

ScanItem(s, item) ==
  IF s.outcome # "ok" \/ item.kind = "skip" THEN s
  ELSE IF item.kind \in {"cut", "malformed"} THEN ScanFails(s, "MALFORMED_XML")
  ELSE IF item.kind = "close" THEN Closes(s, item)
  ELSE Opens(s, item)

ScanItems(s, items) == FoldLeft(ScanItem, s, items)

ScanXml(items) ==
  LET s == ScanItems(NewScan, items)
  IN IF s.outcome = "ok" /\ s.stack # <<>> THEN ScanFails(s, "MALFORMED_XML") ELSE s

-----------------------------------------------------------------------------
(* The prologue: how many of its 16 bytes are there, whether its first 8   *)
(* are the signature, and the length it declares.  Its outcome is "ok"     *)
(* when the XML is read next.                                              *)

CheckPrologue(bytes, signature, declared) ==
  IF bytes = 0 THEN "EMPTY_FILE"
  ELSE IF bytes < 8 THEN "TRUNCATED_HEADER"
  ELSE IF ~signature THEN "BAD_SIGNATURE"
  ELSE IF bytes < 16 \/ declared > MaxXml THEN "TRUNCATED_HEADER"
  ELSE "ok"

\* What the declared region of the file gives, items being read whole
ReadXml(items, declared) ==
  IF Len(items) < declared THEN ScanFails(NewScan, "TRUNCATED_HEADER")
  ELSE ScanXml(SubSeq(items, 1, declared))

-----------------------------------------------------------------------------
(* Reference: a grammar of nested elements, with no stack.                  *)

\* Items i to j are elements one after the other, each closed by its own name
Balanced(items) ==
  LET n == Len(items)
      nested[span \in (1..(n + 1)) \X (0..n)] ==
        LET i == span[1]
            j == span[2]
        IN \/ i > j
           \/ items[i].kind \in {"skip", "empty"} /\ nested[<<i + 1, j>>]
           \/ /\ items[i].kind = "open"
              /\ \E k \in (i + 1)..j :
                   /\ items[k].kind = "close" /\ items[k].name = items[i].name
                   /\ nested[<<i + 1, k - 1>>] /\ nested[<<k + 1, j>>]
  IN nested[<<1, n>>]

IsXml(items) ==
  Balanced(items) /\ \A i \in 1..Len(items) : items[i].value # BadReference

\* The last element of that name with that key decides, wherever it stands.
AttributesOf(items, name) ==
  LET at == {i \in 1..Len(items) : /\ items[i].kind \in {"open", "empty"}
                                   /\ items[i].name = name /\ items[i].key # NoAttribute}
  IN [k \in {items[i].key : i \in at} |-> Text(items[Max({i \in at : items[i].key = k})].value)]
=============================================================================
