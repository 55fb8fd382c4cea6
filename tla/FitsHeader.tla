----------------------------- MODULE FitsHeader -----------------------------
(***************************************************************************)
(* The header-only FITS parser: blocks of cards are fed to a scanner that  *)
(* keeps the keywords found so far and a long string that may continue on  *)
(* the next card.  A card is a record:                                     *)
(*   key        the keyword of its first 8 bytes                           *)
(*   indicator  are bytes 9 and 10 the value indicator                     *)
(*   fault      "none", "bytes" (outside restricted ASCII) or "charset"    *)
(*   field      what follows: its form and, for a string, its characters   *)
(* Strings are sequences of characters of which "&" and " " alone mean     *)
(* something; quotes and their escapes are the form of the field.          *)
(***************************************************************************)
EXTENDS Integers, Sequences, SequencesExt, FiniteSetsExt

CONSTANTS
  CardsPerBlock,           \* 36
  MaxHeaderBlocks          \* 1000: blocks read before giving up on END

ASSUME BlocksAssumption == CardsPerBlock \in Nat \ {0} /\ MaxHeaderBlocks \in Nat \ {0}

-----------------------------------------------------------------------------
(* Cards.  KEYWORD_RE is about the keyword, and SIMPLE matches it.          *)

Forms == {"blank", "string", "logical", "number", "open"}

FitsCards ==
  {card \in [key : STRING, indicator : BOOLEAN, fault : {"none", "bytes", "charset"},
             field : [form : Forms, text : Seq(STRING)]] :
     card.fault = "charset" => card.key # "SIMPLE"}

-----------------------------------------------------------------------------
(* Values.                                                                  *)

NullValue == [type |-> "null", text |-> <<>>]
Truth == [type |-> "boolean", text |-> <<"T">>]
String(text) == [type |-> "string", text |-> text]
Number(token) == [type |-> "number", text |-> token]

EndsWithAmp(text) == text # <<>> /\ Last(text) = "&"

TrimEnd(text) == SubSeq(text, 1, Max({i \in 1..Len(text) : text[i] # " "} \cup {0}))

\* parseValueField: the forms of a value field, and what each is read as
Readable(field) == field.form \in {"blank", "string", "logical", "number"}
Continued(field) == field.form = "string" /\ EndsWithAmp(field.text)
ValueOf(field) ==
  CASE field.form = "blank" -> NullValue
    [] field.form = "string" -> String(IF Continued(field) THEN field.text ELSE TrimEnd(field.text))
    [] field.form = "logical" -> [type |-> "boolean", text |-> field.text]
    [] field.form = "number" -> Number(field.text)

-----------------------------------------------------------------------------
(* The scanner.                                                             *)

NotPending == [key |-> "", text |-> <<>>]

NewScanner == [keywords |-> <<>>, cards |-> 0, pending |-> NotPending, outcome |-> "need-more"]

\* this.keywords[key] = value
Put(keywords, key, value) ==
  [k \in DOMAIN keywords \cup {key} |-> IF k = key THEN value ELSE keywords[k]]

Fail(s, code) == [s EXCEPT !.outcome = code]
Count(s) == [s EXCEPT !.cards = @ + 1]

\* Mutant: the string that waits for its continuation is forgotten.
ForgetPending(s) == [s EXCEPT !.pending = NotPending]

\* No CONTINUE followed: the & is literal.
FinalizePending(s) ==
  IF s.pending = NotPending THEN s
  ELSE [s EXCEPT !.keywords = Put(@, s.pending.key, String(TrimEnd(s.pending.text))),
                 !.pending = NotPending]

FirstCard(s, card) ==
  IF /\ card.key = "SIMPLE" /\ card.indicator
     /\ Readable(card.field) /\ ValueOf(card.field) = Truth
  THEN [Count(s) EXCEPT !.keywords = Put(@, "SIMPLE", Truth)]
  ELSE Fail(s, "NOT_FITS")

ContinueCard(s, card) ==
  LET merged == Front(s.pending.text) \o card.field.text
  IN IF s.pending = NotPending \/ card.field.form # "string"
     THEN Fail(s, "BAD_CONTINUE")
     ELSE IF EndsWithAmp(card.field.text)
     THEN [Count(s) EXCEPT !.pending.text = merged]
     ELSE [Count(s) EXCEPT !.keywords = Put(@, s.pending.key, String(TrimEnd(merged))),
                           !.pending = NotPending]

Commentary == {"COMMENT", "HISTORY", ""}

\* A card with no value indicator is kept but sets no keyword.
ValueCard(s, card) ==
  LET valueless == card.key \in Commentary \/ ~card.indicator
  IN IF card.fault = "charset" \/ ~(valueless \/ Readable(card.field))
     THEN Fail(s, "INVALID_CARD")
     ELSE IF valueless THEN Count(s)
     ELSE IF Continued(card.field)
     THEN [Count(s) EXCEPT !.pending = [key |-> card.key, text |-> card.field.text]]
     ELSE [Count(s) EXCEPT !.keywords = Put(@, card.key, ValueOf(card.field))]

\* Mutant: END is a card like another.
FeedPastEnd(s, card) ==
  IF s.outcome # "need-more" THEN s
  ELSE IF s.cards = 0 THEN FirstCard(s, card)
  ELSE IF card.key = "CONTINUE" /\ ~card.indicator THEN ContinueCard(s, card)
  ELSE ValueCard(FinalizePending(s), card)

FeedCard(s, card) ==
  IF s.outcome # "need-more" THEN s
  ELSE IF card.fault = "bytes" THEN Fail(s, IF s.cards = 0 THEN "NOT_FITS" ELSE "INVALID_CARD")
  ELSE IF s.cards = 0 THEN FirstCard(s, card)
  ELSE IF card.key = "CONTINUE" /\ ~card.indicator THEN ContinueCard(s, card)
  ELSE IF card.key = "END" THEN [Count(FinalizePending(s)) EXCEPT !.outcome = "done"]
  ELSE ValueCard(FinalizePending(s), card)

FeedBlock(s, block) == FoldLeft(FeedCard, s, block)

-----------------------------------------------------------------------------
(* Reading: one block, then what parseFitsHeader makes of it.  A file is   *)
(* its cards in order; its last block may be short.                        *)

BlockOf(cards, block) ==
  SubSeq(cards, block * CardsPerBlock + 1,
         IF (block + 1) * CardsPerBlock <= Len(cards) THEN (block + 1) * CardsPerBlock
                                                      ELSE Len(cards))

\* The chunk read is short: end of file, or a block cut off
ShortChunk(chunk, block) ==
  IF chunk # <<>> THEN "TRUNCATED_HEADER"
  ELSE IF block = 0 THEN "EMPTY_FILE" ELSE "MISSING_END"

\* After the block: the scanner, with MISSING_END if it was the last one allowed
ReadBlock(s, cards, block) ==
  LET chunk == BlockOf(cards, block)
      fed == FeedBlock(s, chunk)
  IN IF Len(chunk) < CardsPerBlock THEN Fail(s, ShortChunk(chunk, block))
     ELSE IF fed.outcome = "need-more" /\ block + 1 = MaxHeaderBlocks
     THEN Fail(fed, "MISSING_END")
     ELSE fed

-----------------------------------------------------------------------------
(* Reference: what a list of cards says, with no scanner and no blocks.     *)

ContinuesAt(cards, i) == i > 1 /\ cards[i].key = "CONTINUE" /\ ~cards[i].indicator

\* The long string that starts on card i, up to its last card
EndOfString(cards, i) ==
  CHOOSE j \in i..Len(cards) :
    /\ \A k \in (i + 1)..j : ContinuesAt(cards, k)
    /\ j = Len(cards) \/ ~ContinuesAt(cards, j + 1)

\* A card may be continued if it is a string, or a continuation, that ends with &.
MayContinue(card) ==
  /\ card.field.form = "string" /\ EndsWithAmp(card.field.text)
  /\ card.indicator \/ card.key = "CONTINUE"
  /\ card.indicator => card.key \notin Commentary

WellFormedCard(cards, i) ==
  LET card == cards[i]
  IN /\ card.fault # "bytes"
     /\ i = 1 => card.key = "SIMPLE" /\ card.indicator /\ card.field = [form |-> "logical", text |-> <<"T">>]
     /\ ContinuesAt(cards, i) => /\ i > 2 /\ MayContinue(cards[i - 1])
                                 /\ card.field.form = "string"
     /\ ~ContinuesAt(cards, i) /\ card.key # "END" =>
          /\ card.fault = "none"
          /\ card.indicator /\ card.key \notin Commentary => Readable(card.field)

EndCards(cards) == {i \in 2..Len(cards) : cards[i].key = "END" /\ ~ContinuesAt(cards, i)}
HeaderEnd(cards) == Min(EndCards(cards))

IsHeader(cards) ==
  /\ EndCards(cards) # {}
  /\ \A i \in 1..HeaderEnd(cards) : WellFormedCard(cards, i)

\* The pieces of a long string without the & that joins them
StringAt(cards, i) ==
  LET last == EndOfString(cards, i)
      piece(k) == IF k < last THEN Front(cards[k].field.text) ELSE cards[k].field.text
  IN TrimEnd(FlattenSeq([n \in 1..(last - i + 1) |-> piece(i + n - 1)]))

Sets(card) == card.indicator /\ card.key \notin Commentary \cup {"END"}

\* The last card that gives a keyword a value decides it.
KeywordsOf(cards) ==
  LET e == HeaderEnd(cards)
      setters == {i \in 1..e : Sets(cards[i])}
      last(k) == Max({i \in setters : cards[i].key = k})
  IN [k \in {cards[i].key : i \in setters} |->
        IF cards[last(k)].field.form = "string" THEN String(StringAt(cards, last(k)))
        ELSE ValueOf(cards[last(k)].field)]
=============================================================================
