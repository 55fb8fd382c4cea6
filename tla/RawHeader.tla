------------------------------ MODULE RawHeader ------------------------------
(***************************************************************************)
(* The RAW adapter: exifr reads a buffer and returns tags, finds none, or  *)
(* throws; a Canon CR3 is taken apart first, and exifr is given each of    *)
(* its metadata blocks.  What exifr makes of a buffer is part of the       *)
(* buffer: a record of `out` ("tags", "none", "range" for a RangeError,    *)
(* "throws") and `tags`.  A box is a record:                               *)
(*   type   "moov", "uuid", "canon" (Canon's uuid), "CMT" or another       *)
(*   whole  does it lie inside the box, or the prefix, around it           *)
(*   boxes  its children                                                   *)
(*   exif   what exifr makes of its payload                                *)
(***************************************************************************)
EXTENDS Integers, Sequences, SequencesExt, FiniteSetsExt

-----------------------------------------------------------------------------
(* Boxes, as far down as the walk goes.                                     *)

IsExif(exif) ==
  /\ exif.out \in {"tags", "none", "range", "throws"}
  /\ exif.out # "tags" => exif.tags = <<>>

IsList(boxes) == boxes \in Seq(Range(boxes))

IsBox(box) ==
  /\ IsList(box.boxes)
  /\ \A child \in Range(box.boxes) :
       /\ IsList(child.boxes)
       /\ \A block \in Range(child.boxes) : IsExif(block.exif)

-----------------------------------------------------------------------------
(* The boxes of a CR3: only plain sizes are read, and a box that does not  *)
(* fit ends the walk.                                                       *)

\* readBox, from one box to the next: the children before the first that does not fit
Children(box) ==
  SubSeq(box.boxes, 1, Min({i \in 1..Len(box.boxes) : ~box.boxes[i].whole} \cup {Len(box.boxes) + 1}) - 1)

NoBlock == [out |-> "none", tags |-> <<>>]
NoBox == [type |-> "none", whole |-> TRUE, boxes |-> <<>>, exif |-> NoBlock]

FindChildBox(box, type) ==
  LET first == SelectInSeq(box.boxes, LAMBDA b : ~b.whole \/ b.type = type)
  IN IF first = 0 \/ ~box.boxes[first].whole THEN NoBox ELSE box.boxes[first]

LooksLikeCr3(file) == file.brand = "crx"

\* The payloads of moov/canon/CMT*, none if a box on the way is not found; any other
\* child of Canon's box counts as a block in which there is nothing
ExtractCr3TiffBlocks(file) ==
  LET children == Children(FindChildBox(FindChildBox(file, "moov"), "canon"))
  IN [i \in 1..Len(children) |-> IF children[i].type = "CMT" THEN children[i].exif ELSE NoBlock]

-----------------------------------------------------------------------------
(* parseRawHeader().                                                        *)

ClassifyError(exif) == IF exif.out = "range" THEN "TRUNCATED_HEADER" ELSE "UNRECOGNIZED_RAW"
Throws(exif) == exif.out \in {"range", "throws"}

RawOk(tags) == [outcome |-> "ok", tags |-> tags]
RawError(code) == [outcome |-> code, tags |-> <<>>]

\* { ...tags, ...more }
Merge(tags, more) ==
  [k \in DOMAIN tags \cup DOMAIN more |-> IF k \in DOMAIN more THEN more[k] ELSE tags[k]]

\* Mutant: the first block to give a tag decides it.
FirstBlockWins(r, block) ==
  IF block.out = "tags" THEN RawOk(Merge(block.tags, r.tags)) ELSE r

\* One turn of the loop; a block that throws leaves it, and the parser, for the catch.
ParseBlock(r, block) ==
  IF r.outcome # "ok" \/ block.out = "none" THEN r
  ELSE IF Throws(block) THEN RawError(ClassifyError(block))
  ELSE RawOk(Merge(r.tags, block.tags))

ParseBlocks(blocks) == FoldLeft(ParseBlock, RawOk(<<>>), blocks)

ParseWhole(exif) == IF Throws(exif) THEN RawError(ClassifyError(exif)) ELSE RawOk(exif.tags)

BlocksOf(file) == IF LooksLikeCr3(file) THEN ExtractCr3TiffBlocks(file) ELSE <<>>

\* A file and the blocks taken out of it
ParseRawHeader(file, blocks) ==
  IF file.empty THEN RawError("EMPTY_FILE")
  ELSE IF \E i \in 1..Len(blocks) : blocks[i].out # "none" THEN ParseBlocks(blocks)
  ELSE ParseWhole(file.exif)

-----------------------------------------------------------------------------
(* Reference: what a CR3 says, by positions.                                *)

\* The children of a box that the walk can reach, of a type
Reached(box, type) ==
  {i \in 1..Len(box.boxes) : box.boxes[i].type = type /\ \A k \in 1..i : box.boxes[k].whole}

\* The first child of a type, as a set of at most one
FirstChild(box, type) == {box.boxes[i] : i \in {n \in Reached(box, type) : n = Min(Reached(box, type))}}

CanonBoxes(file) == UNION {FirstChild(moov, "canon") : moov \in FirstChild(file, "moov")}

\* The tag k of the blocks: the one of the last block that has it
TagOfBlocks(box, k) ==
  LET having == {i \in Reached(box, "CMT") : k \in DOMAIN box.boxes[i].exif.tags}
  IN box.boxes[Max(having)].exif.tags[k]

TagsOfBlocks(box) ==
  [k \in UNION {DOMAIN box.boxes[i].exif.tags : i \in Reached(box, "CMT")} |-> TagOfBlocks(box, k)]

Gives(box, out) == \E i \in Reached(box, "CMT") : box.boxes[i].exif.out \in out

-----------------------------------------------------------------------------
(* The tags a frame is made of.  A block of the Exif sub-IFD read alone    *)
(* gives its tags under their numbers.                                      *)

NoTag == [type |-> "null", text |-> <<>>]

Tagged(tags, name, number, type) ==
  LET is(k) == k \in DOMAIN tags /\ tags[k].type = type
  IN IF is(name) THEN tags[name] ELSE IF is(number) THEN tags[number] ELSE NoTag

ToKeywords(tags) ==
  [Make |-> Tagged(tags, "Make", "Make", "string"),
   Model |-> Tagged(tags, "Model", "Model", "string"),
   ExposureTime |-> Tagged(tags, "ExposureTime", "33434", "number"),
   ISO |-> Tagged(tags, "ISO", "34855", "number"),
   DateTimeOriginal |-> Tagged(tags, "DateTimeOriginal", "36867", "string"),
   OffsetTimeOriginal |-> Tagged(tags, "OffsetTimeOriginal", "36881", "string")]
=============================================================================
