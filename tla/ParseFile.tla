------------------------------ MODULE ParseFile ------------------------------
(***************************************************************************)
(* A scan worker reads the header of one file and makes a frame of it or   *)
(* records why it cannot: open, the parser of the file's format pulling    *)
(* its reads one at a time, metadata, profile, classification, close.      *)
(* The file may still be under way: the capture program appends to it      *)
(* between any two reads.  Any read may fail.                              *)
(***************************************************************************)
EXTENDS FitsHeader, XisfHeader, RawHeader, FrameData

CONSTANTS
  Files,                   \* the files a scan meets: format, path, head, first units, and
                           \*   room, the bound on the units still to be written
  Units(_)                 \* what the capture program may append to a file of a format:
                           \*   cards, XML items or boxes

ASSUME FilesAssumption ==
  \A f \in Files :
    /\ f = [format |-> f.format, path |-> f.path, head |-> f.head, units |-> f.units, room |-> f.room]
    /\ f.path \in Seq(Seq(STRING))

ASSUME FitsAssumption ==
  /\ \A f \in Files : f.format = "fits" => f.units \in Seq(FitsCards)
  /\ Units("fits") \in SUBSET FitsCards

ASSUME XisfAssumption ==
  /\ \A f \in Files : f.format = "xisf" => f.head.declared \in Nat /\ f.units \in Seq(XmlItems)
  /\ Units("xisf") \in SUBSET XmlItems

ASSUME RawAssumption ==
  /\ \A f \in Files : f.format = "raw" => f.units \in Seq(Units("raw")) /\ IsExif(f.head.exif)
  /\ \A box \in Units("raw") : IsBox(box)

VARIABLES
  file,                    \* the file: format, path, head, units, room
  at,                      \* the worker: where parseDiscoveredFile is
  handle,                  \* is the file descriptor open
  scanner,                 \* FITS: the scanner
  block,                   \* FITS: the next block to read
  extent,                  \* history: units covered by the reads so far
  result                   \* the ParseOutcome, or NoResult

vars == <<file, at, handle, scanner, block, extent, result>>
worker == <<at, handle, scanner, block, extent, result>>

NoResult == [outcome |-> "none", headers |-> <<>>, properties |-> <<>>]

Init ==
  /\ file \in Files
  /\ at = "idle"
  /\ handle = FALSE
  /\ scanner = NewScanner
  /\ block = 0
  /\ extent = 0
  /\ result = NoResult

-----------------------------------------------------------------------------
(* The capture program.                                                     *)

Grow ==
  /\ file.room > 0 /\ at # "done"
  /\ \E u \in Units(file.format) :
       file' = [file EXCEPT !.units = Append(@, u), !.room = @ - 1]
  /\ UNCHANGED worker

-----------------------------------------------------------------------------
(* The worker: parseDiscoveredFile around parseAndClassifyFile.             *)

Open ==
  /\ at = "idle"
  /\ handle' = TRUE
  /\ at' = "reading"
  /\ UNCHANGED <<file, scanner, block, extent, result>>

Error(code) == [NoResult EXCEPT !.outcome = code]

Parsed(headers, properties) == [outcome |-> "ok", headers |-> headers, properties |-> properties]

\* The parser returns, or throws: the handle is still to be closed.
Returns(r) ==
  /\ result' = r
  /\ at' = "closing"
  /\ UNCHANGED <<file, handle>>

FailToOpen ==
  /\ at = "idle"
  /\ result' = Error("READ_ERROR")
  /\ at' = "done"
  /\ UNCHANGED <<file, handle, scanner, block, extent>>

Unsupported ==
  /\ at = "reading" /\ file.format = "other"
  /\ Returns(Error("UNSUPPORTED_EXTENSION"))
  /\ UNCHANGED <<scanner, block, extent>>

FitsResult(s) ==
  IF s.outcome = "done" THEN Parsed(s.keywords, <<>>)
  ELSE Error(s.outcome)

\* A block that is read in full without END asks for the next one.
ReadFits ==
  LET s == ReadBlock(scanner, file.units, block)
  IN /\ at = "reading" /\ file.format = "fits"
     /\ scanner' = s
     /\ block' = block + 1
     /\ extent' = (block + 1) * CardsPerBlock
     /\ \/ s.outcome = "need-more" /\ UNCHANGED <<file, at, handle, result>>
        \/ s.outcome # "need-more" /\ Returns(FitsResult(s))

ReadPrologue ==
  LET outcome == CheckPrologue(file.head.bytes, file.head.signature, file.head.declared)
  IN /\ at = "reading" /\ file.format = "xisf"
     /\ \/ outcome = "ok" /\ at' = "xml" /\ UNCHANGED <<file, handle, result>>
        \/ outcome # "ok" /\ Returns(Error(outcome))
     /\ UNCHANGED <<scanner, block, extent>>

\* An exception of the parser is caught with those of the file system.
XisfResult(s) ==
  CASE s.outcome = "ok" ->
         Parsed([k \in DOMAIN s.keywords |-> TextOf(s.keywords[k])], s.properties)
    [] s.outcome = "RangeError" -> Error("READ_ERROR")
    [] OTHER -> Error(s.outcome)

ReadXisf ==
  /\ at = "xml"
  /\ extent' = file.head.declared
  /\ Returns(XisfResult(ReadXml(file.units, file.head.declared)))
  /\ UNCHANGED <<scanner, block>>

\* RAW: one read of a bounded prefix; exifr works on that copy.
RawFile == [empty |-> file.units = <<>>, brand |-> file.head.brand, exif |-> file.head.exif,
            boxes |-> file.units]

RawResult(r) ==
  IF r.outcome = "ok" THEN Parsed(r.tags, <<>>)
  ELSE Error(r.outcome)

ReadRaw ==
  /\ at = "reading" /\ file.format = "raw"
  /\ extent' = Len(file.units)
  /\ \E blocks \in {BlocksOf(RawFile)} :
       Returns(RawResult(ParseRawHeader(RawFile, blocks)))
  /\ UNCHANGED <<scanner, block>>

ReadFails ==
  /\ at \in {"reading", "xml"} /\ file.format # "other"
  /\ Returns(Error("READ_ERROR"))
  /\ UNCHANGED <<scanner, block, extent>>

\* Mutant: the handle is closed only on the way out that returns a header.
CloseOnReturn ==
  /\ at = "closing"
  /\ handle' = (result.outcome = "READ_ERROR")
  /\ at' = "done"
  /\ UNCHANGED <<file, scanner, block, extent, result>>

Close ==
  /\ at = "closing"
  /\ handle' = FALSE
  /\ at' = "done"
  /\ UNCHANGED <<file, scanner, block, extent, result>>

Work ==
  \/ Open \/ FailToOpen \/ Unsupported
  \/ ReadFits \/ ReadPrologue \/ ReadXisf \/ ReadRaw \/ ReadFails
  \/ Close

Next == Grow \/ Work

\* The worker's event loop runs what it has been given; the capture program owes nothing.
Spec == Init /\ [][Next]_vars
FairSpec == Spec /\ WF_vars(Work)

-----------------------------------------------------------------------------
(* The frame a result becomes, with the file's format and path.             *)

Metadata(headers, properties) ==
  CASE file.format = "fits" -> FitsMetadata(headers)
    [] file.format = "xisf" ->
         XisfMetadata([k \in DOMAIN headers |-> headers[k].text], properties)
    [] file.format = "raw" -> RawMetadata(ToKeywords(headers))

\* classifyMetadata: the profile first, then the type
Frame ==
  LET profiled == ApplyCaptureProfile(Metadata(result.headers, result.properties), result.headers)
  IN [metadata |-> profiled, class |-> ClassifyFrame(profiled, file.path)]

-----------------------------------------------------------------------------
(* Properties.                                                              *)

Done == at = "done"
FaultsOfContent == {"NOT_FITS", "INVALID_CARD", "BAD_CONTINUE", "MALFORMED_XML"}

(* A FITS header that is accepted is one, and its keywords are those of the cards up to
   END, however its strings were continued and wherever the blocks were cut; one that is
   refused for its content is none.  What the capture program appends changes neither.
   (fits/parse.ts: "the registered CONTINUE long-string convention", "The '&' is literal") *)
FitsHeaderIsTheFiles ==
  Done /\ file.format = "fits" =>
    /\ result.outcome = "ok" => /\ IsHeader(file.units)
                                /\ result.headers = KeywordsOf(file.units)
    /\ result.outcome \in FaultsOfContent => ~IsHeader(file.units)

(* An XISF header that is accepted is nested as XML must be, and what it gives is the last
   element of each key, of those outside <Image> too, though xisf/parse.ts:9 speaks of
   elements "from within <Image>".  One refused as malformed is not well nested.  One that
   is, but for a reference beyond Unicode, is neither: the parser throws, though
   xisf/parse.ts:14 says that it "never throws on file content", and the file is recorded
   as not readable.  (xisf/parse.ts: "validates tag balance (catches unclosed elements)") *)
XisfHeaderIsTheFiles ==
  LET items == SubSeq(file.units, 1, file.head.declared)
  IN Done /\ file.format = "xisf" =>
       /\ result.outcome = "ok" =>
            /\ IsXml(items)
            /\ result.headers = [k \in DOMAIN AttributesOf(items, "FITSKeyword") |->
                                   TextOf(AttributesOf(items, "FITSKeyword")[k])]
            /\ result.properties = AttributesOf(items, "Property")
       /\ result.outcome \in FaultsOfContent => ~Balanced(items)

(* The tags of a CR3 are those of Canon's metadata blocks, the last block that has a tag
   deciding it, and the whole file's only where no block gives any.  A block that exifr
   throws on takes those of the others with it: the file is refused and has no tags, though
   raw/parse.ts:329-331 would fall through to the whole file where blocks fail.  A file is
   refused for no other reason, unless it is the whole of it that exifr throws on.
   (raw/parse.ts: "each `CMT*` block is parsed independently")                            *)
RawHeaderIsTheFiles ==
  LET canon == IF file.head.brand = "crx"
               THEN CanonBoxes([RawFile EXCEPT !.boxes = SubSeq(@, 1, extent)]) ELSE {}
      oneThrows == \E c \in canon : Gives(c, {"range", "throws"})
      someTags == \E c \in canon : Gives(c, {"tags"})
  IN Done /\ file.format = "raw" =>
       /\ result.outcome = "ok" =>
            /\ ~oneThrows
            /\ someTags => \E c \in canon : result.headers = TagsOfBlocks(c)
            /\ ~someTags => result.headers = file.head.exif.tags
       /\ result.outcome \in {"TRUNCATED_HEADER", "UNRECOGNIZED_RAW"} =>
            oneThrows \/ (~someTags /\ Throws(file.head.exif))

(* Nothing is read past the header: a FITS file up to the block of its END card, a XISF file
   up to its declared length, and a file with no END within the bound up to that bound.
   (fits/parse.ts: "it never reads into the data region")                                  *)
ReadsStayInTheHeader ==
  /\ file.format = "fits" =>
       /\ extent <= MaxHeaderBlocks * CardsPerBlock
       /\ EndCards(file.units) # {} => extent < HeaderEnd(file.units) + CardsPerBlock
  /\ file.format = "xisf" => extent <= file.head.declared

(* The type of a frame has its evidence: a header type comes from an IMAGETYP, a path type
   from the deepest segment that has one, and "unknown" means neither says anything.
   (classification/classify.ts: "following DD-004's classification order")                 *)
FrameTypeHasEvidence ==
  Done /\ result.outcome = "ok" =>
    LET class == Frame.class
        says(i) == SegmentType(file.path[i])
    IN /\ class.source = "header" =>
            /\ "IMAGETYP" \in DOMAIN result.headers
            /\ class.frameType = MatchImageType(result.headers["IMAGETYP"])
       /\ class.frameType = Unknown => \A i \in 1..Len(file.path) : says(i) = Unknown
       /\ class.source = "path_heuristic" /\ class.frameType # Unknown =>
            \E i \in 1..Len(file.path) :
              /\ says(i) = class.frameType
              /\ \A k \in (i + 1)..Len(file.path) : says(k) = Unknown

(* A capture profile fills a gap and never replaces what the header says, in any order of the
   two keywords.  (profiles/sgpro.ts: "never clobber a legitimately-mapped OBJCTROT")       *)
ProfileFillsGaps ==
  Done /\ result.outcome = "ok" =>
    LET angle(k) == FitsNum(result.headers, k)
        rotator == Frame.metadata["rotatorAngleDegrees"]
    IN /\ file.format = "fits" /\ angle("OBJCTROT") # Null =>
            rotator = angle("OBJCTROT")
       /\ DetectProfile(result.headers) # "sgpro" =>
            rotator # angle("ANGLE") \/ angle("ANGLE") \in {Null, angle("OBJCTROT")}

(* Every file that is opened gets its outcome and is closed, whatever fails and however the
   file grows meanwhile: a header without END is given up at the bound, a block cut off is
   not waited for.  (fits/parse.ts: "bounded by MAX_HEADER_BLOCKS, so it never hangs")      *)
EveryReadEnds == at # "idle" ~> (at = "done" /\ ~handle)
=============================================================================
