------------------------------ MODULE FrameData ------------------------------
(***************************************************************************)
(* From the keywords of a header to a frame: the shared metadata, the      *)
(* profile of the program that captured it, and its type.  A value is a    *)
(* record of `type` ("string", "number", "boolean" or "null") and `text`,  *)
(* a sequence of words; keywords are a function from names to values.      *)
(***************************************************************************)
EXTENDS Integers, Sequences, SequencesExt, FiniteSetsExt

CONSTANTS
  Numerals,                \* the texts Number() makes a finite number of
  Triplets                 \* the texts parseSexagesimal accepts

Null == [type |-> "null", text |-> <<>>]
TextOf(text) == [type |-> "string", text |-> text]
NumberOf(text) == [type |-> "number", text |-> text]

\* a ?? b
Or(a, b) == IF a = Null THEN b ELSE a

-----------------------------------------------------------------------------
(* The fields and the keywords they come from; exposureSeconds, raDegrees  *)
(* and decDegrees have rules of their own.                                  *)

TextFields ==
  [object |-> "OBJECT", imageType |-> "IMAGETYP", filter |-> "FILTER", dateObs |-> "DATE-OBS",
   telescope |-> "TELESCOP", instrument |-> "INSTRUME", observer |-> "OBSERVER",
   siteName |-> "SITENAME", pierSide |-> "PIERSIDE", bayerPattern |-> "BAYERPAT",
   rowOrder |-> "ROWORDER"]

NumberFields ==
  [ccdTempCelsius |-> "CCD-TEMP", gain |-> "GAIN", offset |-> "OFFSET", binningX |-> "XBINNING",
   binningY |-> "YBINNING", widthPixels |-> "NAXIS1", heightPixels |-> "NAXIS2",
   airmass |-> "AIRMASS", focalLengthMm |-> "FOCALLEN", apertureDiameterMm |-> "APTDIA",
   rotatorAngleDegrees |-> "OBJCTROT", setTempCelsius |-> "SET-TEMP",
   sensorReadoutHz |-> "SENSORHZ", electronsPerAdu |-> "EGAIN"]

Fields == DOMAIN TextFields \cup DOMAIN NumberFields
            \cup {"exposureSeconds", "raDegrees", "decDegrees"}

-----------------------------------------------------------------------------
(* FITS: typed values, taken when they have the type of the field.          *)

Typed(k, key, type) == IF key \in DOMAIN k /\ k[key].type = type THEN k[key] ELSE Null
FitsStr(k, key) == Typed(k, key, "string")
FitsNum(k, key) == Typed(k, key, "number")

\* parseSexagesimal, hours when the unit is 15 degrees
Sexagesimal(value, unit) ==
  IF value.text \in Triplets THEN NumberOf(<<"deg", unit>> \o value.text) ELSE Null

FitsMetadata(k) ==
  [f \in Fields |->
     CASE f \in DOMAIN TextFields -> FitsStr(k, TextFields[f])
       [] f \in DOMAIN NumberFields -> FitsNum(k, NumberFields[f])
       [] f = "exposureSeconds" -> Or(FitsNum(k, "EXPTIME"), FitsNum(k, "EXPOSURE"))
       [] f = "raDegrees" -> Or(FitsNum(k, "RA"), Sexagesimal(FitsStr(k, "OBJCTRA"), "15"))
       [] f = "decDegrees" -> Or(FitsNum(k, "DEC"), Sexagesimal(FitsStr(k, "OBJCTDEC"), "1"))]

-----------------------------------------------------------------------------
(* XISF: every value is a text, and some fields fall back on a property.    *)
(* Number("") is 0.                                                         *)

ToNumber(text) ==
  IF text = <<>> THEN NumberOf(<<"0">>) ELSE IF text \in Numerals THEN NumberOf(text) ELSE Null

XisfStr(k, key) == IF key \in DOMAIN k THEN TextOf(k[key]) ELSE Null
XisfNum(k, key) == IF key \in DOMAIN k THEN ToNumber(k[key]) ELSE Null

PropertyOf ==
  [object |-> "Observation:Object:Name", filter |-> "Instrument:Filter:Name",
   telescope |-> "Instrument:Telescope:Name", exposureSeconds |-> "Instrument:ExposureTime",
   ccdTempCelsius |-> "Instrument:Sensor:Temperature", dateObs |-> "Observation:Time:Start"]

StrProperty(p, f) == IF f \in DOMAIN PropertyOf THEN XisfStr(p, PropertyOf[f]) ELSE Null
NumProperty(p, f) == IF f \in DOMAIN PropertyOf THEN XisfNum(p, PropertyOf[f]) ELSE Null

XisfMetadata(k, p) ==
  [f \in Fields |->
     CASE f \in DOMAIN TextFields -> Or(XisfStr(k, TextFields[f]), StrProperty(p, f))
       [] f \in DOMAIN NumberFields -> Or(XisfNum(k, NumberFields[f]), NumProperty(p, f))
       [] f = "exposureSeconds" ->
            Or(Or(XisfNum(k, "EXPTIME"), NumProperty(p, f)), XisfNum(k, "EXPOSURE"))
       [] f = "raDegrees" -> Or(XisfNum(k, "RA"), Sexagesimal(XisfStr(k, "OBJCTRA"), "15"))
       [] f = "decDegrees" -> Or(XisfNum(k, "DEC"), Sexagesimal(XisfStr(k, "OBJCTDEC"), "1"))]

-----------------------------------------------------------------------------
(* RAW: four fields.  A date is read with its offset, in the camera's time  *)
(* or in UTC; an instrument is the make before the model that lacks it.     *)

NormalizeDateObs(date, shift) ==
  IF date = Null \/ Head(date.text) # "date" THEN Null
  ELSE IF shift = Null \/ Head(shift.text) # "shift" THEN TextOf(<<"local">> \o Tail(date.text))
  ELSE TextOf(<<"utc">> \o Tail(date.text) \o <<"minus">> \o Tail(shift.text))

CameraInstrument(make, model) ==
  IF make = Null THEN model
  ELSE IF model = Null THEN make
  ELSE IF make.text # <<>> /\ Contains(model.text, Head(make.text)) THEN model
  ELSE TextOf(make.text \o model.text)

RawMetadata(k) ==
  [f \in Fields |->
     CASE f = "exposureSeconds" -> k.ExposureTime
       [] f = "gain" -> k.ISO
       [] f = "dateObs" -> NormalizeDateObs(k.DateTimeOriginal, k.OffsetTimeOriginal)
       [] f = "instrument" -> CameraInstrument(k.Make, k.Model)
       [] OTHER -> Null]

-----------------------------------------------------------------------------
(* Capture profiles: the first of the registry whose mark is in its         *)
(* keyword; every fixup sees the metadata as parsed, the last one wins.     *)

Registry == <<
  [id |-> "nina", key |-> "SWCREATE", mark |-> "N.I.N.A."],
  [id |-> "sgpro", key |-> "CREATOR", mark |-> "Sequence Generator Pro"],
  [id |-> "apt", key |-> "SWCREATE", mark |-> "Astro Photography Tool"],
  [id |-> "sharpcap", key |-> "SWCREATE", mark |-> "SharpCap"],
  [id |-> "asiair-asistudio", key |-> "CREATOR", mark |-> "ZWO ASI"],
  [id |-> "voyager", key |-> "SWCREATE", mark |-> "Voyager"]>>

\* SGPro's mark may stand anywhere, the others begin the value.
Detects(profile, headers) ==
  LET value == FitsStr(headers, profile.key).text
  IN IF profile.id = "sgpro" THEN Contains(value, profile.mark)
     ELSE value # <<>> /\ Head(value) = profile.mark

DetectProfile(headers) ==
  LET matching == SelectSeq(Registry, LAMBDA p : Detects(p, headers))
  IN IF matching = <<>> THEN "none" ELSE Head(matching).id

\* SGPro writes the rotator angle as ANGLE.
AngleFixup(metadata, headers) ==
  IF metadata["rotatorAngleDegrees"] # Null THEN metadata
  ELSE [metadata EXCEPT !["rotatorAngleDegrees"] = FitsNum(headers, "ANGLE")]

\* Mutant: ANGLE replaces what the header says.
ProfileReplaces(metadata, headers) ==
  IF DetectProfile(headers) = "sgpro"
  THEN [metadata EXCEPT !["rotatorAngleDegrees"] = FitsNum(headers, "ANGLE")]
  ELSE metadata

\* The only profile that corrects anything is SGPro's.
ApplyCaptureProfile(metadata, headers) ==
  IF DetectProfile(headers) = "sgpro" THEN AngleFixup(metadata, headers) ELSE metadata

-----------------------------------------------------------------------------
(* Classification: the header's type if it is known, else the path's.       *)

Separators == {"_", "-", " "}

\* normalizeImageType: a pair of quotes goes, then what separates the words
NormalizeImageType(text) ==
  LET trimmed == SelectSeq(text, LAMBDA w : w # " ")
      quoted == Len(trimmed) >= 2 /\ Head(trimmed) = "'" /\ Last(trimmed) = "'"
  IN SelectSeq(IF quoted THEN Tail(Front(trimmed)) ELSE trimmed, LAMBDA w : w \notin Separators)

ImageTypes ==
  [light |-> {<<"light">>, <<"light", "frame">>, <<"lightframe">>},
   dark |-> {<<"dark">>, <<"dark", "frame">>, <<"darkframe">>, <<"masterdark">>, <<"master", "dark">>},
   flat |-> {<<"flat">>, <<"flat", "field">>, <<"flatfield">>, <<"masterflat">>, <<"master", "flat">>},
   bias |-> {<<"bias">>, <<"bias", "frame">>, <<"biasframe">>, <<"masterbias">>, <<"master", "bias">>},
   darkflat |-> {<<"darkflat">>, <<"dark", "flat">>, <<"masterdarkflat">>, <<"master", "dark", "flat">>}]

Unknown == "unknown"

MatchImageType(value) ==
  LET types == {t \in DOMAIN ImageTypes : NormalizeImageType(value.text) \in ImageTypes[t]}
  IN IF value = Null \/ types = {} THEN Unknown ELSE CHOOSE t \in types : TRUE

\* A segment is a sequence of words and of the characters between them; a word stands for
\* its plural too.
Boundaries == {"-", "_", "."}
PathRules == <<
  [type |-> "darkflat", words |-> {<<"darkflat">>} \cup {<<"dark", s, "flat">> : s \in Separators}],
  [type |-> "light", words |-> {<<"light">>}],
  [type |-> "dark", words |-> {<<"dark">>}],
  [type |-> "flat", words |-> {<<"flat">>}],
  [type |-> "bias", words |-> {<<"bias">>}]>>

MatchesRule(segment, rule) ==
  \E i \in 1..Len(segment), j \in 1..Len(segment) :
    /\ i <= j /\ SubSeq(segment, i, j) \in rule.words
    /\ i = 1 \/ segment[i - 1] \in Boundaries
    /\ j = Len(segment) \/ segment[j + 1] \in Boundaries

SegmentType(segment) ==
  LET rules == {r \in 1..Len(PathRules) : MatchesRule(segment, PathRules[r])}
  IN IF rules = {} THEN Unknown ELSE PathRules[Min(rules)].type

\* Mutant: the segment nearest to the root decides.
MatchFromRoot(path) ==
  LET telling == {i \in 1..Len(path) : SegmentType(path[i]) # Unknown}
  IN IF telling = {} THEN Unknown ELSE SegmentType(path[Min(telling)])

\* The deepest segment that says something decides.
MatchPath(path) ==
  LET telling == {i \in 1..Len(path) : SegmentType(path[i]) # Unknown}
  IN IF telling = {} THEN Unknown ELSE SegmentType(path[Max(telling)])

ClassifyFrame(metadata, path) ==
  LET header == MatchImageType(metadata["imageType"])
  IN IF header # Unknown THEN [frameType |-> header, source |-> "header"]
     ELSE [frameType |-> MatchPath(path), source |-> "path_heuristic"]
=============================================================================
