----------------------------- MODULE MCParseFile -----------------------------
(* ParseFile for TLC: cards, items and boxes that reach every rule of the   *)
(* three parsers, a few keywords that frames differ by, and three paths.    *)
EXTENDS ParseFile

NoField == [form |-> "blank", text |-> <<>>]
Card(key, form, text) ==
  [key |-> key, indicator |-> TRUE, fault |-> "none", field |-> [form |-> form, text |-> text]]
Bare(key, form, text) == [Card(key, form, text) EXCEPT !.indicator = FALSE]
Faulty(fault) == [Card("GAIN", "number", <<"1">>) EXCEPT !.fault = fault]

Simple == Card("SIMPLE", "logical", <<"T">>)
Sgpro == Card("CREATOR", "string", <<"Sequence Generator Pro">>)
Angle == Card("ANGLE", "number", <<"2">>)

Cards == {Simple, Angle, Card("OBJCTROT", "number", <<"1">>),
          Card("IMAGETYP", "string", <<"dark", "&">>), Card("IMAGETYP", "number", <<"1">>),
          Bare("CONTINUE", "string", <<"flat", " ">>), Bare("CONTINUE", "string", <<"&">>),
          Bare("CONTINUE", "blank", <<>>), Card("CONTINUE", "string", <<"dark">>),
          Bare("HIERARCH", "blank", <<>>), Card("COMMENT", "string", <<"&">>),
          Card("FILTER", "open", <<>>), Bare("END", "blank", <<>>),
          Faulty("bytes"), Faulty("charset")}

Item(kind, name, key, value) == [kind |-> kind, name |-> name, key |-> key, value |-> value]
Element(kind, name) == Item(kind, name, NoAttribute, NoAttribute)

Items == {Element("open", "Image"), Element("close", "Image"), Element("open", "Metadata"),
          Element("close", "Metadata"), Element("skip", ""), Element("cut", ""),
          Element("malformed", "Image"),
          Item("empty", "FITSKeyword", "IMAGETYP", <<"'", "flat", "'">>),
          Item("open", "FITSKeyword", "IMAGETYP", NoAttribute),
          Element("close", "FITSKeyword"),
          Item("empty", "FITSKeyword", NoAttribute, <<"1">>),
          Item("empty", "FITSKeyword", "OBJECT", BadReference),
          Item("empty", "Property", "Instrument:ExposureTime", <<"1">>)}

Exif(out, tags) == [out |-> out, tags |-> tags]
Shot == Exif("tags", [k \in {"33434", "Make"} |-> IF k = "Make" THEN TextOf(<<"Canon">>) ELSE NumberOf(<<"1">>)])
Dated == Exif("tags", [k \in {"Model", "DateTimeOriginal"} |->
  IF k = "Model" THEN TextOf(<<"Canon", "EOS">>) ELSE TextOf(<<"date", "1">>)])
Blocks == {Shot, Dated, Exif("none", <<>>), Exif("range", <<>>), Exif("throws", <<>>)}

Box(type, whole, boxes, exif) == [type |-> type, whole |-> whole, boxes |-> boxes, exif |-> exif]
Plain(type) == Box(type, TRUE, <<>>, Exif("none", <<>>))
Canon(blocks) ==
  Box("canon", TRUE, [i \in 1..Len(blocks) |-> Box("CMT", TRUE, <<>>, blocks[i])], Exif("none", <<>>))
Moov(boxes) == Box("moov", TRUE, boxes, Exif("none", <<>>))
Boxes ==
  {Plain("mdat"), [Plain("mdat") EXCEPT !.whole = FALSE], Moov(<<Plain("uuid")>>)}
  \cup {Moov(<<Plain("uuid"), Canon(<<b>>)>>) : b \in Blocks}
  \cup {Moov(<<Canon(<<b, c>>)>>) : b \in {Shot, Dated, Exif("none", <<>>)}, c \in Blocks}

MCUnits(format) ==
  CASE format = "fits" -> Cards [] format = "xisf" -> Items [] format = "raw" -> Boxes [] OTHER -> {}

Path1 == <<<<"dark">>, <<"M31", "_", "flat">>>>
Path2 == <<<<"flat">>, <<"dark", "_", "flat", ".", "fits">>, <<"starlight">>>>
Path3 == <<<<"M31">>>>

NoHead == [bytes |-> 0, signature |-> FALSE, declared |-> 0]
Head16(declared) == [bytes |-> 16, signature |-> TRUE, declared |-> declared]
File(format, path, head, units, room) ==
  [format |-> format, path |-> path, head |-> head, units |-> units, room |-> room]

MCFiles ==
  {File("fits", Path1, NoHead, <<>>, 2), File("fits", Path2, NoHead, <<Simple>>, 3),
   File("fits", Path3, NoHead, <<Simple, Sgpro, Angle>>, 3), File("other", Path3, NoHead, <<>>, 0)}
  \cup {File("xisf", Path2, Head16(4), <<Element("open", "Image")>>, 3),
         File("xisf", Path1, Head16(2), <<>>, 3), File("xisf", Path3, Head16(MaxXml + 1), <<>>, 1)}
  \cup {File("xisf", Path1, [bytes |-> b, signature |-> s, declared |-> 2], <<>>, 1) :
          b \in {0, 4, 12, 16}, s \in BOOLEAN}
  \cup {File("raw", Path1, [brand |-> "crx", exif |-> Dated], <<>>, 2)}
  \cup {File("raw", Path1, [brand |-> "crx", exif |-> e], <<Plain("mdat")>>, 1) :
          e \in {Exif("none", <<>>), Exif("throws", <<>>)}}
  \cup {File("raw", Path3, [brand |-> "other", exif |-> e], <<>>, 1) : e \in Blocks}

MCNumerals == {<<"1">>, <<"2">>}
MCTriplets == {<<"10", "20", "30">>}
=============================================================================
