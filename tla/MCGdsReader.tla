----------------------------- MODULE MCGdsReader -----------------------------
(* GdsReader over every short stream of a few records, and over documents in    *)
(* the form gds.rs gives (gds.rs:21-26).                                        *)
EXTENDS GdsReader

A == PlainName("a", 0)
B == PlainName("b", 0)

Header == Marker("HEADER")

\* Every sequence of at most max of the records, after a header.
CONSTANTS MaxRecords, MaxPayloadRecords, MaxElements
Short(records, max) == {<<Header>> \o s : s \in BoundedSeq(records, max)}

Ends(sequences, tails) == [records : sequences, tail : tails]

StructureRecords ==
  { Marker("BGNSTR"), Record("STRNAME", <<A>>), Record("STRNAME", <<B>>),
    Marker("BOUNDARY"), Marker("SREF"), Marker("ENDEL") }
StructureStreams == Ends(Short(StructureRecords, MaxRecords), {"none"})

PayloadRecords ==
  { Marker("BGNLIB"), Record("LIBNAME", <<A>>), Record("STRNAME", <<A>>), Marker("BOUNDARY"), Marker("PATH"),
    Marker("ENDEL"), Marker("ENDLIB"), Marker("ENDSTR"),
    Record("UNITS", <<1, 1>>), Record("UNITS", <<1>>),
    Record("LAYER", <<>>), Record("LAYER", <<1>>),
    [Record("XY", <<>>) EXCEPT !.fit = FALSE], Record("XY", <<1>>) }
PayloadStreams ==
  Ends(Short(PayloadRecords, MaxPayloadRecords), Tails) \cup Ends({<<>>, <<Marker("ENDLIB")>>}, Tails)

\* Documents of two structures, each of at most MaxElements elements; an array
\* reference holds the name of its target, as a reference does.
Elements(kinds) ==
  { IF kind \in {"SREF", "AREF"}
    THEN << Marker(kind), Record("STRNAME", <<B>>), Record("XY", <<1>>), Marker("ENDEL") >>
    ELSE << Marker(kind), Record("XY", <<1>>), Marker("ENDEL") >> : kind \in kinds }
Structures(kinds) ==
  { << Marker("BGNSTR"), Record("STRNAME", <<n>>) >> \o FlattenSeq(els) \o << Marker("ENDSTR") >> :
      n \in {A, B}, els \in BoundedSeq(Elements(kinds), MaxElements) }
Documents(kinds) ==
  Ends({ <<Header, Marker("BGNLIB")>> \o s \o t \o <<Marker("ENDLIB")>> :
           s \in Structures(kinds), t \in Structures(kinds) }, {"none"})

MCStreams      == StructureStreams \cup PayloadStreams
ArrayDocuments == Documents({"BOUNDARY", "AREF"})
=============================================================================
