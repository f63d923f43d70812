---------------------------- MODULE MCGdsRoundTrip ----------------------------
(* GdsRoundTrip over plain and other names, and every short foreign stream.     *)
EXTENDS GdsRoundTrip

A == PlainName("a", 0)
B == PlainName("b", 0)

MCNames == {A, [A EXCEPT !.ending = "nul"], [B EXCEPT !.ending = "wide"]}
LibName == {A}

ForeignRecords ==
  { Record("STRNAME", <<A>>), Marker("PATH"), Marker("SREF"), Marker("BOUNDARY"),
    Marker("ENDEL"), Record("LAYER", <<1>>), Record("UNITS", <<1, 1>>),
    Marker("ENDSTR") }
ForeignStreams ==
  [records : {<<Marker("HEADER")>> \o s : s \in BoundedSeq(ForeignRecords, 3)},
   tail : {"none"}]
=============================================================================
