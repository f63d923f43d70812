------------------------------ MODULE GdsLibrary ------------------------------
(***************************************************************************)
(* The layout library and its GDSII writer (crates/api/src/io/gds.rs).     *)
(*                                                                         *)
(* A record of a stream keeps its type, whether the length of its payload  *)
(* fits its data type (`fit`), and the values that the payload holds.  A   *)
(* name keeps its text (stem and number), whether a NUL and more text      *)
(* follow it (`ending`), and, when it is not ASCII, how often its bytes    *)
(* were decoded one by one.                                                *)
(***************************************************************************)
EXTENDS Integers, Sequences, SequencesExt

CONSTANTS Stems,    \* texts of names
          Values    \* layers, datatypes, units and outlines, each an integer

ASSUME ValuesAssumption == Values \subseteq Int /\ 0 \in Values

Orphan == "ORPHAN"
Empty  == "EMPTY"

Name == [ stem : Stems \cup {Orphan, Empty}, number : Nat,
          ending : {"plain", "nul", "wide"}, decoded : Nat ]

PlainName(stem, n) == [stem |-> stem, number |-> n, ending |-> "plain", decoded |-> 0]

\* `$ORPHAN_n`, and the empty name.
OrphanName(n) == PlainName(Orphan, n)
NoName        == PlainName(Empty, 0)

\* write_ascii, then parse_ascii: the text ends at its first NUL, and each byte
\* of a character that is not ASCII comes back as a character of its own.
ReadBack(name) ==
  CASE name.ending = "plain" -> name
    [] name.ending = "nul"   -> [name EXCEPT !.ending = "plain"]
    [] name.ending = "wide"  -> [name EXCEPT !.decoded = @ + 1]

----------------------------------------------------------------------------

Boundary(layer, datatype, xy) ==
  [kind |-> "BOUNDARY", layer |-> layer, datatype |-> datatype, xy |-> xy]

\* Of a path or a reference nothing is kept.
Untold(kind) == [kind |-> kind, layer |-> 0, datatype |-> 0, xy |-> <<>>]

Element == [ kind : {"BOUNDARY", "PATH", "SREF"}, layer : Values,
             datatype : Values, xy : Seq(Values) ]
Cell    == [name : Name, elements : Seq(Element)]

\* cells in order of insertion, and the place of each name among them.
IsLibrary(lib) ==
  /\ lib \in [ libName : Name, units : Seq(Values), cells : Seq(Cell),
               index : {lib.index} ]
  /\ DOMAIN lib.index \subseteq Name
  /\ lib.index \in [DOMAIN lib.index -> DOMAIN lib.cells]

\* cell_index and cells say the same: each indexed name is that of the cell at
\* its place, and no other cell has it.
IndexAgrees(lib) ==
  /\ DOMAIN lib.index = {lib.cells[k].name : k \in DOMAIN lib.cells}
  /\ \A k \in DOMAIN lib.cells : lib.index[lib.cells[k].name] = k

DefaultUnits    == <<0, 0>>
NewLibrary(name) ==
  [ libName |-> name, units |-> DefaultUnits, cells |-> <<>>,
    index |-> [n \in {} |-> 1] ]

\* Mutant: the cell is appended whether or not the name is taken.
AddCellAlways(lib, name) ==
  [ lib EXCEPT !.cells = Append(@, [name |-> name, elements |-> <<>>]),
               !.index = [n \in DOMAIN @ \cup {name} |->
                            IF n = name THEN Len(lib.cells) + 1 ELSE @[n]] ]

AddCell(lib, name) ==
  IF name \in DOMAIN lib.index THEN lib
  ELSE [ lib EXCEPT
           !.cells = Append(@, [name |-> name, elements |-> <<>>]),
           !.index = [n \in DOMAIN @ \cup {name} |->
                        IF n = name THEN Len(lib.cells) + 1 ELSE @[n]] ]

AddElement(lib, idx, el) ==
  [lib EXCEPT !.cells[idx].elements = Append(@, el)]

\* A rectangle on datatype 0 in the named cell, which is created if absent.
AddRect(lib, name, layer, outline) ==
  LET with == AddCell(lib, name)
      idx  == IF name \in DOMAIN lib.index THEN lib.index[name] ELSE Len(with.cells)
  IN  AddElement(with, idx, Boundary(layer, 0, <<outline>>))

CellCount(lib)    == Len(lib.cells)
ElementCount(lib) ==
  SumFunction([k \in DOMAIN lib.cells |-> Len(lib.cells[k].elements)])

----------------------------------------------------------------------------
(* write *)

Record(rt, data) == [rt |-> rt, fit |-> TRUE, data |-> data]
Marker(rt)        == Record(rt, <<>>)

\* A text is recorded as it will be read.
Text(rt, name)   == Record(rt, <<ReadBack(name)>>)

\* Mutant: layer and datatype are swapped.
WriteElementSwapped(el) ==
  << Marker(el.kind), Record("LAYER", <<el.datatype>>),
     Record("DATATYPE", <<el.layer>>), Record("XY", el.xy), Marker("ENDEL") >>

WriteElement(el) ==
  IF el.kind = "SREF"
  THEN << Marker("SREF"), Text("STRNAME", NoName), Record("XY", <<0>>),
          Marker("ENDEL") >>
  ELSE << Marker(el.kind), Record("LAYER", <<el.layer>>),
          Record("DATATYPE", <<el.datatype>>),
          Record("XY", IF el.kind = "PATH" THEN <<0>> ELSE el.xy),
          Marker("ENDEL") >>

WriteCell(cell) ==
  << Marker("BGNSTR"), Text("STRNAME", cell.name) >>
    \o FlattenSeq([k \in DOMAIN cell.elements |-> WriteElement(cell.elements[k])])
    \o << Marker("ENDSTR") >>

Write(lib) ==
  << Marker("HEADER"), Marker("BGNLIB"), Text("LIBNAME", lib.libName),
     Record("UNITS", lib.units) >>
    \o FlattenSeq([k \in DOMAIN lib.cells |-> WriteCell(lib.cells[k])])
    \o << Marker("ENDLIB") >>
=============================================================================
