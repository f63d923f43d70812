--------------------------- MODULE GdsReaderProofs ---------------------------
(***************************************************************************)
(* The GDSII reader on streams of any length over any names and values:    *)
(* its types, the agreement of cells and index, and the cause of each      *)
(* outcome.  The inductive invariant is the type invariant together with   *)
(* the agreement: without it the place that STRNAME looks up, and the last *)
(* place that an orphan goes to, are not known to exist.                   *)
(***************************************************************************)
EXTENDS GdsReader, LibraryLemmas

IInv == TypeOK /\ IndexMatchesCells

----------------------------------------------------------------------------
(* The library's operations *)

\* After add_cell the name has a cell, new or old, and the others are as before.
LEMMA AddCellProperties ==
  ASSUME NEW l, IsLibrary(l), IndexAgrees(l), NEW name \in Name
  PROVE  /\ IsLibrary(AddCell(l, name))
         /\ IndexAgrees(AddCell(l, name))
         /\ name \in DOMAIN AddCell(l, name).index
         /\ Len(AddCell(l, name).cells) >= Len(l.cells)
<1> DEFINE cell == [name |-> name, elements |-> <<>>]
           with == AddCell(l, name)
<1>1. CASE name \in DOMAIN l.index
  BY <1>1 DEF AddCell, IsLibrary
<1>2. CASE name \notin DOMAIN l.index
  <2>1. /\ l.cells \in Seq(Cell) /\ Len(l.cells) \in Nat
        /\ DOMAIN l.index \subseteq Name
        /\ l.index \in [DOMAIN l.index -> DOMAIN l.cells]
        /\ l \in [ libName : Name, units : Seq(Values), cells : Seq(Cell),
                   index : {l.index} ]
    BY DEF IsLibrary
  <2>2. cell \in Cell /\ cell.name = name
    BY DEF Cell
  <2>3. /\ with.cells = Append(l.cells, cell)
        /\ with.index = [n \in DOMAIN l.index \cup {name} |->
                           IF n = name THEN Len(l.cells) + 1 ELSE l.index[n]]
        /\ with \in [ libName : Name, units : Seq(Values), cells : {with.cells},
                      index : {with.index} ]
    BY <1>2, <2>1 DEF AddCell
  <2> HIDE DEF cell, with
  <2>4. /\ with.cells \in Seq(Cell) /\ Len(with.cells) = Len(l.cells) + 1
        /\ DOMAIN with.cells = DOMAIN l.cells \cup {Len(l.cells) + 1}
        /\ Len(l.cells) + 1 \notin DOMAIN l.cells
        /\ \A k \in DOMAIN l.cells : with.cells[k] = l.cells[k]
        /\ with.cells[Len(l.cells) + 1] = cell
    BY <2>1, <2>2, <2>3
  <2>5. with.index \in [DOMAIN with.index -> DOMAIN with.cells]
    BY <2>1, <2>3, <2>4
  <2>6. DOMAIN with.index = DOMAIN l.index \cup {name}
    BY <2>3
  <2>7. IsLibrary(with)
    <3>1. with \in [ libName : Name, units : Seq(Values), cells : Seq(Cell),
                     index : {with.index} ]
      BY <2>3, <2>4
    <3>. QED
      BY <2>1, <2>5, <2>6, <3>1 DEF IsLibrary
  <2>8. \A k \in DOMAIN l.cells : /\ l.cells[k].name \in DOMAIN l.index
                                  /\ l.cells[k].name # name
                                  /\ l.index[l.cells[k].name] = k
    BY <1>2 DEF IndexAgrees
  <2>9. \A k \in DOMAIN with.cells : with.index[with.cells[k].name] = k
    <3>1. TAKE k \in DOMAIN with.cells
    <3>2. CASE k \in DOMAIN l.cells
      BY <2>3, <2>4, <2>8, <3>2
    <3>3. CASE k = Len(l.cells) + 1
      BY <2>2, <2>3, <2>4, <3>3
    <3>. QED
      BY <2>4, <3>2, <3>3
  <2>10. DOMAIN with.index = {with.cells[k].name : k \in DOMAIN with.cells}
    <3>1. DOMAIN l.index = {l.cells[k].name : k \in DOMAIN l.cells}
      BY DEF IndexAgrees
    <3>. QED
      BY <2>2, <2>4, <2>6, <3>1
  <2>11. IndexAgrees(with)
    BY <2>9, <2>10 DEF IndexAgrees
  <2>. QED
    BY <2>1, <2>4, <2>6, <2>7, <2>11 DEF with
<1>. QED
  BY <1>1, <1>2

\* A name that the index knows has a place among the cells.
LEMMA IndexedCell ==
  ASSUME NEW l, IsLibrary(l), NEW name \in DOMAIN l.index
  PROVE  /\ l.index[name] \in 1 .. Len(l.cells)
         /\ Len(l.cells) \in Nat \ {0}
<1>1. l.cells \in Seq(Cell) /\ l.index[name] \in DOMAIN l.cells
  BY DEF IsLibrary
<1>. QED
  BY <1>1

\* A cell with one element more is a cell of the same name.
LEMMA CellProperties ==
  ASSUME NEW c \in Cell, NEW el \in Element
  PROVE  /\ [c EXCEPT !.elements = Append(@, el)] \in Cell
         /\ [c EXCEPT !.elements = Append(@, el)].name = c.name
<1>1. Append(c.elements, el) \in Seq(Element)
  BY DEF Cell
<1>. QED
  BY <1>1 DEF Cell

\* An element joins its cell; every cell keeps its name and place.
LEMMA AddElementProperties ==
  ASSUME NEW l, IsLibrary(l), IndexAgrees(l),
         NEW idx \in 1 .. Len(l.cells), NEW el \in Element
  PROVE  /\ IsLibrary(AddElement(l, idx, el))
         /\ IndexAgrees(AddElement(l, idx, el))
         /\ Len(AddElement(l, idx, el).cells) = Len(l.cells)
<1> DEFINE with == AddElement(l, idx, el)
<1>1. /\ l.cells \in Seq(Cell) /\ idx \in DOMAIN l.cells
      /\ l \in [ libName : Name, units : Seq(Values), cells : Seq(Cell),
                 index : {l.index} ]
  BY DEF IsLibrary
<1>2. l.cells[idx] \in Cell
  BY <1>1
<1>4. /\ [l.cells[idx] EXCEPT !.elements = Append(@, el)] \in Cell
      /\ [l.cells[idx] EXCEPT !.elements = Append(@, el)].name = l.cells[idx].name
  BY <1>2, CellProperties
<1>5. /\ with.cells = [l.cells EXCEPT ![idx] =
                         [l.cells[idx] EXCEPT !.elements = Append(@, el)]]
      /\ with.index = l.index
      /\ with \in [ libName : Name, units : Seq(Values), cells : {with.cells},
                    index : {l.index} ]
  BY <1>1 DEF AddElement
<1> HIDE DEF with
<1>6. /\ with.cells \in Seq(Cell) /\ Len(with.cells) = Len(l.cells)
      /\ DOMAIN with.cells = DOMAIN l.cells
  BY <1>1, <1>4, <1>5
<1>7. \A k \in DOMAIN l.cells : with.cells[k].name = l.cells[k].name
  BY <1>1, <1>4, <1>5
<1>8. IsLibrary(with)
  BY <1>5, <1>6 DEF IsLibrary
<1>9. IndexAgrees(with)
  <2>1. DOMAIN l.index = {l.cells[k].name : k \in DOMAIN l.cells}
    BY DEF IndexAgrees
  <2>2. \A k \in DOMAIN l.cells : l.index[l.cells[k].name] = k
    BY DEF IndexAgrees
  <2>3. DOMAIN with.index = {with.cells[k].name : k \in DOMAIN with.cells}
    BY <1>5, <1>6, <1>7, <2>1
  <2>4. \A k \in DOMAIN with.cells : with.index[with.cells[k].name] = k
    BY <1>5, <1>6, <1>7, <2>2
  <2>. QED
    BY <2>3, <2>4 DEF IndexAgrees
<1>. QED
  BY <1>6, <1>8, <1>9 DEF with

----------------------------------------------------------------------------
(* The steps *)

\* The record that a pass of the loop takes, and its payload.
LEMMA RecordProperties ==
  ASSUME TypeOK, NEW types, Take(types)
  PROVE  /\ Rec.rt \in RecordTypes /\ Rec.rt \in types
         /\ Rec.fit \in BOOLEAN
         /\ Rec.rt \in Naming => Rec.data \in Seq(Name) /\ Len(Rec.data) = 1
         /\ Rec.rt \notin Naming => Rec.data \in Seq(Values)
         /\ Rec.rt \in Naming => Rec.data[1] \in Name
         /\ pos \in Nat \ {0} /\ pos <= Len(stream.records)
         /\ pos' = pos + 1
         /\ stream' = stream /\ status = "reading"
<1>1. /\ stream \in Streams /\ pos \in 1 .. Len(stream.records) + 1
  BY DEF TypeOK
<1>2. stream.records \in Seq(ToSet(stream.records))
  BY <1>1, StreamsAssumption
<1>3. pos \in DOMAIN stream.records /\ Len(stream.records) \in Nat
  BY <1>1, <1>2 DEF Take, AtEnd
<1>4. IsRecord(Rec)
  BY <1>1, <1>3, StreamsAssumption DEF Rec
<1>5. /\ Rec.rt \in RecordTypes /\ Rec.fit \in BOOLEAN
      /\ Rec.rt \in Naming => Rec.data \in Seq(Name) /\ Len(Rec.data) = 1
      /\ Rec.rt \notin Naming => Rec.data \in Seq(Values)
  BY <1>4 DEF IsRecord
<1>6. Rec.rt \in Naming => Rec.data[1] \in Name
  BY <1>5
<1>. QED
  BY <1>1, <1>3, <1>5, <1>6 DEF Take, AtEnd

\* The empty library and its empty index agree.
LEMMA InitIInv == Init => IInv
<1>. SUFFICES ASSUME Init PROVE IInv
  OBVIOUS
<1>1. stream \in Streams /\ stream.records \in Seq(ToSet(stream.records))
  BY StreamsAssumption DEF Init
<1>2. NoName \in Name /\ DefaultUnits \in Seq(Values)
  BY ValuesAssumption DEF NoName, PlainName, Name, DefaultUnits
<1>3. /\ lib \in [libName : Name, units : Seq(Values), cells : Seq(Cell), index : {lib.index}]
      /\ lib.cells = <<>> /\ DOMAIN lib.index = {}
      /\ lib.index \in [DOMAIN lib.index -> DOMAIN lib.cells]
  BY <1>2 DEF Init, Fresh, NewLibrary
<1>4. IsLibrary(lib)
  BY <1>3 DEF IsLibrary
<1>5. IndexMatchesCells
  BY <1>3 DEF IndexMatchesCells, IndexAgrees
<1>6. TypeOK
  BY <1>1, <1>3, <1>4 DEF Init, Fresh, TypeOK
<1>. QED
  BY <1>5, <1>6 DEF IInv

\* Steps that read a record and leave the library as it is.
LEMMA SameLibrary ==
  ASSUME IInv, NEW types, Take(types), lib' = lib,
         curCell' \in {0, curCell}, pending' \in Element \cup {NoElement},
         status' \in {"reading", "ok", "BadPayload"}
  PROVE  IInv'
<1>1. TypeOK /\ IndexMatchesCells
  BY DEF IInv
<1>2. /\ pos \in Nat \ {0} /\ pos <= Len(stream.records) /\ pos' = pos + 1
      /\ stream' = stream
  BY <1>1, RecordProperties
<1>3. /\ stream \in Streams /\ IsLibrary(lib) /\ curCell \in 0 .. Len(lib.cells)
      /\ Len(lib.cells) \in Nat /\ Len(stream.records) \in Nat
  BY <1>1, StreamsAssumption DEF TypeOK, IsLibrary
<1>4. IsLibrary(lib)' /\ IndexMatchesCells'
  BY <1>1, <1>3 DEF IndexMatchesCells, IndexAgrees, IsLibrary
<1>5. pos' \in 1 .. Len(stream'.records) + 1
  BY <1>2, <1>3
<1>6. curCell' \in 0 .. Len(lib'.cells)
  BY <1>3
<1>. QED
  BY <1>2, <1>3, <1>4, <1>5, <1>6 DEF IInv, TypeOK, NoElement

\* Steps that read a record and leave the library changed.
LEMMA OtherLibrary ==
  ASSUME IInv, NEW types, Take(types), IsLibrary(lib'), IndexAgrees(lib'),
         curCell' \in 0 .. Len(lib'.cells),
         pending' \in Element \cup {NoElement}, status' = status
  PROVE  IInv'
<1>1. TypeOK
  BY DEF IInv
<1>2. /\ pos \in Nat \ {0} /\ pos <= Len(stream.records) /\ pos' = pos + 1
      /\ stream' = stream /\ status = "reading"
  BY <1>1, RecordProperties
<1>3. stream \in Streams /\ Len(stream.records) \in Nat
  BY <1>1, StreamsAssumption DEF TypeOK
<1>4. pos' \in 1 .. Len(stream'.records) + 1
  BY <1>2, <1>3
<1>5. IsLibrary(lib)' /\ IndexMatchesCells'
  BY DEF IndexMatchesCells, IndexAgrees, IsLibrary
<1>. QED
  BY <1>2, <1>3, <1>4, <1>5 DEF IInv, TypeOK, NoElement

\* Whatever element a start record begins, it is one that can be stored.
LEMMA PendingElement ==
  ASSUME NEW kind \in Starts
  PROVE  Untold(kind) \in Element
BY ValuesAssumption DEF Untold, Element, Starts

\* Each record that read takes keeps the types and the agreement.
LEMMA StepIInv == IInv /\ [Next]_vars => IInv'
<1>. SUFFICES ASSUME IInv, [Next]_vars PROVE IInv'
  OBVIOUS
<1>1. /\ TypeOK /\ IndexMatchesCells
      /\ IsLibrary(lib) /\ IndexAgrees(lib)
      /\ pending \in Element \cup {NoElement} /\ curCell \in 0 .. Len(lib.cells)
      /\ lib.cells \in Seq(Cell) /\ Len(lib.cells) \in Nat
  BY DEF IInv, TypeOK, IndexMatchesCells, IsLibrary
<1>2. CASE UNCHANGED vars
  BY <1>1, <1>2 DEF vars, IInv, TypeOK, IndexMatchesCells, IndexAgrees, IsLibrary,
                    NoElement
<1>3. CASE ReadFirst
  <2>1. Len(stream.records) \in Nat
    BY <1>1, StreamsAssumption DEF TypeOK
  <2>. QED
    BY <1>1, <1>3, <2>1 DEF ReadFirst, AtEnd, TailError, IInv, TypeOK,
       IndexMatchesCells, IndexAgrees, IsLibrary, NoElement
<1>4. CASE SkipRecord
  <2>1. Take(Ignored) /\ lib' = lib /\ curCell' = curCell /\ pending' = pending
        /\ status' = "reading"
    BY <1>4 DEF SkipRecord, Take
  <2>. QED
    BY <1>1, <2>1, SameLibrary
<1>5. CASE SetLibName
  <2>1. /\ Take({"LIBNAME"}) /\ lib' = [lib EXCEPT !.libName = Rec.data[1]]
        /\ curCell' = curCell /\ pending' = pending /\ status' = status
    BY <1>5 DEF SetLibName
  <2>2. Rec.data[1] \in Name
    BY <1>1, <2>1, RecordProperties DEF Naming
  <2>3. /\ lib' \in [libName : Name, units : Seq(Values), cells : Seq(Cell), index : {lib.index}]
        /\ lib'.cells = lib.cells /\ lib'.index = lib.index
    BY <1>1, <2>1, <2>2 DEF IsLibrary
  <2>4. IsLibrary(lib') /\ IndexAgrees(lib')
    BY <1>1, <2>3 DEF IsLibrary, IndexAgrees
  <2>. QED
    BY <1>1, <2>1, <2>3, <2>4, OtherLibrary
<1>6. CASE RefusePayload
  <2>1. /\ Take(Numeric) /\ lib' = lib /\ curCell' = curCell /\ pending' = pending
        /\ status' = "BadPayload"
    BY <1>6 DEF RefusePayload
  <2>. QED
    BY <1>1, <2>1, SameLibrary
<1>7. CASE SetUnits
  <2>1. /\ Take({"UNITS"})
        /\ lib' = IF Len(Rec.data) >= 2
                  THEN [lib EXCEPT !.units = SubSeq(Rec.data, 1, 2)] ELSE lib
        /\ curCell' = curCell /\ pending' = pending /\ status' = status
    BY <1>7 DEF SetUnits
  <2>2. Rec.data \in Seq(Values)
    BY <1>1, <2>1, RecordProperties DEF Naming
  <2>3. Len(Rec.data) >= 2 => SubSeq(Rec.data, 1, 2) \in Seq(Values)
    BY <2>2
  <2>4. /\ lib' \in [libName : Name, units : Seq(Values), cells : Seq(Cell), index : {lib.index}]
        /\ lib'.cells = lib.cells /\ lib'.index = lib.index
    BY <1>1, <2>1, <2>3 DEF IsLibrary
  <2>5. IsLibrary(lib') /\ IndexAgrees(lib')
    BY <1>1, <2>4 DEF IsLibrary, IndexAgrees
  <2>. QED
    BY <1>1, <2>1, <2>4, <2>5, OtherLibrary
<1>8. CASE EndStructure
  <2>1. /\ Take({"BGNSTR", "ENDSTR"}) /\ lib' = lib /\ curCell' = 0
        /\ pending' = pending /\ status' = "reading"
    BY <1>8 DEF EndStructure, Take
  <2>. QED
    BY <1>1, <2>1, SameLibrary
<1>9. CASE NameStructure
  <2>1. Take({"STRNAME"}) /\ pending' = pending /\ status' = "reading" /\ status = "reading"
    BY <1>9 DEF NameStructure, Take
  <2>2. CASE pending.kind = "SREF"
    <3>1. lib' = lib /\ curCell' = curCell
      BY <1>9, <2>2 DEF NameStructure
    <3>. QED
      BY <1>1, <2>1, <3>1, SameLibrary
  <2>3. CASE pending.kind # "SREF"
    <3>1. lib' = AddCell(lib, Rec.data[1]) /\ curCell' = lib'.index[Rec.data[1]]
      BY <1>9, <2>3 DEF NameStructure
    <3>2. Rec.data[1] \in Name
      BY <1>1, <2>1, RecordProperties DEF Naming
    <3>3. IsLibrary(lib') /\ IndexAgrees(lib') /\ Rec.data[1] \in DOMAIN lib'.index
      BY <1>1, <3>1, <3>2, AddCellProperties
    <3>4. curCell' \in 1 .. Len(lib'.cells) /\ Len(lib'.cells) \in Nat
      BY <3>1, <3>3, IndexedCell
    <3>5. curCell' \in 0 .. Len(lib'.cells)
      BY <3>4
    <3>. QED
      BY <1>1, <2>1, <3>3, <3>5, OtherLibrary
  <2>. QED
    BY <2>2, <2>3
<1>10. CASE StartElement
  <2>1. /\ Take(Starts) /\ lib' = lib /\ curCell' = curCell
        /\ pending' = Untold(Rec.rt) /\ status' = "reading"
    BY <1>10 DEF StartElement, Take
  <2>2. Rec.rt \in Starts
    BY <1>1, <2>1, RecordProperties
  <2>3. pending' \in Element \cup {NoElement}
    BY <2>1, <2>2, PendingElement
  <2>. QED
    BY <1>1, <2>1, <2>3, SameLibrary
<1>11. CASE DescribeElement
  <2>1. /\ Take({"LAYER", "DATATYPE", "XY"}) /\ lib' = lib /\ curCell' = curCell
        /\ status' = "reading"
    BY <1>11 DEF DescribeElement, Take
  <2>2. Rec.data \in Seq(Values)
    BY <1>1, <2>1, RecordProperties DEF Naming
  <2>3. Rec.data # <<>> => Rec.data[1] \in Values
    BY <2>2
  <2>4. pending' \in Element \cup {NoElement}
    <3>1. CASE pending.kind # "BOUNDARY"
      BY <1>1, <1>11, <3>1 DEF DescribeElement
    <3>2. CASE pending.kind = "BOUNDARY"
      <4>1. pending \in Element
        BY <1>1, <3>2 DEF NoElement, Untold
      <4>2. /\ [pending EXCEPT !.xy = Rec.data] \in Element
            /\ Rec.data # <<>> => /\ [pending EXCEPT !.layer = Rec.data[1]] \in Element
                                  /\ [pending EXCEPT !.datatype = Rec.data[1]] \in Element
        BY <2>2, <2>3, <4>1 DEF Element
      <4>. QED
        BY <1>11, <3>2, <4>1, <4>2 DEF DescribeElement
    <3>. QED
      BY <3>1, <3>2
  <2>. QED
    BY <1>1, <2>1, <2>4, SameLibrary
<1>12. CASE EndElement
  <2>1. /\ Take({"ENDEL"}) /\ pending # NoElement /\ curCell # 0
        /\ lib' = AddElement(lib, curCell, pending) /\ pending' = NoElement
        /\ curCell' = curCell /\ status' = status
    BY <1>12 DEF EndElement
  <2>2. pending \in Element /\ curCell \in 1 .. Len(lib.cells)
    BY <1>1, <2>1
  <2>3. IsLibrary(lib') /\ IndexAgrees(lib') /\ Len(lib'.cells) = Len(lib.cells)
    BY <1>1, <2>1, <2>2, AddElementProperties
  <2>. QED
    BY <1>1, <2>1, <2>3, OtherLibrary
<1>13. CASE EndOrphan
  <2> DEFINE with == AddCell(lib, OrphanName(Len(lib.cells)))
  <2>1. /\ Take({"ENDEL"}) /\ pending # NoElement /\ curCell = 0
        /\ lib' = AddElement(with, Len(with.cells), pending)
        /\ pending' = NoElement /\ curCell' = curCell /\ status' = status
    BY <1>13 DEF EndOrphan
  <2>2. pending \in Element
    BY <1>1, <2>1
  <2>3. OrphanName(Len(lib.cells)) \in Name
    BY <1>1 DEF OrphanName, PlainName, Name
  <2>4. /\ IsLibrary(with) /\ IndexAgrees(with)
        /\ OrphanName(Len(lib.cells)) \in DOMAIN with.index
    BY <1>1, <2>3, AddCellProperties
  <2> HIDE DEF with
  <2>5. Len(with.cells) \in Nat \ {0}
    BY <2>4, IndexedCell
  <2>6. Len(with.cells) \in 1 .. Len(with.cells)
    BY <2>5
  <2>7. IsLibrary(lib') /\ IndexAgrees(lib') /\ Len(lib'.cells) = Len(with.cells)
    BY <2>1, <2>2, <2>4, <2>6, AddElementProperties
  <2>8. curCell' \in 0 .. Len(lib'.cells)
    BY <2>1, <2>5, <2>7
  <2>. QED
    BY <1>1, <2>1, <2>7, <2>8, OtherLibrary
<1>14. CASE EndNothing
  <2>1. /\ Take({"ENDEL"}) /\ lib' = lib /\ curCell' = curCell
        /\ pending' = pending /\ status' = "reading"
    BY <1>14 DEF EndNothing, Take
  <2>. QED
    BY <1>1, <2>1, SameLibrary
<1>15. CASE EndLibrary
  <2>1. /\ Take({"ENDLIB"}) /\ lib' = lib /\ curCell' = curCell
        /\ pending' = pending /\ status' = "ok"
    BY <1>15 DEF EndLibrary
  <2>. QED
    BY <1>1, <2>1, SameLibrary
<1>16. CASE EndOfStream
  BY <1>1, <1>16 DEF EndOfStream, TailError, IInv, TypeOK, IndexMatchesCells,
     IndexAgrees, IsLibrary, NoElement
<1>. QED
  BY <1>2, <1>3, <1>4, <1>5, <1>6, <1>7, <1>8, <1>9, <1>10, <1>11, <1>12, <1>13,
     <1>14, <1>15, <1>16 DEF Next, Step

\* A step ends the read, if it does, at the record it takes or at the end.
LEMMA StepOutcome == TypeOK /\ OutcomeJustified /\ [Next]_vars => OutcomeJustified'
<1>. SUFFICES ASSUME TypeOK, OutcomeJustified, [Next]_vars PROVE OutcomeJustified'
  OBVIOUS
<1>0. /\ stream \in Streams /\ stream.tail \in Tails /\ Len(stream.records) \in Nat
      /\ pos \in 1 .. Len(stream.records) + 1
  BY StreamsAssumption DEF TypeOK
<1>1. CASE UNCHANGED vars
  BY <1>1 DEF vars, OutcomeJustified, AtEnd, Rec
<1>2. CASE status' = "reading"
  BY <1>2 DEF OutcomeJustified
<1>3. CASE ReadFirst
  <2>1. CASE ~ AtEnd /\ Rec.rt = "HEADER"
    BY <1>2, <1>3, <2>1 DEF ReadFirst
  <2>2. CASE ~ (~ AtEnd /\ Rec.rt = "HEADER")
    <3>1. /\ pos = 1 /\ pos' = pos /\ stream' = stream
          /\ status' = IF AtEnd /\ stream.tail # "none" THEN TailError
                       ELSE "MissingHeader"
      BY <1>3, <2>2 DEF ReadFirst
    <3>2. AtEnd' = AtEnd /\ Rec' = Rec
      BY <3>1 DEF AtEnd, Rec
    <3>. QED
      BY <1>0, <2>2, <3>1, <3>2 DEF OutcomeJustified, TailError, Tails
  <2>. QED
    BY <2>1, <2>2
<1>4. CASE RefusePayload
  <2>1. /\ Take(Numeric) /\ ~ Rec.fit /\ status' = "BadPayload"
    BY <1>4 DEF RefusePayload
  <2>2. Rec.rt \in Numeric /\ pos' = pos + 1 /\ stream' = stream
    BY <2>1, RecordProperties
  <2>3. stream'.records[pos' - 1] = Rec
    BY <1>0, <2>2 DEF Rec
  <2>. QED
    BY <2>1, <2>2, <2>3 DEF OutcomeJustified
<1>5. CASE EndLibrary
  <2>1. Take({"ENDLIB"}) /\ status' = "ok"
    BY <1>5 DEF EndLibrary
  <2>2. /\ Rec.rt = "ENDLIB" /\ pos' = pos + 1 /\ stream' = stream
        /\ pos \in Nat \ {0}
    BY <2>1, RecordProperties
  <2>3. stream'.records[pos' - 1] = Rec
    BY <1>0, <2>2 DEF Rec
  <2>. QED
    BY <2>1, <2>2, <2>3 DEF OutcomeJustified
<1>6. CASE EndOfStream
  <2>1. /\ AtEnd /\ stream' = stream /\ pos' = pos
        /\ status' = IF stream.tail = "none" THEN "ok" ELSE TailError
    BY <1>6 DEF EndOfStream
  <2>2. AtEnd'
    BY <2>1 DEF AtEnd
  <2>. QED
    BY <1>0, <2>1, <2>2 DEF OutcomeJustified, TailError, Tails
<1>7. CASE Step /\ ~ (ReadFirst \/ RefusePayload \/ EndLibrary \/ EndOfStream)
  <2>1. status' = "reading"
    BY <1>7 DEF Step, SkipRecord, SetLibName, SetUnits, EndStructure, NameStructure,
       StartElement, DescribeElement, EndElement, EndOrphan, EndNothing, Take
  <2>. QED
    BY <1>2, <2>1
<1>. QED
  BY <1>1, <1>3, <1>4, <1>5, <1>6, <1>7 DEF Next

----------------------------------------------------------------------------
(* The theorems *)

\* The inductive invariant holds of every read.
THEOREM Inductive == Spec => []IInv
<1>. QED
  BY InitIInv, StepIInv, PTL DEF Spec

\* Every variable keeps its type: in particular the current cell is always one
\* of the library's, so that ENDEL never indexes past the end.
THEOREM TypeCorrect == Spec => []TypeOK
<1>1. IInv => TypeOK
  BY DEF IInv
<1>. QED
  BY <1>1, Inductive, PTL

\* The index and the cells agree whatever the stream holds: names repeated,
\* orphans before and after structures, names of orphans given to structures.
THEOREM IndexCorrect == Spec => []IndexMatchesCells
<1>1. IInv => IndexMatchesCells
  BY DEF IInv
<1>. QED
  BY <1>1, Inductive, PTL

\* A read succeeds only at ENDLIB or between two records at the end of the
\* stream, and fails only for the cause that its error names.
THEOREM OutcomeCorrect == Spec => []OutcomeJustified
<1>1. Init => OutcomeJustified
  BY DEF Init, Fresh, OutcomeJustified
<1>2. TypeOK /\ OutcomeJustified /\ [Next]_vars => OutcomeJustified'
  BY StepOutcome
<1>. QED
  BY <1>1, <1>2, TypeCorrect, PTL DEF Spec
----------------------------------------------------------------------------
(* What a record opens, ends and names, said of the stream alone *)

Structure  == {"BGNSTR", "ENDSTR"}
Delimiting == Starts \cup {"ENDEL"}
Telling    == Delimiting \cup Structure \cup {"STRNAME"}

\* Whether record k begins or leaves a structure.
Turns(k) == RtOf(k) \in Structure \/ (RtOf(k) = "STRNAME" /\ ~ IsTarget(k))

LEMMA OpensOne ==
  ASSUME NEW k \in Nat, NEW s \in Opens(k), NEW t \in Opens(k)
  PROVE  s = t
BY DEF Opens

LEMMA OpensNone == Opens(1) = {} /\ Opens(2) = {}
BY DEF Opens

LEMMA OpensNext ==
  ASSUME NEW k \in Nat, k >= 2
  PROVE  /\ RtOf(k) \in Starts => Opens(k + 1) = {k}
         /\ RtOf(k) = "ENDEL" => Opens(k + 1) = {}
         /\ RtOf(k) \notin Delimiting => Opens(k + 1) = Opens(k)
<1>1. /\ 2 .. (k + 1) - 1 = 2 .. k /\ k \in 2 .. k
      /\ \A s \in 2 .. k : s # k => s \in 2 .. k - 1 /\ k \in s + 1 .. k
      /\ \A s \in 2 .. k - 1 : s \in 2 .. k /\ s # k
      /\ k + 1 .. k = {}
  OBVIOUS
<1>2. \A s \in 2 .. k - 1 : s + 1 .. k = (s + 1 .. k - 1) \cup {k}
  OBVIOUS
<1>3. \A s : s \in Opens(k + 1) <=> s \in 2 .. k /\ RtOf(s) \in Starts
                                  /\ \A t \in s + 1 .. k : RtOf(t) \notin Delimiting
  BY <1>1 DEF Opens, Delimiting
<1>4. \A s : s \in Opens(k) <=> s \in 2 .. k - 1 /\ RtOf(s) \in Starts
                              /\ \A t \in s + 1 .. k - 1 : RtOf(t) \notin Delimiting
  BY DEF Opens, Delimiting
<1>5. ASSUME RtOf(k) \in Starts
      PROVE  Opens(k + 1) = {k}
  <2>1. RtOf(k) \in Delimiting
    BY <1>5 DEF Delimiting
  <2>. QED
    BY <1>1, <1>3, <1>5, <2>1
<1>6. ASSUME RtOf(k) = "ENDEL"
      PROVE  Opens(k + 1) = {}
  <2>1. RtOf(k) \in Delimiting /\ RtOf(k) \notin Starts
    BY <1>6 DEF Delimiting, Starts
  <2>. QED
    BY <1>1, <1>3, <2>1
<1>7. ASSUME RtOf(k) \notin Delimiting
      PROVE  Opens(k + 1) = Opens(k)
  <2>1. RtOf(k) \notin Starts
    BY <1>7 DEF Delimiting
  <2>2. \A s : s \in Opens(k + 1) <=> s \in Opens(k)
    BY <1>1, <1>2, <1>3, <1>4, <1>7, <2>1
  <2>. QED
    BY <2>2 DEF Opens
<1>. QED
  BY <1>5, <1>6, <1>7

LEMMA StructuralNone == Structural(1) = {} /\ Structural(2) = {}
BY DEF Structural

LEMMA StructuralNext ==
  ASSUME NEW k \in Nat, k >= 2
  PROVE  /\ Turns(k) => Structural(k + 1) = Structural(k) \cup {k}
         /\ ~ Turns(k) => Structural(k + 1) = Structural(k)
<1>1. \A s : s \in Structural(k + 1) <=> s \in 2 .. k /\ Turns(s)
  BY DEF Structural, Turns, Structure
<1>2. \A s : s \in Structural(k) <=> s \in 2 .. k - 1 /\ Turns(s)
  BY DEF Structural, Turns, Structure
<1>3. \A s : s \in 2 .. k <=> s \in 2 .. k - 1 \/ s = k
  OBVIOUS
<1>4. \A s : s \in Structural(k + 1) <=> s \in Structural(k) \/ (s = k /\ Turns(k))
  BY <1>1, <1>2, <1>3
<1>5. ASSUME Turns(k)
      PROVE  Structural(k + 1) = Structural(k) \cup {k}
  <2>1. \A s : s \in Structural(k + 1) <=> s \in Structural(k) \cup {k}
    BY <1>4, <1>5
  <2>. QED
    BY <2>1 DEF Structural
<1>6. ASSUME ~ Turns(k)
      PROVE  Structural(k + 1) = Structural(k)
  <2>1. \A s : s \in Structural(k + 1) <=> s \in Structural(k)
    BY <1>4, <1>6
  <2>. QED
    BY <2>1 DEF Structural
<1>. QED
  BY <1>5, <1>6

\* The structure of the next record.
LEMMA InStructureNext ==
  ASSUME NEW k \in Nat, k >= 2, NEW name
  PROVE  /\ Turns(k) => ( InStructure(k + 1, name)
                            <=> RtOf(k) = "STRNAME" /\ stream.records[k].data = <<name>> )
         /\ ~ Turns(k) => (InStructure(k + 1, name) <=> InStructure(k, name))
<1>1. ASSUME Turns(k)
      PROVE  InStructure(k + 1, name)
               <=> RtOf(k) = "STRNAME" /\ stream.records[k].data = <<name>>
  <2>. DEFINE S == Structural(k + 1)
              last == CHOOSE s \in S : \A t \in S : t <= s
  <2>1. S = Structural(k) \cup {k}
    BY <1>1, StructuralNext
  <2>2. \A s \in Structural(k) : s \in Int /\ s < k
    BY DEF Structural
  <2>3. k \in S /\ \A s \in S : s \in Int /\ s <= k
    BY <2>1, <2>2
  <2>4. \A s \in S : (\A t \in S : t <= s) => s = k
    BY <2>3
  <2>5. last = k
    <3>. HIDE DEF S
    <3>. QED
      BY <2>3, <2>4
  <2>. QED
    BY <2>3, <2>5 DEF InStructure
<1>2. ASSUME ~ Turns(k)
      PROVE  InStructure(k + 1, name) <=> InStructure(k, name)
  <2>1. Structural(k + 1) = Structural(k)
    BY <1>2, StructuralNext
  <2>. QED
    BY <2>1 DEF InStructure
<1>. QED
  BY <1>1, <1>2

\* A record is in one structure at most.
LEMMA InOneStructure ==
  ASSUME NEW k, NEW m, NEW n, InStructure(k, m), InStructure(k, n)
  PROVE  m = n
<1>. DEFINE s == CHOOSE s \in Structural(k) : \A t \in Structural(k) : t <= s
<1>1. stream.records[s].data = <<m>> /\ stream.records[s].data = <<n>>
  BY DEF InStructure
<1>. HIDE DEF s
<1>. QED
  BY <1>1

\* The record that ends an element tells which was started.
LEMMA StartOfEnd ==
  ASSUME NEW k \in Nat
  PROVE  /\ StartOf(k) # 0 => RtOf(k) = "ENDEL" /\ Opens(k) # {}
         /\ RtOf(k) = "ENDEL" /\ Opens(k) = {} => StartOf(k) = 0
         /\ \A s \in Opens(k) : RtOf(k) = "ENDEL" => StartOf(k) = s /\ s # 0
<1>1. \A s \in Opens(k) : s # 0
  BY DEF Opens
<1>2. \A s \in Opens(k) : (CHOOSE t \in Opens(k) : TRUE) = s
  BY OpensOne
<1>. QED
  BY <1>1, <1>2 DEF StartOf

\* None of this changes while the stream is read.
LEMMA StreamFixed ==
  ASSUME stream' = stream
  PROVE  /\ \A k : RtOf(k)' = RtOf(k) /\ Opens(k)' = Opens(k) /\ StartOf(k)' = StartOf(k)
         /\ \A k, n : InStructure(k, n)' <=> InStructure(k, n)
         /\ NamesNoOrphanage' <=> NamesNoOrphanage
<1>1. \A k : RtOf(k)' = RtOf(k)
  BY DEF RtOf
<1>2. \A k : Opens(k)' = Opens(k)
  BY <1>1 DEF Opens
<1>3. ASSUME NEW k
      PROVE  StartOf(k)' = StartOf(k)
  <2>1. Opens(k)' = Opens(k) /\ RtOf(k)' = RtOf(k)
    BY <1>1, <1>2
  <2>2. (CHOOSE s \in Opens(k) : TRUE)' = CHOOSE s \in Opens(k) : TRUE
    BY <2>1
  <2>. QED
    BY <2>1, <2>2 DEF StartOf
<1>4. \A k : IsTarget(k)' <=> IsTarget(k)
  BY <1>1, <1>2 DEF IsTarget
<1>5. \A k : Structural(k)' = Structural(k)
  BY <1>1, <1>4 DEF Structural
<1>6. \A k, n : InStructure(k, n)' <=> InStructure(k, n)
  BY <1>1, <1>5 DEF InStructure
<1>7. NamesNoOrphanage' <=> NamesNoOrphanage
  BY <1>1, <1>4 DEF NamesNoOrphanage
<1>. QED
  BY <1>1, <1>2, <1>3, <1>6, <1>7

----------------------------------------------------------------------------
(* The reader has in hand what the stream opened *)

\* What a step may leave alone, and a record that tells nothing of elements and
\* structures.
Stays    == UNCHANGED <<stream, pos, lib, curCell, pending>>
Advances == stream' = stream /\ pos' = pos + 1
Quiet ==
  /\ Advances /\ (pos = 1 \/ (pos >= 2 /\ RtOf(pos) \notin Telling))
  /\ lib'.cells = lib.cells /\ lib'.index = lib.index /\ curCell' = curCell
  /\ pending'.kind = pending.kind /\ (pending' = NoElement <=> pending = NoElement)

LEMMA TakeAdvances ==
  ASSUME IInv, NEW types, Take(types)
  PROVE  /\ pos \in Nat /\ pos >= 2 /\ Advances
         /\ RtOf(pos) \in types /\ RtOf(pos) = Rec.rt /\ stream.records[pos] = Rec
<1>1. TypeOK
  BY DEF IInv
<1>2. /\ pos \in Nat \ {0} /\ pos' = pos + 1 /\ stream' = stream /\ Rec.rt \in types
  BY <1>1, RecordProperties
<1>3. pos > 1
  BY DEF Take
<1>. QED
  BY <1>2, <1>3 DEF Advances, RtOf, Rec

LEMMA StepKinds ==
  IInv /\ [Next]_vars =>
    \/ Stays \/ Quiet \/ EndStructure \/ NameStructure \/ StartElement
    \/ EndElement \/ EndOrphan \/ EndNothing
<1>. SUFFICES ASSUME IInv, [Next]_vars
              PROVE  \/ Stays \/ Quiet \/ EndStructure \/ NameStructure \/ StartElement
                     \/ EndElement \/ EndOrphan \/ EndNothing
  OBVIOUS
<1>1. CASE UNCHANGED vars
  BY <1>1 DEF vars, Stays
<1>2. CASE ReadFirst
  <2>1. CASE ~ AtEnd /\ Rec.rt = "HEADER"
    BY <1>2, <2>1 DEF ReadFirst, Quiet, Advances
  <2>2. CASE ~ (~ AtEnd /\ Rec.rt = "HEADER")
    BY <1>2, <2>2 DEF ReadFirst, Stays
  <2>. QED
    BY <2>1, <2>2
<1>3. ASSUME NEW types, types \cap Telling = {}, Take(types),
             lib'.cells = lib.cells, lib'.index = lib.index, curCell' = curCell,
             pending'.kind = pending.kind, pending' = NoElement <=> pending = NoElement
      PROVE  Quiet
  BY <1>3, TakeAdvances DEF Quiet
<1>4. CASE SkipRecord
  <2>1. /\ Take(Ignored) /\ lib' = lib /\ curCell' = curCell /\ pending' = pending
    BY <1>4 DEF SkipRecord
  <2>2. Ignored \cap Telling = {}
    BY DEF Ignored, Telling, Delimiting, Structure, Starts
  <2>. QED
    BY <1>3, <2>1, <2>2
<1>5. CASE SetLibName
  <2>1. /\ Take({"LIBNAME"}) /\ lib' = [lib EXCEPT !.libName = Rec.data[1]]
        /\ curCell' = curCell /\ pending' = pending
    BY <1>5 DEF SetLibName
  <2>2. {"LIBNAME"} \cap Telling = {}
    BY DEF Telling, Delimiting, Structure, Starts
  <2>3. lib'.cells = lib.cells /\ lib'.index = lib.index
    BY <2>1 DEF IInv, TypeOK, IsLibrary
  <2>. QED
    BY <1>3, <2>1, <2>2, <2>3
<1>6. CASE RefusePayload
  <2>1. /\ Take(Numeric) /\ lib' = lib /\ curCell' = curCell /\ pending' = pending
    BY <1>6 DEF RefusePayload
  <2>2. Numeric \cap Telling = {}
    BY DEF Numeric, Telling, Delimiting, Structure, Starts
  <2>. QED
    BY <1>3, <2>1, <2>2
<1>7. CASE SetUnits
  <2>1. /\ Take({"UNITS"})
        /\ lib' = IF Len(Rec.data) >= 2
                  THEN [lib EXCEPT !.units = SubSeq(Rec.data, 1, 2)] ELSE lib
        /\ curCell' = curCell /\ pending' = pending
    BY <1>7 DEF SetUnits
  <2>2. {"UNITS"} \cap Telling = {}
    BY DEF Telling, Delimiting, Structure, Starts
  <2>3. lib'.cells = lib.cells /\ lib'.index = lib.index
    BY <2>1 DEF IInv, TypeOK, IsLibrary
  <2>. QED
    BY <1>3, <2>1, <2>2, <2>3
<1>8. CASE DescribeElement
  <2>. DEFINE types == {"LAYER", "DATATYPE", "XY"}
  <2>1. Take(types) /\ lib' = lib /\ curCell' = curCell
    BY <1>8 DEF DescribeElement
  <2>2. types \cap Telling = {}
    BY DEF Telling, Delimiting, Structure, Starts
  <2>3. pending'.kind = pending.kind /\ (pending' = NoElement <=> pending = NoElement)
    <3>1. CASE pending.kind # "BOUNDARY"
      BY <1>8, <3>1 DEF DescribeElement
    <3>2. CASE pending.kind = "BOUNDARY"
      <4>1. pending \in Element /\ pending # NoElement
        BY <3>2 DEF IInv, TypeOK, NoElement, Untold
      <4>2. pending'.kind = "BOUNDARY"
        BY <1>8, <3>2, <4>1 DEF DescribeElement, Element
      <4>3. pending' # NoElement
        BY <4>2 DEF NoElement, Untold
      <4>. QED
        BY <3>2, <4>1, <4>2, <4>3
    <3>. QED
      BY <3>1, <3>2
  <2>. HIDE DEF types
  <2>. QED
    BY <1>3, <2>1, <2>2, <2>3
<1>9. CASE EndLibrary
  <2>1. /\ Take({"ENDLIB"}) /\ lib' = lib /\ curCell' = curCell /\ pending' = pending
    BY <1>9 DEF EndLibrary
  <2>2. {"ENDLIB"} \cap Telling = {}
    BY DEF Telling, Delimiting, Structure, Starts
  <2>. QED
    BY <1>3, <2>1, <2>2
<1>10. CASE EndOfStream
  BY <1>10 DEF EndOfStream, Stays
<1>. QED
  BY <1>1, <1>2, <1>4, <1>5, <1>6, <1>7, <1>8, <1>9, <1>10 DEF Next, Step

\* The pending element is the one that the stream has open.
PendingOpen ==
  \/ pending = NoElement /\ Opens(pos) = {}
  \/ pending # NoElement /\ \E s \in Opens(pos) : pending.kind = RtOf(s)

LEMMA PendingThen ==
  ASSUME stream' = stream, NEW p, pos' = p,
         \/ pending' = NoElement /\ Opens(p) = {}
         \/ pending' # NoElement /\ \E s \in Opens(p) : pending'.kind = RtOf(s)
  PROVE  PendingOpen'
<1>1. Opens(pos)' = Opens(p)
  BY DEF Opens, RtOf
<1>2. \A s : RtOf(s)' = RtOf(s)
  BY DEF RtOf
<1>. QED
  BY <1>1, <1>2 DEF PendingOpen, NoElement

LEMMA PendingStep == IInv /\ PendingOpen /\ [Next]_vars => PendingOpen'
<1>. SUFFICES ASSUME IInv, PendingOpen, [Next]_vars PROVE PendingOpen'
  OBVIOUS
<1>0. pos \in Nat
  BY StreamsAssumption DEF IInv, TypeOK
<1>1. CASE Stays
  <2>1. stream' = stream /\ pos' = pos /\ pending' = pending
    BY <1>1 DEF Stays
  <2>. QED
    BY <2>1, PendingThen DEF PendingOpen
<1>2. ASSUME Advances, pos >= 2 => RtOf(pos) \notin Delimiting, pos = 1 \/ pos >= 2,
             pending'.kind = pending.kind, pending' = NoElement <=> pending = NoElement
      PROVE  PendingOpen'
  <2>1. Opens(pos + 1) = Opens(pos)
    BY <1>0, <1>2, OpensNone, OpensNext
  <2>2. stream' = stream /\ pos' = pos + 1
    BY <1>2 DEF Advances
  <2>. QED
    BY <1>2, <2>1, <2>2, PendingThen DEF PendingOpen
<1>3. CASE Quiet
  BY <1>2, <1>3 DEF Quiet, Telling
<1>4. ASSUME NEW types, Take(types), types \cap Delimiting = {}, pending' = pending
      PROVE  PendingOpen'
  BY <1>2, <1>4, TakeAdvances
<1>5. CASE EndStructure
  <2>1. Take(Structure) /\ pending' = pending
    BY <1>5 DEF EndStructure, Structure
  <2>2. Structure \cap Delimiting = {}
    BY DEF Structure, Delimiting, Starts
  <2>. QED
    BY <1>4, <2>1, <2>2
<1>6. CASE NameStructure
  <2>1. Take({"STRNAME"}) /\ pending' = pending
    BY <1>6 DEF NameStructure
  <2>2. {"STRNAME"} \cap Delimiting = {}
    BY DEF Delimiting, Starts
  <2>. QED
    BY <1>4, <2>1, <2>2
<1>7. CASE StartElement
  <2>1. Take(Starts) /\ pending' = Untold(Rec.rt)
    BY <1>7 DEF StartElement
  <2>2. /\ pos >= 2 /\ RtOf(pos) \in Starts /\ RtOf(pos) = Rec.rt
        /\ stream' = stream /\ pos' = pos + 1
    BY <2>1, TakeAdvances DEF Advances
  <2>3. Opens(pos + 1) = {pos}
    BY <1>0, <2>2, OpensNext
  <2>4. pending'.kind = RtOf(pos) /\ pending' # NoElement
    BY <2>1, <2>2 DEF Untold, NoElement, Starts
  <2>. QED
    BY <2>2, <2>3, <2>4, PendingThen
<1>8. ASSUME Take({"ENDEL"}), pending' = NoElement
      PROVE  PendingOpen'
  <2>1. pos >= 2 /\ RtOf(pos) = "ENDEL" /\ stream' = stream /\ pos' = pos + 1
    BY <1>8, TakeAdvances DEF Advances
  <2>2. Opens(pos + 1) = {}
    BY <1>0, <2>1, OpensNext
  <2>. QED
    BY <1>8, <2>1, <2>2, PendingThen
<1>9. EndElement \/ EndOrphan \/ EndNothing => Take({"ENDEL"}) /\ pending' = NoElement
  BY DEF EndElement, EndOrphan, EndNothing
<1>. QED
  BY <1>1, <1>3, <1>5, <1>6, <1>7, <1>8, <1>9, StepKinds

\* An ENDEL ends an element exactly if one is pending.
LEMMA PendingEnds ==
  ASSUME IInv, PendingOpen, RtOf(pos) = "ENDEL"
  PROVE  /\ StartOf(pos) # 0 <=> pending # NoElement
         /\ pending # NoElement => RtOf(StartOf(pos)) = pending.kind
<1>1. pos \in Nat
  BY StreamsAssumption DEF IInv, TypeOK
<1>2. CASE pending = NoElement /\ Opens(pos) = {}
  BY <1>1, <1>2, StartOfEnd
<1>3. CASE pending # NoElement /\ \E s \in Opens(pos) : pending.kind = RtOf(s)
  BY <1>1, <1>3, StartOfEnd
<1>. QED
  BY <1>2, <1>3 DEF PendingOpen

----------------------------------------------------------------------------
(* Counting elements *)

LEMMA CellSizes ==
  ASSUME NEW l, IsLibrary(l)
  PROVE  /\ l.cells \in Seq(Cell) /\ Len(l.cells) \in Nat
         /\ DOMAIN l.cells = 1 .. Len(l.cells) /\ IsFiniteSet(DOMAIN l.cells)
         /\ \A k \in DOMAIN l.cells : /\ l.cells[k] \in Cell
                                      /\ l.cells[k].elements \in Seq(Element)
                                      /\ Len(l.cells[k].elements) \in Nat
<1>1. l.cells \in Seq(Cell)
  BY DEF IsLibrary
<1>2. Len(l.cells) \in Nat /\ DOMAIN l.cells = 1 .. Len(l.cells)
  BY <1>1
<1>3. \A k \in DOMAIN l.cells : l.cells[k] \in Cell /\ l.cells[k].elements \in Seq(Element)
  <2>1. \A k \in DOMAIN l.cells : l.cells[k] \in Cell
    BY <1>1, <1>2
  <2>2. \A c \in Cell : c.elements \in Seq(Element)
    BY DEF Cell
  <2>. QED
    BY <2>1, <2>2
<1>4. IsFiniteSet(DOMAIN l.cells)
  BY <1>2, FS_Interval
<1>5. \A k \in DOMAIN l.cells : Len(l.cells[k].elements) \in Nat
  BY <1>3
<1>. QED
  BY <1>1, <1>2, <1>3, <1>4, <1>5

\* What an add_cell that adds a cell makes of the cells.
LEMMA AddCellAppends ==
  ASSUME NEW l, IsLibrary(l), NEW name, name \notin DOMAIN l.index
  PROVE  /\ AddCell(l, name).cells = Append(l.cells, [name |-> name, elements |-> <<>>])
         /\ DOMAIN AddCell(l, name).index = DOMAIN l.index \cup {name}
BY DEF AddCell, IsLibrary

LEMMA AddElementChanges ==
  ASSUME NEW l, IsLibrary(l), NEW idx \in DOMAIN l.cells, NEW el \in Element
  PROVE  /\ DOMAIN AddElement(l, idx, el).cells = DOMAIN l.cells
         /\ AddElement(l, idx, el).index = l.index
         /\ \A k \in DOMAIN l.cells :
              k # idx => AddElement(l, idx, el).cells[k] = l.cells[k]
         /\ AddElement(l, idx, el).cells[idx].name = l.cells[idx].name
         /\ AddElement(l, idx, el).cells[idx].elements = Append(l.cells[idx].elements, el)
<1>1. l.cells[idx] \in Cell
  BY CellSizes
<1>2. /\ AddElement(l, idx, el).cells
           = [l.cells EXCEPT ![idx] = [l.cells[idx] EXCEPT !.elements = Append(@, el)]]
      /\ AddElement(l, idx, el).index = l.index
  BY DEF AddElement, IsLibrary
<1>. QED
  BY <1>1, <1>2 DEF Cell

\* A new cell has no elements.
LEMMA AddCellCounts ==
  ASSUME NEW l, IsLibrary(l), NEW name \in Name
  PROVE  ElementCount(AddCell(l, name)) = ElementCount(l)
<1>. DEFINE with == AddCell(l, name)
            m == Len(l.cells) + 1
            f == [k \in DOMAIN l.cells |-> Len(l.cells[k].elements)]
            g == [k \in DOMAIN with.cells |-> Len(with.cells[k].elements)]
<1>1. CASE name \in DOMAIN l.index
  BY <1>1 DEF AddCell
<1>2. CASE name \notin DOMAIN l.index
  <2>1. with.cells = Append(l.cells, [name |-> name, elements |-> <<>>])
    BY <1>2, AddCellAppends
  <2>2. /\ l.cells \in Seq(Cell) /\ Len(l.cells) \in Nat
        /\ DOMAIN l.cells = 1 .. Len(l.cells) /\ IsFiniteSet(DOMAIN l.cells)
        /\ \A k \in DOMAIN l.cells : Len(l.cells[k].elements) \in Nat
    BY CellSizes
  <2>3. [name |-> name, elements |-> <<>>] \in Cell
    BY DEF Cell
  <2>4. /\ DOMAIN with.cells = DOMAIN l.cells \cup {m} /\ m \notin DOMAIN l.cells
        /\ \A k \in DOMAIN l.cells : with.cells[k] = l.cells[k]
        /\ with.cells[m].elements = <<>>
    BY <2>1, <2>2, <2>3
  <2>. HIDE DEF with, m
  <2>5. IsFiniteSet(DOMAIN with.cells) /\ (DOMAIN with.cells) \ {m} = DOMAIN l.cells
    BY <2>2, <2>4, FS_AddElement
  <2>6. /\ \A k \in DOMAIN l.cells : f[k] \in Nat /\ f[k] = g[k]
        /\ g[m] = 0 /\ \A k \in DOMAIN with.cells : g[k] \in Nat
        /\ DOMAIN f = DOMAIN l.cells /\ DOMAIN g = DOMAIN with.cells
    BY <2>2, <2>4
  <2>. HIDE DEF f, g
  <2>7. SumFunctionOnSet(g, DOMAIN with.cells) = g[m] + SumFunctionOnSet(g, DOMAIN l.cells)
    BY <2>4, <2>5, <2>6, SumWithout
  <2>8. SumFunctionOnSet(f, DOMAIN l.cells) = SumFunctionOnSet(g, DOMAIN l.cells)
    BY <2>2, <2>6, SumOfEquals
  <2>9. SumFunctionOnSet(f, DOMAIN l.cells) \in Nat
    BY <2>2, <2>6, SumOfNaturals
  <2>10. /\ ElementCount(l) = SumFunctionOnSet(f, DOMAIN l.cells)
         /\ ElementCount(with) = SumFunctionOnSet(g, DOMAIN with.cells)
    BY <2>6 DEF ElementCount, SumFunction, f, g
  <2>11. ElementCount(with) = ElementCount(l)
    BY <2>6, <2>7, <2>8, <2>9, <2>10
  <2>. QED
    BY <2>11 DEF with
<1>. QED
  BY <1>1, <1>2

LEMMA AddElementCounts ==
  ASSUME NEW l, IsLibrary(l), NEW idx \in DOMAIN l.cells, NEW el \in Element
  PROVE  /\ ElementCount(l) \in Nat
         /\ ElementCount(AddElement(l, idx, el)) = ElementCount(l) + 1
<1>. DEFINE S == DOMAIN l.cells
            with == AddElement(l, idx, el)
            f == [k \in S |-> Len(l.cells[k].elements)]
            g == [k \in S |-> Len(with.cells[k].elements)]
<1>1. /\ IsFiniteSet(S) /\ l.cells[idx].elements \in Seq(Element)
      /\ \A k \in S : Len(l.cells[k].elements) \in Nat
  BY CellSizes
<1>2. /\ DOMAIN with.cells = S /\ \A k \in S : k # idx => with.cells[k] = l.cells[k]
      /\ with.cells[idx].elements = Append(l.cells[idx].elements, el)
  BY AddElementChanges
<1>. HIDE DEF with
<1>3. Len(with.cells[idx].elements) = Len(l.cells[idx].elements) + 1
  BY <1>1, <1>2
<1>4. /\ \A k \in S : f[k] \in Nat /\ (k # idx => g[k] = f[k])
      /\ g[idx] = f[idx] + 1 /\ DOMAIN f = S /\ DOMAIN g = S
  BY <1>1, <1>2, <1>3
<1>5. /\ ElementCount(l) = SumFunctionOnSet(f, S)
      /\ ElementCount(with) = SumFunctionOnSet(g, S)
  BY <1>2, <1>4 DEF ElementCount, SumFunction
<1>. HIDE DEF f, g, S
<1>6. /\ \A k \in S : f[k] \in Nat /\ g[k] \in Nat
      /\ \A k \in S \ {idx} : f[k] \in Nat /\ f[k] = g[k]
      /\ idx \in S
  BY <1>4 DEF S
<1>7. /\ SumFunctionOnSet(f, S) = f[idx] + SumFunctionOnSet(f, S \ {idx})
      /\ SumFunctionOnSet(g, S) = g[idx] + SumFunctionOnSet(g, S \ {idx})
  BY <1>1, <1>6, SumWithout
<1>8. IsFiniteSet(S \ {idx})
  BY <1>1, FS_RemoveElement
<1>9. /\ SumFunctionOnSet(f, S \ {idx}) = SumFunctionOnSet(g, S \ {idx})
      /\ SumFunctionOnSet(f, S \ {idx}) \in Nat /\ SumFunctionOnSet(f, S) \in Nat
  BY <1>1, <1>6, <1>8, SumOfEquals, SumOfNaturals
<1>10. ElementCount(with) = ElementCount(l) + 1 /\ ElementCount(l) \in Nat
  BY <1>4, <1>5, <1>6, <1>7, <1>9
<1>. QED
  BY <1>10 DEF with

\* The records read grow by one.
LEMMA EndedThen ==
  ASSUME IInv, Advances
  PROVE  /\ StartOf(pos) # 0 => Ended' = Ended \cup {pos}
         /\ StartOf(pos) = 0 => Ended' = Ended
         /\ IsFiniteSet(Ended) /\ pos \notin Ended /\ Ended \in SUBSET Int
         /\ \A k \in Ended : k < pos
<1>1. pos \in Nat \ {0}
  BY StreamsAssumption DEF IInv, TypeOK
<1>2. \A k : StartOf(k)' = StartOf(k)
  BY StreamFixed DEF Advances
<1>3. \A k : k \in Consumed' <=> k \in Consumed \/ k = pos
  BY <1>1 DEF Consumed, Advances
<1>4. \A k : k \in Ended' <=> k \in Ended \/ (k = pos /\ StartOf(pos) # 0)
  BY <1>2, <1>3 DEF Ended
<1>5. StartOf(pos) # 0 => Ended' = Ended \cup {pos}
  BY <1>4
<1>6. StartOf(pos) = 0 => Ended' = Ended
  BY <1>4
<1>7. Ended \in SUBSET (1 .. pos - 1) /\ \A k \in 1 .. pos - 1 : k \in Int /\ k < pos
  BY <1>1 DEF Ended, Consumed
<1>8. IsFiniteSet(Ended)
  <2>1. IsFiniteSet(1 .. pos - 1)
    BY <1>1, FS_Interval
  <2>. QED
    BY <1>7, <2>1, FS_Subset
<1>9. pos \notin Ended /\ Ended \in SUBSET Int /\ \A k \in Ended : k < pos
  BY <1>1, <1>7
<1>. QED
  BY <1>5, <1>6, <1>8, <1>9

Counted == ElementCount(lib) = Cardinality(Ended)

\* No element ends at other records than an ENDEL.
LEMMA EndedSame ==
  ASSUME IInv, Advances, pos = 1 \/ RtOf(pos) # "ENDEL"
  PROVE  StartOf(pos) = 0
<1>1. pos \in Nat
  BY StreamsAssumption DEF IInv, TypeOK
<1>. QED
  BY <1>1, StartOfEnd, OpensNone

LEMMA CountStep == IInv /\ PendingOpen /\ Counted /\ [Next]_vars => Counted'
<1>. SUFFICES ASSUME IInv, PendingOpen, Counted, [Next]_vars PROVE Counted'
  OBVIOUS
<1>0. /\ IsLibrary(lib) /\ IndexAgrees(lib) /\ curCell \in 0 .. Len(lib.cells)
      /\ pending \in Element \cup {NoElement} /\ pos \in Nat
  BY StreamsAssumption DEF IInv, TypeOK, IndexMatchesCells
<1>1. CASE Stays
  <2>1. Ended' = Ended /\ lib' = lib
    BY <1>1, StreamFixed DEF Stays, Ended, Consumed
  <2>. QED
    BY <2>1 DEF Counted
<1>2. ASSUME Advances, StartOf(pos) = 0, ElementCount(lib') = ElementCount(lib)
      PROVE  Counted'
  <2>1. Ended' = Ended
    BY <1>2, EndedThen
  <2>2. Cardinality(Ended)' = Cardinality(Ended)
    BY <2>1
  <2>3. ElementCount(lib)' = ElementCount(lib')
    BY DEF ElementCount
  <2>. QED
    BY <1>2, <2>2, <2>3 DEF Counted
<1>3. ASSUME Advances, StartOf(pos) # 0, ElementCount(lib') = ElementCount(lib) + 1
      PROVE  Counted'
  <2>1. Ended' = Ended \cup {pos} /\ IsFiniteSet(Ended) /\ pos \notin Ended
    BY <1>3, EndedThen
  <2>2. Cardinality(Ended)' = Cardinality(Ended) + 1
    BY <2>1, FS_AddElement
  <2>3. ElementCount(lib)' = ElementCount(lib')
    BY DEF ElementCount
  <2>. QED
    BY <1>3, <2>2, <2>3 DEF Counted
<1>4. CASE Quiet
  <2>1. StartOf(pos) = 0
    BY <1>4, EndedSame DEF Quiet, Telling, Delimiting
  <2>2. ElementCount(lib') = ElementCount(lib)
    BY <1>4 DEF Quiet, ElementCount
  <2>. QED
    BY <1>2, <1>4, <2>1, <2>2 DEF Quiet
<1>5. CASE EndStructure \/ StartElement
  <2>1. (Take(Structure) \/ Take(Starts)) /\ lib' = lib
    BY <1>5 DEF EndStructure, StartElement, Structure
  <2>2. "ENDEL" \notin Structure /\ "ENDEL" \notin Starts
    BY DEF Structure, Starts
  <2>3. Advances /\ StartOf(pos) = 0
    BY <2>1, <2>2, TakeAdvances, EndedSame
  <2>. QED
    BY <1>2, <2>1, <2>3
<1>6. CASE NameStructure
  <2>1. Take({"STRNAME"})
    BY <1>6 DEF NameStructure
  <2>2. Advances /\ StartOf(pos) = 0 /\ Rec.rt = "STRNAME"
    BY <2>1, TakeAdvances, EndedSame
  <2>3. Rec.data[1] \in Name
    BY <2>1, <2>2, RecordProperties DEF IInv, Naming
  <2>4. lib' = lib \/ lib' = AddCell(lib, Rec.data[1])
    BY <1>6 DEF NameStructure
  <2>5. ElementCount(lib') = ElementCount(lib)
    BY <1>0, <2>3, <2>4, AddCellCounts
  <2>. QED
    BY <1>2, <2>2, <2>5
<1>7. CASE EndElement
  <2>1. /\ Take({"ENDEL"}) /\ pending # NoElement /\ curCell # 0
        /\ lib' = AddElement(lib, curCell, pending)
    BY <1>7 DEF EndElement
  <2>2. Advances /\ RtOf(pos) = "ENDEL"
    BY <2>1, TakeAdvances
  <2>3. StartOf(pos) # 0
    BY <2>1, <2>2, PendingEnds
  <2>4. pending \in Element /\ curCell \in DOMAIN lib.cells
    BY <1>0, <2>1, CellSizes
  <2>5. ElementCount(lib') = ElementCount(lib) + 1
    BY <1>0, <2>1, <2>4, AddElementCounts
  <2>. QED
    BY <1>3, <2>2, <2>3, <2>5
<1>8. CASE EndOrphan
  <2>. DEFINE name == OrphanName(Len(lib.cells))
              with == AddCell(lib, name)
  <2>1. /\ Take({"ENDEL"}) /\ pending # NoElement
        /\ lib' = AddElement(with, Len(with.cells), pending)
    BY <1>8 DEF EndOrphan
  <2>2. Advances /\ RtOf(pos) = "ENDEL"
    BY <2>1, TakeAdvances
  <2>3. StartOf(pos) # 0
    BY <2>1, <2>2, PendingEnds
  <2>4. name \in Name
    BY <1>0, CellSizes DEF OrphanName, PlainName, Name
  <2>5. /\ IsLibrary(with) /\ name \in DOMAIN with.index
        /\ ElementCount(with) = ElementCount(lib)
    BY <1>0, <2>4, AddCellProperties, AddCellCounts
  <2>. HIDE DEF with, name
  <2>6. Len(with.cells) \in DOMAIN with.cells
    BY <2>5, IndexedCell, CellSizes
  <2>7. ElementCount(lib') = ElementCount(with) + 1
    BY <1>0, <2>1, <2>5, <2>6, AddElementCounts
  <2>. QED
    BY <1>3, <2>2, <2>3, <2>5, <2>7
<1>9. CASE EndNothing
  <2>1. Take({"ENDEL"}) /\ pending = NoElement /\ lib' = lib
    BY <1>9 DEF EndNothing
  <2>2. Advances /\ StartOf(pos) = 0
    BY <2>1, TakeAdvances, PendingEnds
  <2>. QED
    BY <1>2, <2>1, <2>2
<1>. QED
  BY <1>1, <1>4, <1>5, <1>6, <1>7, <1>8, <1>9, StepKinds

----------------------------------------------------------------------------
(* The current cell is that of the structure the stream is in *)

CurrentStructure ==
  \A name \in Name :
    InStructure(pos, name) <=> curCell # 0 /\ name = lib.cells[curCell].name

LEMMA CurrentThen ==
  ASSUME stream' = stream, NEW p, pos' = p,
         \A name \in Name :
           InStructure(p, name) <=> curCell' # 0 /\ name = lib'.cells[curCell'].name
  PROVE  CurrentStructure'
<1>1. Structural(pos)' = Structural(p)
  BY DEF Structural, IsTarget, Opens, RtOf
<1>2. \A name : InStructure(pos, name)' <=> InStructure(p, name)
  BY <1>1 DEF InStructure, RtOf
<1>. QED
  BY <1>2 DEF CurrentStructure

\* At a record that begins and leaves no structure.
LEMMA SameStructure ==
  ASSUME IInv, CurrentStructure, Advances, pos = 1 \/ (pos >= 2 /\ ~ Turns(pos)),
         curCell' = curCell,
         curCell # 0 => lib'.cells[curCell].name = lib.cells[curCell].name
  PROVE  CurrentStructure'
<1>1. pos \in Nat
  BY StreamsAssumption DEF IInv, TypeOK
<1>2. \A name : InStructure(pos + 1, name) <=> InStructure(pos, name)
  <2>1. CASE pos = 1
    BY <2>1, StructuralNone DEF InStructure
  <2>2. CASE pos >= 2 /\ ~ Turns(pos)
    BY <1>1, <2>2, InStructureNext
  <2>. QED
    BY <2>1, <2>2
<1>3. stream' = stream /\ pos' = pos + 1
  BY DEF Advances
<1>4. \A name \in Name :
        InStructure(pos + 1, name) <=> curCell' # 0 /\ name = lib'.cells[curCell'].name
  BY <1>2 DEF CurrentStructure
<1>. QED
  BY <1>3, <1>4, CurrentThen

\* What STRNAME is for, the stream tells as the pending element does.
LEMMA PendingTargets ==
  ASSUME IInv, PendingOpen
  PROVE  IsTarget(pos) <=> pending.kind = "SREF"
<1>1. pos \in Nat
  BY StreamsAssumption DEF IInv, TypeOK
<1>2. CASE pending = NoElement /\ Opens(pos) = {}
  BY <1>2 DEF IsTarget, NoElement, Untold
<1>3. ASSUME NEW s \in Opens(pos), pending.kind = RtOf(s)
      PROVE  IsTarget(pos) <=> pending.kind = "SREF"
  BY <1>1, <1>3, OpensOne DEF IsTarget
<1>. QED
  BY <1>2, <1>3 DEF PendingOpen

\* The name of a structure, and the cell that becomes the current one.
LEMMA NameStructureIs ==
  ASSUME IInv, PendingOpen, NameStructure
  PROVE  /\ Advances /\ pos >= 2 /\ RtOf(pos) = "STRNAME" /\ StartOf(pos) = 0
         /\ Turns(pos) <=> pending.kind # "SREF"
         /\ ~ Turns(pos) => lib' = lib /\ curCell' = curCell
         /\ Turns(pos) =>
              /\ Rec.data[1] \in Name /\ Rec.data = <<Rec.data[1]>>
              /\ lib' = AddCell(lib, Rec.data[1])
              /\ IsLibrary(lib') /\ IndexAgrees(lib')
              /\ curCell' \in DOMAIN lib'.cells /\ curCell' # 0
              /\ lib'.cells[curCell'].name = Rec.data[1]
<1>0. IsLibrary(lib) /\ IndexAgrees(lib)
  BY DEF IInv, TypeOK, IndexMatchesCells
<1>1. Take({"STRNAME"})
  BY DEF NameStructure
<1>2. Advances /\ pos >= 2 /\ RtOf(pos) = "STRNAME" /\ Rec.rt = "STRNAME"
  BY <1>1, TakeAdvances
<1>3. StartOf(pos) = 0
  BY <1>2, EndedSame
<1>4. Turns(pos) <=> pending.kind # "SREF"
  BY <1>2, PendingTargets DEF Turns, Structure
<1>5. Rec.data \in Seq(Name) /\ Len(Rec.data) = 1 /\ Rec.data[1] \in Name
  BY <1>1, <1>2, RecordProperties DEF IInv, Naming
<1>6. Rec.data = <<Rec.data[1]>>
  BY <1>5
<1>7. ASSUME pending.kind # "SREF"
      PROVE  /\ lib' = AddCell(lib, Rec.data[1])
             /\ IsLibrary(lib') /\ IndexAgrees(lib')
             /\ curCell' \in DOMAIN lib'.cells /\ curCell' # 0
             /\ lib'.cells[curCell'].name = Rec.data[1]
  <2>1. lib' = AddCell(lib, Rec.data[1]) /\ curCell' = lib'.index[Rec.data[1]]
    BY <1>7 DEF NameStructure
  <2>2. IsLibrary(lib') /\ IndexAgrees(lib') /\ Rec.data[1] \in DOMAIN lib'.index
    BY <1>0, <1>5, <2>1, AddCellProperties
  <2>3. \A l : \A n \in DOMAIN l.index :
          IsLibrary(l) /\ IndexAgrees(l)
            => /\ l.index[n] \in DOMAIN l.cells /\ l.cells[l.index[n]].name = n
               /\ l.index[n] # 0
    <3>. TAKE l
    <3>. TAKE n \in DOMAIN l.index
    <3>. HAVE IsLibrary(l) /\ IndexAgrees(l)
    <3>1. PICK k \in DOMAIN l.cells : n = l.cells[k].name
      BY DEF IndexAgrees
    <3>2. l.index[n] = k
      BY <3>1 DEF IndexAgrees
    <3>3. k # 0
      BY CellSizes
    <3>. QED
      BY <3>1, <3>2, <3>3
  <2>. QED
    BY <2>1, <2>2, <2>3
<1>8. pending.kind = "SREF" => lib' = lib /\ curCell' = curCell
  BY DEF NameStructure
<1>. QED
  BY <1>2, <1>3, <1>4, <1>5, <1>6, <1>7, <1>8

\* What an ENDEL does to the library.
LEMMA EndElementIs ==
  ASSUME IInv, PendingOpen, EndElement
  PROVE  /\ Advances /\ pos >= 2 /\ ~ Turns(pos)
         /\ StartOf(pos) # 0 /\ RtOf(StartOf(pos)) = pending.kind
         /\ pending \in Element /\ curCell \in DOMAIN lib.cells /\ curCell # 0
         /\ lib' = AddElement(lib, curCell, pending) /\ curCell' = curCell
<1>0. IsLibrary(lib) /\ curCell \in 0 .. Len(lib.cells) /\ pending \in Element \cup {NoElement}
  BY DEF IInv, TypeOK
<1>1. /\ Take({"ENDEL"}) /\ pending # NoElement /\ curCell # 0
      /\ lib' = AddElement(lib, curCell, pending) /\ curCell' = curCell
  BY DEF EndElement
<1>2. Advances /\ pos >= 2 /\ RtOf(pos) = "ENDEL"
  BY <1>1, TakeAdvances
<1>3. StartOf(pos) # 0 /\ RtOf(StartOf(pos)) = pending.kind
  BY <1>1, <1>2, PendingEnds
<1>4. pending \in Element /\ curCell \in DOMAIN lib.cells
  BY <1>0, <1>1, CellSizes
<1>. QED
  BY <1>1, <1>2, <1>3, <1>4 DEF Turns, Structure

LEMMA EndOrphanIs ==
  ASSUME IInv, PendingOpen, EndOrphan, NEW name, name = OrphanName(Len(lib.cells)),
         NEW with, with = AddCell(lib, name)
  PROVE  /\ Advances /\ pos >= 2 /\ ~ Turns(pos) /\ StartOf(pos) # 0
         /\ pending \in Element /\ curCell = 0 /\ curCell' = 0
         /\ name \in Name /\ IsLibrary(with) /\ IndexAgrees(with)
         /\ Len(with.cells) \in DOMAIN with.cells
         /\ lib' = AddElement(with, Len(with.cells), pending)
<1>0. IsLibrary(lib) /\ IndexAgrees(lib) /\ pending \in Element \cup {NoElement}
  BY DEF IInv, TypeOK, IndexMatchesCells
<1>1. /\ Take({"ENDEL"}) /\ pending # NoElement /\ curCell = 0 /\ curCell' = 0
      /\ lib' = AddElement(with, Len(with.cells), pending)
  BY DEF EndOrphan
<1>2. Advances /\ pos >= 2 /\ RtOf(pos) = "ENDEL"
  BY <1>1, TakeAdvances
<1>3. StartOf(pos) # 0
  BY <1>1, <1>2, PendingEnds
<1>4. name \in Name
  BY <1>0, CellSizes DEF OrphanName, PlainName, Name
<1>5. IsLibrary(with) /\ IndexAgrees(with) /\ name \in DOMAIN with.index
  BY <1>0, <1>4, AddCellProperties
<1>6. Len(with.cells) \in DOMAIN with.cells
  BY <1>5, IndexedCell, CellSizes
<1>. QED
  BY <1>0, <1>1, <1>2, <1>3, <1>4, <1>5, <1>6 DEF Turns, Structure

\* The other records leave the library alone, and only BGNSTR and ENDSTR leave a
\* structure.
LEMMA OtherRecords ==
  ASSUME IInv, PendingOpen, EndStructure \/ StartElement \/ EndNothing
  PROVE  /\ Advances /\ pos >= 2 /\ StartOf(pos) = 0 /\ lib' = lib
         /\ EndStructure => Turns(pos) /\ RtOf(pos) # "STRNAME" /\ curCell' = 0
         /\ ~ EndStructure => ~ Turns(pos) /\ curCell' = curCell
<1>1. CASE EndStructure
  <2>1. Take(Structure) /\ lib' = lib /\ curCell' = 0
    BY <1>1 DEF EndStructure, Structure
  <2>2. Advances /\ pos >= 2 /\ RtOf(pos) \in Structure
    BY <2>1, TakeAdvances
  <2>3. RtOf(pos) # "STRNAME" /\ RtOf(pos) # "ENDEL"
    BY <2>2 DEF Structure
  <2>. QED
    BY <1>1, <2>1, <2>2, <2>3, EndedSame DEF Turns
<1>2. CASE StartElement /\ ~ EndStructure
  <2>1. Take(Starts) /\ lib' = lib /\ curCell' = curCell
    BY <1>2 DEF StartElement
  <2>2. Advances /\ pos >= 2 /\ RtOf(pos) \in Starts
    BY <2>1, TakeAdvances
  <2>3. RtOf(pos) # "STRNAME" /\ RtOf(pos) # "ENDEL" /\ RtOf(pos) \notin Structure
    BY <2>2 DEF Starts, Structure
  <2>. QED
    BY <1>2, <2>1, <2>2, <2>3, EndedSame DEF Turns
<1>3. CASE EndNothing /\ ~ EndStructure
  <2>1. Take({"ENDEL"}) /\ lib' = lib /\ curCell' = curCell /\ pending = NoElement
    BY <1>3 DEF EndNothing
  <2>2. Advances /\ pos >= 2 /\ RtOf(pos) = "ENDEL"
    BY <2>1, TakeAdvances
  <2>3. StartOf(pos) = 0
    BY <2>1, <2>2, PendingEnds
  <2>. QED
    BY <1>3, <2>1, <2>2, <2>3 DEF Turns, Structure
<1>. QED
  BY <1>1, <1>2, <1>3

LEMMA QuietIs ==
  ASSUME IInv, Quiet
  PROVE  /\ Advances /\ (pos = 1 \/ (pos >= 2 /\ ~ Turns(pos))) /\ StartOf(pos) = 0
         /\ lib'.cells = lib.cells /\ lib'.index = lib.index /\ curCell' = curCell
<1>1. StartOf(pos) = 0
  BY EndedSame DEF Quiet, Telling, Delimiting
<1>2. RtOf(pos) \notin Telling => ~ Turns(pos)
  BY DEF Turns, Telling
<1>. QED
  BY <1>1, <1>2 DEF Quiet

LEMMA CurrentStep ==
  IInv /\ PendingOpen /\ CurrentStructure /\ [Next]_vars => CurrentStructure'
<1>. SUFFICES ASSUME IInv, PendingOpen, CurrentStructure, [Next]_vars
              PROVE  CurrentStructure'
  OBVIOUS
<1>0. IsLibrary(lib) /\ IndexAgrees(lib) /\ pos \in Nat
  BY StreamsAssumption DEF IInv, TypeOK, IndexMatchesCells
<1>1. CASE Stays
  <2>1. stream' = stream /\ pos' = pos /\ lib' = lib /\ curCell' = curCell
    BY <1>1 DEF Stays
  <2>. QED
    BY <2>1, CurrentThen DEF CurrentStructure
<1>2. CASE Quiet
  BY <1>2, QuietIs, SameStructure
<1>3. CASE EndStructure
  <2>1. /\ stream' = stream /\ pos' = pos + 1 /\ pos >= 2 /\ curCell' = 0
        /\ Turns(pos) /\ RtOf(pos) # "STRNAME"
    BY <1>3, OtherRecords DEF Advances
  <2>2. \A name : ~ InStructure(pos + 1, name)
    BY <1>0, <2>1, InStructureNext
  <2>. QED
    BY <2>1, <2>2, CurrentThen
<1>4. CASE NameStructure
  <2>1. CASE ~ Turns(pos)
    BY <1>4, <2>1, NameStructureIs, SameStructure
  <2>2. CASE Turns(pos)
    <3>1. /\ stream' = stream /\ pos' = pos + 1 /\ pos >= 2 /\ RtOf(pos) = "STRNAME"
          /\ Rec.data = <<Rec.data[1]>> /\ curCell' # 0
          /\ lib'.cells[curCell'].name = Rec.data[1]
      BY <1>4, <2>2, NameStructureIs DEF Advances
    <3>2. \A name : InStructure(pos + 1, name) <=> Rec.data = <<name>>
      BY <1>0, <2>2, <3>1, InStructureNext DEF Rec
    <3>3. \A name : Rec.data = <<name>> <=> name = Rec.data[1]
      BY <3>1
    <3>. QED
      BY <3>1, <3>2, <3>3, CurrentThen
  <2>. QED
    BY <2>1, <2>2
<1>5. CASE (StartElement \/ EndNothing) /\ ~ EndStructure
  BY <1>5, OtherRecords, SameStructure
<1>6. CASE EndElement
  BY <1>0, <1>6, EndElementIs, AddElementChanges, SameStructure
<1>7. CASE EndOrphan
  BY <1>7, EndOrphanIs, SameStructure
<1>. QED
  BY <1>1, <1>2, <1>3, <1>4, <1>5, <1>6, <1>7, StepKinds

----------------------------------------------------------------------------
(* Structures are known once named, and orphans are numbered as they come *)

StructuresKnown ==
  \A k \in Ended : \A name \in Name : InStructure(k, name) => name \in DOMAIN lib.index

\* Every `$ORPHAN_n` stands after n cells or more.
OrphansNumbered ==
  NamesNoOrphanage =>
    \A k \in DOMAIN lib.cells :
      IsOrphanage(lib.cells[k].name) => lib.cells[k].name.number < k

LEMMA StreamKept == [Next]_vars => stream' = stream
BY DEF Next, Step, vars, ReadFirst, SkipRecord, SetLibName, RefusePayload, SetUnits,
   EndStructure, NameStructure, StartElement, DescribeElement, EndElement, EndOrphan,
   EndNothing, EndLibrary, EndOfStream, Take

\* No name is ever taken out of the index.
LEMMA IndexGrows ==
  ASSUME IInv, PendingOpen, [Next]_vars
  PROVE  DOMAIN lib.index \subseteq DOMAIN lib'.index
<1>0. IsLibrary(lib) /\ IndexAgrees(lib)
  BY DEF IInv, TypeOK, IndexMatchesCells
<1>1. \A n : DOMAIN lib.index \subseteq DOMAIN AddCell(lib, n).index
  BY <1>0, AddCellAppends DEF AddCell
<1>2. CASE Stays \/ Quiet
  BY <1>2 DEF Stays, Quiet
<1>3. CASE EndStructure \/ StartElement \/ EndNothing
  BY <1>3, OtherRecords
<1>4. CASE NameStructure
  BY <1>1, <1>4, NameStructureIs
<1>5. CASE EndElement
  <2>1. lib'.index = lib.index
    BY <1>0, <1>5, EndElementIs, AddElementChanges
  <2>. QED
    BY <2>1
<1>6. CASE EndOrphan
  <2>. DEFINE with == AddCell(lib, OrphanName(Len(lib.cells)))
  <2>1. /\ IsLibrary(with) /\ Len(with.cells) \in DOMAIN with.cells /\ pending \in Element
        /\ lib' = AddElement(with, Len(with.cells), pending)
    BY <1>6, EndOrphanIs
  <2>2. DOMAIN lib.index \subseteq DOMAIN with.index
    BY <1>1
  <2>. HIDE DEF with
  <2>3. lib'.index = with.index
    BY <2>1, AddElementChanges
  <2>. QED
    BY <2>2, <2>3
<1>. QED
  BY <1>2, <1>3, <1>4, <1>5, <1>6, StepKinds

LEMMA KnownStep ==
  IInv /\ PendingOpen /\ CurrentStructure /\ StructuresKnown /\ [Next]_vars
    => StructuresKnown'
<1>. SUFFICES ASSUME IInv, PendingOpen, CurrentStructure, StructuresKnown, [Next]_vars,
                     NEW k \in Ended', NEW name \in Name, InStructure(k, name)
              PROVE  name \in DOMAIN lib'.index
  BY StreamKept, StreamFixed DEF StructuresKnown
<1>0. IndexAgrees(lib) /\ IsLibrary(lib) /\ curCell \in 0 .. Len(lib.cells)
  BY DEF IInv, TypeOK, IndexMatchesCells
<1>1. DOMAIN lib.index \subseteq DOMAIN lib'.index
  BY IndexGrows
<1>2. CASE k \in Ended
  BY <1>1, <1>2 DEF StructuresKnown
<1>3. CASE k = pos
  <2>1. curCell # 0 /\ name = lib.cells[curCell].name
    BY <1>3 DEF CurrentStructure
  <2>2. curCell \in DOMAIN lib.cells
    BY <1>0, <2>1, CellSizes
  <2>3. name \in DOMAIN lib.index
    BY <1>0, <2>1, <2>2 DEF IndexAgrees
  <2>. QED
    BY <1>1, <2>3
<1>4. k \in Ended \/ k = pos
  <2>1. CASE Stays
    <3>1. Ended' = Ended
      BY <2>1, StreamFixed DEF Stays, Ended, Consumed
    <3>. QED
      BY <3>1
  <2>2. CASE Advances
    BY <2>2, EndedThen
  <2>3. Stays \/ Advances
    BY StepKinds, QuietIs, OtherRecords, NameStructureIs, EndElementIs, EndOrphanIs
  <2>. QED
    BY <2>1, <2>2, <2>3
<1>. QED
  BY <1>2, <1>3, <1>4

\* After add_cell the cells are as before, but for a new one at the end.
LEMMA AddCellKeeps ==
  ASSUME NEW l, IsLibrary(l), NEW name \in Name
  PROVE  \A k \in DOMAIN AddCell(l, name).cells :
           \/ k \in DOMAIN l.cells /\ AddCell(l, name).cells[k] = l.cells[k]
           \/ /\ k = Len(l.cells) + 1 /\ name \notin DOMAIN l.index
              /\ AddCell(l, name).cells[k] = [name |-> name, elements |-> <<>>]
<1>1. CASE name \in DOMAIN l.index
  BY <1>1 DEF AddCell
<1>2. CASE name \notin DOMAIN l.index
  <2>1. /\ AddCell(l, name).cells = Append(l.cells, [name |-> name, elements |-> <<>>])
        /\ [name |-> name, elements |-> <<>>] \in Cell
    BY <1>2, AddCellAppends DEF Cell
  <2>. QED
    BY <1>2, <2>1, CellSizes
<1>. QED
  BY <1>1, <1>2

LEMMA NumberedStep ==
  IInv /\ PendingOpen /\ OrphansNumbered /\ [Next]_vars => OrphansNumbered'
<1>. SUFFICES ASSUME IInv, PendingOpen, OrphansNumbered, [Next]_vars, NamesNoOrphanage,
                     NEW k \in DOMAIN lib'.cells, IsOrphanage(lib'.cells[k].name)
              PROVE  lib'.cells[k].name.number < k
  BY StreamKept, StreamFixed DEF OrphansNumbered, IsOrphanage
<1>0. /\ IsLibrary(lib) /\ IndexAgrees(lib) /\ Len(lib.cells) \in Nat
      /\ DOMAIN lib.cells = 1 .. Len(lib.cells) /\ lib.cells \in Seq(Cell)
  BY CellSizes DEF IInv, TypeOK, IndexMatchesCells
<1>1. ASSUME k \in DOMAIN lib.cells, lib'.cells[k].name = lib.cells[k].name
      PROVE  lib'.cells[k].name.number < k
  BY <1>1 DEF OrphansNumbered, IsOrphanage
<1>2. CASE Stays \/ Quiet
  <2>1. lib'.cells = lib.cells
    BY <1>2 DEF Stays, Quiet
  <2>. QED
    BY <1>1, <2>1
<1>3. CASE EndStructure \/ StartElement \/ EndNothing
  <2>1. lib' = lib
    BY <1>3, OtherRecords
  <2>. QED
    BY <1>1, <2>1
<1>5. CASE NameStructure
  <2>1. CASE Turns(pos)
    <3>1. Rec.data[1] \in Name /\ lib' = AddCell(lib, Rec.data[1])
      BY <1>5, <2>1, NameStructureIs
    <3>2. ~ IsOrphanage(Rec.data[1])
      <4>1. pos \in DOMAIN stream.records
        BY <1>5, StreamsAssumption DEF NameStructure, Take, AtEnd, IInv, TypeOK
      <4>2. RtOf(pos) = "STRNAME" /\ ~ IsTarget(pos)
        BY <1>5, <2>1, NameStructureIs DEF Turns, Structure
      <4>. QED
        BY <4>1, <4>2 DEF NamesNoOrphanage, Rec
    <3>3. lib'.cells[k].name # Rec.data[1]
      BY <3>2
    <3>4. k \in DOMAIN lib.cells /\ lib'.cells[k] = lib.cells[k]
      <4>. DEFINE name == Rec.data[1]
      <4>1. \A j \in DOMAIN lib'.cells :
              \/ j \in DOMAIN lib.cells /\ lib'.cells[j] = lib.cells[j]
              \/ lib'.cells[j] = [name |-> name, elements |-> <<>>]
        BY <1>0, <3>1, AddCellKeeps
      <4>. HIDE DEF name
      <4>2. \A j \in DOMAIN lib'.cells :
              lib'.cells[j].name # name
                => j \in DOMAIN lib.cells /\ lib'.cells[j] = lib.cells[j]
        BY <4>1
      <4>. QED
        BY <3>3, <4>2 DEF name
    <3>. QED
      BY <1>1, <3>4
  <2>2. CASE ~ Turns(pos)
    <3>1. lib' = lib
      BY <1>5, <2>2, NameStructureIs
    <3>. QED
      BY <1>1, <3>1
  <2>. QED
    BY <2>1, <2>2
<1>6. CASE EndElement
  <2>1. /\ curCell \in DOMAIN lib.cells /\ pending \in Element
        /\ lib' = AddElement(lib, curCell, pending)
    BY <1>6, EndElementIs
  <2>2. DOMAIN lib'.cells = DOMAIN lib.cells
    BY <1>0, <2>1, AddElementChanges
  <2>3. \A j \in DOMAIN lib.cells : lib'.cells[j].name = lib.cells[j].name
    BY <1>0, <2>1, AddElementChanges
  <2>4. k \in DOMAIN lib.cells
    BY <2>2
  <2>. QED
    BY <1>1, <2>3, <2>4
<1>7. CASE EndOrphan
  <2>. DEFINE name == OrphanName(Len(lib.cells))
              with == AddCell(lib, name)
  <2>1. /\ IsLibrary(with) /\ Len(with.cells) \in DOMAIN with.cells /\ pending \in Element
        /\ lib' = AddElement(with, Len(with.cells), pending) /\ name \in Name
    BY <1>7, EndOrphanIs
  <2>2. DOMAIN lib'.cells = DOMAIN with.cells /\ lib'.cells[k].name = with.cells[k].name
    <3>. HIDE DEF with
    <3>. QED
      BY <2>1, AddElementChanges
  <2>3. \/ k \in DOMAIN lib.cells /\ with.cells[k] = lib.cells[k]
        \/ k = Len(lib.cells) + 1 /\ with.cells[k].name = name
    <3>1. \A j \in DOMAIN with.cells :
            \/ j \in DOMAIN lib.cells /\ with.cells[j] = lib.cells[j]
            \/ /\ j = Len(lib.cells) + 1
               /\ with.cells[j] = [name |-> name, elements |-> <<>>]
      BY <1>0, <2>1, AddCellKeeps
    <3>2. k \in DOMAIN with.cells
      BY <2>2
    <3>. HIDE DEF with, name
    <3>. QED
      BY <3>1, <3>2
  <2>4. name.number = Len(lib.cells)
    BY DEF OrphanName, PlainName
  <2>. HIDE DEF with, name
  <2>. QED
    BY <1>0, <1>1, <2>2, <2>3, <2>4
<1>. QED
  BY <1>2, <1>3, <1>5, <1>6, <1>7, StepKinds

----------------------------------------------------------------------------
(* Structures hold their elements *)

EndedIn(name) == {k \in Ended : InStructure(k, name)}

\* The elements of a structure, when a record ends none of them.
LEMMA KindsSame ==
  ASSUME stream' = stream, NEW name, EndedIn(name)' = EndedIn(name)
  PROVE  KindsIn(name)' = KindsIn(name)
<1>1. \A k : RtOf(StartOf(k))' = RtOf(StartOf(k))
  BY StreamFixed DEF RtOf
<1>. QED
  BY <1>1 DEF KindsIn, EndedIn

LEMMA KindsRest ==
  ASSUME IInv, Advances, NEW name, StartOf(pos) = 0 \/ ~ InStructure(pos, name)
  PROVE  KindsIn(name)' = KindsIn(name)
<1>1. stream' = stream /\ \A k : InStructure(k, name)' <=> InStructure(k, name)
  BY StreamFixed DEF Advances
<1>2. EndedIn(name)' = EndedIn(name)
  BY <1>1, EndedThen DEF EndedIn
<1>. QED
  BY <1>1, <1>2, KindsSame

\* And when one does.
LEMMA KindsMore ==
  ASSUME IInv, Advances, NEW name, StartOf(pos) # 0, InStructure(pos, name)
  PROVE  /\ AddsPlace(KindsIn(name), KindsIn(name)', pos)
         /\ KindsIn(name)'[pos] = RtOf(StartOf(pos))
<1>1. stream' = stream /\ \A k : InStructure(k, name)' <=> InStructure(k, name)
  BY StreamFixed DEF Advances
<1>2. \A k : RtOf(StartOf(k))' = RtOf(StartOf(k))
  BY <1>1, StreamFixed DEF RtOf
<1>3. /\ Ended' = Ended \cup {pos} /\ IsFiniteSet(Ended) /\ pos \notin Ended
      /\ Ended \in SUBSET Int /\ \A k \in Ended : k < pos
  BY EndedThen
<1>4. EndedIn(name)' = EndedIn(name) \cup {pos}
  BY <1>1, <1>3 DEF EndedIn
<1>5. IsFiniteSet(EndedIn(name))
  BY <1>3, FS_Subset DEF EndedIn
<1>6. KindsIn(name)' = [k \in EndedIn(name) \cup {pos} |-> RtOf(StartOf(k))]
  BY <1>2, <1>4 DEF KindsIn, EndedIn
<1>7. KindsIn(name) = [k \in EndedIn(name) |-> RtOf(StartOf(k))]
  BY DEF KindsIn, EndedIn
<1>8. pos \in Int /\ EndedIn(name) \in SUBSET Int /\ \A k \in EndedIn(name) : k < pos
  <2>1. pos \in Int
    BY StreamsAssumption DEF IInv, TypeOK
  <2>. QED
    BY <1>3, <2>1 DEF EndedIn
<1>. QED
  BY <1>5, <1>6, <1>7, <1>8 DEF AddsPlace

\* A cell that changes only by an element at its end.
LEMMA KindsAppended ==
  ASSUME NEW old \in Cell, NEW new, NEW el \in Element,
         new.elements = Append(old.elements, el)
  PROVE  /\ KindsOf(new) = Append(KindsOf(old), el.kind)
         /\ KindsOf(old) \in Seq({"BOUNDARY", "PATH", "SREF"})
         /\ el.kind \in {"BOUNDARY", "PATH", "SREF"}
<1>1. old.elements \in Seq(Element)
  BY DEF Cell
<1>2. \A e \in Element : e.kind \in {"BOUNDARY", "PATH", "SREF"}
  BY DEF Element
<1>3. /\ new.elements \in Seq(Element) /\ Len(new.elements) = Len(old.elements) + 1
      /\ DOMAIN old.elements = 1 .. Len(old.elements) /\ Len(old.elements) \in Nat
      /\ DOMAIN new.elements = 1 .. Len(old.elements) + 1
      /\ \A i \in 1 .. Len(old.elements) : new.elements[i] = old.elements[i]
      /\ new.elements[Len(old.elements) + 1] = el
  BY <1>1
<1>. DEFINE N == Len(old.elements)
<1>4. /\ KindsOf(old) = [i \in 1 .. N |-> old.elements[i].kind]
      /\ KindsOf(new) = [i \in 1 .. N + 1 |-> new.elements[i].kind]
  BY <1>3 DEF KindsOf
<1>5. KindsOf(old) \in Seq({"BOUNDARY", "PATH", "SREF"})
  BY <1>1, <1>2, <1>3, <1>4
<1>6. Append(KindsOf(old), el.kind)
        = [i \in 1 .. N + 1 |-> IF i = N + 1 THEN el.kind ELSE old.elements[i].kind]
  BY <1>3, <1>4, <1>5
<1>7. KindsOf(new) = Append(KindsOf(old), el.kind)
  BY <1>3, <1>4, <1>6
<1>. QED
  BY <1>2, <1>5, <1>7

\* A cell that no element joins, in a step that ends none of its structure.
LEMMA CellKept ==
  ASSUME IInv, StructuresHoldTheirElements, NamesNoOrphanage, Advances,
         NEW k \in DOMAIN lib.cells, NEW cell, cell = lib.cells[k],
         ~ IsOrphanage(cell.name), StartOf(pos) = 0 \/ ~ InStructure(pos, cell.name)
  PROVE  Lists(KindsOf(cell), KindsIn(cell.name)')
<1>1. Lists(KindsOf(cell), KindsIn(cell.name))
  BY DEF StructuresHoldTheirElements, ToSet
<1>2. KindsIn(cell.name)' = KindsIn(cell.name)
  BY KindsRest
<1>. QED
  BY <1>1, <1>2

\* What the stream has open is what the reader has in hand, the current cell is
\* that of the structure the stream is in, no element ended in a structure
\* without a cell, and no orphan's cell has the name that the next one will ask
\* for.
ContentInv ==
  /\ PendingOpen /\ CurrentStructure /\ StructuresKnown /\ OrphansNumbered

LEMMA HoldStep ==
  IInv /\ ContentInv /\ StructuresHoldTheirElements /\ [Next]_vars
    => StructuresHoldTheirElements'
<1>. SUFFICES ASSUME IInv, PendingOpen, CurrentStructure, StructuresKnown, OrphansNumbered,
                     StructuresHoldTheirElements, [Next]_vars
              PROVE  StructuresHoldTheirElements'
  BY DEF ContentInv
<1>. SUFFICES ASSUME NamesNoOrphanage,
                     NEW cell \in ToSet(lib'.cells), ~ IsOrphanage(cell.name)
              PROVE  Lists(KindsOf(cell), KindsIn(cell.name)')
  <2>1. NamesNoOrphanage' <=> NamesNoOrphanage
    BY StreamKept, StreamFixed
  <2>. QED
    BY <2>1 DEF StructuresHoldTheirElements, ToSet, IsOrphanage
<1>0. /\ IsLibrary(lib) /\ IndexAgrees(lib) /\ Len(lib.cells) \in Nat
      /\ DOMAIN lib.cells = 1 .. Len(lib.cells) /\ lib.cells \in Seq(Cell)
  BY CellSizes DEF IInv, TypeOK, IndexMatchesCells
<1>. PICK k \in DOMAIN lib'.cells : cell = lib'.cells[k]
  BY DEF ToSet
<1>1. ASSUME Advances, StartOf(pos) = 0, lib'.cells = lib.cells
      PROVE  Lists(KindsOf(cell), KindsIn(cell.name)')
  BY <1>1, CellKept
<1>2. CASE Stays
  <2>1. lib' = lib /\ stream' = stream /\ pos' = pos
    BY <1>2 DEF Stays
  <2>2. \A j : InStructure(j, cell.name)' <=> InStructure(j, cell.name)
    BY <2>1, StreamFixed
  <2>3. EndedIn(cell.name)' = EndedIn(cell.name)
    BY <2>1, <2>2, StreamFixed DEF EndedIn, Ended, Consumed
  <2>4. KindsIn(cell.name)' = KindsIn(cell.name)
    BY <2>1, <2>3, KindsSame
  <2>. QED
    BY <2>1, <2>4 DEF StructuresHoldTheirElements, ToSet
<1>3. CASE Quiet
  BY <1>1, <1>3, QuietIs
<1>4. CASE EndStructure \/ StartElement \/ EndNothing
  BY <1>1, <1>4, OtherRecords
<1>5. CASE NameStructure
  <2>1. Advances /\ StartOf(pos) = 0
    BY <1>5, NameStructureIs
  <2>2. CASE ~ Turns(pos)
    BY <1>1, <1>5, <2>1, <2>2, NameStructureIs
  <2>3. CASE Turns(pos)
    <3>. DEFINE name == Rec.data[1]
    <3>1. name \in Name /\ lib' = AddCell(lib, name)
      BY <1>5, <2>3, NameStructureIs
    <3>2. CASE k \in DOMAIN lib.cells /\ cell = lib.cells[k]
      BY <2>1, <3>2, CellKept
    <3>3. CASE name \notin DOMAIN lib.index /\ cell = [name |-> name, elements |-> <<>>]
      <4>1. cell.name \in Name /\ cell.name \notin DOMAIN lib.index
        BY <3>1, <3>3
      <4>2. EndedIn(cell.name) = {}
        BY <4>1 DEF StructuresKnown, EndedIn
      <4>3. DOMAIN KindsIn(cell.name) = {}
        BY <4>2 DEF KindsIn, EndedIn
      <4>4. KindsIn(cell.name)' = KindsIn(cell.name)
        BY <2>1, KindsRest
      <4>5. KindsOf(cell) = <<>>
        BY <3>3 DEF KindsOf
      <4>. QED
        BY <4>3, <4>4, <4>5, ListsNone
    <3>. QED
      BY <1>0, <3>1, <3>2, <3>3, AddCellKeeps
  <2>. QED
    BY <2>2, <2>3
<1>6. CASE EndElement
  <2>1. /\ Advances /\ StartOf(pos) # 0 /\ RtOf(StartOf(pos)) = pending.kind
        /\ pending \in Element /\ curCell \in DOMAIN lib.cells /\ curCell # 0
        /\ lib' = AddElement(lib, curCell, pending)
    BY <1>6, EndElementIs
  <2>2. DOMAIN lib'.cells = DOMAIN lib.cells
    BY <1>0, <2>1, AddElementChanges
  <2>3. CASE k # curCell
    <3>1. cell = lib.cells[k] /\ k \in DOMAIN lib.cells
      BY <1>0, <2>1, <2>2, <2>3, AddElementChanges
    <3>2. cell.name # lib.cells[curCell].name
      BY <1>0, <2>1, <2>3, <3>1 DEF IndexAgrees
    <3>4. cell.name \in Name
      <4>1. cell \in Cell
        BY <1>0, <3>1, CellSizes
      <4>. QED
        BY <4>1 DEF Cell
    <3>3. ~ InStructure(pos, cell.name)
      BY <3>2, <3>4 DEF CurrentStructure
    <3>. QED
      BY <2>1, <3>1, <3>3, CellKept
  <2>4. CASE k = curCell
    <3>. DEFINE old == lib.cells[curCell]
    <3>1. /\ old \in Cell /\ cell.name = old.name
          /\ cell.elements = Append(old.elements, pending)
      BY <1>0, <2>1, <2>4, AddElementChanges
    <3>2. Lists(KindsOf(old), KindsIn(cell.name))
      <4>1. old \in ToSet(lib.cells)
        BY <2>1 DEF ToSet
      <4>2. Lists(KindsOf(old), KindsIn(old.name))
        BY <3>1, <4>1 DEF StructuresHoldTheirElements
      <4>. QED
        BY <3>1, <4>2
    <3>3. InStructure(pos, cell.name)
      <4>1. cell.name \in Name
        BY <3>1 DEF Cell
      <4>. QED
        BY <2>1, <3>1, <4>1 DEF CurrentStructure
    <3>4. /\ AddsPlace(KindsIn(cell.name), KindsIn(cell.name)', pos)
          /\ KindsIn(cell.name)'[pos] = pending.kind
      BY <2>1, <3>3, KindsMore
    <3>5. /\ KindsOf(cell) = Append(KindsOf(old), pending.kind)
          /\ KindsOf(old) \in Seq({"BOUNDARY", "PATH", "SREF"})
          /\ pending.kind \in {"BOUNDARY", "PATH", "SREF"}
      <4>. HIDE DEF old
      <4>. QED
        BY <2>1, <3>1, KindsAppended
    <3>. HIDE DEF old
    <3>. QED
      BY <3>2, <3>4, <3>5, ListsMore
  <2>. QED
    BY <2>3, <2>4
<1>7. CASE EndOrphan
  <2>. DEFINE name == OrphanName(Len(lib.cells))
              with == AddCell(lib, name)
  <2>1. /\ Advances /\ curCell = 0 /\ name \in Name /\ IsLibrary(with)
        /\ Len(with.cells) \in DOMAIN with.cells /\ pending \in Element
        /\ lib' = AddElement(with, Len(with.cells), pending)
    BY <1>7, EndOrphanIs
  <2>2. name \notin DOMAIN lib.index
    <3>1. \A j \in DOMAIN lib.cells : lib.cells[j].name # name
      <4>. SUFFICES ASSUME NEW j \in DOMAIN lib.cells, lib.cells[j].name = name
                    PROVE  FALSE
        OBVIOUS
      <4>1. lib.cells[j].name.number < j
        BY DEF OrphansNumbered, IsOrphanage, OrphanName, PlainName
      <4>2. lib.cells[j].name.number = Len(lib.cells)
        BY DEF OrphanName, PlainName
      <4>. QED
        BY <1>0, <4>1, <4>2
    <3>. QED
      BY <1>0, <3>1 DEF IndexAgrees
  <2>3. /\ Len(with.cells) = Len(lib.cells) + 1
        /\ with.cells[Len(lib.cells) + 1].name = name
    <3>1. with.cells = Append(lib.cells, [name |-> name, elements |-> <<>>])
      BY <1>0, <2>2, AddCellAppends
    <3>2. [name |-> name, elements |-> <<>>] \in Cell
      BY <2>1 DEF Cell
    <3>. QED
      BY <1>0, <3>1, <3>2
  <2>4. IsOrphanage(name)
    BY DEF IsOrphanage, OrphanName, PlainName
  <2>5. k \in DOMAIN with.cells /\ k # Len(with.cells) /\ cell = with.cells[k]
    <3>. HIDE DEF with, name
    <3>1. DOMAIN lib'.cells = DOMAIN with.cells
      BY <2>1, AddElementChanges
    <3>2. lib'.cells[Len(with.cells)].name = with.cells[Len(with.cells)].name
      BY <2>1, AddElementChanges
    <3>3. k # Len(with.cells)
      BY <2>3, <2>4, <3>2
    <3>. QED
      BY <2>1, <3>1, <3>3, AddElementChanges
  <2>6. k \in DOMAIN lib.cells /\ cell = lib.cells[k]
    <3>1. \A j \in DOMAIN with.cells :
            j # Len(lib.cells) + 1 => j \in DOMAIN lib.cells /\ with.cells[j] = lib.cells[j]
      BY <1>0, <2>1, AddCellKeeps
    <3>. HIDE DEF with, name
    <3>. QED
      BY <2>3, <2>5, <3>1
  <2>7. ~ InStructure(pos, cell.name)
    <3>1. cell \in Cell
      BY <1>0, <2>6, CellSizes
    <3>2. cell.name \in Name
      BY <3>1 DEF Cell
    <3>. QED
      BY <2>1, <3>2 DEF CurrentStructure
  <2>. QED
    BY <2>1, <2>6, <2>7, CellKept
<1>. QED
  BY <1>2, <1>3, <1>4, <1>5, <1>6, <1>7, StepKinds

----------------------------------------------------------------------------
(* The invariant of the contents, and its theorems *)

LEMMA InitContent ==
  Init => ContentInv /\ Counted /\ StructuresHoldTheirElements
<1>. SUFFICES ASSUME Init PROVE ContentInv /\ Counted /\ StructuresHoldTheirElements
  OBVIOUS
<1>1. /\ pos = 1 /\ lib.cells = <<>> /\ curCell = 0 /\ pending = NoElement
  BY DEF Init, Fresh, NewLibrary
<1>2. Ended = {} /\ DOMAIN lib.cells = {}
  BY <1>1 DEF Ended, Consumed
<1>3. PendingOpen
  BY <1>1, OpensNone DEF PendingOpen
<1>4. CurrentStructure
  BY <1>1, StructuralNone DEF CurrentStructure, InStructure
<1>5. StructuresKnown /\ OrphansNumbered /\ StructuresHoldTheirElements
  BY <1>2 DEF StructuresKnown, OrphansNumbered, StructuresHoldTheirElements, ToSet
<1>6. Counted
  <2>. DEFINE f == [k \in DOMAIN lib.cells |-> Len(lib.cells[k].elements)]
  <2>1. DOMAIN f = {}
    BY <1>2
  <2>2. ElementCount(lib) = SumFunctionOnSet(f, DOMAIN f)
    BY DEF ElementCount, SumFunction
  <2>. HIDE DEF f
  <2>3. SumFunctionOnSet(f, {}) = 0
    BY FS_EmptySet, SumOfNaturals
  <2>. QED
    BY <1>2, <2>1, <2>2, <2>3, FS_EmptySet DEF Counted
<1>. QED
  BY <1>3, <1>4, <1>5, <1>6 DEF ContentInv

THEOREM ContentInductive == Spec => []ContentInv
<1>1. Init => ContentInv
  BY InitContent
<1>2. IInv /\ ContentInv /\ [Next]_vars => ContentInv'
  BY PendingStep, CurrentStep, KnownStep, NumberedStep DEF ContentInv
<1>. QED
  BY <1>1, <1>2, Inductive, PTL DEF Spec

\* element_count is the number of elements that the stream started and ended,
\* wherever they stood: none is lost, none kept twice, and one that was started
\* and not ended is not there.
THEOREM ElementsCorrect == Spec => []ElementsCounted
<1>1. Init => Counted
  BY InitContent
<1>2. IInv /\ ContentInv /\ Counted /\ [Next]_vars => Counted'
  BY CountStep DEF ContentInv
<1>3. Spec => []Counted
  BY <1>1, <1>2, Inductive, ContentInductive, PTL DEF Spec
<1>4. Counted => ElementsCounted
  BY DEF Counted, ElementsCounted
<1>. QED
  BY <1>3, <1>4, PTL

\* Every structure's cell holds the elements that ended in that structure, in
\* their order, whether the structure stands once in the stream or comes again
\* under a name it had; elements outside any structure join none of them.
THEOREM StructuresCorrect == Spec => []StructuresHoldTheirElements
<1>1. Init => StructuresHoldTheirElements
  BY InitContent
<1>2. IInv /\ ContentInv /\ StructuresHoldTheirElements /\ [Next]_vars
        => StructuresHoldTheirElements'
  BY HoldStep
<1>. QED
  BY <1>1, <1>2, Inductive, ContentInductive, PTL DEF Spec
=============================================================================
