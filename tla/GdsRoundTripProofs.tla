-------------------------- MODULE GdsRoundTripProofs --------------------------
(***************************************************************************)
(* That a library which was written is read back (GdsRoundTrip), whatever  *)
(* its names, cells and elements, and however often.  The invariant tells  *)
(* for every place in the stream what the reader has in hand there: the    *)
(* cells before it, the elements of its cell before it, and the part of    *)
(* its element that was described.                                         *)
(***************************************************************************)
EXTENDS GdsRoundTrip, GdsReaderProofs

----------------------------------------------------------------------------
(* What a library is, and where its records stand *)

\* Nothing is kept of a path or a reference.
IsTold(el) == el.kind # "BOUNDARY" => el = Untold(el.kind)

\* What the calls and the reader make of a library.
Sound(l) ==
  /\ IsLibrary(l) /\ IndexAgrees(l) /\ Len(l.units) = 2
  /\ \A k \in DOMAIN l.cells : \A i \in DOMAIN l.cells[k].elements :
       IsTold(l.cells[k].elements[i])

CellRecords(b)       == [k \in DOMAIN b.cells |-> WriteCell(b.cells[k])]
ElementRecords(cell) == [k \in DOMAIN cell.elements |-> WriteElement(cell.elements[k])]

\* How many records come before those of a cell, and of an element.
CellStart(b, c)       == 4 + Before(CellRecords(b), c)
ElementStart(b, c, e) ==
  CellStart(b, c) + 2 + Before(ElementRecords(b.cells[c]), e)

\* The first cells as they are read back, and the same with the first elements of
\* the next.
WholeCells(b, n) ==
  [k \in 1 .. n |-> [b.cells[k] EXCEPT !.name = ReadBack(@)]]
PartCells(b, c, e) ==
  Append(WholeCells(b, c - 1),
         [ name |-> ReadBack(b.cells[c].name),
           elements |-> SubSeq(b.cells[c].elements, 1, e) ])

\* An element of which j records were read.
Partly(el, j) ==
  IF el.kind = "BOUNDARY"
  THEN Boundary(IF j > 1 THEN el.layer ELSE 0, IF j > 2 THEN el.datatype ELSE 0,
                IF j > 3 THEN el.xy ELSE <<>>)
  ELSE el

----------------------------------------------------------------------------
(* What the reader has in hand at a place of the stream *)

CellsAlone(cells) == [NewLibrary(NoName) EXCEPT !.cells = cells]

ToldApart(b) ==
  \A j, k \in DOMAIN b.cells :
    ReadBack(b.cells[j].name) = ReadBack(b.cells[k].name) => j = k

\* The elements of these cells, wherever they are if names cannot be told apart.
Holds(b, cells) ==
  /\ ElementCount(lib) = ElementCount(CellsAlone(cells))
  /\ ToldApart(b) => lib.cells = cells

Titled(b)     == lib.libName = ReadBack(b.libName) /\ lib.units = b.units
Current(b, c) == curCell \in DOMAIN lib.cells /\ (ToldApart(b) => curCell = c)

AtHead(b) ==
  /\ pos \in 1 .. 4 /\ lib.cells = <<>> /\ pending = NoElement
  /\ pos = 4 => lib.libName = ReadBack(b.libName)

AtCell(b, c) ==
  /\ pos = CellStart(b, c) + 1 /\ pending = NoElement
  /\ Titled(b) /\ Holds(b, WholeCells(b, c - 1))

InCell(b, c) ==
  /\ pos = CellStart(b, c) + 2 /\ pending = NoElement
  /\ Titled(b) /\ Holds(b, WholeCells(b, c - 1))

AtElement(b, c, e) ==
  /\ pos = ElementStart(b, c, e) + 1 /\ pending = NoElement
  /\ Titled(b) /\ Current(b, c) /\ Holds(b, PartCells(b, c, e - 1))

InElement(b, c, e, j) ==
  /\ pos = ElementStart(b, c, e) + 1 + j
  /\ pending = Partly(b.cells[c].elements[e], j)
  /\ Titled(b) /\ Current(b, c) /\ Holds(b, PartCells(b, c, e - 1))

Place(b) ==
  \/ AtHead(b)
  \/ \E c \in 1 .. Len(b.cells) + 1 : AtCell(b, c)
  \/ \E c \in 1 .. Len(b.cells) :
       \/ InCell(b, c)
       \/ \E e \in 1 .. Len(b.cells[c].elements) + 1 : AtElement(b, c, e)
       \/ \E e \in 1 .. Len(b.cells[c].elements) :
            \E j \in 1 .. Len(WriteElement(b.cells[c].elements[e])) - 1 :
              InElement(b, c, e, j)

\* What a read that succeeds has made.
Finished(b) ==
  /\ whole => Titled(b) /\ Holds(b, WholeCells(b, Len(b.cells)))
  /\ ToldApart(b) => IsCutOf(lib.cells, WholeCells(b, Len(b.cells)))

\* The stream is what was written of b, or the beginning of it.
Streamed(b) ==
  \E n \in 0 .. Len(Write(b)) :
    /\ stream.records = SubSeq(Write(b), 1, n)
    /\ whole => n = Len(Write(b)) /\ stream.tail = "none"

InHand(b) ==
  /\ Sound(lib)
  /\ status = "reading" => Place(b)
  /\ status = "ok" => Finished(b)
  /\ whole => status \in {"reading", "ok"}

Rereading(b) == Streamed(b) /\ InHand(b)

RTInv ==
  /\ Sound(built)
  /\ phase = "first" => IInv /\ Sound(lib) /\ IsTold(pending)
  /\ phase = "again" => \E b : built = b /\ Rereading(b)

----------------------------------------------------------------------------
(* What is written, record by record *)

Written == [rt : RecordTypes, fit : BOOLEAN, data : Seq(Name) \cup Seq(Values)]

\* What is read back is a name, and reads back the same but for its bytes.
LEMMA ReadBackName ==
  ASSUME NEW name \in Name
  PROVE  ReadBack(name) \in Name
BY DEF ReadBack, Name

\* The empty name is one.
LEMMA NoNameIsName == NoName \in Name
BY DEF NoName, PlainName, Name

\* The records of an element.
LEMMA ElementWritten ==
  ASSUME NEW el \in Element
  PROVE  /\ WriteElement(el) \in Seq(Written)
         /\ el.kind = "SREF" =>
              /\ Len(WriteElement(el)) = 4
              /\ WriteElement(el)[1] = Marker("SREF")
              /\ WriteElement(el)[2] = Text("STRNAME", NoName)
              /\ WriteElement(el)[3] = Record("XY", <<0>>)
              /\ WriteElement(el)[4] = Marker("ENDEL")
         /\ el.kind # "SREF" =>
              /\ Len(WriteElement(el)) = 5
              /\ WriteElement(el)[1] = Marker(el.kind)
              /\ WriteElement(el)[2] = Record("LAYER", <<el.layer>>)
              /\ WriteElement(el)[3] = Record("DATATYPE", <<el.datatype>>)
              /\ WriteElement(el)[4] = Record("XY", IF el.kind = "PATH" THEN <<0>> ELSE el.xy)
              /\ WriteElement(el)[5] = Marker("ENDEL")
<1>1. /\ el.kind \in {"BOUNDARY", "PATH", "SREF"} /\ el.layer \in Values
      /\ el.datatype \in Values /\ el.xy \in Seq(Values) /\ <<0>> \in Seq(Values)
      /\ <<el.layer>> \in Seq(Values) /\ <<el.datatype>> \in Seq(Values)
      /\ <<>> \in Seq(Values) /\ <<ReadBack(NoName)>> \in Seq(Name)
  BY ValuesAssumption, ReadBackName, NoNameIsName DEF Element
<1>2. \A rt \in RecordTypes : \A data \in Seq(Name) \cup Seq(Values) :
        Record(rt, data) \in Written
  BY DEF Record, Written
<1>3. {"BOUNDARY", "PATH", "SREF", "STRNAME", "XY", "ENDEL", "LAYER", "DATATYPE"}
        \subseteq RecordTypes
  BY DEF RecordTypes, Starts
<1>4. \A rt \in {"BOUNDARY", "PATH", "SREF", "STRNAME", "XY", "ENDEL", "LAYER", "DATATYPE"} :
        Marker(rt) \in Written
  BY <1>1, <1>2, <1>3 DEF Marker
<1>5. Text("STRNAME", NoName) \in Written
  BY <1>1, <1>2, <1>3 DEF Text
<1>6. CASE el.kind = "SREF"
  BY <1>1, <1>2, <1>3, <1>4, <1>5, <1>6 DEF WriteElement
<1>7. CASE el.kind # "SREF"
  <2>. DEFINE xy == IF el.kind = "PATH" THEN <<0>> ELSE el.xy
  <2>1. xy \in Seq(Values)
    BY <1>1
  <2>. HIDE DEF xy
  <2>2. /\ Marker(el.kind) \in Written /\ Record("LAYER", <<el.layer>>) \in Written
        /\ Record("DATATYPE", <<el.datatype>>) \in Written
        /\ Record("XY", xy) \in Written /\ Marker("ENDEL") \in Written
    BY <1>1, <1>2, <1>3, <1>4, <2>1
  <2>3. WriteElement(el) = << Marker(el.kind), Record("LAYER", <<el.layer>>),
          Record("DATATYPE", <<el.datatype>>), Record("XY", xy), Marker("ENDEL") >>
    BY <1>7 DEF WriteElement, xy
  <2>. QED
    BY <1>7, <2>2, <2>3 DEF xy
<1>. QED
  BY <1>6, <1>7

\* The records of a cell.
LEMMA CellWritten ==
  ASSUME NEW cell \in Cell, NEW recs, recs = ElementRecords(cell)
  PROVE  /\ recs \in Seq(Seq(Written)) /\ Len(recs) = Len(cell.elements)
         /\ \A e \in 1 .. Len(cell.elements) : recs[e] = WriteElement(cell.elements[e])
         /\ WriteCell(cell) \in Seq(Written)
         /\ Before(recs, Len(recs) + 1) \in Nat
         /\ Len(WriteCell(cell)) = Before(recs, Len(recs) + 1) + 3
         /\ WriteCell(cell)[1] = Marker("BGNSTR")
         /\ WriteCell(cell)[2] = Text("STRNAME", cell.name)
         /\ \A i \in 1 .. Before(recs, Len(recs) + 1) :
              WriteCell(cell)[2 + i] = FlattenSeq(recs)[i]
         /\ WriteCell(cell)[Len(WriteCell(cell))] = Marker("ENDSTR")
<1>. DEFINE flat == FlattenSeq(recs)
            head == << Marker("BGNSTR"), Text("STRNAME", cell.name) >>
            end == << Marker("ENDSTR") >>
<1>1. cell.elements \in Seq(Element) /\ cell.name \in Name /\ Len(cell.elements) \in Nat
  BY DEF Cell
<1>2. /\ recs \in Seq(Seq(Written)) /\ Len(recs) = Len(cell.elements)
      /\ \A e \in 1 .. Len(cell.elements) : recs[e] = WriteElement(cell.elements[e])
  <2>1. \A e \in 1 .. Len(cell.elements) : WriteElement(cell.elements[e]) \in Seq(Written)
    <3>1. \A e \in 1 .. Len(cell.elements) : cell.elements[e] \in Element
      BY <1>1
    <3>. QED
      BY <3>1, ElementWritten
  <2>. QED
    BY <1>1, <2>1 DEF ElementRecords
<1>3. flat \in Seq(Written)
  <2>1. <<>> \in Seq(Written)
    OBVIOUS
  <2>. QED
    BY <1>2, <2>1, FlattenAppend
<1>4. Before(recs, Len(recs) + 1) = Len(flat)
  BY <1>2, FlattenPlaces
<1>5. head \in Seq(Written) /\ end \in Seq(Written)
  <2>1. <<>> \in Seq(Values) /\ <<ReadBack(cell.name)>> \in Seq(Name)
    BY <1>1, ReadBackName
  <2>2. Marker("BGNSTR") \in Written /\ Text("STRNAME", cell.name) \in Written
        /\ Marker("ENDSTR") \in Written
    BY <2>1 DEF Marker, Text, Record, Written, RecordTypes
  <2>. QED
    BY <2>2
<1>6. WriteCell(cell) = head \o flat \o end
  BY <1>2 DEF WriteCell, ElementRecords
<1>7. /\ head[1] = Marker("BGNSTR") /\ head[2] = Text("STRNAME", cell.name)
      /\ end[1] = Marker("ENDSTR") /\ Len(head) = 2 /\ Len(end) = 1
  OBVIOUS
<1>. HIDE DEF flat, head, end
<1>8. /\ WriteCell(cell) \in Seq(Written) /\ Len(flat) \in Nat
      /\ Len(WriteCell(cell)) = Len(flat) + 3
      /\ WriteCell(cell)[1] = head[1] /\ WriteCell(cell)[2] = head[2]
      /\ \A i \in 1 .. Len(flat) : WriteCell(cell)[2 + i] = flat[i]
      /\ WriteCell(cell)[Len(flat) + 3] = end[1]
  <2>1. /\ Len(flat) \in Nat /\ head \o flat \o end \in Seq(Written)
        /\ Len(head \o flat \o end) = Len(head) + Len(flat) + Len(end)
        /\ \A i \in 1 .. Len(head) : (head \o flat \o end)[i] = head[i]
        /\ \A i \in 1 .. Len(flat) : (head \o flat \o end)[Len(head) + i] = flat[i]
        /\ \A i \in 1 .. Len(end) : (head \o flat \o end)[Len(head) + Len(flat) + i] = end[i]
    BY <1>3, <1>5, Between
  <2>2. Len(flat) + 3 = 2 + Len(flat) + 1
    BY <2>1
  <2>. QED
    BY <1>6, <1>7, <2>1, <2>2
<1>. QED
  BY <1>2, <1>4, <1>7, <1>8 DEF flat

\* The records of a library.
LEMMA LibraryWritten ==
  ASSUME NEW b, IsLibrary(b)
  PROVE  /\ Len(b.cells) \in Nat /\ Write(b) \in Seq(Written) /\ Len(Write(b)) \in Nat
         /\ Write(b)[1] = Marker("HEADER") /\ Write(b)[2] = Marker("BGNLIB")
         /\ Write(b)[3] = Text("LIBNAME", b.libName) /\ Write(b)[4] = Record("UNITS", b.units)
         /\ CellStart(b, 1) = 4 /\ CellStart(b, Len(b.cells) + 1) \in Nat
         /\ CellStart(b, Len(b.cells) + 1) >= 4
         /\ Len(Write(b)) = CellStart(b, Len(b.cells) + 1) + 1
         /\ Write(b)[Len(Write(b))] = Marker("ENDLIB")
         /\ Len(Write(b)) >= 5
         /\ CellRecords(b) \in Seq(Seq(Written)) /\ Len(CellRecords(b)) = Len(b.cells)
         /\ \A i \in 1 .. Len(FlattenSeq(CellRecords(b))) :
              /\ 4 + i \in 1 .. Len(Write(b))
              /\ Write(b)[4 + i] = FlattenSeq(CellRecords(b))[i]
<1>. DEFINE N == Len(b.cells)
            w == Write(b)
            recs == CellRecords(b)
            flat == FlattenSeq(recs)
            head == << Marker("HEADER"), Marker("BGNLIB"), Text("LIBNAME", b.libName),
                       Record("UNITS", b.units) >>
            end == << Marker("ENDLIB") >>
<1>1. /\ b.cells \in Seq(Cell) /\ b.libName \in Name /\ b.units \in Seq(Values)
      /\ N \in Nat /\ DOMAIN b.cells = 1 .. N
  BY DEF IsLibrary
<1>2. recs \in Seq(Seq(Written)) /\ Len(recs) = N
      /\ \A c \in 1 .. N : recs[c] = WriteCell(b.cells[c])
  <2>1. \A c \in 1 .. N : WriteCell(b.cells[c]) \in Seq(Written)
    <3>1. \A c \in 1 .. N : b.cells[c] \in Cell
      BY <1>1
    <3>. QED
      BY <3>1, CellWritten
  <2>. QED
    BY <1>1, <2>1 DEF CellRecords
<1>3. flat \in Seq(Written)
  <2>1. <<>> \in Seq(Written)
    OBVIOUS
  <2>. QED
    BY <1>2, <2>1, FlattenAppend
<1>4. head \in Seq(Written) /\ end \in Seq(Written)
  <2>1. <<>> \in Seq(Values) /\ <<ReadBack(b.libName)>> \in Seq(Name)
    BY <1>1, ReadBackName
  <2>2. /\ Marker("HEADER") \in Written /\ Marker("BGNLIB") \in Written
        /\ Text("LIBNAME", b.libName) \in Written /\ Record("UNITS", b.units) \in Written
        /\ Marker("ENDLIB") \in Written
    BY <1>1, <2>1 DEF Marker, Text, Record, Written, RecordTypes
  <2>. QED
    BY <2>2
<1>5. w = head \o flat \o end
  BY <1>1 DEF Write, CellRecords
<1>6. /\ head[1] = Marker("HEADER") /\ head[2] = Marker("BGNLIB")
      /\ head[3] = Text("LIBNAME", b.libName) /\ head[4] = Record("UNITS", b.units)
      /\ end[1] = Marker("ENDLIB") /\ Len(head) = 4 /\ Len(end) = 1
  OBVIOUS
<1>. HIDE DEF N, w, recs, flat, head, end
<1>7. /\ Len(flat) \in Nat /\ w \in Seq(Written) /\ Len(w) = 4 + Len(flat) + 1
      /\ \A i \in 1 .. 4 : w[i] = head[i]
      /\ \A i \in 1 .. Len(flat) : w[4 + i] = flat[i]
      /\ \A i \in 1 .. 1 : w[4 + Len(flat) + i] = end[i]
  <2>1. /\ Len(flat) \in Nat /\ head \o flat \o end \in Seq(Written)
        /\ Len(head \o flat \o end) = Len(head) + Len(flat) + Len(end)
        /\ \A i \in 1 .. Len(head) : (head \o flat \o end)[i] = head[i]
        /\ \A i \in 1 .. Len(flat) : (head \o flat \o end)[Len(head) + i] = flat[i]
        /\ \A i \in 1 .. Len(end) : (head \o flat \o end)[Len(head) + Len(flat) + i] = end[i]
    BY <1>3, <1>4, Between, SMTT(20)
  <2>. QED
    BY <1>5, <1>6, <2>1, SMTT(30)
<1>8. /\ Before(recs, 1) = 0 /\ Before(recs, N + 1) = Len(flat)
  BY <1>2, FlattenPlaces DEF flat
<1>9. \A c : CellStart(b, c) = 4 + Before(recs, c)
  BY DEF CellStart, recs
<1>10. CellStart(b, 1) = 4 /\ CellStart(b, N + 1) = 4 + Len(flat)
  BY <1>8, <1>9
<1>11. Len(w) = CellStart(b, N + 1) + 1 /\ w[Len(w)] = Marker("ENDLIB")
       /\ CellStart(b, N + 1) \in Nat /\ Len(w) \in Nat /\ Len(w) >= 5
       /\ CellStart(b, N + 1) >= 4
  BY <1>6, <1>7, <1>10
<1>12. \A i \in 1 .. Len(flat) : 4 + i \in 1 .. Len(w) /\ w[4 + i] = flat[i]
  BY <1>7
<1>. QED
  BY <1>1, <1>2, <1>6, <1>7, <1>10, <1>11, <1>12 DEF N, w, flat, recs

\* Where the records of a cell stand.
LEMMA CellPlaces ==
  ASSUME NEW b, IsLibrary(b), NEW c \in 1 .. Len(b.cells)
  PROVE  /\ c \in Nat /\ b.cells[c] \in Cell /\ CellStart(b, c) \in Nat /\ CellStart(b, c) >= 4
         /\ CellStart(b, c + 1) = CellStart(b, c) + Len(WriteCell(b.cells[c]))
         /\ \A i \in 1 .. Len(WriteCell(b.cells[c])) :
              /\ CellStart(b, c) + i \in 1 .. Len(Write(b))
              /\ Write(b)[CellStart(b, c) + i] = WriteCell(b.cells[c])[i]
<1>. DEFINE recs == CellRecords(b)
            flat == FlattenSeq(recs)
            w == Write(b)
<1>1. b.cells \in Seq(Cell) /\ c \in Nat /\ b.cells[c] \in Cell /\ c \in DOMAIN b.cells
  BY DEF IsLibrary
<1>2. /\ recs \in Seq(Seq(Written)) /\ Len(recs) = Len(b.cells)
      /\ \A i \in 1 .. Len(flat) : 4 + i \in 1 .. Len(w) /\ w[4 + i] = flat[i]
  BY LibraryWritten
<1>3. recs[c] = WriteCell(b.cells[c])
  BY <1>1 DEF CellRecords
<1>4. /\ Before(recs, c) \in Nat /\ Before(recs, c + 1) = Before(recs, c) + Len(recs[c])
      /\ \A i \in 1 .. Len(recs[c]) :
           /\ Before(recs, c) + i \in 1 .. Len(flat)
           /\ flat[Before(recs, c) + i] = recs[c][i]
  <2>. HIDE DEF recs
  <2>1. c \in 1 .. Len(recs)
    BY <1>2
  <2>. QED
    BY <1>2, <2>1, FlattenPlaces
<1>5. CellStart(b, c) = 4 + Before(recs, c) /\ CellStart(b, c + 1) = 4 + Before(recs, c + 1)
  BY DEF CellStart
<1>. HIDE DEF recs, flat, w
<1>6. Len(recs[c]) \in Nat
  <2>1. recs[c] \in Seq(Written)
    BY <1>2
  <2>. QED
    BY <2>1
<1>7. CellStart(b, c) \in Nat /\ CellStart(b, c) >= 4
      /\ CellStart(b, c + 1) = CellStart(b, c) + Len(recs[c])
  <2>1. Before(recs, c) \in Nat /\ Before(recs, c + 1) = Before(recs, c) + Len(recs[c])
    BY <1>4
  <2>. QED
    BY <1>5, <1>6, <2>1
<1>8. ASSUME NEW i \in 1 .. Len(recs[c])
      PROVE  CellStart(b, c) + i \in 1 .. Len(w) /\ w[CellStart(b, c) + i] = recs[c][i]
  <2>1. Before(recs, c) + i \in 1 .. Len(flat) /\ flat[Before(recs, c) + i] = recs[c][i]
    BY <1>4
  <2>2. CellStart(b, c) + i = 4 + (Before(recs, c) + i)
    BY <1>4, <1>5, <1>6
  <2>. QED
    BY <1>2, <2>1, <2>2
<1>. QED
  BY <1>1, <1>3, <1>7, <1>8 DEF w

\* What stands at each place of a cell's records.
LEMMA Places ==
  ASSUME NEW b, IsLibrary(b), NEW c \in 1 .. Len(b.cells)
  PROVE  /\ c \in Nat /\ b.cells[c] \in Cell /\ Len(b.cells[c].elements) \in Nat
         /\ CellStart(b, c) \in Nat /\ CellStart(b, c) >= 4
         /\ CellStart(b, c) + 1 \in 1 .. Len(Write(b))
         /\ CellStart(b, c) + 2 \in 1 .. Len(Write(b))
         /\ Write(b)[CellStart(b, c) + 1] = Marker("BGNSTR")
         /\ Write(b)[CellStart(b, c) + 2] = Text("STRNAME", b.cells[c].name)
         /\ ElementStart(b, c, 1) = CellStart(b, c) + 2
         /\ ElementStart(b, c, Len(b.cells[c].elements) + 1) \in Nat
         /\ ElementStart(b, c, Len(b.cells[c].elements) + 1) >= 4
         /\ CellStart(b, c + 1) = ElementStart(b, c, Len(b.cells[c].elements) + 1) + 1
         /\ CellStart(b, c + 1) \in 1 .. Len(Write(b))
         /\ Write(b)[CellStart(b, c + 1)] = Marker("ENDSTR")
<1>. DEFINE cell == b.cells[c]
            recs == ElementRecords(cell)
            cw == WriteCell(cell)
            at == CellStart(b, c)
<1>1. /\ cell \in Cell /\ at \in Nat /\ at >= 4 /\ c \in Nat /\ CellStart(b, c + 1) = at + Len(cw)
      /\ \A i \in 1 .. Len(cw) : at + i \in 1 .. Len(Write(b)) /\ Write(b)[at + i] = cw[i]
  BY CellPlaces
<1>2. cell.elements \in Seq(Element) /\ Len(cell.elements) \in Nat
  <2>1. cell.elements \in Seq(Element)
    BY <1>1 DEF Cell
  <2>. QED
    BY <2>1
<1>3. \A e : ElementStart(b, c, e) = at + 2 + Before(recs, e)
  BY DEF ElementStart
<1>. HIDE DEF cell, recs, cw, at
<1>4. /\ recs \in Seq(Seq(Written)) /\ Len(recs) = Len(cell.elements)
      /\ Before(recs, Len(cell.elements) + 1) \in Nat
      /\ Len(cw) = Before(recs, Len(cell.elements) + 1) + 3
      /\ cw[1] = Marker("BGNSTR") /\ cw[2] = Text("STRNAME", cell.name)
      /\ cw[Len(cw)] = Marker("ENDSTR")
  <2>1. recs = ElementRecords(cell)
    BY DEF recs
  <2>. QED
    BY <1>1, <2>1, CellWritten DEF cw
<1>5. Before(recs, 1) = 0
  BY <1>4, FlattenPlaces
<1>6. 1 \in 1 .. Len(cw) /\ 2 \in 1 .. Len(cw) /\ Len(cw) \in 1 .. Len(cw)
  BY <1>4
<1>7. /\ at + 1 \in 1 .. Len(Write(b)) /\ at + 2 \in 1 .. Len(Write(b))
      /\ at + Len(cw) \in 1 .. Len(Write(b))
      /\ Write(b)[at + 1] = cw[1] /\ Write(b)[at + 2] = cw[2]
      /\ Write(b)[at + Len(cw)] = cw[Len(cw)]
  BY <1>1, <1>6
<1>8. /\ ElementStart(b, c, 1) = at + 2
      /\ ElementStart(b, c, Len(cell.elements) + 1) \in Nat
      /\ ElementStart(b, c, Len(cell.elements) + 1) >= 4
      /\ CellStart(b, c + 1) = ElementStart(b, c, Len(cell.elements) + 1) + 1
  <2>1. /\ Len(cw) = Before(recs, Len(cell.elements) + 1) + 3 /\ Before(recs, 1) = 0
        /\ Before(recs, Len(cell.elements) + 1) \in Nat /\ at \in Nat /\ at >= 4
        /\ CellStart(b, c + 1) = at + Len(cw)
    BY <1>1, <1>4, <1>5
  <2>2. /\ ElementStart(b, c, 1) = at + 2 + Before(recs, 1)
        /\ ElementStart(b, c, Len(cell.elements) + 1)
             = at + 2 + Before(recs, Len(cell.elements) + 1)
    BY <1>3
  <2>. QED
    BY <2>1, <2>2
<1>. QED
  BY <1>1, <1>2, <1>4, <1>7, <1>8 DEF cell, at

\* These records come after so many.
StandsAt(b, at, records) ==
  \A i \in 1 .. Len(records) :
    at + i \in 1 .. Len(Write(b)) /\ Write(b)[at + i] = records[i]

\* And at those of an element's.
LEMMA ElementPlaces ==
  ASSUME NEW b, IsLibrary(b), NEW c \in 1 .. Len(b.cells),
         NEW e \in 1 .. Len(b.cells[c].elements),
         NEW el, el = b.cells[c].elements[e]
  PROVE  /\ el \in Element /\ ElementStart(b, c, e) \in Nat /\ ElementStart(b, c, e) >= 4
         /\ ElementStart(b, c, e + 1) = ElementStart(b, c, e) + Len(WriteElement(el))
         /\ StandsAt(b, ElementStart(b, c, e), WriteElement(el))
<1>. DEFINE cell == b.cells[c]
            recs == ElementRecords(cell)
            flat == FlattenSeq(recs)
            cw == WriteCell(cell)
            at == CellStart(b, c)
            M == Len(cell.elements)
<1>1. /\ cell \in Cell /\ at \in Nat /\ at >= 4
      /\ \A i \in 1 .. Len(cw) : at + i \in 1 .. Len(Write(b)) /\ Write(b)[at + i] = cw[i]
  BY CellPlaces
<1>2. el \in Element /\ M \in Nat /\ e \in 1 .. M
  <2>1. cell.elements \in Seq(Element)
    BY <1>1 DEF Cell
  <2>. QED
    BY <2>1
<1>3. \A d : ElementStart(b, c, d) = at + 2 + Before(recs, d)
  BY DEF ElementStart
<1>. HIDE DEF cell, recs, flat, cw, at
<1>4. /\ recs \in Seq(Seq(Written)) /\ Len(recs) = M /\ recs[e] = WriteElement(el)
      /\ Len(cw) = Before(recs, M + 1) + 3
      /\ \A i \in 1 .. Before(recs, M + 1) : cw[2 + i] = flat[i]
  <2>1. recs = ElementRecords(cell) /\ el = cell.elements[e]
    BY DEF recs, cell
  <2>. QED
    <3>1. /\ recs \in Seq(Seq(Written)) /\ Len(recs) = Len(cell.elements)
          /\ \A d \in 1 .. Len(cell.elements) : recs[d] = WriteElement(cell.elements[d])
      BY <1>1, <2>1, CellWritten
    <3>2. /\ Len(WriteCell(cell)) = Before(recs, Len(recs) + 1) + 3
          /\ \A i \in 1 .. Before(recs, Len(recs) + 1) :
               WriteCell(cell)[2 + i] = FlattenSeq(recs)[i]
      BY <1>1, <2>1, CellWritten
    <3>. QED
      BY <1>2, <2>1, <3>1, <3>2 DEF cw, flat
<1>. HIDE DEF M
<1>5. /\ Before(recs, M + 1) = Len(flat) /\ Before(recs, e) \in Nat
      /\ Before(recs, e + 1) = Before(recs, e) + Len(recs[e])
      /\ \A i \in 1 .. Len(recs[e]) :
           /\ Before(recs, e) + i \in 1 .. Len(flat)
           /\ flat[Before(recs, e) + i] = recs[e][i]
  <2>1. recs \in Seq(Seq(Written)) /\ Len(recs) = M
    BY <1>4
  <2>. QED
    BY <1>2, <2>1, FlattenPlaces DEF flat
<1>6. recs[e] \in Seq(Written) /\ Len(recs[e]) \in Nat
  <2>1. recs[e] \in Seq(Written)
    BY <1>2, <1>4
  <2>. QED
    BY <2>1
<1>7. /\ ElementStart(b, c, e) = at + 2 + Before(recs, e)
      /\ ElementStart(b, c, e) \in Nat /\ ElementStart(b, c, e) >= 4
      /\ ElementStart(b, c, e + 1) = ElementStart(b, c, e) + Len(recs[e])
  <2>1. /\ Before(recs, e) \in Nat /\ Before(recs, e + 1) = Before(recs, e) + Len(recs[e])
        /\ at \in Nat /\ at >= 4
    BY <1>1, <1>5
  <2>2. /\ ElementStart(b, c, e) = at + 2 + Before(recs, e)
        /\ ElementStart(b, c, e + 1) = at + 2 + Before(recs, e + 1)
    BY <1>3
  <2>3. Len(recs[e]) \in Nat
    BY <1>6
  <2>. DEFINE x == Before(recs, e)
              z == Before(recs, e + 1)
              from == ElementStart(b, c, e)
              to == ElementStart(b, c, e + 1)
              n == Len(recs[e])
  <2>4. /\ x \in Nat /\ z = x + n /\ n \in Nat
        /\ from = at + 2 + x /\ to = at + 2 + z /\ at \in Nat /\ at >= 4
    BY <2>1, <2>2, <2>3
  <2>. HIDE DEF x, z, from, to, n
  <2>5. from = at + 2 + x /\ from \in Nat /\ from >= 4 /\ to = from + n
    BY <2>4
  <2>. QED
    BY <2>5 DEF x, from, to, n
<1>8. ASSUME NEW i \in 1 .. Len(recs[e])
      PROVE  /\ ElementStart(b, c, e) + i \in 1 .. Len(Write(b))
             /\ Write(b)[ElementStart(b, c, e) + i] = recs[e][i]
  <2>. DEFINE k == Before(recs, e) + i
  <2>1. k \in 1 .. Len(flat) /\ flat[k] = recs[e][i]
    BY <1>5
  <2>2. k \in Nat /\ ElementStart(b, c, e) + i = at + (2 + k) /\ Before(recs, e) \in Nat
    <3>1. at \in Nat /\ Before(recs, e) \in Nat /\ Len(recs[e]) \in Nat
          /\ ElementStart(b, c, e) = at + 2 + Before(recs, e)
      BY <1>1, <1>5, <1>6, <1>7
    <3>. QED
      BY <3>1, SMTT(30)
  <2>. HIDE DEF k
  <2>3. 2 + k \in 1 .. Len(cw)
    <3>1. Len(cw) = Len(flat) + 3 /\ k \in 1 .. Len(flat)
      BY <1>4, <1>5, <2>1
    <3>. QED
      BY <2>2, <3>1
  <2>4. cw[2 + k] = flat[k]
    BY <1>4, <1>5, <2>1
  <2>. QED
    BY <1>1, <2>1, <2>2, <2>3, <2>4
<1>. QED
  BY <1>2, <1>4, <1>7, <1>8 DEF StandsAt

----------------------------------------------------------------------------
(* The cells that were read so far *)

\* A whole cell differs from what was written in the bytes of its name at most.
LEMMA WholeCellsAre ==
  ASSUME NEW b, IsLibrary(b), NEW n \in 0 .. Len(b.cells)
  PROVE  /\ WholeCells(b, n) \in Seq(Cell) /\ Len(WholeCells(b, n)) = n
         /\ DOMAIN WholeCells(b, n) = 1 .. n
         /\ \A k \in 1 .. n :
              /\ WholeCells(b, n)[k] \in Cell
              /\ WholeCells(b, n)[k]
                   = [name |-> ReadBack(b.cells[k].name), elements |-> b.cells[k].elements]
<1>1. b.cells \in Seq(Cell) /\ Len(b.cells) \in Nat /\ \A k \in 1 .. n : b.cells[k] \in Cell
  <2>1. b.cells \in Seq(Cell)
    BY DEF IsLibrary
  <2>. QED
    BY <2>1
<1>2. ASSUME NEW k \in 1 .. n
      PROVE  /\ [b.cells[k] EXCEPT !.name = ReadBack(@)]
                  = [name |-> ReadBack(b.cells[k].name), elements |-> b.cells[k].elements]
             /\ [b.cells[k] EXCEPT !.name = ReadBack(@)] \in Cell
  <2>1. /\ b.cells[k] \in [name : Name, elements : Seq(Element)]
        /\ ReadBack(b.cells[k].name) \in Name
    BY <1>1, ReadBackName DEF Cell
  <2>. QED
    BY <2>1 DEF Cell
<1>3. \A k \in 1 .. n : WholeCells(b, n)[k] = [b.cells[k] EXCEPT !.name = ReadBack(@)]
  BY DEF WholeCells
<1>4. WholeCells(b, n) \in [1 .. n -> Cell]
  BY <1>2 DEF WholeCells
<1>5. WholeCells(b, n) \in Seq(Cell) /\ Len(WholeCells(b, n)) = n
      /\ DOMAIN WholeCells(b, n) = 1 .. n
  BY <1>1, <1>4
<1>. QED
  BY <1>2, <1>3, <1>5

\* A cell begins without elements, takes them one by one, and ends with all.
LEMMA PartCellsAre ==
  ASSUME NEW b, IsLibrary(b), NEW c \in 1 .. Len(b.cells),
         NEW e \in 0 .. Len(b.cells[c].elements)
  PROVE  /\ PartCells(b, c, e) \in Seq(Cell) /\ Len(PartCells(b, c, e)) = c
         /\ \A k \in 1 .. c - 1 : PartCells(b, c, e)[k] = WholeCells(b, c)[k]
         /\ PartCells(b, c, e)[c]
              = [ name |-> ReadBack(b.cells[c].name),
                  elements |-> SubSeq(b.cells[c].elements, 1, e) ]
<1>. DEFINE part == [ name |-> ReadBack(b.cells[c].name),
                      elements |-> SubSeq(b.cells[c].elements, 1, e) ]
            before == WholeCells(b, c - 1)
<1>1. c - 1 \in 0 .. Len(b.cells) /\ c \in 0 .. Len(b.cells) /\ c \in Nat
  BY LibraryWritten
<1>2. /\ before \in Seq(Cell) /\ Len(before) = c - 1
      /\ \A k \in 1 .. c - 1 : before[k] = WholeCells(b, c)[k]
  <2>1. /\ before \in Seq(Cell) /\ Len(before) = c - 1
        /\ \A k \in 1 .. c - 1 :
             before[k] = [name |-> ReadBack(b.cells[k].name), elements |-> b.cells[k].elements]
    BY <1>1, WholeCellsAre
  <2>2. \A k \in 1 .. c :
          WholeCells(b, c)[k]
            = [name |-> ReadBack(b.cells[k].name), elements |-> b.cells[k].elements]
    BY <1>1, WholeCellsAre
  <2>3. \A k \in 1 .. c - 1 : k \in 1 .. c
    BY <1>1
  <2>. QED
    BY <2>1, <2>2, <2>3
<1>3. part \in Cell
  <2>1. b.cells[c] \in Cell
    BY Places
  <2>2. b.cells[c].elements \in Seq(Element) /\ ReadBack(b.cells[c].name) \in Name
    BY <2>1, ReadBackName DEF Cell
  <2>3. SubSeq(b.cells[c].elements, 1, e) \in Seq(Element)
    BY <2>2
  <2>. QED
    BY <2>2, <2>3 DEF Cell
<1>4. PartCells(b, c, e) = Append(before, part)
  BY DEF PartCells
<1>. HIDE DEF part, before
<1>5. /\ PartCells(b, c, e) \in Seq(Cell) /\ Len(PartCells(b, c, e)) = c
      /\ \A k \in 1 .. c - 1 : PartCells(b, c, e)[k] = before[k]
      /\ PartCells(b, c, e)[c] = part
  BY <1>1, <1>2, <1>3, <1>4
<1>. QED
  BY <1>2, <1>5 DEF part

\* At either end a cell in parts is a cell without elements, and a whole one.
LEMMA PartCellsEnds ==
  ASSUME NEW b, IsLibrary(b), NEW c \in 1 .. Len(b.cells)
  PROVE  /\ PartCells(b, c, 0)
              = Append(WholeCells(b, c - 1),
                       [name |-> ReadBack(b.cells[c].name), elements |-> <<>>])
         /\ PartCells(b, c, Len(b.cells[c].elements)) = WholeCells(b, c)
<1>1. b.cells[c] \in Cell /\ Len(b.cells[c].elements) \in Nat
  BY Places
<1>2. /\ SubSeq(b.cells[c].elements, 1, 0) = <<>>
      /\ SubSeq(b.cells[c].elements, 1, Len(b.cells[c].elements)) = b.cells[c].elements
  <2>1. b.cells[c].elements \in Seq(Element)
    BY <1>1 DEF Cell
  <2>. QED
    BY <2>1
<1>3. PartCells(b, c, 0)
        = Append(WholeCells(b, c - 1),
                 [name |-> ReadBack(b.cells[c].name), elements |-> <<>>])
  BY <1>2 DEF PartCells
<1>4. PartCells(b, c, Len(b.cells[c].elements)) = WholeCells(b, c)
  <2>. DEFINE p == PartCells(b, c, Len(b.cells[c].elements))
              q == WholeCells(b, c)
  <2>1. /\ p \in Seq(Cell) /\ Len(p) = c /\ \A k \in 1 .. c - 1 : p[k] = q[k]
        /\ p[c] = [name |-> ReadBack(b.cells[c].name), elements |-> b.cells[c].elements]
    <3>1. Len(b.cells[c].elements) \in 0 .. Len(b.cells[c].elements)
      BY <1>1
    <3>. QED
      <4>1. /\ p \in Seq(Cell) /\ Len(p) = c /\ \A k \in 1 .. c - 1 : p[k] = q[k]
            /\ p[c] = [ name |-> ReadBack(b.cells[c].name),
                        elements |-> SubSeq(b.cells[c].elements, 1, Len(b.cells[c].elements)) ]
        BY <3>1, PartCellsAre, SMTT(30)
      <4>. QED
        BY <1>2, <4>1
  <2>2. /\ q \in Seq(Cell) /\ Len(q) = c
        /\ q[c] = [name |-> ReadBack(b.cells[c].name), elements |-> b.cells[c].elements]
    <3>1. c \in 0 .. Len(b.cells) /\ c \in 1 .. c
      BY LibraryWritten
    <3>. QED
      BY <3>1, WholeCellsAre
  <2>. HIDE DEF p, q
  <2>3. \A k \in 1 .. c : p[k] = q[k]
    BY <2>1, <2>2
  <2>4. p = q
    BY <2>1, <2>2, <2>3
  <2>. QED
    BY <2>4 DEF p, q
<1>. QED
  BY <1>3, <1>4

\* They are the beginning of all.
LEMMA PartsAreCuts ==
  ASSUME NEW b, IsLibrary(b), NEW N, N = Len(b.cells)
  PROVE  /\ \A n \in 0 .. N : IsCutOf(WholeCells(b, n), WholeCells(b, N))
         /\ \A c \in 1 .. N : \A e \in 0 .. Len(b.cells[c].elements) :
              IsCutOf(PartCells(b, c, e), WholeCells(b, N))
<1>1. N \in Nat /\ N \in 0 .. N
  BY LibraryWritten
<1>2. /\ Len(WholeCells(b, N)) = N
      /\ \A k \in 1 .. N :
           WholeCells(b, N)[k]
             = [name |-> ReadBack(b.cells[k].name), elements |-> b.cells[k].elements]
  BY <1>1, WholeCellsAre
<1>3. ASSUME NEW n \in 0 .. N
      PROVE  IsCutOf(WholeCells(b, n), WholeCells(b, N))
  <2>1. /\ Len(WholeCells(b, n)) = n /\ DOMAIN WholeCells(b, n) = 1 .. n
        /\ \A k \in 1 .. n : WholeCells(b, n)[k] = WholeCells(b, N)[k]
        /\ \A k \in 1 .. n : WholeCells(b, n)[k].elements \in Seq(Element)
    <3>1. /\ Len(WholeCells(b, n)) = n /\ DOMAIN WholeCells(b, n) = 1 .. n
          /\ \A k \in 1 .. n :
               /\ WholeCells(b, n)[k] \in Cell
               /\ WholeCells(b, n)[k]
                    = [name |-> ReadBack(b.cells[k].name), elements |-> b.cells[k].elements]
      BY WholeCellsAre
    <3>2. \A k \in 1 .. n : k \in 1 .. N
      BY <1>1
    <3>3. \A k \in 1 .. n : WholeCells(b, n)[k].elements \in Seq(Element)
      BY <3>1 DEF Cell
    <3>. QED
      BY <1>2, <3>1, <3>2, <3>3
  <2>2. ASSUME NEW k \in 1 .. n
        PROVE  IsPrefix(WholeCells(b, n)[k].elements, WholeCells(b, N)[k].elements)
    <3>1. \A s \in Seq(Element) : IsPrefix(s, s)
      BY DEF IsPrefix
    <3>. QED
      BY <2>1, <3>1
  <2>. QED
    BY <1>1, <1>2, <2>1, <2>2 DEF IsCutOf
<1>4. ASSUME NEW c \in 1 .. N, NEW e \in 0 .. Len(b.cells[c].elements)
      PROVE  IsCutOf(PartCells(b, c, e), WholeCells(b, N))
  <2>. DEFINE p == PartCells(b, c, e)
              q == WholeCells(b, N)
  <2>1. /\ p \in Seq(Cell) /\ Len(p) = c
        /\ \A k \in 1 .. c - 1 : p[k] = WholeCells(b, c)[k]
        /\ p[c] = [ name |-> ReadBack(b.cells[c].name),
                    elements |-> SubSeq(b.cells[c].elements, 1, e) ]
    BY PartCellsAre
  <2>2. \A k \in 1 .. c - 1 : p[k] = q[k]
    <3>1. c \in 0 .. N /\ \A k \in 1 .. c - 1 : k \in 1 .. c /\ k \in 1 .. N
      BY <1>1
    <3>2. \A k \in 1 .. c :
            WholeCells(b, c)[k]
              = [name |-> ReadBack(b.cells[k].name), elements |-> b.cells[k].elements]
      BY <3>1, WholeCellsAre
    <3>. QED
      BY <1>2, <2>1, <3>1, <3>2
  <2>3. q[c] = [name |-> ReadBack(b.cells[c].name), elements |-> b.cells[c].elements]
        /\ Len(q) = N
    BY <1>2
  <2>4. IsPrefix(SubSeq(b.cells[c].elements, 1, e), b.cells[c].elements)
    <3>1. b.cells[c].elements \in Seq(Element)
      BY Places DEF Cell
    <3>. QED
      BY <3>1 DEF IsPrefix
  <2>. HIDE DEF p, q
  <2>5. /\ DOMAIN p = 1 .. c /\ c \in Nat
        /\ \A k \in 1 .. c : k # c => k \in 1 .. c - 1 /\ k < c
    BY <1>1, <2>1
  <2>6. ASSUME NEW k \in DOMAIN p
        PROVE  /\ p[k].name = q[k].name
               /\ IF k < Len(p) THEN p[k] = q[k] ELSE IsPrefix(p[k].elements, q[k].elements)
    <3>1. CASE k = c
      <4>1. ~ (c < Len(p)) /\ p[c].name = q[c].name
        BY <2>1, <2>3, <2>5
      <4>2. IsPrefix(p[c].elements, q[c].elements)
        BY <2>1, <2>3, <2>4
      <4>. QED
        BY <3>1, <4>1, <4>2
    <3>2. CASE k # c
      BY <2>1, <2>2, <2>5, <3>2
    <3>. QED
      BY <3>1, <3>2
  <2>7. Len(p) <= Len(q)
    BY <1>1, <2>1, <2>3
  <2>8. IsCutOf(p, q)
    BY <2>6, <2>7 DEF IsCutOf
  <2>. QED
    BY <2>8 DEF p, q
<1>. QED
  BY <1>3, <1>4

\* How many elements they have.
LEMMA AloneIsLibrary ==
  ASSUME NEW cells \in Seq(Cell)
  PROVE  IsLibrary(CellsAlone(cells)) /\ CellsAlone(cells).cells = cells
         /\ DOMAIN CellsAlone(cells).index = {}
<1>1. /\ CellsAlone(cells).cells = cells /\ CellsAlone(cells).libName = NoName
      /\ CellsAlone(cells).units = <<0, 0>>
      /\ CellsAlone(cells).index = [n \in {} |-> 1]
      /\ CellsAlone(cells) = [ libName |-> NoName, units |-> <<0, 0>>, cells |-> cells,
                               index |-> [n \in {} |-> 1] ]
  BY DEF CellsAlone, NewLibrary, DefaultUnits
<1>2. <<0, 0>> \in Seq(Values)
  BY ValuesAssumption
<1>3. /\ DOMAIN CellsAlone(cells).index = {}
      /\ CellsAlone(cells).index \in [{} -> DOMAIN cells]
  BY <1>1
<1>. QED
  BY <1>1, <1>2, <1>3, NoNameIsName DEF IsLibrary

\* Two libraries of the same cells count the same elements.
LEMMA CountOfCells ==
  ASSUME NEW l, NEW m, l.cells = m.cells
  PROVE  ElementCount(l) = ElementCount(m)
BY DEF ElementCount

\* A cell that begins adds none.
LEMMA CountNewCell ==
  ASSUME NEW cells \in Seq(Cell), NEW name \in Name
  PROVE  ElementCount(CellsAlone(Append(cells, [name |-> name, elements |-> <<>>])))
           = ElementCount(CellsAlone(cells))
<1>. DEFINE l == CellsAlone(cells)
            more == Append(cells, [name |-> name, elements |-> <<>>])
<1>1. IsLibrary(l) /\ l.cells = cells /\ name \notin DOMAIN l.index
  BY AloneIsLibrary
<1>2. AddCell(l, name).cells = more
  BY <1>1, AddCellAppends
<1>3. more \in Seq(Cell)
  <2>1. [name |-> name, elements |-> <<>>] \in Cell
    BY DEF Cell
  <2>. QED
    BY <2>1
<1>4. CellsAlone(more).cells = more
  BY <1>3, AloneIsLibrary
<1>5. ElementCount(CellsAlone(more)) = ElementCount(AddCell(l, name))
  BY <1>2, <1>4, CountOfCells
<1>6. ElementCount(AddCell(l, name)) = ElementCount(l)
  BY <1>1, AddCellCounts
<1>. QED
  BY <1>5, <1>6

\* An element that ends is added to the cell that was written, and counted.
LEMMA CountNewElement ==
  ASSUME NEW b, IsLibrary(b), NEW c \in 1 .. Len(b.cells),
         NEW e \in 1 .. Len(b.cells[c].elements),
         NEW el, el = b.cells[c].elements[e]
  PROVE  /\ AddElement(CellsAlone(PartCells(b, c, e - 1)), c, el).cells = PartCells(b, c, e)
         /\ ElementCount(CellsAlone(PartCells(b, c, e)))
              = ElementCount(CellsAlone(PartCells(b, c, e - 1))) + 1
<1>. DEFINE p == PartCells(b, c, e - 1)
            q == PartCells(b, c, e)
            l == CellsAlone(p)
            with == AddElement(l, c, el)
<1>1. /\ el \in Element /\ Len(b.cells[c].elements) \in Nat
      /\ b.cells[c].elements \in Seq(Element) /\ c \in Nat
  <2>1. el \in Element /\ Len(b.cells[c].elements) \in Nat /\ b.cells[c] \in Cell
    BY Places, ElementPlaces
  <2>. QED
    BY <2>1, LibraryWritten DEF Cell
<1>0. e - 1 \in 0 .. Len(b.cells[c].elements) /\ e \in 0 .. Len(b.cells[c].elements)
  BY <1>1
<1>2. SubSeq(b.cells[c].elements, 1, e) = Append(SubSeq(b.cells[c].elements, 1, e - 1), el)
  BY <1>1
<1>3. \A d \in 0 .. Len(b.cells[c].elements) :
        /\ PartCells(b, c, d) \in Seq(Cell) /\ Len(PartCells(b, c, d)) = c
        /\ \A k \in 1 .. c - 1 : PartCells(b, c, d)[k] = WholeCells(b, c)[k]
        /\ PartCells(b, c, d)[c]
             = [ name |-> ReadBack(b.cells[c].name),
                 elements |-> SubSeq(b.cells[c].elements, 1, d) ]
  BY PartCellsAre, ZenonT(30)
<1>4. /\ p \in Seq(Cell) /\ Len(p) = c
      /\ \A k \in 1 .. c - 1 : p[k] = WholeCells(b, c)[k]
      /\ p[c] = [ name |-> ReadBack(b.cells[c].name),
                  elements |-> SubSeq(b.cells[c].elements, 1, e - 1) ]
      /\ q \in Seq(Cell) /\ Len(q) = c
      /\ \A k \in 1 .. c - 1 : q[k] = WholeCells(b, c)[k]
      /\ q[c] = [ name |-> ReadBack(b.cells[c].name),
                  elements |-> SubSeq(b.cells[c].elements, 1, e) ]
  BY <1>0, <1>3
<1>. DEFINE first == SubSeq(b.cells[c].elements, 1, e - 1)
<1>. HIDE DEF p, q, first
<1>5. IsLibrary(l) /\ l.cells = p /\ c \in DOMAIN p
  BY <1>1, <1>4, AloneIsLibrary
<1>. HIDE DEF l
<1>6. with.cells = [p EXCEPT ![c].elements = Append(@, el)]
  BY <1>5 DEF AddElement, IsLibrary
<1>. HIDE DEF with
<1>7. \A k \in 1 .. c : with.cells[k] = q[k]
  <2>1. ASSUME NEW k \in 1 .. c, k # c
        PROVE  with.cells[k] = q[k]
    <3>1. k \in 1 .. c - 1 /\ k \in DOMAIN p
      BY <1>1, <1>4, <2>1
    <3>2. with.cells[k] = p[k]
      BY <1>6, <2>1, <3>1
    <3>. QED
      BY <1>4, <3>1, <3>2
  <2>2. with.cells[c] = [p[c] EXCEPT !.elements = Append(@, el)]
    BY <1>5, <1>6
  <2>3. with.cells[c] = q[c]
    <3>1. p[c] = [name |-> ReadBack(b.cells[c].name), elements |-> first]
      BY <1>4 DEF first
    <3>2. q[c] = [name |-> ReadBack(b.cells[c].name), elements |-> Append(first, el)]
      BY <1>2, <1>4 DEF first
    <3>3. \A x : [[name |-> x, elements |-> first] EXCEPT !.elements = Append(@, el)]
                   = [name |-> x, elements |-> Append(first, el)]
      OBVIOUS
    <3>. QED
      BY <2>2, <3>1, <3>2, <3>3
  <2>. QED
    BY <2>1, <2>3
<1>8. with.cells = q
  <2>1. DOMAIN p = 1 .. c
    BY <1>1, <1>4
  <2>2. DOMAIN with.cells = 1 .. c /\ with.cells = [k \in 1 .. c |-> with.cells[k]]
    BY <1>6, <2>1
  <2>3. DOMAIN q = 1 .. c /\ q = [k \in 1 .. c |-> q[k]]
    BY <1>1, <1>4
  <2>. QED
    BY <1>7, <2>2, <2>3
<1>9. CellsAlone(q).cells = q
  BY <1>4, AloneIsLibrary
<1>10. ElementCount(CellsAlone(q)) = ElementCount(with)
  BY <1>8, <1>9, CountOfCells
<1>11. ElementCount(with) = ElementCount(l) + 1
  BY <1>1, <1>5, AddElementCounts DEF with
<1>. QED
  BY <1>8, <1>10, <1>11 DEF with, l, p, q

\* Read back whole, all of them are counted.
LEMMA CountWhole ==
  ASSUME NEW b, IsLibrary(b)
  PROVE  ElementCount(CellsAlone(WholeCells(b, Len(b.cells)))) = ElementCount(b)
<1>. DEFINE N == Len(b.cells)
            q == WholeCells(b, N)
<1>1. N \in Nat /\ N \in 0 .. N /\ DOMAIN b.cells = 1 .. N
  BY LibraryWritten DEF IsLibrary
<1>2. /\ q \in Seq(Cell) /\ DOMAIN q = 1 .. N
      /\ \A k \in 1 .. N : q[k].elements = b.cells[k].elements
  <2>1. /\ q \in Seq(Cell) /\ DOMAIN q = 1 .. N
        /\ \A k \in 1 .. N :
             q[k] = [name |-> ReadBack(b.cells[k].name), elements |-> b.cells[k].elements]
    BY <1>1, WholeCellsAre
  <2>. HIDE DEF q, N
  <2>. QED
    BY <2>1
<1>3. CellsAlone(q).cells = q
  BY <1>2, AloneIsLibrary
<1>. HIDE DEF N, q
<1>4. [k \in DOMAIN q |-> Len(q[k].elements)]
        = [k \in DOMAIN b.cells |-> Len(b.cells[k].elements)]
  BY <1>1, <1>2
<1>. QED
  BY <1>3, <1>4 DEF ElementCount, N, q

----------------------------------------------------------------------------
(* Libraries stay sound *)

\* add_cell, and STRNAME.
LEMMA SoundAddCell ==
  ASSUME NEW l, Sound(l), NEW name \in Name
  PROVE  /\ Sound(AddCell(l, name))
         /\ AddCell(l, name).libName = l.libName /\ AddCell(l, name).units = l.units
<1>. DEFINE with == AddCell(l, name)
<1>1. IsLibrary(l) /\ IndexAgrees(l) /\ Len(l.units) = 2
  BY DEF Sound
<1>2. IsLibrary(with) /\ IndexAgrees(with)
  BY <1>1, AddCellProperties
<1>3. with.libName = l.libName /\ with.units = l.units
  BY <1>1 DEF AddCell, IsLibrary
<1>4. \A k \in DOMAIN with.cells :
        \/ k \in DOMAIN l.cells /\ with.cells[k] = l.cells[k]
        \/ with.cells[k] = [name |-> name, elements |-> <<>>]
  BY <1>1, AddCellKeeps
<1>. HIDE DEF with
<1>5. ASSUME NEW k \in DOMAIN with.cells, NEW i \in DOMAIN with.cells[k].elements
      PROVE  IsTold(with.cells[k].elements[i])
  <2>1. CASE k \in DOMAIN l.cells /\ with.cells[k] = l.cells[k]
    BY <2>1 DEF Sound
  <2>2. CASE with.cells[k] = [name |-> name, elements |-> <<>>]
    BY <2>2
  <2>. QED
    BY <1>4, <2>1, <2>2
<1>6. Sound(with)
  BY <1>1, <1>2, <1>3, <1>5 DEF Sound
<1>. QED
  BY <1>3, <1>6 DEF with

\* ENDEL.
LEMMA SoundAddElement ==
  ASSUME NEW l, Sound(l), NEW idx \in DOMAIN l.cells, NEW el \in Element, IsTold(el)
  PROVE  /\ Sound(AddElement(l, idx, el))
         /\ AddElement(l, idx, el).libName = l.libName
         /\ AddElement(l, idx, el).units = l.units
<1>. DEFINE with == AddElement(l, idx, el)
<1>1. /\ IsLibrary(l) /\ IndexAgrees(l) /\ Len(l.units) = 2
      /\ idx \in 1 .. Len(l.cells) /\ l.cells[idx].elements \in Seq(Element)
  BY CellSizes DEF Sound
<1>2. IsLibrary(with) /\ IndexAgrees(with)
  BY <1>1, AddElementProperties
<1>3. with.libName = l.libName /\ with.units = l.units
  BY <1>1 DEF AddElement, IsLibrary
<1>4. /\ DOMAIN with.cells = DOMAIN l.cells
      /\ \A k \in DOMAIN l.cells : k # idx => with.cells[k] = l.cells[k]
      /\ with.cells[idx].elements = Append(l.cells[idx].elements, el)
  BY <1>1, AddElementChanges
<1>. HIDE DEF with
<1>5. ASSUME NEW k \in DOMAIN with.cells, NEW i \in DOMAIN with.cells[k].elements
      PROVE  IsTold(with.cells[k].elements[i])
  <2>1. CASE k # idx
    BY <1>4, <2>1 DEF Sound
  <2>2. CASE k = idx
    <3>1. \/ i \in DOMAIN l.cells[idx].elements
             /\ with.cells[k].elements[i] = l.cells[idx].elements[i]
          \/ with.cells[k].elements[i] = el
      <4>1. \A s \in Seq(Element) : \A j \in DOMAIN Append(s, el) :
              \/ j \in DOMAIN s /\ Append(s, el)[j] = s[j]
              \/ Append(s, el)[j] = el
        OBVIOUS
      <4>. QED
        BY <1>1, <1>4, <2>2, <4>1
    <3>. QED
      BY <3>1 DEF Sound
  <2>. QED
    BY <2>1, <2>2
<1>6. Sound(with)
  BY <1>1, <1>2, <1>3, <1>5 DEF Sound
<1>. QED
  BY <1>3, <1>6 DEF with

\* LIBNAME and UNITS.
LEMMA SoundTitle ==
  ASSUME NEW l, Sound(l), NEW name \in Name, NEW units \in Seq(Values), Len(units) = 2
  PROVE  /\ Sound([l EXCEPT !.libName = name])
         /\ [l EXCEPT !.libName = name].cells = l.cells
         /\ [l EXCEPT !.libName = name].libName = name
         /\ Sound([l EXCEPT !.units = units])
         /\ [l EXCEPT !.units = units].cells = l.cells
         /\ [l EXCEPT !.units = units].libName = l.libName
         /\ [l EXCEPT !.units = units].units = units
<1>1. /\ l \in [ libName : Name, units : Seq(Values), cells : Seq(Cell),
                 index : {l.index} ]
      /\ DOMAIN l.index \subseteq Name /\ l.index \in [DOMAIN l.index -> DOMAIN l.cells]
  BY DEF Sound, IsLibrary
<1>. DEFINE m == [l EXCEPT !.libName = name]
            n == [l EXCEPT !.units = units]
<1>2. /\ m.libName = name /\ m.units = l.units /\ m.cells = l.cells /\ m.index = l.index
      /\ n.libName = l.libName /\ n.units = units /\ n.cells = l.cells /\ n.index = l.index
      /\ m \in [libName : Name, units : Seq(Values), cells : Seq(Cell), index : {l.index}]
      /\ n \in [libName : Name, units : Seq(Values), cells : Seq(Cell), index : {l.index}]
  BY <1>1
<1>. HIDE DEF m, n
<1>3. IsLibrary(m) /\ IsLibrary(n)
  BY <1>1, <1>2 DEF IsLibrary
<1>4. IndexAgrees(m) /\ IndexAgrees(n)
  BY <1>2 DEF Sound, IndexAgrees
<1>5. Sound(m) /\ Sound(n)
  BY <1>2, <1>3, <1>4 DEF Sound
<1>. QED
  BY <1>2, <1>5 DEF m, n

\* A new library.
LEMMA SoundNew ==
  ASSUME NEW name \in Name
  PROVE  Sound(NewLibrary(name)) /\ NewLibrary(name).cells = <<>>
<1>. DEFINE l == NewLibrary(name)
<1>1. /\ l.libName = name /\ l.units = <<0, 0>> /\ l.cells = <<>>
      /\ l.index = [n \in {} |-> 1] /\ <<0, 0>> \in Seq(Values) /\ Len(<<0, 0>>) = 2
      /\ l = [libName |-> name, units |-> <<0, 0>>, cells |-> <<>>, index |-> l.index]
  BY ValuesAssumption DEF NewLibrary, DefaultUnits
<1>2. DOMAIN l.index = {} /\ DOMAIN l.cells = {} /\ l.index \in [{} -> DOMAIN l.cells]
  BY <1>1
<1>. HIDE DEF l
<1>3. IsLibrary(l)
  <2>1. <<>> \in Seq(Cell) /\ DOMAIN l.index \subseteq Name
    BY <1>2
  <2>. QED
    BY <1>1, <1>2, <2>1, Zenon DEF IsLibrary
<1>4. IndexAgrees(l)
  BY <1>2 DEF IndexAgrees
<1>5. Sound(l)
  BY <1>1, <1>2, <1>3, <1>4 DEF Sound
<1>. QED
  BY <1>1, <1>5 DEF l

----------------------------------------------------------------------------
(* The record to be read decides the step *)

\* The type of the record, and whether an element and a cell are there, leave one
\* action only.
LEMMA StepIs ==
  ASSUME Step
  PROVE  /\ status = "reading" /\ stream' = stream
         /\ pos = 1 => ReadFirst
         /\ pos > 1 /\ AtEnd => EndOfStream
         /\ pos > 1 /\ ~ AtEnd /\ Rec.fit =>
              /\ Rec.rt = "BGNLIB" => SkipRecord
              /\ Rec.rt = "LIBNAME" => SetLibName
              /\ Rec.rt = "UNITS" => SetUnits
              /\ Rec.rt \in {"BGNSTR", "ENDSTR"} => EndStructure
              /\ Rec.rt = "STRNAME" => NameStructure
              /\ Rec.rt \in Starts => StartElement
              /\ Rec.rt \in {"LAYER", "DATATYPE", "XY"} => DescribeElement
              /\ Rec.rt = "ENDEL" /\ pending # NoElement /\ curCell # 0 => EndElement
              /\ Rec.rt = "ENDLIB" => EndLibrary
<1>1. /\ ReadFirst => pos = 1 /\ status = "reading" /\ stream' = stream
      /\ EndOfStream => pos > 1 /\ AtEnd /\ status = "reading" /\ stream' = stream
  BY DEF ReadFirst, EndOfStream
<1>2. \A types : Take(types) => /\ pos > 1 /\ ~ AtEnd /\ status = "reading"
                                /\ Rec.rt \in types /\ stream' = stream
  BY DEF Take
<1>3. /\ SkipRecord => Take(Ignored)
      /\ SetLibName => Take({"LIBNAME"})
      /\ RefusePayload => Take(Numeric) /\ ~ Rec.fit
      /\ SetUnits => Take({"UNITS"})
      /\ EndStructure => Take({"BGNSTR", "ENDSTR"})
      /\ NameStructure => Take({"STRNAME"})
      /\ StartElement => Take(Starts)
      /\ DescribeElement => Take({"LAYER", "DATATYPE", "XY"})
      /\ EndElement => Take({"ENDEL"})
      /\ EndOrphan => Take({"ENDEL"}) /\ curCell = 0
      /\ EndNothing => Take({"ENDEL"}) /\ pending = NoElement
      /\ EndLibrary => Take({"ENDLIB"})
  BY DEF SkipRecord, SetLibName, RefusePayload, SetUnits, EndStructure, NameStructure,
         StartElement, DescribeElement, EndElement, EndOrphan, EndNothing, EndLibrary
<1>4. ~ (pos = 1 /\ pos > 1)
  OBVIOUS
<1>5. \/ ReadFirst \/ SkipRecord \/ SetLibName \/ RefusePayload \/ SetUnits
      \/ EndStructure \/ NameStructure
      \/ StartElement \/ DescribeElement \/ EndElement \/ EndOrphan \/ EndNothing
      \/ EndLibrary \/ EndOfStream
  BY DEF Step
<1>6. status = "reading" /\ stream' = stream /\ (pos = 1 => ReadFirst)
      /\ (pos > 1 /\ AtEnd => EndOfStream)
  BY <1>1, <1>2, <1>3, <1>4, <1>5
<1>7. ASSUME pos > 1, ~ AtEnd, Rec.fit
      PROVE  \/ SkipRecord /\ Rec.rt \in Ignored
             \/ SetLibName /\ Rec.rt = "LIBNAME"
             \/ SetUnits /\ Rec.rt = "UNITS"
             \/ EndStructure /\ Rec.rt \in {"BGNSTR", "ENDSTR"}
             \/ NameStructure /\ Rec.rt = "STRNAME"
             \/ StartElement /\ Rec.rt \in Starts
             \/ DescribeElement /\ Rec.rt \in {"LAYER", "DATATYPE", "XY"}
             \/ EndElement /\ Rec.rt = "ENDEL"
             \/ Rec.rt = "ENDEL" /\ ~ (pending # NoElement /\ curCell # 0)
             \/ EndLibrary /\ Rec.rt = "ENDLIB"
  <2>1. ~ ReadFirst /\ ~ EndOfStream /\ ~ RefusePayload
    BY <1>1, <1>3, <1>4, <1>7
  <2>2. /\ SkipRecord => Rec.rt \in Ignored
        /\ SetLibName => Rec.rt \in {"LIBNAME"}
        /\ SetUnits => Rec.rt \in {"UNITS"}
        /\ EndStructure => Rec.rt \in {"BGNSTR", "ENDSTR"}
        /\ NameStructure => Rec.rt \in {"STRNAME"}
        /\ StartElement => Rec.rt \in Starts
        /\ DescribeElement => Rec.rt \in {"LAYER", "DATATYPE", "XY"}
        /\ EndElement => Rec.rt \in {"ENDEL"}
        /\ EndOrphan => Rec.rt \in {"ENDEL"} /\ curCell = 0
        /\ EndNothing => Rec.rt \in {"ENDEL"} /\ pending = NoElement
        /\ EndLibrary => Rec.rt \in {"ENDLIB"}
    BY <1>2, <1>3
  <2>. QED
    BY <1>5, <2>1, <2>2
<1>8. Ignored = {"HEADER", "BGNLIB", "AREF"} /\ Starts = {"BOUNDARY", "PATH", "SREF"}
  BY DEF Ignored, Starts
<1>. HIDE DEF Rec, AtEnd
<1>. QED
  BY <1>6, <1>7, <1>8

\* What is read of our own stream is what was written.
LEMMA RecordWritten ==
  ASSUME NEW b, IsLibrary(b), Streamed(b), NEW p \in Nat \ {0}, p = pos
  PROVE  /\ ~ AtEnd => Rec = Write(b)[p] /\ p <= Len(Write(b))
         /\ AtEnd /\ whole => p > Len(Write(b))
<1>1. Write(b) \in Seq(Written)
  BY LibraryWritten
<1>2. PICK n \in 0 .. Len(Write(b)) :
        stream.records = SubSeq(Write(b), 1, n) /\ (whole => n = Len(Write(b)))
  BY DEF Streamed
<1>3. Len(stream.records) = n /\ \A i \in 1 .. n : stream.records[i] = Write(b)[i]
  BY <1>1, <1>2
<1>. QED
  BY <1>1, <1>2, <1>3 DEF AtEnd, Rec

----------------------------------------------------------------------------
(* From each place to the next *)

\* A step that leaves the cells alone leaves what is held.
LEMMA HoldsStay ==
  ASSUME NEW b, NEW cells, Holds(b, cells), lib'.cells = lib.cells
  PROVE  Holds(b, cells)'
<1>1. ElementCount(lib') = ElementCount(lib)
  BY CountOfCells
<1>. QED
  BY <1>1 DEF Holds

\* The header, the library's dates, name and units.
LEMMA HeadStep ==
  ASSUME NEW b, Sound(b), Streamed(b), Sound(lib), AtHead(b), Step, whole' = whole,
         pos = 1 \/ ~ AtEnd
  PROVE  InHand(b)'
<1>1. /\ IsLibrary(b) /\ Len(b.units) = 2 /\ b.units \in Seq(Values) /\ b.libName \in Name
      /\ pos \in Nat \ {0} /\ status = "reading" /\ lib.cells = <<>> /\ pending = NoElement
  BY StepIs DEF Sound, IsLibrary, AtHead
<1>2. /\ Write(b)[1] = Marker("HEADER") /\ Write(b)[2] = Marker("BGNLIB")
      /\ Write(b)[3] = Text("LIBNAME", b.libName) /\ Write(b)[4] = Record("UNITS", b.units)
      /\ CellStart(b, 1) = 4 /\ Len(b.cells) \in Nat /\ Len(Write(b)) >= 5
  BY <1>1, LibraryWritten
<1>3. ~ AtEnd => Rec = Write(b)[pos]
  BY <1>1, RecordWritten
<1>4. CASE pos = 1
  <2>1. ReadFirst
    BY <1>4, StepIs
  <2>2. CASE ~ AtEnd
    <3>1. Rec.rt = "HEADER"
      BY <1>2, <1>3, <1>4, <2>2 DEF Marker, Record
    <3>2. pos' = 2 /\ status' = "reading" /\ lib' = lib /\ pending' = pending
      BY <1>1, <2>1, <2>2, <3>1 DEF ReadFirst
    <3>3. AtHead(b)'
      BY <1>1, <3>2 DEF AtHead
    <3>. QED
      BY <3>2, <3>3 DEF InHand, Place
  <2>3. CASE AtEnd
    <3>1. ~ whole
      BY <1>1, <1>2, <1>4, <2>3, RecordWritten
    <3>2. lib' = lib /\ status' \in {"UnexpectedEof", "BadRecordLength", "MissingHeader"}
      BY <2>1, <2>3 DEF ReadFirst, TailError
    <3>. QED
      BY <3>1, <3>2 DEF InHand
  <2>. QED
    BY <2>2, <2>3
<1>5. CASE pos = 2
  <2>1. Rec.rt = "BGNLIB" /\ Rec.fit /\ ~ AtEnd /\ pos > 1
    BY <1>2, <1>3, <1>5 DEF Marker, Record
  <2>2. SkipRecord
    BY <2>1, StepIs
  <2>3. pos' = 3 /\ status' = "reading" /\ lib' = lib /\ pending' = pending
    BY <1>1, <1>5, <2>2 DEF SkipRecord, Take
  <2>4. AtHead(b)'
    BY <1>1, <2>3 DEF AtHead
  <2>. QED
    BY <2>3, <2>4 DEF InHand, Place
<1>6. CASE pos = 3
  <2>1. /\ Rec.rt = "LIBNAME" /\ Rec.fit /\ Rec.data[1] = ReadBack(b.libName)
        /\ ~ AtEnd /\ pos > 1
    BY <1>2, <1>3, <1>6 DEF Text, Record
  <2>2. SetLibName
    BY <2>1, StepIs
  <2>3. /\ pos' = 4 /\ status' = "reading" /\ pending' = pending
        /\ lib' = [lib EXCEPT !.libName = ReadBack(b.libName)]
    BY <1>1, <1>6, <2>1, <2>2 DEF SetLibName, Take
  <2>4. ReadBack(b.libName) \in Name
    BY <1>1, ReadBackName
  <2>5. Sound(lib)' /\ lib'.cells = lib.cells /\ lib'.libName = ReadBack(b.libName)
    BY <1>1, <2>3, <2>4, SoundTitle
  <2>6. AtHead(b)'
    BY <1>1, <2>3, <2>5 DEF AtHead
  <2>. QED
    BY <2>3, <2>5, <2>6 DEF InHand, Place
<1>7. CASE pos = 4
  <2>1. Rec.rt = "UNITS" /\ Rec.fit /\ Rec.data = b.units /\ ~ AtEnd /\ pos > 1
    BY <1>2, <1>3, <1>7 DEF Record
  <2>2. SetUnits
    BY <2>1, StepIs
  <2>3. SubSeq(b.units, 1, 2) = b.units
    BY <1>1
  <2>4. /\ pos' = 5 /\ status' = "reading" /\ pending' = pending
        /\ lib' = [lib EXCEPT !.units = b.units]
    BY <1>1, <1>7, <2>1, <2>2, <2>3 DEF SetUnits, Take
  <2>5. /\ Sound(lib)' /\ lib'.cells = lib.cells /\ lib'.libName = lib.libName
        /\ lib'.units = b.units
    BY <1>1, <2>4, SoundTitle
  <2>6. Titled(b)'
    BY <1>7, <2>5 DEF Titled, AtHead
  <2>7. WholeCells(b, 0) = <<>> /\ <<>> \in Seq(Cell)
    BY DEF WholeCells
  <2>8. CellsAlone(<<>>).cells = <<>>
    BY <2>7, AloneIsLibrary
  <2>9. ElementCount(lib') = ElementCount(CellsAlone(<<>>))
    BY <1>1, <2>5, <2>8, CountOfCells
  <2>10. Holds(b, WholeCells(b, 0))'
    BY <1>1, <2>5, <2>7, <2>9 DEF Holds
  <2>11. AtCell(b, 1)'
    BY <1>1, <1>2, <2>4, <2>6, <2>10 DEF AtCell
  <2>12. 1 \in 1 .. Len(b.cells) + 1
    BY <1>2
  <2>. QED
    BY <2>4, <2>5, <2>11, <2>12 DEF InHand, Place
<1>. QED
  BY <1>1, <1>4, <1>5, <1>6, <1>7 DEF AtHead

\* BGNSTR, or ENDLIB after the last cell.
LEMMA CellStep ==
  ASSUME NEW b, Sound(b), Streamed(b), Sound(lib), NEW c \in 1 .. Len(b.cells) + 1,
         AtCell(b, c), Step, whole' = whole, ~ AtEnd
  PROVE  InHand(b)'
<1>1. /\ IsLibrary(b) /\ status = "reading" /\ Len(b.cells) \in Nat
      /\ pos = CellStart(b, c) + 1 /\ pending = NoElement
      /\ Titled(b) /\ Holds(b, WholeCells(b, c - 1))
  BY StepIs, LibraryWritten DEF Sound, AtCell
<1>2. CASE c \in 1 .. Len(b.cells)
  <2>1. /\ CellStart(b, c) \in Nat /\ CellStart(b, c) >= 4
        /\ Write(b)[CellStart(b, c) + 1] = Marker("BGNSTR")
    BY <1>1, <1>2, Places
  <2>2. Rec.rt = "BGNSTR" /\ Rec.fit /\ pos > 1 /\ pos \in Nat
    <3>1. pos \in Nat \ {0} /\ pos > 1
      <4>1. pos = CellStart(b, c) + 1 /\ CellStart(b, c) \in Nat /\ CellStart(b, c) >= 4
        BY <1>1, <2>1
      <4>. QED
        BY <4>1
    <3>2. Rec = Marker("BGNSTR")
      BY <1>1, <2>1, <3>1, RecordWritten
    <3>. QED
      BY <3>1, <3>2 DEF Marker, Record
  <2>3. EndStructure
    BY <2>2, StepIs
  <2>4. /\ pos' = CellStart(b, c) + 2 /\ status' = "reading" /\ lib' = lib
        /\ pending' = pending
    BY <1>1, <2>1, <2>3 DEF EndStructure, Take
  <2>5. Titled(b)' /\ Holds(b, WholeCells(b, c - 1))'
    BY <1>1, <2>4, HoldsStay DEF Titled
  <2>6. InCell(b, c)'
    BY <1>1, <2>4, <2>5 DEF InCell
  <2>. QED
    BY <1>2, <2>4, <2>6 DEF InHand, Place
<1>3. CASE c = Len(b.cells) + 1
  <2>1. /\ CellStart(b, c) \in Nat /\ CellStart(b, c) >= 4
        /\ Write(b)[CellStart(b, c) + 1] = Marker("ENDLIB")
        /\ c - 1 = Len(b.cells)
    BY <1>1, <1>3, LibraryWritten
  <2>2. Rec.rt = "ENDLIB" /\ Rec.fit /\ pos > 1
    <3>1. pos \in Nat \ {0} /\ pos > 1
      <4>1. pos = CellStart(b, c) + 1 /\ CellStart(b, c) \in Nat /\ CellStart(b, c) >= 4
        BY <1>1, <2>1
      <4>. QED
        BY <4>1
    <3>2. Rec = Marker("ENDLIB")
      BY <1>1, <2>1, <3>1, RecordWritten
    <3>. QED
      BY <3>1, <3>2 DEF Marker, Record
  <2>3. EndLibrary
    BY <2>2, StepIs
  <2>4. status' = "ok" /\ lib' = lib
    BY <2>3 DEF EndLibrary
  <2>5. Titled(b)' /\ Holds(b, WholeCells(b, Len(b.cells)))'
    BY <1>1, <2>1, <2>4, HoldsStay DEF Titled
  <2>6. IsCutOf(WholeCells(b, Len(b.cells)), WholeCells(b, Len(b.cells)))
    BY <1>1, PartsAreCuts
  <2>7. ToldApart(b) => IsCutOf(lib.cells, WholeCells(b, Len(b.cells)))'
    BY <1>1, <2>1, <2>4, <2>6 DEF Holds
  <2>8. Finished(b)'
    BY <2>5, <2>7 DEF Finished
  <2>. QED
    BY <2>4, <2>8 DEF InHand
<1>. QED
  BY <1>1, <1>2, <1>3

\* STRNAME.
LEMMA NameStep ==
  ASSUME NEW b, Sound(b), Streamed(b), Sound(lib), NEW c \in 1 .. Len(b.cells),
         InCell(b, c), Step, whole' = whole, ~ AtEnd
  PROVE  InHand(b)'
<1>. DEFINE name == ReadBack(b.cells[c].name)
            before == WholeCells(b, c - 1)
            new == [name |-> name, elements |-> <<>>]
<1>1. /\ IsLibrary(b) /\ status = "reading" /\ Len(b.cells) \in Nat
      /\ pos = CellStart(b, c) + 2 /\ pending = NoElement
      /\ Titled(b) /\ Holds(b, before) /\ IsLibrary(lib) /\ IndexAgrees(lib)
  BY StepIs, LibraryWritten DEF Sound, InCell
<1>2. /\ CellStart(b, c) \in Nat /\ CellStart(b, c) >= 4 /\ c \in Nat
      /\ Write(b)[CellStart(b, c) + 2] = Text("STRNAME", b.cells[c].name)
      /\ ElementStart(b, c, 1) = CellStart(b, c) + 2
      /\ Len(b.cells[c].elements) \in Nat /\ b.cells[c] \in Cell
  BY <1>1, Places
<1>3. name \in Name
  BY <1>2, ReadBackName DEF Cell
<1>4. Rec.rt = "STRNAME" /\ Rec.fit /\ Rec.data[1] = name /\ pos > 1
  BY <1>1, <1>2, RecordWritten DEF Text, Record
<1>5. NameStructure
  BY <1>4, StepIs
<1>. HIDE DEF name, before
<1>6. /\ pos' = CellStart(b, c) + 3 /\ status' = "reading" /\ pending' = pending
      /\ lib' = AddCell(lib, name) /\ curCell' = lib'.index[name]
  <2>1. pending.kind # "SREF"
    BY <1>1 DEF NoElement, Untold
  <2>. QED
    BY <1>1, <1>2, <1>4, <1>5, <2>1 DEF NameStructure, Take
<1>7. /\ Sound(lib') /\ lib'.libName = lib.libName /\ lib'.units = lib.units
      /\ IsLibrary(lib') /\ name \in DOMAIN lib'.index
      /\ ElementCount(lib') = ElementCount(lib)
  BY <1>1, <1>3, <1>6, SoundAddCell, AddCellProperties, AddCellCounts
<1>8. curCell' \in DOMAIN lib'.cells
  <2>1. curCell' \in 1 .. Len(lib'.cells)
    BY <1>6, <1>7, IndexedCell
  <2>. QED
    BY <1>7, <2>1, CellSizes
<1>9. before \in Seq(Cell) /\ Len(before) = c - 1
      /\ \A k \in 1 .. c - 1 : before[k].name = ReadBack(b.cells[k].name)
  <2>1. c - 1 \in 0 .. Len(b.cells)
    BY <1>1, <1>2
  <2>2. /\ before \in Seq(Cell) /\ Len(before) = c - 1
        /\ \A k \in 1 .. c - 1 :
             before[k] = [name |-> ReadBack(b.cells[k].name), elements |-> b.cells[k].elements]
    BY <1>1, <2>1, WholeCellsAre DEF before
  <2>3. ASSUME NEW k \in 1 .. c - 1
        PROVE  before[k].name = ReadBack(b.cells[k].name)
    <3>1. before[k]
            = [name |-> ReadBack(b.cells[k].name), elements |-> b.cells[k].elements]
      BY <2>2
    <3>. QED
      BY <3>1
  <2>. QED
    BY <2>2, <2>3
<1>10. PartCells(b, c, 0) = Append(before, new)
  BY <1>1, PartCellsEnds DEF before, name
<1>11. ElementCount(CellsAlone(PartCells(b, c, 0))) = ElementCount(CellsAlone(before))
  BY <1>3, <1>9, <1>10, CountNewCell
<1>12. ASSUME ToldApart(b)
       PROVE  lib'.cells = PartCells(b, c, 0) /\ curCell' = c
  <2>1. lib.cells = before
    BY <1>1, <1>12 DEF Holds
  <2>2. name \notin DOMAIN lib.index
    <3>1. ASSUME NEW k \in DOMAIN lib.cells
          PROVE  lib.cells[k].name # name
      <4>1. k \in 1 .. c - 1 /\ k \in 1 .. Len(b.cells) /\ k # c
        BY <1>1, <1>2, <1>9, <2>1
      <4>2. lib.cells[k].name = ReadBack(b.cells[k].name)
        BY <1>9, <2>1, <4>1
      <4>3. DOMAIN b.cells = 1 .. Len(b.cells)
        BY <1>1, CellSizes
      <4>. QED
        BY <1>12, <4>1, <4>2, <4>3 DEF ToldApart, name
    <3>. QED
      BY <1>1, <3>1 DEF IndexAgrees
  <2>3. lib'.cells = Append(before, new)
    BY <1>1, <1>6, <2>1, <2>2, AddCellAppends
  <2>4. lib'.index[name] = Len(lib.cells) + 1
    BY <1>1, <1>6, <2>2 DEF AddCell, IsLibrary
  <2>. QED
    BY <1>2, <1>6, <1>9, <1>10, <2>1, <2>3, <2>4
<1>13. Holds(b, PartCells(b, c, 0))'
  BY <1>1, <1>7, <1>11, <1>12 DEF Holds
<1>14. Titled(b)' /\ Current(b, c)'
  BY <1>1, <1>7, <1>8, <1>12 DEF Titled, Current
<1>15. AtElement(b, c, 1)'
  BY <1>1, <1>2, <1>6, <1>13, <1>14 DEF AtElement
<1>16. 1 \in 1 .. Len(b.cells[c].elements) + 1
  BY <1>2
<1>17. Place(b)'
  BY <1>15, <1>16 DEF Place
<1>. QED
  BY <1>6, <1>7, <1>17 DEF InHand

\* The records of an element, as they come.
LEMMA ElementRecordRead ==
  ASSUME NEW b, IsLibrary(b), Streamed(b), NEW c \in 1 .. Len(b.cells),
         NEW e \in 1 .. Len(b.cells[c].elements),
         NEW el, el = b.cells[c].elements[e],
         NEW i \in 1 .. Len(WriteElement(el)), pos = ElementStart(b, c, e) + i, ~ AtEnd
  PROVE  /\ pos \in Nat /\ pos > 1 /\ Rec = WriteElement(el)[i]
         /\ i \in Nat /\ ElementStart(b, c, e) \in Nat
<1>1. /\ el \in Element /\ ElementStart(b, c, e) \in Nat /\ ElementStart(b, c, e) >= 4
      /\ Write(b)[ElementStart(b, c, e) + i] = WriteElement(el)[i]
  <2>1. el \in Element /\ ElementStart(b, c, e) \in Nat /\ ElementStart(b, c, e) >= 4
    BY ElementPlaces
  <2>2. \A n \in 1 .. Len(WriteElement(el)) :
          /\ ElementStart(b, c, e) + n \in 1 .. Len(Write(b))
          /\ Write(b)[ElementStart(b, c, e) + n] = WriteElement(el)[n]
    <3>1. StandsAt(b, ElementStart(b, c, e), WriteElement(el))
      BY ElementPlaces
    <3>. QED
      BY <3>1 DEF StandsAt
  <2>. QED
    BY <2>1, <2>2
<1>2. WriteElement(el) \in Seq(Written)
  BY <1>1, ElementWritten
<1>3. i \in Nat /\ i >= 1
  <2>1. Len(WriteElement(el)) \in Nat
    BY <1>2
  <2>. QED
    BY <2>1
<1>4. pos \in Nat \ {0} /\ pos > 1
  <2>1. ElementStart(b, c, e) \in Nat /\ ElementStart(b, c, e) >= 4
        /\ pos = ElementStart(b, c, e) + i
    BY <1>1
  <2>. QED
    BY <1>3, <2>1
<1>5. Rec = Write(b)[pos]
  BY <1>4, RecordWritten
<1>. QED
  BY <1>1, <1>3, <1>4, <1>5

\* What is described of an element, and what there is when it ends.
LEMMA PartlyIs ==
  ASSUME NEW el \in Element, IsTold(el)
  PROVE  /\ Partly(el, 1) = Untold(el.kind)
         /\ Partly(el, Len(WriteElement(el)) - 1) = el
         /\ el.kind # "BOUNDARY" => \A j : Partly(el, j) = el
         /\ el.kind = "BOUNDARY" =>
              /\ Partly(el, 1) = Boundary(0, 0, <<>>)
              /\ Partly(el, 2) = Boundary(el.layer, 0, <<>>)
              /\ Partly(el, 3) = Boundary(el.layer, el.datatype, <<>>)
              /\ Partly(el, 4) = Boundary(el.layer, el.datatype, el.xy)
<1>1. CASE el.kind # "BOUNDARY"
  BY <1>1 DEF Partly, IsTold
<1>2. CASE el.kind = "BOUNDARY"
  <2>1. /\ Partly(el, 1) = Boundary(0, 0, <<>>)
        /\ Partly(el, 2) = Boundary(el.layer, 0, <<>>)
        /\ Partly(el, 3) = Boundary(el.layer, el.datatype, <<>>)
        /\ Partly(el, 4) = Boundary(el.layer, el.datatype, el.xy)
    BY <1>2 DEF Partly
  <2>2. Boundary(0, 0, <<>>) = Untold("BOUNDARY")
    BY DEF Boundary, Untold
  <2>3. Boundary(el.layer, el.datatype, el.xy) = el
    BY <1>2 DEF Boundary, Element
  <2>4. Len(WriteElement(el)) - 1 = 4
    <3>1. Len(WriteElement(el)) = 5
      BY <1>2, ElementWritten
    <3>. QED
      BY <3>1
  <2>. QED
    BY <1>2, <2>1, <2>2, <2>3, <2>4
<1>. QED
  BY <1>1, <1>2

\* The record that starts an element.
LEMMA StartStep ==
  ASSUME NEW b, Sound(b), Streamed(b), Sound(lib), NEW c \in 1 .. Len(b.cells),
         NEW e \in 1 .. Len(b.cells[c].elements),
         AtElement(b, c, e), Step, whole' = whole, ~ AtEnd
  PROVE  InHand(b)'
<1>. DEFINE el == b.cells[c].elements[e]
            at == ElementStart(b, c, e)
            W == WriteElement(el)
<1>1. /\ IsLibrary(b) /\ status = "reading" /\ pos = at + 1 /\ pending = NoElement
      /\ Titled(b) /\ Current(b, c) /\ Holds(b, PartCells(b, c, e - 1))
  BY StepIs DEF Sound, AtElement
<1>2. el \in Element /\ IsTold(el)
  <2>1. el \in Element
    BY <1>1, ElementPlaces
  <2>2. c \in DOMAIN b.cells /\ e \in DOMAIN b.cells[c].elements
    BY <1>1, CellSizes
  <2>. QED
    BY <2>1, <2>2 DEF Sound
<1>3. /\ W[1] = Marker(el.kind) /\ 1 \in 1 .. Len(W) /\ 1 \in 1 .. Len(W) - 1
      /\ el.kind \in Starts
  <2>1. W[1] = Marker(el.kind) /\ Len(W) \in {4, 5}
    BY <1>2, ElementWritten
  <2>2. el.kind \in Starts
    BY <1>2 DEF Element, Starts
  <2>3. 1 \in 1 .. Len(W) /\ 1 \in 1 .. Len(W) - 1
    <3>1. \A n \in {4, 5} : 1 \in 1 .. n /\ 1 \in 1 .. n - 1
      OBVIOUS
    <3>. QED
      BY <2>1, <3>1
  <2>. QED
    BY <2>1, <2>2, <2>3
<1>. HIDE DEF el, at, W
<1>4. pos > 1 /\ Rec = W[1] /\ at \in Nat
  BY <1>1, <1>3, ElementRecordRead DEF el, at, W
<1>5. Rec.rt = el.kind /\ Rec.fit
  BY <1>3, <1>4 DEF Marker, Record
<1>6. StartElement
  BY <1>3, <1>4, <1>5, StepIs
<1>7. /\ pos' = pos + 1 /\ pending' = Untold(el.kind) /\ lib' = lib /\ curCell' = curCell
      /\ status' = "reading"
  BY <1>1, <1>5, <1>6 DEF StartElement, Take
<1>8. Titled(b)' /\ Current(b, c)' /\ Holds(b, PartCells(b, c, e - 1))'
  BY <1>1, <1>7, HoldsStay DEF Titled, Current
<1>9. pos' = at + 1 + 1 /\ pending' = Partly(el, 1)
  BY <1>1, <1>2, <1>7, PartlyIs
<1>10. InElement(b, c, e, 1)'
  BY <1>8, <1>9 DEF InElement, el, at
<1>11. Place(b)'
  BY <1>3, <1>10 DEF Place, el, W
<1>. QED
  BY <1>7, <1>11 DEF InHand

\* ENDSTR after the last element.
LEMMA EndCellStep ==
  ASSUME NEW b, Sound(b), Streamed(b), Sound(lib), NEW c \in 1 .. Len(b.cells),
         AtElement(b, c, Len(b.cells[c].elements) + 1), Step, whole' = whole, ~ AtEnd
  PROVE  InHand(b)'
<1>. DEFINE M == Len(b.cells[c].elements)
            at == ElementStart(b, c, M + 1)
<1>1. /\ IsLibrary(b) /\ status = "reading" /\ pos = at + 1 /\ pending = NoElement
      /\ Titled(b) /\ Holds(b, PartCells(b, c, M + 1 - 1))
  BY StepIs DEF Sound, AtElement
<1>2. /\ M \in Nat /\ at \in Nat /\ at >= 4 /\ c \in Nat /\ c \in 1 .. Len(b.cells)
      /\ Len(b.cells) \in Nat
      /\ CellStart(b, c + 1) = at + 1
      /\ Write(b)[CellStart(b, c + 1)] = Marker("ENDSTR")
  BY <1>1, Places, LibraryWritten
<1>3. PartCells(b, c, M) = WholeCells(b, c)
  BY <1>1, PartCellsEnds
<1>. HIDE DEF M, at
<1>4. pos \in Nat \ {0} /\ pos > 1
  <2>1. at \in Nat /\ at >= 4 /\ pos = at + 1
    BY <1>1, <1>2
  <2>. QED
    BY <2>1
<1>5. Rec = Marker("ENDSTR")
  BY <1>1, <1>2, <1>4, RecordWritten
<1>6. Rec.rt = "ENDSTR" /\ Rec.fit
  BY <1>5 DEF Marker, Record
<1>7. EndStructure
  BY <1>4, <1>6, StepIs
<1>8. /\ pos' = CellStart(b, c + 1) + 1 /\ status' = "reading" /\ lib' = lib
      /\ pending' = NoElement
  BY <1>1, <1>2, <1>7 DEF EndStructure, Take
<1>9. M + 1 - 1 = M /\ c + 1 - 1 = c /\ c + 1 \in 1 .. Len(b.cells) + 1
  BY <1>2
<1>10. Holds(b, WholeCells(b, c))
  BY <1>1, <1>3, <1>9
<1>11. Titled(b)' /\ Holds(b, WholeCells(b, c))'
  BY <1>1, <1>8, <1>10, HoldsStay DEF Titled
<1>12. Holds(b, WholeCells(b, c + 1 - 1))'
  BY <1>9, <1>11
<1>13. AtCell(b, c + 1)'
  BY <1>8, <1>11, <1>12 DEF AtCell
<1>14. Place(b)'
  BY <1>9, <1>13 DEF Place
<1>. QED
  BY <1>8, <1>14 DEF InHand

\* The records between the first of an element and its last.
LEMMA DescribeStep ==
  ASSUME NEW b, Sound(b), Streamed(b), Sound(lib), NEW c \in 1 .. Len(b.cells),
         NEW e \in 1 .. Len(b.cells[c].elements),
         NEW j \in 1 .. Len(WriteElement(b.cells[c].elements[e])) - 2,
         InElement(b, c, e, j), Step, whole' = whole, ~ AtEnd
  PROVE  InHand(b)'
<1>. DEFINE el == b.cells[c].elements[e]
            at == ElementStart(b, c, e)
            W == WriteElement(el)
<1>1. /\ IsLibrary(b) /\ status = "reading" /\ pos = at + 1 + j /\ pending = Partly(el, j)
      /\ Titled(b) /\ Current(b, c) /\ Holds(b, PartCells(b, c, e - 1))
  BY StepIs DEF Sound, InElement
<1>2. el \in Element /\ IsTold(el)
  <2>1. el \in Element
    BY <1>1, ElementPlaces
  <2>2. c \in DOMAIN b.cells /\ e \in DOMAIN b.cells[c].elements
    BY <1>1, CellSizes
  <2>. QED
    BY <2>1, <2>2 DEF Sound
<1>3. /\ j \in {1, 2, 3} /\ (el.kind = "SREF" => j \in {1, 2})
      /\ j + 1 \in 1 .. Len(W) /\ j + 1 \in 1 .. Len(W) - 1
  <2>1. (el.kind = "SREF" => Len(W) = 4) /\ (el.kind # "SREF" => Len(W) = 5)
    BY <1>2, ElementWritten
  <2>2. \A n \in {4, 5} : \A k \in 1 .. n - 2 :
          /\ k \in {1, 2, 3} /\ (n = 4 => k \in {1, 2})
          /\ k + 1 \in 1 .. n /\ k + 1 \in 1 .. n - 1
    OBVIOUS
  <2>. QED
    BY <2>1, <2>2
<1>4. pos = at + (j + 1) /\ pos > 1 /\ Rec = W[j + 1] /\ pos \in Nat
  <2>1. at \in Nat
    BY <1>1, ElementPlaces
  <2>. HIDE DEF at
  <2>2. at + 1 + j = at + (j + 1)
    BY <1>3, <2>1
  <2>3. pos = at + (j + 1)
    BY <1>1, <2>2
  <2>. QED
    BY <1>1, <1>3, <2>3, ElementRecordRead DEF at
<1>. HIDE DEF el, at, W
<1>5. pos' = pos + 1 /\ pending' = Partly(el, j + 1)
      /\ lib' = lib /\ curCell' = curCell /\ status' = "reading"
  <2>1. CASE el.kind = "SREF"
    <3>1. /\ pending = el /\ Partly(el, j + 1) = el
          /\ W[2] = Text("STRNAME", NoName) /\ W[3] = Record("XY", <<0>>)
      BY <1>1, <1>2, <2>1, PartlyIs, ElementWritten DEF W
    <3>2. CASE j = 1
      <4>1. Rec.rt = "STRNAME" /\ Rec.fit
        BY <1>4, <3>1, <3>2 DEF Text, Record
      <4>2. NameStructure
        BY <1>4, <4>1, StepIs
      <4>. QED
        BY <1>1, <2>1, <3>1, <4>2 DEF NameStructure, Take
    <3>3. CASE j = 2
      <4>1. Rec.rt = "XY" /\ Rec.fit
        BY <1>4, <3>1, <3>3 DEF Record
      <4>2. DescribeElement
        BY <1>4, <4>1, StepIs
      <4>. QED
        BY <1>1, <2>1, <3>1, <4>2 DEF DescribeElement, Take
    <3>. QED
      BY <1>3, <2>1, <3>2, <3>3
  <2>2. CASE el.kind # "SREF"
    <3>1. /\ W[2] = Record("LAYER", <<el.layer>>) /\ W[3] = Record("DATATYPE", <<el.datatype>>)
          /\ W[4] = Record("XY", IF el.kind = "PATH" THEN <<0>> ELSE el.xy)
      BY <1>2, <2>2, ElementWritten DEF W
    <3>2. /\ Rec.fit /\ Rec.rt \in {"LAYER", "DATATYPE", "XY"}
          /\ j = 1 => Rec.rt = "LAYER" /\ Rec.data = <<el.layer>>
          /\ j = 2 => Rec.rt = "DATATYPE" /\ Rec.data = <<el.datatype>>
          /\ j = 3 => Rec.rt = "XY" /\ (el.kind # "PATH" => Rec.data = el.xy)
      <4>1. CASE j = 1
        BY <1>4, <3>1, <4>1 DEF Record
      <4>2. CASE j = 2
        BY <1>4, <3>1, <4>2 DEF Record
      <4>3. CASE j = 3
        BY <1>4, <3>1, <4>3 DEF Record
      <4>. QED
        BY <1>3, <4>1, <4>2, <4>3
    <3>3. DescribeElement
      BY <1>4, <3>2, StepIs
    <3>4. pos' = pos + 1 /\ lib' = lib /\ curCell' = curCell /\ status' = "reading"
      BY <1>1, <3>3 DEF DescribeElement, Take
    <3>5. CASE el.kind # "BOUNDARY"
      <4>1. pending = el /\ Partly(el, j + 1) = el
        BY <1>1, <1>2, <3>5, PartlyIs
      <4>2. pending' = pending
        BY <3>3, <3>5, <4>1 DEF DescribeElement
      <4>. QED
        BY <3>4, <4>1, <4>2
    <3>6. CASE el.kind = "BOUNDARY"
      <4>1. /\ Partly(el, 1) = Boundary(0, 0, <<>>)
            /\ Partly(el, 2) = Boundary(el.layer, 0, <<>>)
            /\ Partly(el, 3) = Boundary(el.layer, el.datatype, <<>>)
            /\ Partly(el, 4) = Boundary(el.layer, el.datatype, el.xy)
        BY <1>2, <3>6, PartlyIs
      <4>2. CASE j = 1
        <5>1. pending = Boundary(0, 0, <<>>) /\ Partly(el, j + 1) = Boundary(el.layer, 0, <<>>)
          BY <1>1, <4>1, <4>2
        <5>2. pending' = [pending EXCEPT !.layer = el.layer]
          BY <3>2, <3>3, <4>2, <5>1 DEF DescribeElement, Boundary
        <5>3. pending' = Boundary(el.layer, 0, <<>>)
          BY <5>1, <5>2 DEF Boundary
        <5>. QED
          BY <3>4, <5>1, <5>3
      <4>3. CASE j = 2
        <5>1. /\ pending = Boundary(el.layer, 0, <<>>)
              /\ Partly(el, j + 1) = Boundary(el.layer, el.datatype, <<>>)
          BY <1>1, <4>1, <4>3
        <5>2. pending' = [pending EXCEPT !.datatype = el.datatype]
          BY <3>2, <3>3, <4>3, <5>1 DEF DescribeElement, Boundary
        <5>3. pending' = Boundary(el.layer, el.datatype, <<>>)
          BY <5>1, <5>2 DEF Boundary
        <5>. QED
          BY <3>4, <5>1, <5>3
      <4>4. CASE j = 3
        <5>1. /\ pending = Boundary(el.layer, el.datatype, <<>>)
              /\ Partly(el, j + 1) = Boundary(el.layer, el.datatype, el.xy)
          BY <1>1, <4>1, <4>4
        <5>2. pending' = [pending EXCEPT !.xy = el.xy]
          BY <3>2, <3>3, <3>6, <4>4, <5>1 DEF DescribeElement, Boundary
        <5>3. pending' = Boundary(el.layer, el.datatype, el.xy)
          BY <5>1, <5>2 DEF Boundary
        <5>. QED
          BY <3>4, <5>1, <5>3
      <4>. QED
        BY <1>3, <4>2, <4>3, <4>4
    <3>. QED
      BY <3>5, <3>6
  <2>. QED
    BY <2>1, <2>2
<1>6. pos' = at + 1 + (j + 1)
  <2>1. at \in Nat
    BY <1>1, ElementPlaces DEF at
  <2>. QED
    BY <1>3, <1>4, <1>5, <2>1
<1>7. Titled(b)' /\ Current(b, c)' /\ Holds(b, PartCells(b, c, e - 1))'
  BY <1>1, <1>5, HoldsStay DEF Titled, Current
<1>8. InElement(b, c, e, j + 1)'
  BY <1>5, <1>6, <1>7 DEF InElement, el, at
<1>9. Place(b)'
  BY <1>3, <1>8 DEF Place, el, W
<1>. QED
  BY <1>5, <1>9 DEF InHand

\* ENDEL.
LEMMA EndElementStep ==
  ASSUME NEW b, Sound(b), Streamed(b), Sound(lib), NEW c \in 1 .. Len(b.cells),
         NEW e \in 1 .. Len(b.cells[c].elements),
         InElement(b, c, e, Len(WriteElement(b.cells[c].elements[e])) - 1),
         Step, whole' = whole, ~ AtEnd
  PROVE  InHand(b)'
<1>. DEFINE el == b.cells[c].elements[e]
            at == ElementStart(b, c, e)
            W == WriteElement(el)
            p == PartCells(b, c, e - 1)
            q == PartCells(b, c, e)
<1>1. /\ IsLibrary(b) /\ status = "reading" /\ pos = at + 1 + (Len(W) - 1)
      /\ pending = Partly(el, Len(W) - 1)
      /\ Titled(b) /\ Current(b, c) /\ Holds(b, p) /\ IsLibrary(lib)
  BY StepIs DEF Sound, InElement
<1>2. el \in Element /\ IsTold(el)
  <2>1. el \in Element
    BY <1>1, ElementPlaces
  <2>2. c \in DOMAIN b.cells /\ e \in DOMAIN b.cells[c].elements
    BY <1>1, CellSizes
  <2>. QED
    BY <2>1, <2>2 DEF Sound
<1>3. /\ Len(W) \in {4, 5} /\ W[Len(W)] = Marker("ENDEL")
  BY <1>2, ElementWritten
<1>4. /\ at \in Nat /\ ElementStart(b, c, e + 1) = at + Len(W)
  BY <1>1, ElementPlaces
<1>5. e - 1 + 1 = e /\ e + 1 - 1 = e /\ e + 1 \in 1 .. Len(b.cells[c].elements) + 1
  <2>1. Len(b.cells[c].elements) \in Nat
    BY <1>1, Places
  <2>. QED
    BY <2>1
<1>6. Len(W) \in 1 .. Len(W) /\ at + 1 + (Len(W) - 1) = at + Len(W)
  <2>1. \A n \in {4, 5} : n \in 1 .. n /\ at + 1 + (n - 1) = at + n
    BY <1>4
  <2>. QED
    BY <1>3, <2>1
<1>7. pos > 1 /\ Rec = W[Len(W)] /\ pos = at + Len(W)
  BY <1>1, <1>6, ElementRecordRead
<1>8. /\ AddElement(CellsAlone(p), c, el).cells = q
      /\ ElementCount(CellsAlone(q)) = ElementCount(CellsAlone(p)) + 1
  BY <1>1, CountNewElement
<1>9. pending = el
  BY <1>1, <1>2, PartlyIs
<1>10. p \in Seq(Cell)
  <2>1. e - 1 \in 0 .. Len(b.cells[c].elements)
    BY <1>5, Places
  <2>. QED
    BY <1>1, <2>1, PartCellsAre
<1>. HIDE DEF el, at, W, p, q
<1>11. Rec.rt = "ENDEL" /\ Rec.fit
  BY <1>3, <1>7 DEF Marker, Record
<1>12. curCell \in DOMAIN lib.cells /\ curCell # 0
  <2>1. curCell \in DOMAIN lib.cells
    BY <1>1 DEF Current
  <2>. QED
    BY <1>1, <2>1, CellSizes
<1>13. pending # NoElement
  BY <1>2, <1>9 DEF NoElement, Untold, Element
<1>14. EndElement
  BY <1>7, <1>11, <1>12, <1>13, StepIs
<1>15. /\ pos' = pos + 1 /\ pending' = NoElement /\ lib' = AddElement(lib, curCell, el)
       /\ curCell' = curCell /\ status' = "reading"
  BY <1>1, <1>9, <1>14 DEF EndElement, Take
<1>16. /\ Sound(lib') /\ lib'.libName = lib.libName /\ lib'.units = lib.units
       /\ DOMAIN lib'.cells = DOMAIN lib.cells
       /\ ElementCount(lib') = ElementCount(lib) + 1
  BY <1>1, <1>2, <1>12, <1>15, SoundAddElement, AddElementChanges, AddElementCounts
<1>17. ToldApart(b) => lib'.cells = q
  <2>1. ASSUME ToldApart(b)
        PROVE  lib.cells = CellsAlone(p).cells /\ curCell = c
    BY <1>1, <1>10, <2>1, AloneIsLibrary DEF Holds, Current
  <2>2. \A l, m, idx : IsLibrary(l) /\ IsLibrary(m) /\ l.cells = m.cells =>
          AddElement(l, idx, el).cells = AddElement(m, idx, el).cells
    BY DEF AddElement, IsLibrary
  <2>. QED
    BY <1>1, <1>8, <1>10, <1>15, <2>1, <2>2, AloneIsLibrary
<1>18. Holds(b, q)'
  BY <1>1, <1>8, <1>16, <1>17 DEF Holds
<1>19. Titled(b)' /\ Current(b, c)'
  BY <1>1, <1>15, <1>16 DEF Titled, Current
<1>20. pos' = ElementStart(b, c, e + 1) + 1
  BY <1>4, <1>7, <1>15
<1>21. Holds(b, PartCells(b, c, e + 1 - 1))'
  BY <1>5, <1>18 DEF q
<1>22. AtElement(b, c, e + 1)'
  BY <1>15, <1>19, <1>20, <1>21 DEF AtElement
<1>23. Place(b)'
  BY <1>5, <1>22 DEF Place
<1>. QED
  BY <1>15, <1>16, <1>23 DEF InHand

\* Wherever the reader is there is a record to come, and what it has so far is the
\* beginning of the library.
LEMMA PlaceIs ==
  ASSUME NEW b, IsLibrary(b), Place(b)
  PROVE  /\ pos \in Nat \ {0} /\ pos <= Len(Write(b))
         /\ AtHead(b) \/ pos > 1
         /\ ToldApart(b) => IsCutOf(lib.cells, WholeCells(b, Len(b.cells)))
<1>. DEFINE N == Len(b.cells)
            all == WholeCells(b, N)
            Goal == /\ pos \in Nat \ {0} /\ pos <= Len(Write(b))
                    /\ AtHead(b) \/ pos > 1
                    /\ ToldApart(b) => IsCutOf(lib.cells, all)
<1>1. /\ N \in Nat /\ Len(Write(b)) \in Nat /\ Len(Write(b)) >= 5 /\ N \in 0 .. N
      /\ CellStart(b, N + 1) \in Nat /\ CellStart(b, N + 1) >= 4
      /\ Len(Write(b)) = CellStart(b, N + 1) + 1
  BY LibraryWritten
<1>2. all \in Seq(Cell) /\ Len(all) = N
  BY <1>1, WholeCellsAre
<1>3. /\ \A n \in 0 .. N : IsCutOf(WholeCells(b, n), all)
      /\ \A c \in 1 .. N : \A e \in 0 .. Len(b.cells[c].elements) :
           IsCutOf(PartCells(b, c, e), all)
  BY PartsAreCuts
<1>4. ASSUME AtHead(b)
      PROVE  Goal
  <2>. HIDE DEF all
  <2>1. IsCutOf(<<>>, all)
    BY <1>1, <1>2 DEF IsCutOf
  <2>. QED
    BY <1>1, <1>4, <2>1 DEF AtHead
<1>5. ASSUME NEW at \in Nat, NEW i \in Nat \ {0}, at >= 4, at + i \in 1 .. Len(Write(b)),
             pos = at + i, NEW cells, Holds(b, cells), IsCutOf(cells, all)
      PROVE  Goal
  <2>1. pos \in Nat \ {0} /\ pos <= Len(Write(b)) /\ pos > 1
    <3>. HIDE DEF N, all, Goal
    <3>. QED
      BY <1>1, <1>5
  <2>. QED
    BY <1>5, <2>1 DEF Holds
<1>6. ASSUME NEW c \in 1 .. N
      PROVE  /\ CellStart(b, c) \in Nat /\ CellStart(b, c) >= 4 /\ c \in 1 .. N + 1
             /\ CellStart(b, c) + 1 \in 1 .. Len(Write(b))
             /\ CellStart(b, c) + 2 \in 1 .. Len(Write(b))
             /\ ElementStart(b, c, Len(b.cells[c].elements) + 1) \in Nat
             /\ ElementStart(b, c, Len(b.cells[c].elements) + 1) >= 4
             /\ ElementStart(b, c, Len(b.cells[c].elements) + 1) + 1 \in 1 .. Len(Write(b))
             /\ c - 1 \in 0 .. N /\ Len(b.cells[c].elements) \in Nat
  <2>1. c \in 1 .. N + 1 /\ c - 1 \in 0 .. N
    <3>. HIDE DEF N
    <3>. QED
      BY <1>1
  <2>2. /\ CellStart(b, c) \in Nat /\ CellStart(b, c) >= 4
        /\ CellStart(b, c) + 1 \in 1 .. Len(Write(b))
        /\ CellStart(b, c) + 2 \in 1 .. Len(Write(b))
        /\ Len(b.cells[c].elements) \in Nat
    BY Places
  <2>3. /\ ElementStart(b, c, Len(b.cells[c].elements) + 1) \in Nat
        /\ ElementStart(b, c, Len(b.cells[c].elements) + 1) >= 4
        /\ CellStart(b, c + 1) = ElementStart(b, c, Len(b.cells[c].elements) + 1) + 1
        /\ CellStart(b, c + 1) \in 1 .. Len(Write(b))
    BY Places
  <2>. QED
    BY <2>1, <2>2, <2>3
<1>7. ASSUME NEW c \in 1 .. N, NEW e \in 1 .. Len(b.cells[c].elements)
      PROVE  /\ ElementStart(b, c, e) \in Nat /\ ElementStart(b, c, e) >= 4
             /\ \A i \in 1 .. Len(WriteElement(b.cells[c].elements[e])) :
                  ElementStart(b, c, e) + i \in 1 .. Len(Write(b))
             /\ Len(WriteElement(b.cells[c].elements[e])) \in {4, 5}
             /\ e - 1 \in 0 .. Len(b.cells[c].elements)
  <2>1. /\ ElementStart(b, c, e) \in Nat /\ ElementStart(b, c, e) >= 4
        /\ b.cells[c].elements[e] \in Element
    BY ElementPlaces
  <2>2. StandsAt(b, ElementStart(b, c, e), WriteElement(b.cells[c].elements[e]))
    BY ElementPlaces
  <2>3. Len(WriteElement(b.cells[c].elements[e])) \in {4, 5}
    BY <2>1, ElementWritten
  <2>4. e - 1 \in 0 .. Len(b.cells[c].elements)
    <3>1. Len(b.cells[c].elements) \in Nat
      BY Places
    <3>. QED
      BY <3>1
  <2>. QED
    BY <2>1, <2>2, <2>3, <2>4 DEF StandsAt
<1>. HIDE DEF N, all, Goal
<1>8. ASSUME NEW c \in 1 .. N + 1, AtCell(b, c)
      PROVE  Goal
  <2>1. pos = CellStart(b, c) + 1 /\ Holds(b, WholeCells(b, c - 1))
    BY <1>8 DEF AtCell
  <2>2. /\ CellStart(b, c) \in Nat /\ CellStart(b, c) >= 4 /\ c - 1 \in 0 .. N
        /\ CellStart(b, c) + 1 \in 1 .. Len(Write(b))
    <3>1. CASE c \in 1 .. N
      BY <1>6, <3>1
    <3>2. CASE c = N + 1
      BY <1>1, <3>2
    <3>. QED
      BY <1>1, <3>1, <3>2
  <2>. QED
    BY <1>3, <1>5, <2>1, <2>2
<1>9. ASSUME NEW c \in 1 .. N, InCell(b, c)
      PROVE  Goal
  <2>1. pos = CellStart(b, c) + 2 /\ Holds(b, WholeCells(b, c - 1))
    BY <1>9 DEF InCell
  <2>. QED
    BY <1>3, <1>5, <1>6, <2>1
<1>10. ASSUME NEW c \in 1 .. N, NEW e \in 1 .. Len(b.cells[c].elements) + 1,
              AtElement(b, c, e)
       PROVE  Goal
  <2>1. pos = ElementStart(b, c, e) + 1 /\ Holds(b, PartCells(b, c, e - 1))
    BY <1>10 DEF AtElement
  <2>2. /\ ElementStart(b, c, e) \in Nat /\ ElementStart(b, c, e) >= 4
        /\ ElementStart(b, c, e) + 1 \in 1 .. Len(Write(b))
        /\ e - 1 \in 0 .. Len(b.cells[c].elements)
    <3>1. CASE e \in 1 .. Len(b.cells[c].elements)
      <4>1. 1 \in 1 .. Len(WriteElement(b.cells[c].elements[e]))
        <5>1. Len(WriteElement(b.cells[c].elements[e])) \in {4, 5}
          BY <1>7, <3>1
        <5>2. \A n \in {4, 5} : 1 \in 1 .. n
          OBVIOUS
        <5>. QED
          BY <5>1, <5>2
      <4>. QED
        BY <1>7, <3>1, <4>1
    <3>2. CASE e = Len(b.cells[c].elements) + 1
      BY <1>6, <3>2
    <3>3. e \in 1 .. Len(b.cells[c].elements) \/ e = Len(b.cells[c].elements) + 1
      <4>1. Len(b.cells[c].elements) \in Nat
        BY <1>6
      <4>. QED
        BY <4>1
    <3>. QED
      BY <3>1, <3>2, <3>3
  <2>. QED
    BY <1>3, <1>5, <2>1, <2>2
<1>11. ASSUME NEW c \in 1 .. N, NEW e \in 1 .. Len(b.cells[c].elements),
              NEW j \in 1 .. Len(WriteElement(b.cells[c].elements[e])) - 1,
              InElement(b, c, e, j)
       PROVE  Goal
  <2>1. pos = ElementStart(b, c, e) + 1 + j /\ Holds(b, PartCells(b, c, e - 1))
    BY <1>11 DEF InElement
  <2>2. j + 1 \in 1 .. Len(WriteElement(b.cells[c].elements[e])) /\ j + 1 \in Nat \ {0}
        /\ j \in Nat
    <3>1. Len(WriteElement(b.cells[c].elements[e])) \in {4, 5}
      BY <1>7
    <3>2. \A n \in {4, 5} : \A k \in 1 .. n - 1 :
            k + 1 \in 1 .. n /\ k + 1 \in Nat \ {0} /\ k \in Nat
      OBVIOUS
    <3>. QED
      BY <3>1, <3>2
  <2>3. pos = ElementStart(b, c, e) + (j + 1) /\ ElementStart(b, c, e) \in Nat
        /\ ElementStart(b, c, e) >= 4
    <3>1. ElementStart(b, c, e) \in Nat /\ ElementStart(b, c, e) >= 4
      BY <1>7
    <3>. QED
      BY <2>1, <2>2, <3>1
  <2>4. ElementStart(b, c, e) + (j + 1) \in 1 .. Len(Write(b))
        /\ e - 1 \in 0 .. Len(b.cells[c].elements)
    BY <1>7, <2>2
  <2>. QED
    BY <1>3, <1>5, <2>1, <2>2, <2>3, <2>4
<1>12. Goal
  BY <1>4, <1>8, <1>9, <1>10, <1>11 DEF Place, N
<1>. QED
  BY <1>12 DEF Goal, N, all

\* The stream was cut, at a place where something was to come.
LEMMA EndStep ==
  ASSUME NEW b, Sound(b), Streamed(b), Sound(lib), Place(b), Step, whole' = whole,
         AtEnd, pos > 1
  PROVE  InHand(b)'
<1>1. IsLibrary(b) /\ EndOfStream
  BY StepIs DEF Sound
<1>2. /\ pos \in Nat \ {0} /\ pos <= Len(Write(b)) /\ Len(Write(b)) \in Nat
      /\ ToldApart(b) => IsCutOf(lib.cells, WholeCells(b, Len(b.cells)))
  BY <1>1, PlaceIs, LibraryWritten
<1>3. ~ whole
  <2>1. whole => pos > Len(Write(b))
    BY <1>1, <1>2, RecordWritten
  <2>. QED
    BY <1>2, <2>1
<1>4. lib' = lib /\ status' # "reading"
  BY <1>1 DEF EndOfStream, TailError
<1>5. Finished(b)'
  BY <1>2, <1>3, <1>4 DEF Finished
<1>. QED
  BY <1>3, <1>4, <1>5 DEF InHand

\* Every step of a reading of our own stream.
LEMMA RereadingStep ==
  ASSUME NEW b, Sound(b), Rereading(b), Step, whole' = whole
  PROVE  Rereading(b)'
<1>1. /\ IsLibrary(b) /\ Streamed(b) /\ Sound(lib) /\ status = "reading" /\ Place(b)
      /\ stream' = stream
  BY StepIs DEF Sound, Rereading, InHand
<1>2. Streamed(b)'
  BY <1>1 DEF Streamed
<1>3. CASE pos > 1 /\ AtEnd
  BY <1>1, <1>2, <1>3, EndStep DEF Rereading
<1>4. CASE pos = 1
  <2>1. AtHead(b)
    <3>1. AtHead(b) \/ pos > 1
      BY <1>1, PlaceIs
    <3>. QED
      BY <1>4, <3>1
  <2>. QED
    BY <1>1, <1>2, <1>4, <2>1, HeadStep DEF Rereading
<1>5. CASE ~ AtEnd
  <2>1. ASSUME AtHead(b)
        PROVE  InHand(b)'
    BY <1>1, <1>5, <2>1, HeadStep
  <2>2. ASSUME NEW c \in 1 .. Len(b.cells) + 1, AtCell(b, c)
        PROVE  InHand(b)'
    BY <1>1, <1>5, <2>2, CellStep
  <2>3. ASSUME NEW c \in 1 .. Len(b.cells), InCell(b, c)
        PROVE  InHand(b)'
    BY <1>1, <1>5, <2>3, NameStep
  <2>4. ASSUME NEW c \in 1 .. Len(b.cells),
               NEW e \in 1 .. Len(b.cells[c].elements) + 1, AtElement(b, c, e)
        PROVE  InHand(b)'
    <3>1. CASE e \in 1 .. Len(b.cells[c].elements)
      BY <1>1, <1>5, <2>4, <3>1, StartStep
    <3>2. CASE e = Len(b.cells[c].elements) + 1
      BY <1>1, <1>5, <2>4, <3>2, EndCellStep
    <3>. QED
      <4>1. Len(b.cells[c].elements) \in Nat
        BY <1>1, Places
      <4>. QED
        BY <3>1, <3>2, <4>1
  <2>5. ASSUME NEW c \in 1 .. Len(b.cells), NEW e \in 1 .. Len(b.cells[c].elements),
               NEW j \in 1 .. Len(WriteElement(b.cells[c].elements[e])) - 1,
               InElement(b, c, e, j)
        PROVE  InHand(b)'
    <3>. DEFINE L == Len(WriteElement(b.cells[c].elements[e]))
    <3>1. L \in {4, 5}
      <4>1. b.cells[c].elements[e] \in Element
        BY <1>1, ElementPlaces
      <4>. QED
        BY <4>1, ElementWritten
    <3>2. j \in 1 .. L - 2 \/ j = L - 1
      <4>1. \A n \in {4, 5} : \A k \in 1 .. n - 1 : k \in 1 .. n - 2 \/ k = n - 1
        OBVIOUS
      <4>. QED
        BY <3>1, <4>1
    <3>3. CASE j \in 1 .. L - 2
      BY <1>1, <1>5, <2>5, <3>3, DescribeStep
    <3>4. CASE j = L - 1
      BY <1>1, <1>5, <2>5, <3>4, EndElementStep
    <3>. QED
      BY <3>2, <3>3, <3>4
  <2>6. InHand(b)'
    BY <1>1, <2>1, <2>2, <2>3, <2>4, <2>5 DEF Place
  <2>. QED
    BY <1>2, <2>6 DEF Rereading
<1>6. pos = 1 \/ pos > 1
  <2>1. pos \in Nat \ {0}
    BY <1>1, PlaceIs
  <2>. QED
    BY <2>1
<1>. QED
  BY <1>3, <1>4, <1>5, <1>6

----------------------------------------------------------------------------
(* What a foreign stream gives, and what the calls do *)

\* A start record has nothing to tell yet.
LEMMA UntoldIsTold ==
  ASSUME NEW kind
  PROVE  IsTold(Untold(kind))
BY DEF IsTold, Untold

\* Whatever is read, the library is one that can be written.
LEMMA FirstStep == IInv /\ Sound(lib) /\ IsTold(pending) /\ Step => Sound(lib') /\ IsTold(pending')
<1>. SUFFICES ASSUME IInv, Sound(lib), IsTold(pending), Step
              PROVE  Sound(lib') /\ IsTold(pending')
  OBVIOUS
<1>1. /\ TypeOK /\ IsLibrary(lib) /\ IndexAgrees(lib) /\ Len(lib.units) = 2
      /\ pending \in Element \cup {NoElement} /\ curCell \in 0 .. Len(lib.cells)
      /\ lib.cells \in Seq(Cell) /\ Len(lib.cells) \in Nat
      /\ DOMAIN lib.cells = 1 .. Len(lib.cells)
      /\ lib.libName \in Name /\ lib.units \in Seq(Values)
  <2>1. /\ TypeOK /\ IsLibrary(lib) /\ IndexAgrees(lib) /\ Len(lib.units) = 2
        /\ pending \in Element \cup {NoElement} /\ curCell \in 0 .. Len(lib.cells)
    BY DEF IInv, TypeOK, IndexMatchesCells, Sound
  <2>2. lib.libName \in Name /\ lib.units \in Seq(Values)
    BY <2>1 DEF IsLibrary
  <2>. QED
    BY <2>1, <2>2, CellSizes
<1>2. IsTold(NoElement)
  BY UntoldIsTold DEF NoElement
<1>3. CASE lib' = lib /\ pending' = pending
  BY <1>3
<1>4. CASE SetLibName
  <2>1. /\ Take({"LIBNAME"}) /\ lib' = [lib EXCEPT !.libName = Rec.data[1]]
        /\ pending' = pending
    BY <1>4 DEF SetLibName
  <2>2. Rec.data[1] \in Name
    BY <1>1, <2>1, RecordProperties DEF Naming
  <2>. QED
    BY <1>1, <2>1, <2>2, SoundTitle
<1>5. CASE SetUnits
  <2>1. /\ Take({"UNITS"}) /\ pending' = pending
        /\ lib' = IF Len(Rec.data) >= 2
                  THEN [lib EXCEPT !.units = SubSeq(Rec.data, 1, 2)] ELSE lib
    BY <1>5 DEF SetUnits
  <2>2. Rec.data \in Seq(Values)
    BY <1>1, <2>1, RecordProperties DEF Naming
  <2>3. Len(Rec.data) >= 2 =>
          SubSeq(Rec.data, 1, 2) \in Seq(Values) /\ Len(SubSeq(Rec.data, 1, 2)) = 2
    BY <2>2
  <2>. QED
    BY <1>1, <2>1, <2>3, SoundTitle
<1>6. CASE NameStructure
  <2>1. /\ Take({"STRNAME"}) /\ pending' = pending
        /\ lib' = lib \/ lib' = AddCell(lib, Rec.data[1])
    BY <1>6 DEF NameStructure
  <2>2. Rec.data[1] \in Name
    BY <1>1, <2>1, RecordProperties DEF Naming
  <2>. QED
    BY <2>1, <2>2, SoundAddCell
<1>7. CASE StartElement
  <2>1. lib' = lib /\ pending' = Untold(Rec.rt)
    BY <1>7 DEF StartElement
  <2>. QED
    BY <2>1, UntoldIsTold
<1>8. CASE DescribeElement
  <2>1. CASE pending.kind # "BOUNDARY"
    BY <1>8, <2>1 DEF DescribeElement
  <2>2. CASE pending.kind = "BOUNDARY"
    <3>1. pending \in Element
      BY <1>1, <2>2 DEF NoElement, Untold
    <3>2. \A x : /\ [pending EXCEPT !.xy = x].kind = "BOUNDARY"
                 /\ [pending EXCEPT !.layer = x].kind = "BOUNDARY"
                 /\ [pending EXCEPT !.datatype = x].kind = "BOUNDARY"
      BY <2>2, <3>1 DEF Element
    <3>3. lib' = lib /\ pending'.kind = "BOUNDARY"
      BY <1>8, <2>2, <3>2 DEF DescribeElement
    <3>. QED
      BY <3>3 DEF IsTold
  <2>. QED
    BY <2>1, <2>2
<1>9. CASE EndElement
  <2>1. /\ curCell # 0 /\ pending # NoElement /\ lib' = AddElement(lib, curCell, pending)
        /\ pending' = NoElement
    BY <1>9 DEF EndElement
  <2>2. curCell \in DOMAIN lib.cells /\ pending \in Element
    BY <1>1, <2>1
  <2>. QED
    BY <1>2, <2>1, <2>2, SoundAddElement
<1>10. CASE EndOrphan
  <2>. DEFINE name == OrphanName(Len(lib.cells))
              with == AddCell(lib, name)
  <2>1. /\ pending # NoElement /\ pending' = NoElement
        /\ lib' = AddElement(with, Len(with.cells), pending)
    BY <1>10 DEF EndOrphan
  <2>2. pending \in Element /\ name \in Name
    BY <1>1, <2>1 DEF OrphanName, PlainName, Name
  <2>3. Sound(with) /\ name \in DOMAIN with.index /\ IsLibrary(with)
    BY <1>1, <2>2, SoundAddCell, AddCellProperties
  <2>. HIDE DEF with, name
  <2>4. Len(with.cells) \in DOMAIN with.cells
    <3>1. Len(with.cells) \in Nat \ {0} /\ DOMAIN with.cells = 1 .. Len(with.cells)
      BY <2>3, IndexedCell, CellSizes
    <3>. QED
      BY <3>1
  <2>. QED
    BY <1>2, <2>1, <2>2, <2>3, <2>4, SoundAddElement
<1>11. \/ lib' = lib /\ pending' = pending
       \/ SetLibName \/ SetUnits \/ NameStructure \/ StartElement \/ DescribeElement
       \/ EndElement \/ EndOrphan
  BY DEF Step, ReadFirst, SkipRecord, RefusePayload, EndStructure, EndNothing, EndLibrary,
         EndOfStream
<1>. QED
  BY <1>3, <1>4, <1>5, <1>6, <1>7, <1>8, <1>9, <1>10, <1>11

\* add_rect, whether or not the cell is there.
LEMMA SoundAddRect ==
  ASSUME NEW l, Sound(l), NEW name \in Name, NEW layer \in Values, NEW outline \in Values
  PROVE  Sound(AddRect(l, name, layer, outline))
<1>. DEFINE with == AddCell(l, name)
            idx == IF name \in DOMAIN l.index THEN l.index[name] ELSE Len(with.cells)
            el == Boundary(layer, 0, <<outline>>)
<1>1. IsLibrary(l) /\ IndexAgrees(l) /\ Sound(with) /\ IsLibrary(with)
      /\ name \in DOMAIN with.index
  BY SoundAddCell, AddCellProperties DEF Sound
<1>2. el \in Element /\ IsTold(el)
  BY ValuesAssumption DEF Boundary, Element, IsTold
<1>3. AddRect(l, name, layer, outline) = AddElement(with, idx, el)
  BY DEF AddRect
<1>4. idx \in DOMAIN with.cells
  <2>1. /\ Len(with.cells) \in Nat \ {0} /\ DOMAIN with.cells = 1 .. Len(with.cells)
        /\ with.index[name] \in 1 .. Len(with.cells)
    BY <1>1, IndexedCell, CellSizes
  <2>2. CASE name \in DOMAIN l.index
    <3>1. with = l
      BY <2>2 DEF AddCell
    <3>. QED
      BY <2>1, <2>2, <3>1
  <2>3. CASE name \notin DOMAIN l.index
    <3>. HIDE DEF with
    <3>. QED
      BY <2>1, <2>3
  <2>. QED
    BY <2>2, <2>3
<1>. HIDE DEF with, idx, el
<1>. QED
  BY <1>1, <1>2, <1>3, <1>4, SoundAddElement

----------------------------------------------------------------------------
(* The round trip *)

\* A new library or a foreign stream to begin with.
LEMMA InitRTInv == RTInit => RTInv
<1>. SUFFICES ASSUME RTInit PROVE RTInv
  OBVIOUS
<1>1. Fresh /\ (New \/ Foreign)
  BY DEF RTInit
<1>2. CASE New
  <2>1. PICK n \in LibNames : phase = "edit" /\ built = NewLibrary(n)
    BY <1>2 DEF New
  <2>2. n \in Name
    BY BoundsAssumption
  <2>. QED
    BY <2>1, <2>2, SoundNew DEF RTInv
<1>3. CASE Foreign
  <2>1. phase = "first" /\ built = NewLibrary(NoName) /\ Init
    BY <1>1, <1>3 DEF Foreign, Init
  <2>2. Sound(NewLibrary(NoName))
    BY NoNameIsName, SoundNew
  <2>3. IInv
    BY <2>1, InitIInv
  <2>4. lib = NewLibrary(NoName) /\ IsTold(pending)
    BY <1>1, UntoldIsTold DEF Fresh, NoElement
  <2>. QED
    BY <2>1, <2>2, <2>3, <2>4 DEF RTInv
<1>. QED
  BY <1>1, <1>2, <1>3

\* Nothing that is in hand changes unless the reader moves.
LEMMA RereadingStays ==
  ASSUME NEW b, Rereading(b), UNCHANGED <<vars, whole>>
  PROVE  Rereading(b)'
<1>1. /\ stream' = stream /\ pos' = pos /\ lib' = lib /\ curCell' = curCell
      /\ pending' = pending /\ status' = status /\ whole' = whole
  BY DEF vars
<1>2. Streamed(b)'
  BY <1>1 DEF Rereading, Streamed
<1>3. \A cells : Holds(b, cells) => Holds(b, cells)'
  BY <1>1 DEF Holds
<1>4. /\ Titled(b) => Titled(b)'
      /\ \A c : Current(b, c) => Current(b, c)'
      /\ AtHead(b) => AtHead(b)'
  BY <1>1 DEF Titled, Current, AtHead
<1>5. /\ \A c : AtCell(b, c) => AtCell(b, c)'
      /\ \A c : InCell(b, c) => InCell(b, c)'
      /\ \A c, e : AtElement(b, c, e) => AtElement(b, c, e)'
      /\ \A c, e, j : InElement(b, c, e, j) => InElement(b, c, e, j)'
  BY <1>1, <1>3, <1>4 DEF AtCell, InCell, AtElement, InElement
<1>6. Place(b) => Place(b)'
  BY <1>4, <1>5 DEF Place
<1>7. Finished(b) => Finished(b)'
  BY <1>1, <1>3, <1>4 DEF Finished
<1>8. InHand(b)'
  BY <1>1, <1>6, <1>7 DEF Rereading, InHand
<1>. QED
  BY <1>2, <1>8 DEF Rereading

\* A stream that was just written is read from its head.
LEMMA FreshRereading ==
  ASSUME NEW b, Sound(b), WriteAndRead, built = b
  PROVE  Rereading(b)'
<1>. DEFINE w == Write(b)
<1>1. w \in Seq(Written) /\ Len(w) \in Nat
  BY LibraryWritten DEF Sound
<1>2. /\ \/ stream' = [records |-> w, tail |-> "none"] /\ whole' = TRUE
         \/ stream' \in Cuts(w) /\ whole' = FALSE
      /\ pos' = 1 /\ lib' = NewLibrary(NoName) /\ pending' = NoElement
      /\ status' = "reading"
  BY DEF WriteAndRead
<1>3. Streamed(b)'
  <2>1. CASE stream' = [records |-> w, tail |-> "none"] /\ whole' = TRUE
    <3>1. SubSeq(w, 1, Len(w)) = w /\ Len(w) \in 0 .. Len(w)
      BY <1>1
    <3>2. stream'.records = w /\ stream'.tail = "none"
      BY <2>1
    <3>. QED
      BY <2>1, <3>1, <3>2, Zenon DEF Streamed
  <2>2. CASE stream' \in Cuts(w) /\ whole' = FALSE
    <3>1. \E n \in 0 .. Len(w) - 1 : stream'.records = SubSeq(w, 1, n)
      BY <2>2 DEF Cuts
    <3>2. \A n \in 0 .. Len(w) - 1 : n \in 0 .. Len(w)
      BY <1>1
    <3>. QED
      BY <2>2, <3>1, <3>2 DEF Streamed
  <2>. QED
    BY <1>2, <2>1, <2>2
<1>4. Sound(NewLibrary(NoName)) /\ NewLibrary(NoName).cells = <<>>
  BY NoNameIsName, SoundNew
<1>5. AtHead(b)'
  BY <1>2, <1>4 DEF AtHead
<1>6. InHand(b)'
  BY <1>2, <1>4, <1>5 DEF InHand, Place
<1>. QED
  BY <1>3, <1>6 DEF Rereading

\* Each call, each step of a read and each writing keeps the invariant.
LEMMA StepRTInv == RTInv /\ [RTNext]_rtVars => RTInv'
<1>. SUFFICES ASSUME RTInv, [RTNext]_rtVars PROVE RTInv'
  OBVIOUS
<1>1. CASE UNCHANGED rtVars
  <2>1. UNCHANGED <<vars, whole>> /\ phase' = phase /\ built' = built
    BY <1>1 DEF rtVars
  <2>2. phase = "first" => (IInv /\ Sound(lib) /\ IsTold(pending))'
    <3>1. UNCHANGED vars
      BY <2>1
    <3>2. phase = "first" => IInv'
      BY <3>1, StepIInv DEF RTInv
    <3>3. lib' = lib /\ pending' = pending
      BY <3>1 DEF vars
    <3>. QED
      BY <3>2, <3>3 DEF RTInv
  <2>3. \A b : built = b /\ Rereading(b) => Rereading(b)'
    BY <2>1, RereadingStays
  <2>. QED
    BY <2>1, <2>2, <2>3 DEF RTInv
<1>2. CASE Reading
  <2>1. /\ phase \in {"first", "again"} /\ Step /\ phase' = phase /\ built' = built
        /\ whole' = whole /\ Sound(built)
    BY <1>2 DEF Reading, RTInv
  <2>2. CASE phase = "first"
    <3>1. IInv /\ Sound(lib) /\ IsTold(pending)
      BY <2>2 DEF RTInv
    <3>2. IInv'
      BY <2>1, <3>1, StepIInv DEF Next
    <3>3. Sound(lib') /\ IsTold(pending')
      BY <2>1, <3>1, FirstStep
    <3>. QED
      BY <2>1, <2>2, <3>2, <3>3 DEF RTInv
  <2>3. CASE phase = "again"
    <3>1. PICK b : built = b /\ Rereading(b)
      BY <2>3 DEF RTInv
    <3>2. Rereading(b)'
      BY <2>1, <3>1, RereadingStep
    <3>. QED
      BY <2>1, <2>3, <3>1, <3>2 DEF RTInv
  <2>. QED
    BY <2>1, <2>2, <2>3
<1>3. CASE Keep
  <2>1. phase' = "edit" /\ built' = lib /\ phase \in {"first", "again"}
    BY <1>3 DEF Keep
  <2>2. Sound(lib)
    BY <2>1 DEF RTInv, Rereading, InHand
  <2>. QED
    BY <2>1, <2>2 DEF RTInv
<1>4. CASE CallAddCell
  <2>1. PICK n \in CellNames : Edited(AddCell(built, n))
    BY <1>4 DEF CallAddCell
  <2>2. n \in Name /\ Sound(built)
    BY BoundsAssumption DEF RTInv
  <2>3. Sound(AddCell(built, n))
    BY <2>2, SoundAddCell
  <2>. QED
    BY <2>1, <2>3 DEF Edited, RTInv
<1>5. CASE CallAddRect
  <2>1. PICK n \in CellNames, layer \in Values, outline \in Values :
          Edited(AddRect(built, n, layer, outline))
    BY <1>5 DEF CallAddRect
  <2>2. n \in Name /\ Sound(built)
    BY BoundsAssumption DEF RTInv
  <2>3. Sound(AddRect(built, n, layer, outline))
    BY <2>2, SoundAddRect
  <2>. QED
    BY <2>1, <2>3 DEF Edited, RTInv
<1>6. CASE WriteAndRead
  <2>1. phase' = "again" /\ built' = built /\ Sound(built)
    BY <1>6 DEF WriteAndRead, RTInv
  <2>2. \A b : built = b => Rereading(b)'
    BY <1>6, <2>1, FreshRereading
  <2>. QED
    BY <2>1, <2>2 DEF RTInv
<1>. QED
  BY <1>1, <1>2, <1>3, <1>4, <1>5, <1>6 DEF RTNext

----------------------------------------------------------------------------
(* The theorems *)

\* At every place of the stream that was written the reader has in hand what
\* stands before that place, and no more.
THEOREM RTInductive == RTSpec => []RTInv
<1>. QED
  BY InitRTInv, StepRTInv, PTL DEF RTSpec

\* Whatever library was built by calls or read from a stream, Gds::read of
\* Gds::write returns it: without an error, with every element, and cell by cell
\* as long as its names can be told apart.
THEOREM RereadCorrect == RTSpec => []RereadKeepsLibrary
<1>1. RTInv => RereadKeepsLibrary
  <2>. SUFFICES ASSUME RTInv, Reread, whole
                PROVE  /\ status = "ok" /\ ElementCount(lib) = ElementCount(built)
                       /\ lib.libName = ReadBack(built.libName) /\ lib.units = built.units
                       /\ NamesToldApart => lib.cells = CellsReadBack
    BY DEF RereadKeepsLibrary
  <2>1. PICK b : built = b /\ Rereading(b)
    BY DEF RTInv, Reread
  <2>2. status = "ok" /\ Titled(b) /\ Holds(b, WholeCells(b, Len(b.cells)))
        /\ IsLibrary(b)
    BY <2>1 DEF Rereading, InHand, Finished, Reread, RTInv, Sound
  <2>3. ElementCount(CellsAlone(WholeCells(b, Len(b.cells)))) = ElementCount(b)
    BY <2>2, CountWhole
  <2>4. CellsReadBack = WholeCells(b, Len(b.cells))
    BY <2>1, <2>2, CellSizes DEF CellsReadBack, WholeCells
  <2>5. NamesToldApart => ToldApart(b)
    BY <2>1 DEF NamesToldApart, ToldApart
  <2>. QED
    BY <2>1, <2>2, <2>3, <2>4, <2>5 DEF Titled, Holds
<1>. QED
  BY <1>1, RTInductive, PTL

\* And wherever the stream was cut, a read that returns a library returns the
\* beginning of the one that was written.
THEOREM LossCorrect == RTSpec => []CutOnlyLoses
<1>1. RTInv => CutOnlyLoses
  <2>. SUFFICES ASSUME RTInv, Reread, status = "ok", NamesToldApart
                PROVE  IsCutOf(lib.cells, CellsReadBack)
    BY DEF CutOnlyLoses
  <2>1. PICK b : built = b /\ Rereading(b)
    BY DEF RTInv, Reread
  <2>2. Finished(b) /\ IsLibrary(b)
    BY <2>1 DEF Rereading, InHand, RTInv, Sound
  <2>3. CellsReadBack = WholeCells(b, Len(b.cells))
    BY <2>1, <2>2, CellSizes DEF CellsReadBack, WholeCells
  <2>4. ToldApart(b)
    BY <2>1 DEF NamesToldApart, ToldApart
  <2>. QED
    BY <2>2, <2>3, <2>4 DEF Finished
<1>. QED
  BY <1>1, RTInductive, PTL
=============================================================================
