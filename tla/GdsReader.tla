------------------------------ MODULE GdsReader ------------------------------
(***************************************************************************)
(* Gds::read (crates/api/src/io/gds.rs): a stream of records, read one by  *)
(* one into a library.  Whatever bytes follow the last whole record are    *)
(* the stream's tail: none, too few for a record's header, or a header     *)
(* whose length is below four or overruns the stream.                      *)
(***************************************************************************)
EXTENDS GdsLibrary, Listing

CONSTANT Streams   \* the inputs: sequences of records, each with a tail

Starts == {"BOUNDARY", "PATH", "SREF"}

\* "AREF" is here for every type that the reader does not know.
RecordTypes == Starts \cup
  { "HEADER", "BGNLIB", "LIBNAME", "UNITS", "ENDLIB", "BGNSTR", "STRNAME",
    "ENDSTR", "LAYER", "DATATYPE", "XY", "ENDEL", "AREF" }

Naming    == {"LIBNAME", "STRNAME"}
Numeric   == {"UNITS", "LAYER", "DATATYPE", "XY"}
Ignored   == {"HEADER", "BGNLIB", "AREF"}

IsRecord(r) ==
  /\ r.rt \in RecordTypes /\ r.fit \in BOOLEAN
  /\ IF r.rt \in Naming THEN r.data \in Seq(Name) /\ Len(r.data) = 1
                        ELSE r.data \in Seq(Values)

Tails == {"none", "header", "length"}

ASSUME StreamsAssumption ==
  \A s \in Streams :
    /\ s.tail \in Tails
    /\ s.records \in Seq(ToSet(s.records))
    /\ \A k \in DOMAIN s.records : IsRecord(s.records[k])

VARIABLES
  stream,    \* the input
  pos,       \* the record to be read next
  lib,       \* gds
  curCell,   \* cur_cell: a place in lib.cells, or 0 for None
  pending,   \* the element being assembled, or NoElement
  status     \* "reading", "ok", or the error

vars == <<stream, pos, lib, curCell, pending, status>>

NoElement == Untold("none")
Rec       == stream.records[pos]
AtEnd     == pos > Len(stream.records)

----------------------------------------------------------------------------

\* next_record at the end of the records: an error for a tail, else None.
TailError == IF stream.tail = "header" THEN "UnexpectedEof" ELSE "BadRecordLength"

ReadFirst ==
  /\ status = "reading" /\ pos = 1
  /\ IF ~ AtEnd /\ Rec.rt = "HEADER"
     THEN pos' = 2 /\ UNCHANGED status
     ELSE /\ status' = IF AtEnd /\ stream.tail # "none" THEN TailError
                       ELSE "MissingHeader"
          /\ UNCHANGED pos
  /\ UNCHANGED <<stream, lib, curCell, pending>>

\* One pass of the loop, over a record of one of these types.
Take(types) ==
  /\ status = "reading" /\ pos > 1 /\ ~ AtEnd
  /\ Rec.rt \in types
  /\ pos' = pos + 1
  /\ UNCHANGED stream

SkipRecord ==
  /\ Take(Ignored)
  /\ UNCHANGED <<lib, curCell, pending, status>>

SetLibName ==
  /\ Take({"LIBNAME"})
  /\ lib' = [lib EXCEPT !.libName = Rec.data[1]]
  /\ UNCHANGED <<curCell, pending, status>>

\* A numeric payload that does not fit its type ends the read.
RefusePayload ==
  /\ Take(Numeric) /\ ~ Rec.fit
  /\ status' = "BadPayload"
  /\ UNCHANGED <<lib, curCell, pending>>

SetUnits ==
  /\ Take({"UNITS"}) /\ Rec.fit
  /\ lib' = IF Len(Rec.data) >= 2
            THEN [lib EXCEPT !.units = SubSeq(Rec.data, 1, 2)] ELSE lib
  /\ UNCHANGED <<curCell, pending, status>>

\* Mutant: STRNAME alone is trusted to leave the structure.
EndStructureOpen ==
  /\ Take({"BGNSTR", "ENDSTR"})
  /\ UNCHANGED <<lib, curCell, pending, status>>

\* BGNSTR and ENDSTR: what follows is in no structure.
EndStructure ==
  /\ Take({"BGNSTR", "ENDSTR"})
  /\ curCell' = 0
  /\ UNCHANGED <<lib, pending, status>>

\* Mutant: the structure is taken to be a new one.
NameStructureAsNew ==
  /\ Take({"STRNAME"})
  /\ IF pending.kind = "SREF"
     THEN UNCHANGED <<lib, curCell>>
     ELSE /\ lib' = AddCell(lib, Rec.data[1])
          /\ curCell' = Len(lib.cells) + 1
  /\ UNCHANGED <<pending, status>>

\* Within a pending reference the name is that of its target.
NameStructure ==
  /\ Take({"STRNAME"})
  /\ IF pending.kind = "SREF"
     THEN UNCHANGED <<lib, curCell>>
     ELSE /\ lib' = AddCell(lib, Rec.data[1])
          /\ curCell' = lib'.index[Rec.data[1]]
  /\ UNCHANGED <<pending, status>>

\* An element that is still pending is dropped.
StartElement ==
  /\ Take(Starts)
  /\ pending' = Untold(Rec.rt)
  /\ UNCHANGED <<lib, curCell, status>>

\* The payload is kept for a boundary only; of LAYER and DATATYPE its first
\* value, if it has one.
DescribeElement ==
  /\ Take({"LAYER", "DATATYPE", "XY"}) /\ Rec.fit
  /\ pending' =
       IF pending.kind # "BOUNDARY" THEN pending
       ELSE IF Rec.rt = "XY" THEN [pending EXCEPT !.xy = Rec.data]
       ELSE IF Rec.data = <<>> THEN pending
       ELSE IF Rec.rt = "LAYER" THEN [pending EXCEPT !.layer = Rec.data[1]]
       ELSE [pending EXCEPT !.datatype = Rec.data[1]]
  /\ UNCHANGED <<lib, curCell, status>>

EndElement ==
  /\ Take({"ENDEL"}) /\ pending # NoElement /\ curCell # 0
  /\ lib' = AddElement(lib, curCell, pending)
  /\ pending' = NoElement
  /\ UNCHANGED <<curCell, status>>

\* Mutant: there is taken to be a last cell.
EndOrphanInLast ==
  /\ Take({"ENDEL"}) /\ pending # NoElement /\ curCell = 0
  /\ lib' = IF lib.cells = <<>> THEN lib
            ELSE AddElement(lib, Len(lib.cells), pending)
  /\ pending' = NoElement
  /\ UNCHANGED <<curCell, status>>

\* Outside any structure: into the last cell, once there is an anonymous one.
EndOrphan ==
  /\ Take({"ENDEL"}) /\ pending # NoElement /\ curCell = 0
  /\ LET with == AddCell(lib, OrphanName(Len(lib.cells)))
     IN  lib' = AddElement(with, Len(with.cells), pending)
  /\ pending' = NoElement
  /\ UNCHANGED <<curCell, status>>

EndNothing ==
  /\ Take({"ENDEL"}) /\ pending = NoElement
  /\ UNCHANGED <<lib, curCell, pending, status>>

\* Nothing after ENDLIB is looked at.
EndLibrary ==
  /\ Take({"ENDLIB"})
  /\ status' = "ok"
  /\ UNCHANGED <<lib, curCell, pending>>

\* Mutant: a tail is no error.
EndOfStreamTolerant ==
  /\ status = "reading" /\ pos > 1 /\ AtEnd
  /\ status' = "ok"
  /\ UNCHANGED <<stream, pos, lib, curCell, pending>>

\* Mutant: what is pending is taken for an element.
EndOfStreamFlushing ==
  /\ status = "reading" /\ pos > 1 /\ AtEnd
  /\ status' = IF stream.tail = "none" THEN "ok" ELSE TailError
  /\ lib' = IF pending # NoElement /\ curCell # 0
            THEN AddElement(lib, curCell, pending) ELSE lib
  /\ UNCHANGED <<stream, pos, curCell, pending>>

EndOfStream ==
  /\ status = "reading" /\ pos > 1 /\ AtEnd
  /\ status' = IF stream.tail = "none" THEN "ok" ELSE TailError
  /\ UNCHANGED <<stream, pos, lib, curCell, pending>>

Step == \/ ReadFirst \/ SkipRecord \/ SetLibName \/ RefusePayload \/ SetUnits
        \/ EndStructure \/ NameStructure
        \/ StartElement \/ DescribeElement \/ EndElement \/ EndOrphan \/ EndNothing
        \/ EndLibrary \/ EndOfStream

Fresh ==
  /\ pos = 1 /\ lib = NewLibrary(NoName)
  /\ curCell = 0 /\ pending = NoElement /\ status = "reading"

Init == stream \in Streams /\ Fresh

Next == Step

Spec == Init /\ [][Next]_vars

----------------------------------------------------------------------------
(* What must hold of the reader *)

TypeOK ==
  /\ stream \in Streams
  /\ pos \in 1 .. Len(stream.records) + 1
  /\ IsLibrary(lib)
  /\ curCell \in 0 .. Len(lib.cells)
  /\ pending \in Element \cup {NoElement}
  /\ status \in {"reading", "ok", "UnexpectedEof", "BadRecordLength",
                 "BadPayload", "MissingHeader"}

\* The map of names and the vector of cells are one thing told twice: add_rect
\* and read index the vector by what the map says.
IndexMatchesCells == IndexAgrees(lib)

\* The records read so far.
Consumed == 1 .. pos - 1
RtOf(k)  == stream.records[k].rt

\* The start record, if there is one, whose element is not ended before record k
\* and for which no other was started since.
Opens(k) == {s \in 2 .. k - 1 : /\ RtOf(s) \in Starts
                               /\ \A t \in s + 1 .. k - 1 :
                                    RtOf(t) \notin Starts \cup {"ENDEL"}}

\* The start record whose element the record k ends, or 0.
StartOf(k) ==
  IF RtOf(k) = "ENDEL" /\ Opens(k) # {} THEN CHOOSE s \in Opens(k) : TRUE ELSE 0

Ended == {k \in Consumed : StartOf(k) # 0}

\* Every element that was started and ended is in the library, wherever it
\* stood, and nothing else is: element_count counts the stream's elements.
ElementsCounted ==
  status \in {"reading", "ok"} => ElementCount(lib) = Cardinality(Ended)

\* Whether the name at record k is a reference's target.
IsTarget(k) == \E s \in Opens(k) : RtOf(s) = "SREF"

\* The structure that record k is in: that of the last name before it, unless
\* a BGNSTR or ENDSTR came between.
Structural(k) ==
  {s \in 2 .. k - 1 : \/ RtOf(s) \in {"BGNSTR", "ENDSTR"}
                      \/ RtOf(s) = "STRNAME" /\ ~ IsTarget(s)}
InStructure(k, name) ==
  /\ Structural(k) # {}
  /\ LET s == CHOOSE s \in Structural(k) : \A t \in Structural(k) : t <= s
     IN  RtOf(s) = "STRNAME" /\ stream.records[s].data = <<name>>

KindsIn(name) ==
  [k \in {e \in Ended : InStructure(e, name)} |-> RtOf(StartOf(k))]

KindsOf(cell) == [i \in DOMAIN cell.elements |-> cell.elements[i].kind]

IsOrphanage(name) == name.stem = Orphan

NamesNoOrphanage ==
  \A k \in DOMAIN stream.records :
    RtOf(k) = "STRNAME" /\ ~ IsTarget(k) => ~ IsOrphanage(stream.records[k].data[1])

\* The cell of each structure holds the elements of that structure, in the
\* order of the stream; orphans go to cells of their own.  It is said of
\* streams that name no structure `$ORPHAN_n`.
StructuresHoldTheirElements ==
  NamesNoOrphanage =>
    \A cell \in ToSet(lib.cells) :
      ~ IsOrphanage(cell.name) => Lists(KindsOf(cell), KindsIn(cell.name))

\* A read that succeeds saw ENDLIB, or the end of the stream between two
\* records; each error has its cause at the record where the reader stopped.
OutcomeJustified ==
  LET last == stream.records[pos - 1] IN
  /\ status = "ok" => \/ pos > 1 /\ last.rt = "ENDLIB"
                      \/ AtEnd /\ stream.tail = "none"
  /\ status = "UnexpectedEof"   => AtEnd /\ stream.tail = "header"
  /\ status = "BadRecordLength" => AtEnd /\ stream.tail = "length"
  /\ status = "BadPayload"      => last.rt \in Numeric /\ ~ last.fit
  /\ status = "MissingHeader"   =>
       pos = 1 /\ IF AtEnd THEN stream.tail = "none" ELSE Rec.rt # "HEADER"

----------------------------------------------------------------------------
(* What the comments say and the code does not do *)

\* The name of the structure that record k stands in, in a document of the form
\* that gds.rs:21-26 gives: the one after its BGNSTR.
StructureNamed(k) ==
  LET begins == {s \in 2 .. k - 1 : RtOf(s) = "BGNSTR"}
      begin  == CHOOSE s \in begins : \A t \in begins : t <= s
  IN  stream.records[begin + 1].data[1]

\* "Records it does not understand ... are skipped on read" (gds.rs:40): of
\* such a document every element is in the cell of its structure, whatever
\* array references, which the reader does not know, come before it.
UnknownRecordsSkipped ==
  status = "ok" =>
    \A k \in Ended :
      \E c \in DOMAIN lib.cells :
        /\ lib.cells[c].name = StructureNamed(k)
        /\ Len(lib.cells[c].elements) =
             Cardinality({e \in Ended : StructureNamed(e) = StructureNamed(k)})
=============================================================================
