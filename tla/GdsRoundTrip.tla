----------------------------- MODULE GdsRoundTrip -----------------------------
(***************************************************************************)
(* A library is built by calls or read from a stream, then written, and    *)
(* what was written, or the part of it that was kept, is read again        *)
(* (crates/api/src/io/gds.rs, `Gds::read(&g.write())`).                    *)
(***************************************************************************)
EXTENDS GdsReader

CONSTANTS LibNames, CellNames,           \* given by the caller
          MaxCells, MaxElements, MaxRounds   \* bounds on its calls

ASSUME BoundsAssumption ==
  /\ LibNames \subseteq Name /\ CellNames \subseteq Name
  /\ MaxCells \in Nat /\ MaxElements \in Nat /\ MaxRounds \in Nat

VARIABLES
  phase,    \* "edit"; "first": a foreign stream is read; "again": our own
  built,    \* the library that was written
  whole,    \* whether all that was written is read
  round     \* how often it was written

rtVars == <<vars, phase, built, whole, round>>

----------------------------------------------------------------------------

New ==
  \E n \in LibNames :
    /\ phase = "edit" /\ built = NewLibrary(n)
    /\ stream = [records |-> <<>>, tail |-> "none"]

Foreign == phase = "first" /\ built = NewLibrary(NoName) /\ stream \in Streams

RTInit == (New \/ Foreign) /\ Fresh /\ whole = TRUE /\ round = 0

Reading ==
  /\ phase \in {"first", "again"}
  /\ Step
  /\ UNCHANGED <<phase, built, whole, round>>

\* The library that a read of a whole stream returned is worked on.
Keep ==
  /\ phase \in {"first", "again"} /\ status = "ok" /\ whole
  /\ phase' = "edit" /\ built' = lib
  /\ UNCHANGED <<vars, whole, round>>

Edited(new) ==
  /\ phase = "edit"
  /\ new # built /\ CellCount(new) <= MaxCells /\ ElementCount(new) <= MaxElements
  /\ built' = new
  /\ UNCHANGED <<vars, phase, whole, round>>

CallAddCell == \E n \in CellNames : Edited(AddCell(built, n))

CallAddRect ==
  \E n \in CellNames, layer \in Values, outline \in Values :
    Edited(AddRect(built, n, layer, outline))

HasPayload(r) ==
  \/ r.rt \in {"HEADER", "BGNLIB", "BGNSTR"}
  \/ r.rt \in Naming /\ r.data # <<NoName>>
  \/ r.rt \in Numeric /\ r.data # <<>>

\* The stream may be cut between two records, in the header of the next record,
\* or after its header, if it has a payload.
Cuts(records) ==
  {[records |-> SubSeq(records, 1, n), tail |-> t] :
     n \in 0 .. Len(records) - 1, t \in {"none", "header"}}
  \cup {[records |-> SubSeq(records, 1, n), tail |-> "length"] :
          n \in {k \in 0 .. Len(records) - 1 : HasPayload(records[k + 1])}}

WriteAndRead ==
  /\ phase = "edit" /\ round < MaxRounds
  /\ round' = round + 1 /\ phase' = "again"
  /\ \/ stream' = [records |-> Write(built), tail |-> "none"] /\ whole' = TRUE
     \/ stream' \in Cuts(Write(built)) /\ whole' = FALSE
  /\ pos' = 1 /\ lib' = NewLibrary(NoName)
  /\ curCell' = 0 /\ pending' = NoElement /\ status' = "reading"
  /\ UNCHANGED built

RTNext == Reading \/ Keep \/ CallAddCell \/ CallAddRect \/ WriteAndRead

RTSpec == RTInit /\ [][RTNext]_rtVars

----------------------------------------------------------------------------

Reread == phase = "again" /\ status # "reading"

\* The cells as a reader of their names sees them, and whether it can tell them
\* apart: names may differ in what follows a NUL only.
CellsReadBack == [k \in DOMAIN built.cells |->
                    [built.cells[k] EXCEPT !.name = ReadBack(@)]]
NamesToldApart ==
  \A j, k \in DOMAIN built.cells :
    ReadBack(built.cells[j].name) = ReadBack(built.cells[k].name) => j = k

\* What is written whole is read without an error and with every element; and
\* as long as the names can be told apart it gives the library that was
\* written: its units, cells, elements and their geometry.  The names, the
\* library's among them, come back as ReadBack tells: as they were where they are
\* ASCII without a NUL, and otherwise cut or changed.
RereadKeepsLibrary ==
  Reread /\ whole =>
    /\ status = "ok"
    /\ ElementCount(lib) = ElementCount(built)
    /\ lib.libName = ReadBack(built.libName) /\ lib.units = built.units
    /\ NamesToldApart => lib.cells = CellsReadBack

IsCutOf(cells, of) ==
  /\ Len(cells) <= Len(of)
  /\ \A k \in DOMAIN cells :
       /\ cells[k].name = of[k].name
       /\ IF k < Len(cells) THEN cells[k] = of[k]
          ELSE IsPrefix(cells[k].elements, of[k].elements)

\* What remains of a stream that was cut is refused or gives the beginning of
\* the library: no element is moved to another cell and none is half read.
CutOnlyLoses ==
  Reread /\ status = "ok" /\ NamesToldApart => IsCutOf(lib.cells, CellsReadBack)
=============================================================================
