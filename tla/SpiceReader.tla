----------------------------- MODULE SpiceReader -----------------------------
(***************************************************************************)
(* SpiceNetlist::parse (crates/api/src/io/spice.rs): a first pass          *)
(* reassembles the physical lines of the text into logical lines, a second *)
(* one walks the logical lines and builds the netlist.  One step is one    *)
(* iteration of a pass's loop.                                             *)
(***************************************************************************)
EXTENDS SpiceNetlist, Listing

CONSTANTS Decks,      \* the texts read: sequences of physical lines
          NoSubckt    \* `open` outside of every .subckt

ASSUME DecksAssumption    == Decks \subseteq Seq(Seq(LineWord))
ASSUME NoSubcktAssumption == NoSubckt \notin Word

VARIABLES
  text,         \* the physical lines
  row,          \* how many of them the first pass has read
  logical,      \* the logical lines: words, and the row where each began
  pos,          \* how many logical lines the second pass has read
  open,         \* the name of the subckt being read, or NoSubckt
  top, defs, order, directives,   \* the netlist under construction
  status,       \* the pass that runs, or the outcome
  errorRow      \* the line an error names, 0 for none

lexVars   == <<text, row, logical>>
netVars   == <<top, defs, order, directives>>
vars      == <<text, row, logical, pos, open, netVars, status, errorRow>>

Errors == {"MissingSubcktName", "UnexpectedEnds", "UnterminatedSubckt",
           "DanglingContinuation"}

netlist == [top |-> top, defs |-> defs, order |-> order,
            directives |-> directives]

----------------------------------------------------------------------------
(* The first pass: reassemble. *)

\* Mutant: the comment mark stays in the line.
StripCommentKeepingMark(raw) ==
  LET cut == SelectInSeq(raw, LAMBDA w : w.lead = "mark") IN
  IF raw # <<>> /\ Head(raw).lead = "star" THEN <<>>
  ELSE IF cut = 0 THEN raw ELSE SubSeq(raw, 1, cut)

StripComment(raw) ==
  LET cut == SelectInSeq(raw, LAMBDA w : w.lead = "mark") IN
  IF raw # <<>> /\ Head(raw).lead = "star" THEN <<>>
  ELSE IF cut = 0 THEN raw ELSE SubSeq(raw, 1, cut - 1)

Cleaned == StripComment(text[row + 1])

ReadRow ==
  /\ status = "lex"
  /\ row < Len(text)
  /\ row' = row + 1

SkipBlank ==
  /\ ReadRow
  /\ Cleaned = <<>>
  /\ UNCHANGED <<text, logical, pos, open, netVars, status, errorRow>>

\* Mutant: a blank row starts a logical line.
StartLogicalOnBlank ==
  /\ ReadRow
  /\ Cleaned = <<>> \/ Head(Cleaned).lead # "plus"
  /\ logical' = Append(logical, [words |-> Cleaned, row |-> row + 1])
  /\ UNCHANGED <<text, pos, open, netVars, status, errorRow>>

StartLogical ==
  /\ ReadRow
  /\ Cleaned # <<>> /\ Head(Cleaned).lead # "plus"
  /\ logical' = Append(logical, [words |-> Cleaned, row |-> row + 1])
  /\ UNCHANGED <<text, pos, open, netVars, status, errorRow>>

\* Mutant: the `+` is not stripped.
ContinueWithMark ==
  /\ ReadRow
  /\ Cleaned # <<>> /\ Head(Cleaned).lead = "plus"
  /\ logical # <<>>
  /\ logical' = [logical EXCEPT ![Len(logical)].words = @ \o Cleaned]
  /\ UNCHANGED <<text, pos, open, netVars, status, errorRow>>

\* The continuation joins the last logical line, wherever that began.
Continue ==
  /\ ReadRow
  /\ Cleaned # <<>> /\ Head(Cleaned).lead = "plus"
  /\ logical # <<>>
  /\ logical' = [logical EXCEPT ![Len(logical)].words = @ \o Tail(Cleaned)]
  /\ UNCHANGED <<text, pos, open, netVars, status, errorRow>>

DanglingContinuation ==
  /\ ReadRow
  /\ Cleaned # <<>> /\ Head(Cleaned).lead = "plus"
  /\ logical = <<>>
  /\ status' = "DanglingContinuation"
  /\ errorRow' = row + 1
  /\ UNCHANGED <<text, logical, pos, open, netVars>>

EndOfText ==
  /\ status = "lex"
  /\ row = Len(text)
  /\ status' = "parse"
  /\ UNCHANGED <<lexVars, pos, open, netVars, errorRow>>

----------------------------------------------------------------------------
(* The second pass: parse. *)

Line     == logical[pos + 1]
LineLead == Head(Line.words).lead
IsDevice == LineLead \notin {"subckt", "ends", "end", "directive"}

ReadLine ==
  /\ status = "parse"
  /\ pos < Len(logical)
  /\ pos' = pos + 1
  /\ UNCHANGED lexVars

\* Mutants: the name is listed at each definition; the definition is left to be
\* inserted at its `.ends`.
OpenSubcktListingAlways ==
  /\ ReadLine
  /\ LineLead = "subckt"
  /\ Tail(Line.words) # <<>>
  /\ LET header == Tail(Line.words)
     IN  /\ open' = Head(header)
         /\ order' = Append(order, Head(header))
         /\ defs' = Insert(defs, Head(header), [header |-> header, body |-> <<>>])
  /\ UNCHANGED <<top, directives, status, errorRow>>

OpenSubcktUninserted ==
  /\ ReadLine
  /\ LineLead = "subckt"
  /\ Tail(Line.words) # <<>>
  /\ open' = Line.words[2]
  /\ UNCHANGED <<netVars, status, errorRow>>

\* A later definition of a name replaces the earlier one, body and all, and an
\* open subckt is left behind without a word.
OpenSubckt ==
  /\ ReadLine
  /\ LineLead = "subckt"
  /\ Tail(Line.words) # <<>>
  /\ LET header == Tail(Line.words)
         name   == Head(header)
     IN  /\ open' = name
         /\ order' = IF name \in DOMAIN defs THEN order ELSE Append(order, name)
         /\ defs' = Insert(defs, name, [header |-> header, body |-> <<>>])
  /\ UNCHANGED <<top, directives, status, errorRow>>

MissingSubcktName ==
  /\ ReadLine
  /\ LineLead = "subckt"
  /\ Tail(Line.words) = <<>>
  /\ status' = "MissingSubcktName"
  /\ errorRow' = Line.row
  /\ UNCHANGED <<open, netVars>>

\* Mutant: `.ends` looks at `open` and does not take it.
CloseSubcktLeavingOpen ==
  /\ ReadLine
  /\ LineLead = "ends"
  /\ open # NoSubckt
  /\ UNCHANGED <<open, netVars, status, errorRow>>

CloseSubckt ==
  /\ ReadLine
  /\ LineLead = "ends"
  /\ open # NoSubckt
  /\ open' = NoSubckt
  /\ UNCHANGED <<netVars, status, errorRow>>

\* Mutant: the error counts logical lines.
UnexpectedEndsAtLogical ==
  /\ ReadLine
  /\ LineLead = "ends"
  /\ open = NoSubckt
  /\ status' = "UnexpectedEnds"
  /\ errorRow' = pos + 1
  /\ UNCHANGED <<open, netVars>>

UnexpectedEnds ==
  /\ ReadLine
  /\ LineLead = "ends"
  /\ open = NoSubckt
  /\ status' = "UnexpectedEnds"
  /\ errorRow' = Line.row
  /\ UNCHANGED <<open, netVars>>

\* Every directive that begins with `.end` ends the deck, `.endl` among them.
StopAtEnd ==
  /\ ReadLine
  /\ LineLead = "end"
  /\ status' = "ended"
  /\ UNCHANGED <<open, netVars, errorRow>>

RecordDirective ==
  /\ ReadLine
  /\ LineLead = "directive"
  /\ directives' = Append(directives, Line.words)
  /\ UNCHANGED <<open, top, defs, order, status, errorRow>>

\* A card of a subckt that has no definition would be dropped here.
AddToBody ==
  /\ ReadLine
  /\ IsDevice
  /\ open # NoSubckt
  /\ defs' = IF open \in DOMAIN defs
             THEN [defs EXCEPT ![open].body = Append(@, Line.words)]
             ELSE defs
  /\ UNCHANGED <<open, top, order, directives, status, errorRow>>

AddToTop ==
  /\ ReadLine
  /\ IsDevice
  /\ open = NoSubckt
  /\ top' = Append(top, Line.words)
  /\ UNCHANGED <<open, defs, order, directives, status, errorRow>>

\* Mutant: only an `.end` leaves the loop.
LoopLeftAtEndOnly == status = "ended"

LoopLeft == \/ status = "parse" /\ pos = Len(logical)
            \/ status = "ended"

Finish ==
  /\ LoopLeft
  /\ status' = IF open = NoSubckt THEN "ok" ELSE "UnterminatedSubckt"
  /\ UNCHANGED <<lexVars, pos, open, netVars, errorRow>>

----------------------------------------------------------------------------

Init ==
  /\ text \in Decks
  /\ row = 0
  /\ logical = <<>>
  /\ pos = 0
  /\ open = NoSubckt
  /\ top = <<>> /\ defs = EmptyDefs /\ order = <<>> /\ directives = <<>>
  /\ status = "lex"
  /\ errorRow = 0

Reassemble == SkipBlank \/ StartLogical \/ Continue \/ DanglingContinuation
              \/ EndOfText

ParseLine  == \/ OpenSubckt \/ MissingSubcktName
              \/ CloseSubckt \/ UnexpectedEnds
              \/ StopAtEnd \/ RecordDirective
              \/ AddToBody \/ AddToTop

Next == Reassemble \/ ParseLine \/ Finish

Spec     == Init /\ [][Next]_vars
FairSpec == Spec /\ WF_vars(Next)
----------------------------------------------------------------------------
(* Type and structure *)

LogicalLine == [words : Card, row : Nat \ {0}]

TypeOK ==
  /\ text \in Seq(Seq(Word))
  /\ row \in 0 .. Len(text)
  /\ logical \in Seq(LogicalLine)
  /\ pos \in 0 .. Len(logical)
  /\ open \in Word \cup {NoSubckt}
  /\ top \in Seq(Card)
  /\ IsDefs(defs)
  /\ order \in Seq(Word)
  /\ directives \in Seq(Card)
  /\ status \in {"lex", "parse", "ended", "ok"} \cup Errors
  /\ errorRow \in 0 .. Len(text)

\* subckts() lists each definition once and no other name: to_spice writes the
\* definitions, and promote_first_subckt looks one up, by this list.
OrderListsDefs == IsInjective(order) /\ ToSet(order) = DOMAIN defs

\* The subckt being read has a definition ("Safe: we inserted the def when we
\* opened it"), so that no card is dropped for want of one.
OpenIsDefined == open # NoSubckt => open \in DOMAIN defs

\* What the second pass relies on: no logical line is empty, begins with a
\* comment or a continuation, or has a comment left in it, and each begins on a
\* row of its own, in the text's order.
LogicalLinesClean ==
  /\ \A i \in DOMAIN logical :
       /\ logical[i].row \in 1 .. row
       /\ logical[i].words # <<>>
       /\ Head(logical[i].words).lead \notin {"star", "plus"}
       /\ \A k \in DOMAIN logical[i].words : logical[i].words[k].lead # "mark"
  /\ \A i, j \in DOMAIN logical : i < j => logical[i].row < logical[j].row

----------------------------------------------------------------------------
(* What the netlist must be, said of the text *)

\* Reassembly keeps every word outside of the comments, in order, and drops
\* nothing but the continuation marks.
WordsKept ==
  LET Content(r) == LET line == StripComment(text[r]) IN
                    IF line # <<>> /\ Head(line).lead = "plus" THEN Tail(line)
                                                            ELSE line
  IN  status # "DanglingContinuation" =>
        FlattenSeq([i \in DOMAIN logical |-> logical[i].words])
          = FlattenSeq([r \in 1 .. row |-> Content(r)])

LeadOf(i)   == Head(logical[i].words).lead
IsCard(i)   == LeadOf(i) \notin {"subckt", "ends", "end", "directive"}
Headers     == {i \in 1 .. pos : LeadOf(i) = "subckt"}
NameAt(i)   == logical[i].words[2]

\* The header whose block holds logical line i, 0 at the top level.
BlockOf(i) ==
  LET marks == {j \in 1 .. i - 1 : LeadOf(j) \in {"subckt", "ends"}} IN
  IF marks # {} /\ LeadOf(Max(marks)) = "subckt" THEN Max(marks) ELSE 0

CardLines(block) == {i \in 1 .. pos : IsCard(i) /\ BlockOf(i) = block}
CardsIn(block)   == [i \in CardLines(block) |-> logical[i].words]
LastHeader(name) == Max({h \in Headers : NameAt(h) = name})

\* Each card goes to the block that it stands in: a definition's body is the
\* cards between its last header and the end of that block, in order, and the
\* top level is the cards outside of every block.
CardsGoToTheirBlock ==
  status \notin Errors =>
    /\ Lists(top, CardsIn(0))
    /\ \A n \in DOMAIN defs : Lists(defs[n].body, CardsIn(LastHeader(n)))

\* Each outcome is the one that the text calls for, and an error names the
\* physical row on which the offending line began.
OutcomeJustified ==
  /\ status = "UnexpectedEnds" =>
       /\ LeadOf(pos) = "ends" /\ BlockOf(pos) = 0
       /\ errorRow = logical[pos].row
       /\ Head(StripComment(text[errorRow])) = Head(logical[pos].words)
  /\ status = "MissingSubcktName" =>
       /\ StripComment(text[errorRow]) = logical[pos].words
       /\ LeadOf(pos) = "subckt" /\ Len(logical[pos].words) = 1
  /\ status = "DanglingContinuation" =>
       /\ errorRow = row
       /\ \A r \in 1 .. row - 1 : StripComment(text[r]) = <<>>
  /\ status = "UnterminatedSubckt" => BlockOf(pos + 1) # 0
  /\ status = "ok" =>
       /\ BlockOf(pos + 1) = 0
       /\ \A i \in 1 .. pos : LeadOf(i) = "ends" => BlockOf(i) # 0
       /\ \A h \in Headers : Len(logical[h].words) > 1

\* The step that reads a card adds it at the end of the top level or of the
\* body of a definition that exists: none is dropped for want of a definition.
CardKept ==
  pos' # pos /\ IsDevice =>
    \/ top' = Append(top, Line.words)
    \/ \E n \in DOMAIN defs : defs'[n].body = Append(defs[n].body, Line.words)
NoCardDropped == [][CardKept]_vars

----------------------------------------------------------------------------
(* Liveness *)

\* Every text is answered: both loops run out, whatever the deck.
Terminates == <>(status \in {"ok"} \cup Errors)

----------------------------------------------------------------------------
(* What the comments say and the code does not do *)

\* "End of input reached while a `.subckt` was still open" is an error
\* (spice.rs:125): a deck that is accepted closes every subckt it opens.
EverySubcktClosed ==
  status = "ok" =>
    Cardinality(Headers) = Cardinality({i \in 1 .. pos : LeadOf(i) = "ends"})
=============================================================================
