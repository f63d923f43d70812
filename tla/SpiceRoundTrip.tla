--------------------------- MODULE SpiceRoundTrip ---------------------------
(***************************************************************************)
(* A netlist's way through the writer and back: it is read from a deck, or *)
(* built from device names, subckts are promoted, to_spice writes it, and  *)
(* the reader of SpiceReader reads what was written.                       *)
(***************************************************************************)
EXTENDS SpiceReader

CONSTANTS Built,         \* the name lists given to from_devices
          Spelt,         \* the lines and words in the text of a name
          MaxPromotions  \* bounds the calls before the netlist is written

ASSUME BuiltAssumption == Built \subseteq Seq(Word)
ASSUME SpeltAssumption == Spelt \in [Id -> Seq(Seq(LineWord))]

VARIABLES round,        \* 1: the netlist is made; 2: its text is read back
          promotions,   \* calls so far
          written       \* the netlist that was written

rtVars == <<vars, round, promotions, written>>

Ready == round = 1 /\ status = "ok"

\* parse's own steps, in either round.
Read == Next /\ UNCHANGED <<round, promotions, written>>

PromoteWith(nl) ==
  /\ Ready
  /\ promotions < MaxPromotions
  /\ promotions' = promotions + 1
  /\ top' = nl.top
  /\ UNCHANGED <<lexVars, pos, open, defs, order, directives, status, errorRow,
                 round, written>>

\* select_subckt, of a name that is defined or not.
Select == \E name \in DOMAIN defs \cup {Keyword("other")} :
            PromoteWith(SelectSubckt(netlist, name))

\* promote_first_subckt.
PromoteFirst == PromoteWith(PromoteFirstSubckt(netlist))

\* The lines that parse finds in what to_spice wrote: a name that is not one
\* word is a blank line, a line of several words, or several lines.
LinesOf(r) ==
  IF r # <<>> /\ Head(r).lead = "text" THEN Spelt[Head(r).id] ELSE <<r>>

Lines(rows) == FlattenSeq([i \in DOMAIN rows |-> LinesOf(rows[i])])

\* to_spice, and parse called on its result.
WriteAndReread ==
  /\ Ready
  /\ round' = 2
  /\ written' = netlist
  /\ text' = Lines(ToSpice(netlist))
  /\ row' = 0 /\ logical' = <<>> /\ pos' = 0 /\ open' = NoSubckt
  /\ top' = <<>> /\ defs' = EmptyDefs /\ order' = <<>> /\ directives' = <<>>
  /\ status' = "lex" /\ errorRow' = 0
  /\ UNCHANGED promotions

BuiltInit ==
  /\ \E names \in Built : top = FromDevices(names).top
  /\ text = <<>> /\ row = 0 /\ logical = <<>> /\ pos = 0 /\ open = NoSubckt
  /\ defs = EmptyDefs /\ order = <<>> /\ directives = <<>>
  /\ status = "ok" /\ errorRow = 0

RTInit == /\ Init \/ BuiltInit
          /\ round = 1 /\ promotions = 0 /\ written = EmptyNetlist

RTNext == Read \/ Select \/ PromoteFirst \/ WriteAndReread

\* parse, once called, runs on; nobody has to call to_spice, or to promote.
RTSpec == RTInit /\ [][RTNext]_rtVars /\ WF_rtVars(Read)

----------------------------------------------------------------------------

Devices(cards) == [i \in DOMAIN cards |-> ParseDevice(cards[i])]

\* What the accessors of a netlist show.
View(nl) ==
  [ top        |-> Devices(nl.top),
    headers    |-> [n \in DOMAIN nl.defs |-> ParseHeader(nl.defs[n].header)],
    bodies     |-> [n \in DOMAIN nl.defs |-> Devices(nl.defs[n].body)],
    order      |-> nl.order,
    directives |-> nl.directives ]

\* A card whose words stand where its family expects them: no positional word
\* after a parameter, and no more of them than nodes and model (and substrate).
WellPlaced(card) ==
  LET rest   == Tail(card)
      lead   == Head(card).lead
      places == Len(Only(rest, Positionals))
  IN  /\ LeadingPositionals(rest) = places
      /\ lead \in FixedFamilies =>
           places <= FixedNodes[lead] + (IF HasModel(lead) THEN 1 ELSE 0)
                       + (IF lead = "Q" THEN 1 ELSE 0)

CardsOf(nl) == ToSet(nl.top) \cup
               UNION {ToSet(nl.defs[n].body) : n \in DOMAIN nl.defs}

\* Each device's name is one word, and not what a comment, a continuation or a
\* directive begins with: from_devices takes any name, the reader none but these.
NamedAsDevices(nl) ==
  \A card \in CardsOf(nl) :
    Head(card).lead \notin
      {"text", "star", "plus", "mark", "subckt", "ends", "end", "directive"}

\* parse_device puts every word of the card somewhere, and once: the bag of the
\* words it writes again is the card's.
CardWordsKept ==
  \A card \in CardsOf(netlist) :
    ToBag(WriteDevice(ParseDevice(card))) = ToBag(card)

Reread == round = 2 /\ status = "ok" /\ NamedAsDevices(written)

\* The reader takes what the writer writes: no netlist is written as a text that
\* parse rejects, unless from_devices took a name that is not one word or that
\* begins another kind of line.
RereadAccepted == round = 2 /\ NamedAsDevices(written) => status \notin Errors

\* "Re-parsing the output yields the same device_count and the same set of
\* subckt names" (to_spice), whatever was promoted, however odd the cards: no
\* error, block by block as many cards, and the names in the same order.  It
\* is not so of every list given to from_devices, and NamedAsDevices says of
\* which: an empty name, for one, is a blank row, and its device is lost.
RereadKeepsCounts ==
  /\ RereadAccepted
  /\ Reread => /\ DeviceCount(netlist) = DeviceCount(written)
               /\ Len(top) = Len(written.top)
               /\ order = written.order

\* When, besides, every card is well placed nothing at all is lost: each device
\* comes back with its nodes, model and parameters, each subckt with its ports.
RereadKeepsNetlist ==
  Reread /\ (\A card \in CardsOf(written) : WellPlaced(card))
    => View(netlist) = View(written)

\* Once the caller has written a netlist and called parse on the text, the call
\* ends, and without an error: the writer's output is in the reader's language.
RereadSucceeds == round = 2 /\ NamedAsDevices(written) ~> Reread
=============================================================================
