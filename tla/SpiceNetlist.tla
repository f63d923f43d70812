---------------------------- MODULE SpiceNetlist ----------------------------
(***************************************************************************)
(* The parsed netlist and the operations on it that are not the reader's   *)
(* (SpiceNetlist in crates/api/src/io/spice.rs).                           *)
(*                                                                         *)
(* parse_device is a function of its card alone and nothing but the writer *)
(* and the device accessors looks into its result, so a device is kept as  *)
(* the card it was parsed from, and a subckt as its header's words and its *)
(* body; ParseDevice and ParseHeader are applied where the fields are used. *)
(***************************************************************************)
EXTENDS SpiceCard

Subckt == [header : Card, body : Seq(Card)]

\* BTreeMap::insert, and the map's type.
Insert(defs, name, sub) ==
  [n \in DOMAIN defs \cup {name} |-> IF n = name THEN sub ELSE defs[n]]

IsDefs(defs) == /\ DOMAIN defs \subseteq Word
                /\ defs \in [DOMAIN defs -> Subckt]

EmptyDefs == [n \in {} |-> [header |-> <<>>, body |-> <<>>]]

EmptyNetlist ==
  [top |-> <<>>, defs |-> EmptyDefs, order |-> <<>>, directives |-> <<>>]

\* What a netlist is, wherever it comes from: subckts() lists each definition
\* once and no other name.
IsNetlist(nl) ==
  /\ nl = [top |-> nl.top, defs |-> nl.defs, order |-> nl.order,
           directives |-> nl.directives]
  /\ nl.top \in Seq(Card) /\ IsDefs(nl.defs) /\ nl.directives \in Seq(Card)
  /\ nl.order \in Seq(Word) /\ IsInjective(nl.order) /\ ToSet(nl.order) = DOMAIN nl.defs

\* A builder's device list: each name, whatever its text, is a card of its own.
FromDevices(names) ==
  [EmptyNetlist EXCEPT !.top = [i \in DOMAIN names |-> <<names[i]>>]]

----------------------------------------------------------------------------
(* queries *)

BodySize(defs) ==
  SumFunction([n \in DOMAIN defs |-> Len(defs[n].body)])

DeviceCount(nl) == Len(nl.top) + BodySize(nl.defs)

----------------------------------------------------------------------------
(* promotion *)

\* The answer `false` for an unknown name leaves the netlist alone.
SelectSubckt(nl, name) ==
  IF name \in DOMAIN nl.defs
  THEN [nl EXCEPT !.top = @ \o nl.defs[name].body]
  ELSE nl

PromoteFirstSubckt(nl) ==
  IF nl.top = <<>> /\ nl.order # <<>>
  THEN SelectSubckt(nl, Head(nl.order))
  ELSE nl

----------------------------------------------------------------------------
(* serialization: the lines of the text, each the sequence of its words *)

WriteCards(cards) == [i \in DOMAIN cards |-> WriteDevice(ParseDevice(cards[i]))]

\* Mutant: the block is not closed.
WriteSubcktUnclosed(sub) ==
  << <<Keyword("subckt")>> \o WriteHeader(ParseHeader(sub.header)) >>
    \o WriteCards(sub.body)

WriteSubckt(sub) ==
  LET header == ParseHeader(sub.header) IN
  << <<Keyword("subckt")>> \o WriteHeader(header) >>
    \o WriteCards(sub.body)
    \o << <<Keyword("ends"), header.name>> >>

\* Mutant: the deck is ended before the top level.
ToSpiceEndFirst(nl) ==
  nl.directives
    \o FlattenSeq([i \in DOMAIN nl.order |-> WriteSubckt(nl.defs[nl.order[i]])])
    \o << <<Keyword("end")>> >>
    \o WriteCards(nl.top)

ToSpice(nl) ==
  << <<Keyword("star")>> >>
    \o nl.directives
    \o FlattenSeq([i \in DOMAIN nl.order |-> WriteSubckt(nl.defs[nl.order[i]])])
    \o WriteCards(nl.top)
    \o << <<Keyword("end")>> >>
=============================================================================
