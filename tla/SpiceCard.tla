------------------------------ MODULE SpiceCard ------------------------------
(***************************************************************************)
(* One card of a SPICE deck, and the netlist writer's way of printing it   *)
(* (crates/api/src/io/spice.rs).                                           *)
(*                                                                         *)
(* A line of text is the sequence of its words.  A word keeps what the     *)
(* code tells apart: `lead`, the class of its first characters (the kind   *)
(* letter of a device name, or the prefix `*`, `+`, `.subckt` ... that the *)
(* reader matches); `kv`, whether is_kv holds of it (a `=` after a         *)
(* non-empty key); and `id`, the rest of its text.  A device's name is a    *)
(* Word too, but need not be what a word of a line is: from_devices takes  *)
(* any string, the empty one and those with white space, a line break or a *)
(* comment mark inside.                                                    *)
(***************************************************************************)
EXTENDS Integers, Sequences, SequencesExt

CONSTANTS Id,      \* the texts a word can have after its prefix
          Plain    \* the empty one: a keyword and nothing more

ASSUME PlainAssumption == Plain \in Id

Leads ==
  { "star", "plus", "mark",          \* `*`, `+`, and `;` or `$`
    "subckt", "ends", "end",         \* `.subckt`; `.ends` or `.eom`; any other
                                     \* word that begins with `.end`
    "directive",                     \* `.` and anything else
    "params",                        \* `params:`
    "M", "Q", "D", "J", "X",         \* the device families
    "R",                             \* R C L V I: two terminals and no model
    "other",
    "text" }                         \* a name that is no word, or not one

Word == [lead : Leads, kv : BOOLEAN, id : Id]

\* What stands between the white space of a line.
LineWord == {w \in Word : w.lead # "text"}

IsKv(w)     == w.kv
KeyValues   == {w \in Word : IsKv(w)}
Positionals == Word \ KeyValues

\* The words that are in S, in their order: SelectSeq, in terms a proof can use.
Only(words, S) ==
  LET only[k \in 0 .. Len(words)] ==
        IF k = 0 THEN <<>>
        ELSE IF words[k] \in S THEN Append(only[k - 1], words[k]) ELSE only[k - 1]
  IN  only[Len(words)]

Keyword(lead) == [lead |-> lead, kv |-> FALSE, id |-> Plain]

\* A logical line is never empty: its first word says what it is.
Card == Seq(Word) \ {<<>>}

----------------------------------------------------------------------------
(* parse_device *)

\* The number of words before the first `key=value`.
LeadingPositionals(rest) ==
  LET kv == SelectInSeq(rest, IsKv) IN IF kv = 0 THEN Len(rest) ELSE kv - 1

FixedFamilies == {"M", "Q", "D", "J", "R"}
HasModel(lead) == lead \in {"M", "Q", "D", "J", "X"}

FixedNodes == [M |-> 4, Q |-> 3, D |-> 2, J |-> 3, R |-> 2]

\* Mutant: no substrate node is looked for.
NodeCountWithoutSubstrate(lead, p) ==
  IF lead \in FixedFamilies
  THEN IF p < FixedNodes[lead] THEN p ELSE FixedNodes[lead]
  ELSE IF lead = "X" /\ p > 0 THEN p - 1 ELSE p

\* How many of the p leading positional words become nodes before the model
\* is looked for: a bipolar transistor takes a substrate node only when a word
\* is left for its model, an instance keeps its last word as the reference.
NodeCount(lead, p) ==
  IF lead \in FixedFamilies
  THEN LET n == FixedNodes[lead] IN
       IF lead = "Q" /\ p >= n + 2 THEN n + 1 ELSE IF p < n THEN p ELSE n
  ELSE IF lead = "X" /\ p > 0 THEN p - 1 ELSE p

\* Mutant: what stands after the model and is no parameter is dropped.
ParseDeviceDroppingStrays(card) ==
  LET lead  == Head(card).lead
      rest  == Tail(card)
      p     == LeadingPositionals(rest)
      n     == NodeCount(lead, p)
      model == IF HasModel(lead) /\ p > n THEN <<rest[n + 1]>> ELSE <<>>
  IN  [ name   |-> Head(card),
        nodes  |-> SubSeq(rest, 1, n),
        model  |-> model,
        params |-> Only(rest, KeyValues) ]

\* model is the empty or one-word sequence (Option<String>).  Positional words
\* after the model or among the parameters are kept as nodes.
ParseDevice(card) ==
  LET lead  == Head(card).lead
      rest  == Tail(card)
      p     == LeadingPositionals(rest)
      n     == NodeCount(lead, p)
      model == IF HasModel(lead) /\ p > n THEN <<rest[n + 1]>> ELSE <<>>
      tail  == SubSeq(rest, n + Len(model) + 1, Len(rest))
  IN  [ name   |-> Head(card),
        nodes  |-> SubSeq(rest, 1, n) \o Only(tail, Positionals),
        model  |-> model,
        params |-> Only(tail, KeyValues) ]

\* from_devices: a card that is only a name.
NamedDevice(name) ==
  [name |-> name, nodes |-> <<>>, model |-> <<>>, params |-> <<>>]

Device == [ name : Word, nodes : Seq(Word), model : Seq(Word),
            params : Seq(Word) ]

\* write_device
WriteDevice(dev) == <<dev.name>> \o dev.nodes \o dev.model \o dev.params

----------------------------------------------------------------------------
(* parse_subckt_header and write_subckt's header line *)

\* rest is the text after `.subckt`, whose first word is the name; `params:`
\* separators after the name are dropped.
ParseHeader(rest) ==
  LET kept == Only(Tail(rest), {w \in Word : w.lead # "params"})
  IN  [ name   |-> Head(rest),
        ports  |-> Only(kept, Positionals),
        params |-> Only(kept, KeyValues),
        body   |-> <<>> ]

WriteHeader(sub) == <<sub.name>> \o sub.ports \o sub.params
=============================================================================
