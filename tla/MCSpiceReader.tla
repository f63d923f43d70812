---------------------------- MODULE MCSpiceReader ----------------------------
(* SpiceReader on every short deck over a few rows. *)
EXTENDS SpiceReader

CONSTANTS MaxLexRows, MaxBlockRows   \* the lengths of the decks

W(lead, id) == [lead |-> lead, kv |-> FALSE, id |-> id]

M1 == W("M", "1")
R1 == W("R", "1")
A  == W("other", "a")

Subckt_A == <<Keyword("subckt"), A>>

\* Every kind of row once: what the first pass and the errors depend on.
LexRows ==
  { <<M1, A>>, <<Keyword("plus"), R1>>, <<Keyword("star"), M1>>,
    <<R1, Keyword("mark"), A>>, <<Keyword("subckt")>>, Subckt_A,
    <<Keyword("ends")>>, <<Keyword("end")>>, <<W("end", "l")>>,
    <<Keyword("directive"), A>> }

\* Two names and two cards: definitions nested, repeated and interleaved.
BlockRows ==
  { <<M1>>, <<R1>>, Subckt_A, <<Keyword("subckt"), R1>>, <<Keyword("ends")>>,
    <<Keyword("end")>> }

MCId    == {"", "1", "a", "l"}
MCDecks == BoundedSeq(LexRows, MaxLexRows) \cup BoundedSeq(BlockRows, MaxBlockRows)
=============================================================================
