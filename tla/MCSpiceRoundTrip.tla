-------------------------- MODULE MCSpiceRoundTrip --------------------------
(* SpiceRoundTrip over a few cards of every family. *)
EXTENDS SpiceRoundTrip

CONSTANTS MaxRows, MaxWords

W(lead, id) == [lead |-> lead, kv |-> FALSE, id |-> id]
P           == [lead |-> "other", kv |-> TRUE, id |-> "p"]
A           == W("other", "a")
B           == W("other", "b")

Rows ==
  { <<W("M", "1"), A, A, B, B, A, B>>,          \* one word too many
    <<W("Q", "1"), A, B, B, A, B, P>>,          \* with a substrate
    <<W("X", "1"), A, B, P>>,
    <<W("R", "1"), A, P, B>>,                   \* a node after a parameter
    <<Keyword("subckt"), A, P, Keyword("params"), B>>,
    <<Keyword("subckt"), B>>,
    <<Keyword("ends")>>,
    <<Keyword("directive"), A>> }

MCId    == {"", "1", "2", "a", "b", "p", "R1 a", "R1;a", "R1|R1"}

\* Each card of at most MaxWords words after its name, alone in its deck.
OneCardDecks ==
  { << <<W(lead, "1")>> \o words >> :
      lead \in {"M", "Q", "D", "J", "X", "R", "other"},
      words \in BoundedSeq({A, B, P}, MaxWords) }

MCDecks == BoundedSeq(Rows, MaxRows) \cup OneCardDecks

\* Names of one word, names that begin another kind of line, the empty name, and
\* names with white space, a comment mark or a line break inside.
T(id)   == W("text", id)
MCNames == { <<>>, <<W("M", "1"), W("other", "2")>>,
             <<W("star", "1"), W("M", "1")>>, <<W("plus", "1")>>,
             <<W("M", "1"), T("")>>, <<T("R1 a"), T("R1;a")>>, <<T("R1|R1")>> }
MCSpelt == [ id \in MCId |->
               CASE id = ""      -> << <<>> >>
                 [] id = "R1 a"  -> << <<W("R", "1"), A>> >>
                 [] id = "R1;a"  -> << <<W("R", "1"), W("mark", "a")>> >>
                 [] id = "R1|R1" -> << <<W("R", "1")>>, <<W("R", "1")>> >>
                 [] OTHER        -> << <<W("other", id)>> >> ]
=============================================================================
