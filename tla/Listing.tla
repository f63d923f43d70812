------------------------------- MODULE Listing -------------------------------
(* What it is for a sequence to list values in the order of their places. *)
EXTENDS Integers, Sequences, FiniteSets

\* How many of the places come no later than i.
Rank(i, places) == Cardinality({j \in places : j <= i})

\* seq holds f[i] for each place i, in the order of the places, and no more.
Lists(seq, f) ==
  /\ Len(seq) = Cardinality(DOMAIN f)
  /\ \A i \in DOMAIN f : seq[Rank(i, DOMAIN f)] = f[i]
=============================================================================
