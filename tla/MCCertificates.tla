--------------------------- MODULE MCCertificates ---------------------------
(* Every triple of hard vectors with small counts, and every gate vector of a  *)
(* few gates.                                                                  *)
EXTENDS Candidates, SequencesExt

CONSTANTS MaxCount, MaxGates

SmallVectors == {v \in [1 .. 6 -> 0 .. MaxCount] : v[1] \in {0, 1}}

ShortCerts ==
  [ gates    : BoundedSeq([gate : {"LocalDrc", "Routability"}, status : Statuses], MaxGates),
    degraded : BOOLEAN ]
=============================================================================
