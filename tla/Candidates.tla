------------------------------ MODULE Candidates ------------------------------
(***************************************************************************)
(* What a caller compares by the answers of Certificates: three candidates *)
(* by their hard vectors, and the certificate of a placement by its gates. *)
(***************************************************************************)
EXTENDS Certificates

CONSTANTS Vectors, \* the hard vectors that candidates have
          Certs    \* the placement certificates that are read

ASSUME CandidatesAssumption ==
  Vectors \subseteq HardVector /\ Certs \subseteq PlacementCertificate

VARIABLES first, second, third, \* the hard vectors of three candidates
          reading               \* the certificate that is read

candidateVars == <<first, second, third, reading>>

CandidateInit ==
  /\ first \in Vectors /\ second \in Vectors /\ third = first
  /\ reading = StubPlacementCertificate

\* A third candidate is drawn.
Draw == /\ third = first /\ reading = StubPlacementCertificate /\ third' \in Vectors
        /\ UNCHANGED <<first, second, reading>>

\* Another certificate is read.
Certify == /\ first = DefaultHardVector /\ second = first /\ third = first
           /\ reading' \in Certs /\ UNCHANGED <<first, second, third>>

CandidateNext == Draw \/ Certify

CandidateSpec == CandidateInit /\ [][CandidateNext]_candidateVars

\* lex_le ranks any three candidates, whatever their counts: feasible ones are the
\* first class of its ranking, and no level is outweighed by those below it.
Ranking == /\ RanksTotally(first, second, third)
           /\ FeasibleRanksFirst(first, second) /\ FeasibleRanksFirst(second, third)
           /\ LevelsGate(first, second) /\ LevelsGate(second, third)

\* is_signoff_quality, is_accepted and acceptance before legalization nest.
Acceptance == AcceptanceNests(reading)
=============================================================================
