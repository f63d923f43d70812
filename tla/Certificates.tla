----------------------------- MODULE Certificates -----------------------------
(***************************************************************************)
(* The certificates that placement and routing emit, and what is read off  *)
(* them (crates/api/src/core.rs): acceptance from the gates' verdicts, and *)
(* feasibility and rank from the hard vector.                              *)
(***************************************************************************)
EXTENDS Integers, Sequences

Gates == << "TechnologyCoverage", "LocalDrc", "DeviceEquivalence",
            "TerminalAccess", "Routability", "IntentSatisfaction" >>
Gate     == {Gates[k] : k \in 1 .. 6}
Statuses == {"Pass", "Degraded", "Fail"}

GateEvaluation == [gate : Gate, status : Statuses]

IsRepairable(gate) == gate \in {"LocalDrc", "IntentSatisfaction"}

\* Mutant: a verdict that is not a pass refuses once repair is over.
EvaluateGateAcceptanceStrict(gates, allowRepairable) ==
  \A k \in DOMAIN gates :
    gates[k].status # "Pass" => allowRepairable /\ IsRepairable(gates[k].gate)

EvaluateGateAcceptance(gates, allowRepairable) ==
  \A k \in DOMAIN gates :
    gates[k].status = "Fail" => allowRepairable /\ IsRepairable(gates[k].gate)

PlacementCertificate == [gates : Seq(GateEvaluation), degraded : BOOLEAN]

\* Mutant: a certificate is as good as its gates.
IsSignoffQualityByGates(cert) ==
  \A k \in DOMAIN cert.gates : cert.gates[k].status # "Fail"

IsSignoffQuality(cert) ==
  /\ ~ cert.degraded
  /\ cert.gates # <<>>
  /\ \A k \in DOMAIN cert.gates : cert.gates[k].status = "Pass"

IsAccepted(cert) == EvaluateGateAcceptance(cert.gates, FALSE)

StubPlacementCertificate ==
  [ gates    |-> [k \in 1 .. 6 |-> [gate |-> Gates[k], status |-> "Degraded"]],
    degraded |-> TRUE ]

----------------------------------------------------------------------------
(* The hard vector, as its tuple in priority order: invalid_pdk (0 or 1),  *)
(* missing_access, drc_violations, lvs_mismatches, unrouted_required_nets, *)
(* unresolved_em_antenna_hard_errors.                                      *)

HardVector == {v \in [1 .. 6 -> Nat] : v[1] \in {0, 1}}

DefaultHardVector == [k \in 1 .. 6 |-> 0]

IsFeasible(v) == \A k \in 1 .. 6 : v[k] = 0

\* Mutant: every level counts at once.
LexLePointwise(v, w) == \A k \in 1 .. 6 : v[k] <= w[k]

\* Arrays compare by the first level on which they differ.
LexLe(v, w) ==
  \/ \A k \in 1 .. 6 : v[k] = w[k]
  \/ \E k \in 1 .. 6 : /\ v[k] < w[k]
                       /\ \A i \in 1 .. k - 1 : v[i] = w[i]

RouteCertificate == [hard : HardVector, degraded : BOOLEAN]

\* What decides between two candidates, and what is claimed of one.
IsSignoffClean(cert) == IsFeasible(cert.hard) /\ ~ cert.degraded

StubRouteCertificate == [hard |-> DefaultHardVector, degraded |-> TRUE]

----------------------------------------------------------------------------
(* What must hold of them *)

\* Any two candidates can be ranked, ranking is transitive, and candidates that
\* rank alike have the same vector.
RanksTotally(u, v, w) ==
  /\ LexLe(u, v) \/ LexLe(v, u)
  /\ LexLe(u, v) /\ LexLe(v, w) => LexLe(u, w)
  /\ LexLe(u, v) /\ LexLe(v, u) => u = v

\* "a nonzero component is a different feasibility class" (core.rs:1037): a
\* feasible candidate ranks before every infeasible one, and never after.
FeasibleRanksFirst(u, v) ==
  IsFeasible(u) => LexLe(u, v) /\ (LexLe(v, u) => IsFeasible(v))

\* A higher level cannot be bought with lower ones: a candidate that is better
\* on a level and as good above it ranks strictly before, whatever is below.
LevelsGate(u, v) ==
  \A k \in 1 .. 6 :
    (v[k] < u[k] /\ \A i \in 1 .. k - 1 : v[i] <= u[i]) => ~ LexLe(u, v)

\* What is claimed for signoff is accepted; what is accepted after legalization
\* was accepted before it, when some failures could still be repaired; and a
\* failure that is let through before is on a gate that may be repaired.
AcceptanceNests(cert) ==
  /\ IsSignoffQuality(cert) => IsAccepted(cert)
  /\ IsAccepted(cert) => EvaluateGateAcceptance(cert.gates, TRUE)
  /\ EvaluateGateAcceptance(cert.gates, TRUE) /\ ~ IsAccepted(cert)
       => \E k \in DOMAIN cert.gates :
            cert.gates[k].status = "Fail"
              /\ cert.gates[k].gate \in {"LocalDrc", "IntentSatisfaction"}
=============================================================================
