----------------------------- MODULE FlowProofs -----------------------------
(* What the flow answers, for every set of netlists and whoever calls it, and *)
(* what the quickstart answers, for texts of any length and integers of any   *)
(* width: FrontSpec implements the specification of each.  What each handle   *)
(* the caller keeps was made from is one invariant of the flow, HandlesFit;   *)
(* what was read, and the box so far, is one of the quickstart, QuickInv.     *)
(* How certificates are ranked and accepted stands first, and last what is    *)
(* read of PDK files of any length.                                           *)
EXTENDS FrontEnds, Candidates, LibraryLemmas

----------------------------------------------------------------------------
(* Certificates: of whatever counts and however many gates *)

\* Hard vectors are totally ordered by lex_le: a best candidate exists and does
\* not depend on the order in which candidates are compared.
THEOREM LexLeTotalOrder ==
  ASSUME NEW u \in HardVector, NEW v \in HardVector, NEW w \in HardVector
  PROVE  RanksTotally(u, v, w)
<1>0. \A k \in 1 .. 6 : u[k] \in Nat /\ v[k] \in Nat /\ w[k] \in Nat
  BY DEF HardVector
<1>1. LexLe(u, v) \/ LexLe(v, u)
  BY <1>0, SMT DEF LexLe
<1>2. ASSUME LexLe(u, v), LexLe(v, w)
      PROVE  LexLe(u, w)
  BY <1>0, <1>2, SMT DEF LexLe
<1>3. ASSUME LexLe(u, v), LexLe(v, u)
      PROVE  u = v
  <2>1. \A k \in 1 .. 6 : u[k] = v[k]
    BY <1>0, <1>3, SMT DEF LexLe
  <2>2. QED
    BY <2>1 DEF HardVector
<1>4. QED
  BY <1>1, <1>2, <1>3 DEF RanksTotally

\* is_feasible tells the first feasibility class: its vectors rank before all
\* others, so that comparing soft costs within it is sound.
THEOREM FeasibleFirst ==
  ASSUME NEW u \in HardVector, NEW v \in HardVector
  PROVE  FeasibleRanksFirst(u, v)
<1>0. \A k \in 1 .. 6 : u[k] \in Nat /\ v[k] \in Nat
  BY DEF HardVector
<1>1. ASSUME IsFeasible(u)
      PROVE  LexLe(u, v)
  BY <1>0, <1>1, SMT DEF IsFeasible, LexLe
<1>2. ASSUME IsFeasible(u), LexLe(v, u)
      PROVE  IsFeasible(v)
  BY <1>0, <1>2, SMT DEF IsFeasible, LexLe
<1>3. QED
  BY <1>1, <1>2 DEF FeasibleRanksFirst

\* No number of violations on lower levels outweighs one on a higher level.
THEOREM LevelsAreGates ==
  ASSUME NEW u \in HardVector, NEW v \in HardVector
  PROVE  LevelsGate(u, v)
<1>0. \A k \in 1 .. 6 : u[k] \in Nat /\ v[k] \in Nat
  BY DEF HardVector
<1>1. QED
  BY <1>0, SMT DEF LevelsGate, LexLe

\* The three answers of a placement certificate nest, for gate vectors of any
\* length and order.
THEOREM AcceptanceOrder ==
  ASSUME NEW cert \in PlacementCertificate
  PROVE  AcceptanceNests(cert)
<1>1. ASSUME IsSignoffQuality(cert)
      PROVE  IsAccepted(cert)
  BY <1>1 DEF IsSignoffQuality, IsAccepted, EvaluateGateAcceptance
<1>2. ASSUME IsAccepted(cert)
      PROVE  EvaluateGateAcceptance(cert.gates, TRUE)
  BY <1>2 DEF IsAccepted, EvaluateGateAcceptance
<1>3. ASSUME EvaluateGateAcceptance(cert.gates, TRUE), ~ IsAccepted(cert)
      PROVE  \E k \in DOMAIN cert.gates :
               cert.gates[k].status = "Fail"
                 /\ cert.gates[k].gate \in {"LocalDrc", "IntentSatisfaction"}
  BY <1>3 DEF IsAccepted, EvaluateGateAcceptance, IsRepairable
<1>4. QED
  BY <1>1, <1>2, <1>3 DEF AcceptanceNests

\* What a caller compares is made of what the oracles emit.
CandidatesTyped ==
  /\ first \in HardVector /\ second \in HardVector /\ third \in HardVector
  /\ reading \in PlacementCertificate

LEMMA CandidatesAlwaysTyped == CandidateSpec => []CandidatesTyped
<1>1. StubPlacementCertificate \in PlacementCertificate
  <2>1. \A k \in 1 .. 6 : Gates[k] \in Gate
    BY DEF Gate
  <2>2. [k \in 1 .. 6 |-> [gate |-> Gates[k], status |-> "Degraded"]] \in Seq(GateEvaluation)
    BY <2>1 DEF GateEvaluation, Statuses
  <2>. QED
    BY <2>2 DEF StubPlacementCertificate, PlacementCertificate
<1>2. CandidateInit => CandidatesTyped
  BY <1>1, CandidatesAssumption DEF CandidateInit, CandidatesTyped
<1>3. CandidatesTyped /\ [CandidateNext]_candidateVars => CandidatesTyped'
  BY CandidatesAssumption
     DEF CandidatesTyped, CandidateNext, Draw, Certify, candidateVars
<1>. QED
  BY <1>2, <1>3, PTL DEF CandidateSpec

\* However candidates are drawn, of whatever counts, any three of them are ranked.
THEOREM RankingAlways == CandidateSpec => []Ranking
<1>1. CandidatesTyped => Ranking
  <2>. SUFFICES ASSUME CandidatesTyped PROVE Ranking
    OBVIOUS
  <2>. QED
    BY LexLeTotalOrder, FeasibleFirst, LevelsAreGates DEF CandidatesTyped, Ranking
<1>. QED
  BY <1>1, CandidatesAlwaysTyped, PTL

\* Whichever certificates are read, the three answers of each nest.
THEOREM AcceptanceAlways == CandidateSpec => []Acceptance
<1>1. CandidatesTyped => Acceptance
  BY AcceptanceOrder DEF CandidatesTyped, Acceptance
<1>. QED
  BY <1>1, CandidatesAlwaysTyped, PTL

----------------------------------------------------------------------------
(* The flow and the ways to it *)

\* The handles and the results hold what the oracles give for their own netlist,
\* whatever became of the circuit since.
HandlesFit ==
  /\ constraints # None =>
       constraints.result = RunConstraints(DeviceCount(constraints.netlist))
  /\ placed # None =>
       /\ placed.constraints = RunConstraints(DeviceCount(placed.netlist))
       /\ placed.placement = RunPlacement(DeviceCount(placed.netlist))
  /\ \A r \in results : r.flow = RunFlow(r.netlist)

\* What the stages answer one by one for one netlist is what run_flow answers.
LEMMA StagesMakeTheFlow ==
  ASSUME NEW nl
  PROVE  [ constraints |-> RunConstraints(DeviceCount(nl)),
           placement   |-> RunPlacement(DeviceCount(nl)),
           routing     |-> RunRouting(DeviceCount(nl),
                                      RunPlacement(DeviceCount(nl)).baselineUsed) ]
         = RunFlow(nl)
BY DEF RunFlow

LEMMA KeepKeepsFit ==
  ASSUME HandlesFit, NEW nl, NEW flow, flow = RunFlow(nl), Keep(nl, flow),
         UNCHANGED <<constraints, placed>>
  PROVE  HandlesFit'
<1>1. \A r \in results' : r.flow = RunFlow(r.netlist)
  BY DEF HandlesFit, Keep
<1>2. QED
  BY <1>1 DEF HandlesFit

LEMMA OthersKeepFit ==
  ASSUME HandlesFit, UNCHANGED <<constraints, placed, results>>
  PROVE  HandlesFit'
BY DEF HandlesFit

LEMMA HandlesFitInit == Init => HandlesFit
BY DEF Init, HandlesFit

LEMMA HandlesFitNext == HandlesFit /\ [Next]_vars => HandlesFit'
<1> SUFFICES ASSUME HandlesFit, [Next]_vars
             PROVE  HandlesFit'
  OBVIOUS
<1>1. CASE FromSpice
  BY <1>1, OthersKeepFit DEF FromSpice
<1>2. ASSUME NEW name \in Names, CircuitSelectSubckt(name)
      PROVE  HandlesFit'
  BY <1>2, OthersKeepFit DEF CircuitSelectSubckt
<1>3. CASE UseFirstSubcktAsTop
  BY <1>3, OthersKeepFit DEF UseFirstSubcktAsTop
<1>4. CASE Analyze
  <2>1. CASE DeviceCount(circuit.netlist) = 0
    BY <1>4, <2>1, OthersKeepFit DEF Analyze, RefuseEmpty
  <2>2. CASE DeviceCount(circuit.netlist) # 0
    <3>1. /\ constraints'.result = RunConstraints(DeviceCount(constraints'.netlist))
          /\ UNCHANGED <<placed, results>>
      BY <1>4, <2>2 DEF Analyze
    <3>2. QED
      BY <3>1 DEF HandlesFit
  <2>3. QED
    BY <2>1, <2>2
<1>5. CASE Place
  <2>1. constraints.result = RunConstraints(DeviceCount(constraints.netlist))
    BY <1>5 DEF Place, HandlesFit
  <2>2. /\ placed'.constraints = RunConstraints(DeviceCount(placed'.netlist))
        /\ placed'.placement = RunPlacement(DeviceCount(placed'.netlist))
        /\ UNCHANGED <<constraints, results>>
    BY <1>5, <2>1 DEF Place
  <2>3. QED
    BY <2>2 DEF HandlesFit
<1>6. CASE Route
  <2>1. /\ placed.constraints = RunConstraints(DeviceCount(placed.netlist))
        /\ placed.placement = RunPlacement(DeviceCount(placed.netlist))
    BY <1>6 DEF Route, HandlesFit
  <2>2. Keep(placed.netlist, RunFlow(placed.netlist)) /\ UNCHANGED <<constraints, placed>>
    BY <1>6, <2>1, StagesMakeTheFlow DEF Route
  <2>3. QED
    BY <2>2, KeepKeepsFit
<1>7. CASE Run
  <2>1. CASE DeviceCount(circuit.netlist) = 0
    BY <1>7, <2>1, OthersKeepFit DEF Run, RefuseEmpty
  <2>2. CASE DeviceCount(circuit.netlist) # 0
    <3>1. Keep(circuit.netlist, RunFlow(circuit.netlist)) /\ UNCHANGED <<constraints, placed>>
      BY <1>7, <2>2, StagesMakeTheFlow DEF Run
    <3>2. QED
      BY <3>1, KeepKeepsFit
  <2>3. QED
    BY <2>1, <2>2
<1>8. ASSUME NEW names \in BuiltNames, Solve(names)
      PROVE  HandlesFit'
  <2>1. CASE DeviceCount(FromDevices(names)) = 0
    BY <1>8, <2>1, OthersKeepFit DEF Solve, RefuseEmpty
  <2>2. CASE DeviceCount(FromDevices(names)) # 0
    <3>1. /\ Keep(FromDevices(names), RunFlow(FromDevices(names)))
          /\ UNCHANGED <<constraints, placed>>
      BY <1>8, <2>2 DEF Solve
    <3>2. QED
      BY <3>1, KeepKeepsFit
  <2>3. QED
    BY <2>1, <2>2
<1>9. CASE CallRunFlow
  <2>1. CASE DeviceCount(circuit.netlist) = 0
    BY <1>9, <2>1, OthersKeepFit DEF CallRunFlow, RefuseEmpty
  <2>2. CASE DeviceCount(circuit.netlist) # 0
    <3>1. Keep(circuit.netlist, RunFlow(circuit.netlist)) /\ UNCHANGED <<constraints, placed>>
      BY <1>9, <2>2 DEF CallRunFlow
    <3>2. QED
      BY <3>1, KeepKeepsFit
  <2>3. QED
    BY <2>1, <2>2
<1>10. CASE UNCHANGED vars
  BY <1>10, OthersKeepFit DEF vars
<1>11. QED
  BY <1>1, <1>2, <1>3, <1>4, <1>5, <1>6, <1>7, <1>8, <1>9, <1>10 DEF Next

LEMMA HandlesAlwaysFit == Spec => []HandlesFit
BY HandlesFitInit, HandlesFitNext, PTL DEF Spec

\* The command line, the Python module and the PDK loader add nothing to what the
\* flow itself can do: they keep circuits of their own.
THEOREM FrontEndsImplementFlow == FrontSpec => Spec
<1>1. FrontInit => Init
  BY DEF FrontInit
<1>2. [FrontNext]_<<vars, quickVars, pdkVars, frontVars>> => [Next]_vars
  BY DEF FrontNext
<1>3. QED
  BY <1>1, <1>2, PTL DEF FrontSpec, Spec

\* Nor do they add to what the quickstart can do: what holds of it holds of every
\* use that they make of it.
THEOREM FrontEndsImplementQuickstart == FrontSpec => QuickSpec
<1>1. FrontInit => QuickInit
  BY DEF FrontInit
<1>2. AtTerminal => [QuickNext]_quickVars
  BY ZenonT(30) DEF AtTerminal, AskQuickstart, Fail, Quit, MenuFlow, MenuInspect, QuickNext
<1>3. InPython => [QuickNext]_quickVars
  BY DEF InPython, AskQuickstart, PyFromSpice, PyRefused, PyRun, QuickNext
<1>4. Quickly \/ ShowAnswer => [QuickNext]_quickVars
  BY DEF Quickly, ShowAnswer, QuickNext
<1>5. [FrontNext]_<<vars, quickVars, pdkVars, frontVars>> => [QuickNext]_quickVars
  BY <1>2, <1>3, <1>4 DEF FrontNext
<1>6. QED
  BY <1>1, <1>5, PTL DEF FrontSpec, QuickSpec

\* The stages of a result saw the netlist the result carries, however the caller
\* mixes circuits and handles.
THEOREM StagesSawOneNetlistAlways == FrontSpec => []StagesSawOneNetlist
<1>1. HandlesFit => StagesSawOneNetlist
  <2> SUFFICES ASSUME HandlesFit, NEW r \in results
               PROVE  /\ r.flow.constraints.honored = DeviceCount(r.netlist)
                      /\ r.flow.placement.placedCount = DeviceCount(r.netlist)
    BY DEF StagesSawOneNetlist
  <2>1. r.flow = RunFlow(r.netlist)
    BY DEF HandlesFit
  <2>2. /\ r.flow.constraints = RunConstraints(DeviceCount(r.netlist))
        /\ r.flow.placement = RunPlacement(DeviceCount(r.netlist))
    BY <2>1 DEF RunFlow
  <2>3. QED
    BY <2>2 DEF RunConstraints, RunPlacement
<1>2. QED
  BY <1>1, FrontEndsImplementFlow, HandlesAlwaysFit, PTL

\* Of one netlist the stages, run, run_flow and the builder's solve give one result.
THEOREM WaysAgreeAlways == FrontSpec => []WaysAgree
<1>1. HandlesFit => WaysAgree
  BY DEF HandlesFit, WaysAgree
<1>2. QED
  BY <1>1, FrontEndsImplementFlow, HandlesAlwaysFit, PTL

LEMMA StubsAreNotProven ==
  /\ IsAccepted(StubPlacementCertificate)
  /\ ~ IsSignoffQuality(StubPlacementCertificate)
  /\ IsFeasible(StubRouteCertificate.hard)
  /\ ~ IsSignoffClean(StubRouteCertificate)
<1>1. IsAccepted(StubPlacementCertificate)
  BY DEF IsAccepted, EvaluateGateAcceptance, StubPlacementCertificate
<1>2. ~ IsSignoffQuality(StubPlacementCertificate)
  BY DEF IsSignoffQuality, StubPlacementCertificate
<1>3. IsFeasible(StubRouteCertificate.hard)
  BY DEF IsFeasible, StubRouteCertificate, DefaultHardVector
<1>4. ~ IsSignoffClean(StubRouteCertificate)
  BY DEF IsSignoffClean, StubRouteCertificate
<1>5. QED
  BY <1>1, <1>2, <1>3, <1>4

----------------------------------------------------------------------------
(* Counting devices *)

LEMMA DefsFinite ==
  ASSUME NEW nl, IsNetlist(nl)
  PROVE  IsFiniteSet(DOMAIN nl.defs)
<1>1. nl.order \in Seq(Word) /\ ToSet(nl.order) = DOMAIN nl.defs
  BY DEF IsNetlist
<1>2. Len(nl.order) \in Nat /\ DOMAIN nl.order = 1 .. Len(nl.order)
  BY <1>1
<1>3. nl.order \in Surjection(1 .. Len(nl.order), ToSet(nl.order))
  BY <1>1, <1>2 DEF Surjection, ToSet
<1>. QED
  BY <1>1, <1>2, <1>3, FS_Interval, FS_Surjection

\* device_count is zero exactly if there is no card, in a subckt or outside.
LEMMA CountsDevices ==
  ASSUME NEW nl, IsNetlist(nl)
  PROVE  /\ BodySize(nl.defs) \in Nat /\ DeviceCount(nl) \in Nat
         /\ DeviceCount(nl) = 0 <=> HasNoCard(nl)
<1>. DEFINE size == [n \in DOMAIN nl.defs |-> Len(nl.defs[n].body)]
<1>1. nl.top \in Seq(Card) /\ Len(nl.top) \in Nat /\ (Len(nl.top) = 0 <=> nl.top = <<>>)
  BY DEF IsNetlist
<1>2. \A n \in DOMAIN nl.defs : nl.defs[n].body \in Seq(Card)
  BY DEF IsNetlist, IsDefs, Subckt
<1>3. \A n \in DOMAIN nl.defs :
        size[n] \in Nat /\ (size[n] = 0 <=> nl.defs[n].body = <<>>)
  BY <1>2
<1>4. DOMAIN size = DOMAIN nl.defs /\ BodySize(nl.defs) = SumFunctionOnSet(size, DOMAIN nl.defs)
  BY DEF BodySize, SumFunction
<1>. HIDE DEF size
<1>5. /\ SumFunctionOnSet(size, DOMAIN nl.defs) \in Nat
      /\ SumFunctionOnSet(size, DOMAIN nl.defs) = 0 <=> \A n \in DOMAIN nl.defs : size[n] = 0
  BY <1>3, DefsFinite, SumOfNaturals
<1>. QED
  BY <1>1, <1>3, <1>4, <1>5 DEF DeviceCount, HasNoCard

\* A promotion makes a netlist of a netlist and leaves its definitions alone.
LEMMA SelectKeepsNetlist ==
  ASSUME NEW nl, IsNetlist(nl), NEW name \in DOMAIN nl.defs
  PROVE  /\ IsNetlist(SelectSubckt(nl, name))
         /\ SelectSubckt(nl, name).defs = nl.defs
         /\ SelectSubckt(nl, name).top = nl.top \o nl.defs[name].body
         /\ nl.defs[name].body \in Seq(Card)
<1>1. nl.defs[name].body \in Seq(Card)
  BY DEF IsNetlist, IsDefs, Subckt
<1>2. nl.top \in Seq(Card) /\ nl.top \o nl.defs[name].body \in Seq(Card)
  BY <1>1 DEF IsNetlist
<1>3. SelectSubckt(nl, name)
        = [ top |-> nl.top \o nl.defs[name].body, defs |-> nl.defs, order |-> nl.order,
            directives |-> nl.directives ]
  BY DEF SelectSubckt, IsNetlist
<1>. QED
  BY <1>1, <1>2, <1>3 DEF IsNetlist

\* use_first_subckt_as_top adds the body that inspection counts once.
LEMMA PromoteCounts ==
  ASSUME NEW nl, IsNetlist(nl)
  PROVE  /\ IsNetlist(PromoteFirstSubckt(nl))
         /\ PromotedTwice(nl) \in Nat
         /\ DeviceCount(PromoteFirstSubckt(nl)) = DeviceCount(nl) + PromotedTwice(nl)
<1>1. CASE nl.top = <<>> /\ nl.order # <<>>
  <2>1. Head(nl.order) \in DOMAIN nl.defs
    <3>1. nl.order \in Seq(Word) /\ ToSet(nl.order) = DOMAIN nl.defs
      BY DEF IsNetlist
    <3>2. 1 \in DOMAIN nl.order /\ Head(nl.order) = nl.order[1]
      BY <1>1, <3>1
    <3>. QED
      BY <3>1, <3>2 DEF ToSet
  <2>2. PICK name \in DOMAIN nl.defs : name = Head(nl.order)
    BY <2>1
  <2>3. /\ PromoteFirstSubckt(nl) = SelectSubckt(nl, name)
        /\ PromotedTwice(nl) = Len(nl.defs[name].body)
    BY <1>1, <2>2 DEF PromoteFirstSubckt, PromotedTwice
  <2>4. /\ IsNetlist(SelectSubckt(nl, name))
        /\ SelectSubckt(nl, name).defs = nl.defs
        /\ SelectSubckt(nl, name).top = nl.top \o nl.defs[name].body
        /\ nl.defs[name].body \in Seq(Card)
    BY SelectKeepsNetlist
  <2>5. Len(nl.top \o nl.defs[name].body) = Len(nl.defs[name].body) /\ Len(nl.top) = 0
    BY <1>1, <2>4
  <2>6. DeviceCount(SelectSubckt(nl, name)) = Len(nl.defs[name].body) + BodySize(nl.defs)
    BY <2>4, <2>5 DEF DeviceCount
  <2>7. DeviceCount(nl) = BodySize(nl.defs) /\ BodySize(nl.defs) \in Nat
    BY <2>5, CountsDevices DEF DeviceCount
  <2>8. Len(nl.defs[name].body) \in Nat
    BY <2>4
  <2>. QED
    BY <2>3, <2>4, <2>6, <2>7, <2>8
<1>2. CASE ~ (nl.top = <<>> /\ nl.order # <<>>)
  <2>1. PromoteFirstSubckt(nl) = nl /\ PromotedTwice(nl) = 0
    BY <1>2 DEF PromoteFirstSubckt, PromotedTwice
  <2>. QED
    BY <2>1, CountsDevices
<1>. QED
  BY <1>1, <1>2

LEMMA PromotesNothing ==
  ASSUME NEW nl, IsNetlist(nl), HasNoCard(nl)
  PROVE  PromotedTwice(nl) = 0
<1>1. ASSUME nl.order # <<>>
      PROVE  nl.defs[Head(nl.order)].body = <<>>
  <2>1. nl.order \in Seq(Word) /\ ToSet(nl.order) = DOMAIN nl.defs
    BY DEF IsNetlist
  <2>2. Head(nl.order) \in DOMAIN nl.defs
    BY <1>1, <2>1 DEF ToSet
  <2>. QED
    BY <2>2 DEF HasNoCard
<1>. QED
  BY <1>1 DEF PromotedTwice

LEMMA BuiltIsNetlist ==
  ASSUME NEW names \in BuiltNames
  PROVE  IsNetlist(FromDevices(names))
<1>. DEFINE cards == [i \in DOMAIN names |-> <<names[i]>>]
<1>1. names \in Seq(Word)
  BY NetlistsAssumption
<1>2. cards \in Seq(Card)
  <2>1. \A i \in 1 .. Len(names) : names[i] \in Word
    BY <1>1
  <2>2. \A w \in Word : <<w>> \in Card
    BY DEF Card
  <2>3. DOMAIN names = 1 .. Len(names) /\ Len(names) \in Nat
    BY <1>1
  <2>. QED
    BY <2>1, <2>2, <2>3, IsASeq
<1>3. FromDevices(names)
        = [top |-> cards, defs |-> EmptyDefs, order |-> <<>>, directives |-> <<>>]
  BY DEF FromDevices, EmptyNetlist
<1>4. IsDefs(EmptyDefs) /\ DOMAIN EmptyDefs = {}
  BY DEF IsDefs, EmptyDefs
<1>5. IsInjective(<<>>) /\ ToSet(<<>>) = {} /\ <<>> \in Seq(Word) /\ <<>> \in Seq(Card)
  BY DEF IsInjective, ToSet
<1>. HIDE DEF cards
<1>. QED
  BY <1>2, <1>3, <1>4, <1>5 DEF IsNetlist

\* No result of the stub stages, whichever way it was asked for, passes for a
\* proven placement or a signoff-quality route.
THEOREM NeverSignoffAlways == FrontSpec => []NeverSignoff
<1>1. HandlesFit => NeverSignoff
  <2> SUFFICES ASSUME HandlesFit, NEW r \in results
               PROVE  /\ IsAccepted(r.flow.placement.certificate)
                      /\ ~ IsSignoffQuality(r.flow.placement.certificate)
                      /\ IsFeasible(r.flow.routing.certificate.hard)
                      /\ ~ IsSignoffClean(r.flow.routing.certificate)
    BY DEF NeverSignoff
  <2>1. r.flow = RunFlow(r.netlist)
    BY DEF HandlesFit
  <2>2. /\ r.flow.placement.certificate = StubPlacementCertificate
        /\ r.flow.routing.certificate = StubRouteCertificate
    BY <2>1 DEF RunFlow, RunPlacement, RunRouting
  <2>3. QED
    BY <2>2, StubsAreNotProven
<1>2. QED
  BY <1>1, FrontEndsImplementFlow, HandlesAlwaysFit, PTL
----------------------------------------------------------------------------
(* What is refused as empty *)

\* The circuit is always a netlist that can be promoted on; what the handles were
\* made from is no empty one, however the circuit was replaced since.
NetlistsFit ==
  /\ circuit # None => IsNetlist(circuit.netlist)
  /\ constraints # None => ~ HasNoCard(constraints.netlist)
  /\ placed # None => ~ HasNoCard(placed.netlist)
  /\ EmptyExactlyRefused

LEMMA KeepsNonempty ==
  ASSUME NetlistsFit, NEW nl, ~ HasNoCard(nl), NEW flow, Keep(nl, flow),
         error' = NoError, UNCHANGED <<circuit, constraints, placed>>
  PROVE  NetlistsFit'
<1>1. \A r \in results' : ~ HasNoCard(r.netlist)
  BY DEF NetlistsFit, EmptyExactlyRefused, Keep
<1>2. error'.kind # "EmptyNetlist"
  BY DEF NoError
<1>. QED
  BY <1>1, <1>2 DEF NetlistsFit, EmptyExactlyRefused

LEMMA RefusesEmpty ==
  ASSUME NetlistsFit, NEW nl, HasNoCard(nl), RefuseEmpty(nl), UNCHANGED circuit
  PROVE  NetlistsFit'
<1>1. error'.netlist = nl /\ UNCHANGED <<circuit, constraints, placed, results>>
  BY DEF RefuseEmpty
<1>2. \A r \in results' : ~ HasNoCard(r.netlist)
  BY <1>1 DEF NetlistsFit, EmptyExactlyRefused
<1>. QED
  BY <1>1, <1>2 DEF NetlistsFit, EmptyExactlyRefused

\* A call that changes the circuit alone.
LEMMA CircuitFits ==
  ASSUME NetlistsFit, circuit' # None => IsNetlist(circuit'.netlist),
         error'.kind # "EmptyNetlist", UNCHANGED <<constraints, placed, results>>
  PROVE  NetlistsFit'
BY DEF NetlistsFit, EmptyExactlyRefused

LEMMA NetlistsFitInit == Init => NetlistsFit
BY DEF Init, NetlistsFit, EmptyExactlyRefused, NoError

LEMMA NetlistsFitNext == NetlistsFit /\ [Next]_vars => NetlistsFit'
<1> SUFFICES ASSUME NetlistsFit, [Next]_vars
             PROVE  NetlistsFit'
  OBVIOUS
<1>0. circuit # None => /\ IsNetlist(circuit.netlist)
                        /\ DeviceCount(circuit.netlist) = 0 <=> HasNoCard(circuit.netlist)
  BY CountsDevices DEF NetlistsFit
<1>1. CASE FromSpice
  <2>1. PICK nl \in Netlists : circuit' = Held(nl)
    BY <1>1 DEF FromSpice
  <2>2. IsNetlist(circuit'.netlist)
    BY <2>1, NetlistsAssumption DEF Held
  <2>. QED
    BY <1>1, <2>2, CircuitFits DEF FromSpice, NoError
<1>2. ASSUME NEW name \in Names, CircuitSelectSubckt(name)
      PROVE  NetlistsFit'
  <2>1. CASE name \in DOMAIN circuit.netlist.defs
    <3>1. circuit'.netlist = SelectSubckt(circuit.netlist, name) /\ error' = NoError
      BY <1>2, <2>1 DEF CircuitSelectSubckt, Held
    <3>2. IsNetlist(circuit'.netlist)
      BY <1>0, <1>2, <2>1, <3>1, SelectKeepsNetlist DEF CircuitSelectSubckt
    <3>. QED
      BY <1>2, <3>1, <3>2, CircuitFits DEF CircuitSelectSubckt, NoError
  <2>2. CASE name \notin DOMAIN circuit.netlist.defs
    <3>1. circuit' = None /\ error'.kind # "EmptyNetlist"
      BY <1>2, <2>2 DEF CircuitSelectSubckt
    <3>. QED
      BY <1>2, <3>1, CircuitFits DEF CircuitSelectSubckt
  <2>. QED
    BY <2>1, <2>2
<1>3. CASE UseFirstSubcktAsTop
  <2>1. circuit'.netlist = PromoteFirstSubckt(circuit.netlist) /\ error' = NoError
    BY <1>3 DEF UseFirstSubcktAsTop, Held
  <2>2. IsNetlist(circuit'.netlist)
    BY <1>0, <1>3, <2>1, PromoteCounts DEF UseFirstSubcktAsTop
  <2>. QED
    BY <1>3, <2>1, <2>2, CircuitFits DEF UseFirstSubcktAsTop, NoError
<1>4. CASE Analyze
  <2>1. CASE DeviceCount(circuit.netlist) = 0
    BY <1>0, <1>4, <2>1, RefusesEmpty DEF Analyze
  <2>2. CASE DeviceCount(circuit.netlist) # 0
    <3>1. /\ constraints'.netlist = circuit.netlist /\ ~ HasNoCard(circuit.netlist)
          /\ error' = NoError
          /\ UNCHANGED <<circuit, placed, results>>
      BY <1>0, <1>4, <2>2 DEF Analyze
    <3>. QED
      BY <3>1 DEF NetlistsFit, EmptyExactlyRefused, NoError
  <2>. QED
    BY <2>1, <2>2
<1>5. CASE Place
  <2>1. /\ placed'.netlist = constraints.netlist /\ ~ HasNoCard(constraints.netlist)
        /\ error' = NoError
        /\ UNCHANGED <<circuit, constraints, results>>
    BY <1>5 DEF Place, NetlistsFit
  <2>. QED
    BY <2>1 DEF NetlistsFit, EmptyExactlyRefused, NoError
<1>6. CASE Route
  <2>1. ~ HasNoCard(placed.netlist)
    BY <1>6 DEF Route, NetlistsFit
  <2>. QED
    BY <1>6, <2>1, KeepsNonempty DEF Route
<1>7. CASE Run
  <2>1. CASE DeviceCount(circuit.netlist) = 0
    BY <1>0, <1>7, <2>1, RefusesEmpty DEF Run
  <2>2. CASE DeviceCount(circuit.netlist) # 0
    <3>1. ~ HasNoCard(circuit.netlist)
      BY <1>0, <1>7, <2>2 DEF Run
    <3>. QED
      BY <1>7, <2>2, <3>1, KeepsNonempty DEF Run
  <2>. QED
    BY <2>1, <2>2
<1>8. ASSUME NEW names \in BuiltNames, Solve(names)
      PROVE  NetlistsFit'
  <2>. DEFINE nl == FromDevices(names)
  <2>0. DeviceCount(nl) = 0 <=> HasNoCard(nl)
    BY BuiltIsNetlist, CountsDevices
  <2>1. CASE DeviceCount(nl) = 0
    BY <1>8, <2>0, <2>1, RefusesEmpty DEF Solve
  <2>2. CASE DeviceCount(nl) # 0
    BY <1>8, <2>0, <2>2, KeepsNonempty DEF Solve
  <2>. QED
    BY <2>1, <2>2
<1>9. CASE CallRunFlow
  <2>1. CASE DeviceCount(circuit.netlist) = 0
    BY <1>0, <1>9, <2>1, RefusesEmpty DEF CallRunFlow
  <2>2. CASE DeviceCount(circuit.netlist) # 0
    BY <1>0, <1>9, <2>2, KeepsNonempty DEF CallRunFlow
  <2>. QED
    BY <2>1, <2>2
<1>10. CASE UNCHANGED vars
  BY <1>10 DEF vars, NetlistsFit, EmptyExactlyRefused
<1>. QED
  BY <1>1, <1>2, <1>3, <1>4, <1>5, <1>6, <1>7, <1>8, <1>9, <1>10 DEF Next

\* A circuit is refused as empty only if no card is in it, in a subckt or outside,
\* and no result is of such a circuit, whichever tiers it went through.
THEOREM EmptyExactlyRefusedAlways == FrontSpec => []EmptyExactlyRefused
<1>1. Spec => []NetlistsFit
  BY NetlistsFitInit, NetlistsFitNext, PTL DEF Spec
<1>2. NetlistsFit => EmptyExactlyRefused
  BY DEF NetlistsFit
<1>. QED
  BY <1>1, <1>2, FrontEndsImplementFlow, PTL

----------------------------------------------------------------------------
(* What users are shown *)

\* Of a deck a flow's run tells what run_flow gives of the promoted netlist, or
\* that this is empty; an inspection tells the devices of the netlist as read.
TellsFlow(e) ==
  LET nl == PromoteFirstSubckt(e.deck) IN
  /\ e.via # "inspect"
  /\ e.exit = IF DeviceCount(nl) = 0 THEN "FAILURE" ELSE "SUCCESS"
  /\ DeviceCount(nl) # 0 => e.counters = Counters(nl, RunFlow(nl))
TellsCounts(e) == e.via = "inspect" /\ e.devices = DeviceCount(e.deck)

ShownFit ==
  /\ pyCircuit # None => /\ pyCircuit.deck \in Netlists
                         /\ pyCircuit.inner = PromoteFirstSubckt(pyCircuit.deck)
  /\ \A e \in shown : "deck" \in DOMAIN e =>
       e.deck \in Netlists /\ (TellsFlow(e) \/ TellsCounts(e))

LEMMA FlowEntryTells ==
  ASSUME NEW way \in {"flow", "pyrun"}, NEW deck,
         NEW nl, nl = PromoteFirstSubckt(deck)
  PROVE  FlowEntry(way, deck, nl).deck = deck /\ TellsFlow(FlowEntry(way, deck, nl))
BY DEF FlowEntry, TellsFlow

LEMMA ShowKeeps ==
  ASSUME ShownFit, UNCHANGED pyCircuit, NEW e, Show(e),
         "deck" \in DOMAIN e => e.deck \in Netlists /\ (TellsFlow(e) \/ TellsCounts(e))
  PROVE  ShownFit'
<1>1. \A d \in shown' : "deck" \in DOMAIN d =>
        d.deck \in Netlists /\ (TellsFlow(d) \/ TellsCounts(d))
  BY DEF ShownFit, Show
<1>. QED
  BY <1>1 DEF ShownFit, TellsFlow, TellsCounts

LEMMA ShownFitInit == FrontInit => ShownFit
BY DEF FrontInit, ShownFit

LEMMA OthersKeepShown ==
  ASSUME ShownFit, UNCHANGED <<pyCircuit, shown>>
  PROVE  ShownFit'
BY DEF ShownFit, TellsFlow, TellsCounts

LEMMA ShownFitNext ==
  ShownFit /\ [FrontNext]_<<vars, quickVars, pdkVars, frontVars>> => ShownFit'
<1> SUFFICES ASSUME ShownFit, [FrontNext]_<<vars, quickVars, pdkVars, frontVars>>
             PROVE  ShownFit'
  OBVIOUS
<1>1. ASSUME NEW via, AskQuickstart(via)
      PROVE  ShownFit'
  BY <1>1, OthersKeepShown DEF AskQuickstart
<1>2. ASSUME NEW via, Fail(via)
      PROVE  ShownFit'
  BY <1>2, ShowKeeps DEF Fail, frontVars
<1>3. CASE Quit
  BY <1>3, ShowKeeps DEF Quit
<1>4. ASSUME NEW deck \in Netlists, MenuFlow(deck)
      PROVE  ShownFit'
  <2>1. Show(FlowEntry("flow", deck, PromoteFirstSubckt(deck))) /\ UNCHANGED pyCircuit
    BY <1>4 DEF MenuFlow
  <2>. QED
    BY <2>1, FlowEntryTells, ShowKeeps
<1>5. ASSUME NEW deck \in Netlists, MenuInspect(deck)
      PROVE  ShownFit'
  BY <1>5, ShowKeeps DEF MenuInspect, TellsCounts
<1>6. ASSUME NEW deck \in Netlists, PyFromSpice(deck)
      PROVE  ShownFit'
  BY <1>6 DEF PyFromSpice, ShownFit, TellsFlow, TellsCounts
<1>7. CASE PyRefused
  BY <1>7, ShowKeeps DEF PyRefused
<1>8. CASE PyRun
  <2>1. /\ Show(FlowEntry("pyrun", pyCircuit.deck, pyCircuit.inner)) /\ UNCHANGED pyCircuit
        /\ pyCircuit # None
    BY <1>8 DEF PyRun
  <2>2. pyCircuit.deck \in Netlists /\ pyCircuit.inner = PromoteFirstSubckt(pyCircuit.deck)
    BY <2>1 DEF ShownFit
  <2>. QED
    BY <2>1, <2>2, FlowEntryTells, ShowKeeps
<1>9. CASE ShowAnswer
  BY <1>9, ShowKeeps DEF ShowAnswer
<1>10. CASE UNCHANGED frontVars
  BY <1>10, OthersKeepShown DEF frontVars
<1>11. AtTerminal \/ InPython => ShownFit'
  BY <1>1, <1>2, <1>3, <1>4, <1>5, <1>6, <1>7, <1>8 DEF AtTerminal, InPython
<1>12. Quickly => UNCHANGED frontVars
  BY DEF Quickly
<1>. QED
  BY <1>9, <1>10, <1>11, <1>12 DEF FrontNext

\* Of one deck the command and the Python module tell the same, and the flow places
\* what it counts, which is what inspection counted and the promoted body.
THEOREM FrontEndsAgreeAlways == FrontSpec => []FrontEndsAgree
<1>1. ShownFit => FrontEndsAgree
  <2> SUFFICES ASSUME ShownFit,
                      NEW a \in shown, NEW b \in shown,
                      "deck" \in DOMAIN a, "deck" \in DOMAIN b, a.deck = b.deck,
                      a.via # "inspect"
               PROVE  /\ b.via # "inspect" =>
                           a.exit = b.exit /\ (a.exit = "SUCCESS" => a.counters = b.counters)
                      /\ b.via = "inspect" =>
                           /\ a.exit = "SUCCESS" <=> b.devices > 0
                           /\ a.exit = "SUCCESS" =>
                                /\ a.counters.placed = a.counters.devices
                                /\ a.counters.placed = b.devices + PromotedTwice(a.deck)
    BY DEF FrontEndsAgree
  <2>. DEFINE nl == PromoteFirstSubckt(a.deck)
  <2>1. a.deck \in Netlists /\ TellsFlow(a)
    BY DEF ShownFit, TellsCounts
  <2>2. b.via # "inspect" => TellsFlow(b)
    BY DEF ShownFit, TellsCounts
  <2>3. b.via = "inspect" => b.devices = DeviceCount(a.deck)
    BY DEF ShownFit, TellsFlow, TellsCounts
  <2>4. /\ DeviceCount(a.deck) \in Nat /\ PromotedTwice(a.deck) \in Nat
        /\ DeviceCount(nl) = DeviceCount(a.deck) + PromotedTwice(a.deck)
    BY <2>1, NetlistsAssumption, CountsDevices, PromoteCounts
  <2>5. /\ Counters(nl, RunFlow(nl)).placed = DeviceCount(nl)
        /\ Counters(nl, RunFlow(nl)).devices = DeviceCount(nl)
    BY DEF Counters, RunFlow, RunPlacement
  <2>6. DeviceCount(a.deck) = 0 => PromotedTwice(a.deck) = 0
    <3>1. DeviceCount(a.deck) = 0 => HasNoCard(a.deck)
      BY <2>1, NetlistsAssumption, CountsDevices
    <3>2. HasNoCard(a.deck) => PromotedTwice(a.deck) = 0
      <4>1. IsNetlist(a.deck)
        BY <2>1, NetlistsAssumption
      <4>. QED
        BY <4>1, PromotesNothing
    <3>. QED
      BY <3>1, <3>2
  <2>7. /\ a.exit = "SUCCESS" <=> DeviceCount(nl) # 0
        /\ a.exit = "SUCCESS" => a.counters = Counters(nl, RunFlow(nl))
    BY <2>1 DEF TellsFlow
  <2>8. b.via # "inspect" =>
          a.exit = b.exit /\ (a.exit = "SUCCESS" => a.counters = b.counters)
    BY <2>1, <2>2 DEF TellsFlow
  <2>. HIDE DEF nl
  <2>. QED
    BY <2>3, <2>4, <2>5, <2>6, <2>7, <2>8
<1>. QED
  BY <1>1, ShownFitInit, ShownFitNext, PTL DEF FrontSpec

----------------------------------------------------------------------------
(* The quickstart *)

Cell == [x : Integer, y : Integer]

\* The cells are those of the rows in S.
SameCell(i, k) == cells[i].x = text[k].x.n /\ cells[i].y = text[k].y.n
CellsAre(S) ==
  /\ Len(cells) = Cardinality(S)
  /\ \A k \in S : \E i \in DOMAIN cells : SameCell(i, k)
  /\ \A i \in DOMAIN cells : \E k \in S : SameCell(i, k)

\* The box is drawn around the first n cells, and each side touches one of them.
BoxAround(n) ==
  /\ box \in [minX : Int, maxX : Int, minY : Int, maxY : Int]
  /\ \A i \in 1 .. n : /\ box.minX <= cells[i].x /\ cells[i].x <= box.maxX
                       /\ box.minY <= cells[i].y /\ cells[i].y <= box.maxY
  /\ \E i \in 1 .. n : cells[i].x = box.minX
  /\ \E i \in 1 .. n : cells[i].x = box.maxX
  /\ \E i \in 1 .. n : cells[i].y = box.minY
  /\ \E i \in 1 .. n : cells[i].y = box.maxY

RowsRead == {k \in CellRows : k < row}

Typed ==
  /\ stage \in {"idle", "parse", "box", "done"} /\ checks \in BOOLEAN
  /\ text \in Seq(Row) /\ row \in Nat \ {0} /\ cells \in Seq(Cell)

WhileParsing ==
  stage = "parse" =>
    /\ row <= Len(text) + 1
    /\ \A k \in Faulty : row <= k
    /\ CellsAre(RowsRead)

WhileBoxing ==
  stage = "box" =>
    /\ Faulty = {} /\ CellsAre(CellRows) /\ cells # <<>>
    /\ row \in 2 .. Len(cells) + 1
    /\ BoxAround(row - 1)

QuickInv ==
  Typed /\ WhileParsing /\ WhileBoxing /\ FirstFaultReported /\ WrongSummaryShows

LEMMA FaultyRows == \A k \in Faulty : k \in CellRows /\ k \in DOMAIN text
BY DEF Faulty, CellRows

LEMMA RowsFinite ==
  ASSUME text \in Seq(Row)
  PROVE  IsFiniteSet(CellRows) /\ CellRows \subseteq 1 .. Len(text)
<1>1. CellRows \subseteq 1 .. Len(text)
  BY DEF CellRows
<1>2. IsFiniteSet(1 .. Len(text))
  BY FS_Interval
<1>3. QED
  BY <1>1, <1>2, FS_Subset

LEMMA GreatestIs ==
  ASSUME NEW D \in SUBSET Int, NEW m \in D, \A d \in D : d <= m
  PROVE  Max(D) = m
<1>1. \A x \in D : (\A y \in D : x >= y) <=> x = m
  OBVIOUS
<1>2. Max(D) \in D /\ \A y \in D : Max(D) >= y
  BY <1>1 DEF Max
<1>3. QED
  BY <1>1, <1>2

LEMMA QuickInvInit == QuickInit => QuickInv
BY DEF QuickInit, QuickInv, Typed, WhileParsing, WhileBoxing, FirstFaultReported,
       WrongSummaryShows

LEMMA CallKeeps ==
  ASSUME QuickInv, NEW input \in Texts, PlaceAndRoute(input)
  PROVE  QuickInv'
<1>1. Typed' /\ stage' = "parse" /\ row' = 1 /\ cells' = <<>>
  BY QuickAssumption DEF QuickInv, Typed, PlaceAndRoute
<1>2. RowsRead' = {} /\ \A k \in Faulty' : k \in 1 .. Len(text')
  <2>1. \A k \in CellRows' : k \in 1 .. Len(text')
    BY <1>1 DEF CellRows, Typed
  <2>2. \A k \in Faulty' : k \in CellRows'
    BY DEF Faulty
  <2>3. RowsRead' = {}
    BY <1>1, <2>1 DEF RowsRead
  <2>4. QED
    BY <2>1, <2>2, <2>3
<1>3. Cardinality({}) = 0
  BY FS_EmptySet
<1>4. CellsAre({})'
  BY <1>1, <1>3 DEF CellsAre
<1>5. QED
  BY <1>1, <1>2, <1>4
     DEF QuickInv, Typed, WhileParsing, WhileBoxing, FirstFaultReported, WrongSummaryShows

LEMMA ParseRowKeeps ==
  ASSUME QuickInv, ParseRow
  PROVE  QuickInv'
<1> DEFINE r == text[row]
<1>0. /\ stage = "parse" /\ row \in 1 .. Len(text) /\ text \in Seq(Row) /\ Typed
      /\ \A k \in Faulty : row <= k
      /\ CellsAre(RowsRead)
      /\ UNCHANGED <<text, checks>>
  BY DEF QuickInv, WhileParsing, Typed, ParseRow, Malformed
<1>1. r \in Row /\ r.skipped \in BOOLEAN /\ r.x.n \in Int /\ r.y.n \in Int
  <2>1. r \in Row
    BY <1>0
  <2>2. r.skipped \in BOOLEAN /\ r.x \in Coordinate /\ r.y \in Coordinate
    BY <2>1 DEF Row
  <2>3. QED
    BY <2>1, <2>2 DEF Coordinate
<1>2. row \in Faulty <=> ~ r.skipped /\ ~ (Valid(r.x) /\ Valid(r.y))
  BY <1>0 DEF Faulty, CellRows
<1>3. ASSUME NEW axis, Malformed(axis), row \in Faulty, axis = "x" <=> ~ Valid(r.x)
      PROVE  QuickInv'
  <2>1. Typed'
    BY <1>0, <1>3 DEF Typed, Malformed
  <2>2. FirstFaultReported'
    BY <1>0, <1>3 DEF Malformed, FirstFaultReported, Faulty, CellRows, Valid
  <2>3. QED
    BY <1>3, <2>1, <2>2
       DEF Malformed, QuickInv, WhileParsing, WhileBoxing, WrongSummaryShows
<1>4. CASE ~ r.skipped /\ ~ Valid(r.x)
  BY <1>2, <1>3, <1>4 DEF ParseRow
<1>5. CASE ~ r.skipped /\ Valid(r.x) /\ ~ Valid(r.y)
  <2>1. Malformed("y")
    BY <1>5 DEF ParseRow
  <2>2. QED
    BY <1>2, <1>3, <1>5, <2>1
<1>6. CASE r.skipped \/ (Valid(r.x) /\ Valid(r.y))
  <2>1. /\ cells' = IF r.skipped THEN cells ELSE Append(cells, [x |-> r.x.n, y |-> r.y.n])
        /\ row' = row + 1 /\ stage' = "parse"
    BY <1>0, <1>6 DEF ParseRow
  <2>2. Typed'
    <3>1. cells' \in Seq(Cell)
      <4>1. CASE r.skipped
        BY <1>0, <2>1, <4>1 DEF Typed
      <4>2. CASE ~ r.skipped
        <5>1. [x |-> r.x.n, y |-> r.y.n] \in Cell
          BY <1>6, <4>2 DEF Cell, Valid
        <5>2. QED
          BY <1>0, <2>1, <4>2, <5>1 DEF Typed
      <4>3. QED
        BY <1>1, <4>1, <4>2
    <3>2. QED
      BY <1>0, <2>1, <3>1 DEF Typed
  <2>3. \A k \in Faulty' : row' <= k
    <3>1. Faulty' = Faulty /\ Faulty \subseteq 1 .. Len(text)
      BY <1>0 DEF Faulty, CellRows
    <3>2. QED
      BY <1>0, <1>2, <1>6, <2>1, <3>1
  <2>4. CellsAre(RowsRead)'
    <3>1. CellRows' = CellRows /\ CellRows \subseteq 1 .. Len(text)
      BY <1>0 DEF CellRows
    <3> DEFINE Upto == {k \in CellRows : k < row + 1}
    <3>0. RowsRead' = Upto
      BY <2>1, <3>1 DEF RowsRead
    <3>5. \A k \in CellRows : k < row + 1 <=> k < row \/ k = row
      BY <1>0, <3>1
    <3>2. CASE r.skipped
      <4>1. row \notin CellRows
        BY <3>2 DEF CellRows
      <4>2. RowsRead' = RowsRead
        BY <3>0, <3>5, <4>1 DEF RowsRead
      <4>3. cells' = cells
        BY <2>1, <3>2
      <4>4. QED
        BY <1>0, <4>2, <4>3 DEF CellsAre, SameCell
    <3>3. CASE ~ r.skipped
      <4>1. row \in CellRows /\ row \notin RowsRead
        BY <1>0, <3>3 DEF CellRows, RowsRead
      <4>2. RowsRead' = RowsRead \cup {row}
        BY <3>0, <3>5, <4>1 DEF RowsRead
      <4>3. IsFiniteSet(RowsRead)
        BY <1>0, RowsFinite, FS_Subset DEF RowsRead
      <4>4. Cardinality(RowsRead') = Cardinality(RowsRead) + 1
        BY <4>1, <4>2, <4>3, FS_AddElement
      <4>5. /\ Len(cells') = Len(cells) + 1
            /\ \A i \in DOMAIN cells : cells'[i] = cells[i] /\ i \in DOMAIN cells'
            /\ DOMAIN cells' = DOMAIN cells \cup {Len(cells) + 1}
            /\ cells'[Len(cells) + 1] = [x |-> r.x.n, y |-> r.y.n]
        BY <1>0, <1>1, <1>6, <2>1, <3>3 DEF Typed, Cell
      <4>6. Len(cells') = Cardinality(RowsRead')
        BY <1>0, <4>4, <4>5 DEF CellsAre
      <4>7. ASSUME NEW k \in RowsRead'
            PROVE  \E i \in DOMAIN cells' :
                     cells'[i].x = text[k].x.n /\ cells'[i].y = text[k].y.n
        <5>1. CASE k = row
          BY <4>5, <5>1
        <5>2. CASE k \in RowsRead
          BY <1>0, <4>5, <5>2 DEF CellsAre, SameCell
        <5>3. QED
          BY <4>2, <5>1, <5>2
      <4>8. ASSUME NEW i \in DOMAIN cells'
            PROVE  \E k \in RowsRead' :
                     cells'[i].x = text[k].x.n /\ cells'[i].y = text[k].y.n
        <5>1. CASE i = Len(cells) + 1
          BY <4>2, <4>5, <5>1
        <5>2. CASE i \in DOMAIN cells
          BY <1>0, <4>2, <4>5, <5>2 DEF CellsAre, SameCell
        <5>3. QED
          BY <4>5, <5>1, <5>2
      <4>9. QED
        BY <1>0, <4>6, <4>7, <4>8 DEF CellsAre, SameCell
    <3>4. QED
      BY <1>1, <3>2, <3>3
  <2>5. QED
    BY <1>0, <2>1, <2>2, <2>3, <2>4
       DEF QuickInv, WhileParsing, WhileBoxing, FirstFaultReported, WrongSummaryShows, Typed
<1>7. QED
  BY <1>1, <1>4, <1>5, <1>6

LEMMA EndOfRowsKeeps ==
  ASSUME QuickInv, EndOfRows
  PROVE  QuickInv'
<1>0. /\ stage = "parse" /\ row = Len(text) + 1 /\ text \in Seq(Row) /\ Typed
      /\ \A k \in Faulty : row <= k
      /\ CellsAre(RowsRead)
      /\ UNCHANGED <<text, checks, cells>>
  BY DEF QuickInv, WhileParsing, Typed, EndOfRows
<1>1. CellRows \subseteq 1 .. Len(text) /\ IsFiniteSet(CellRows)
  BY <1>0, RowsFinite
<1>2. RowsRead = CellRows /\ Faulty = {}
  <2>1. \A k \in CellRows : k < row
    BY <1>0, <1>1
  <2>2. RowsRead = CellRows
    BY <2>1 DEF RowsRead
  <2>3. Faulty = {}
    BY <1>0, <1>1, <2>1, FaultyRows
  <2>4. QED
    BY <2>2, <2>3
<1>3. CellRows' = CellRows /\ Faulty' = Faulty
  BY <1>0 DEF CellRows, Faulty
<1>4. CASE cells = <<>>
  <2>1. Cardinality(CellRows) = 0
    BY <1>0, <1>2, <1>4 DEF CellsAre
  <2>2. CellRows = {}
    BY <1>1, <2>1, FS_EmptySet
  <2>3. /\ stage' = "done" /\ answer' = [kind |-> "nothing"] /\ row' = row
    BY <1>4 DEF EndOfRows
  <2>4. QED
    BY <1>0, <1>2, <1>3, <2>2, <2>3
       DEF QuickInv, WhileParsing, WhileBoxing, FirstFaultReported, WrongSummaryShows, Typed
<1>5. CASE cells # <<>>
  <2>1. /\ stage' = "box" /\ row' = 2
        /\ box' = [ minX |-> cells[1].x, maxX |-> cells[1].x,
                    minY |-> cells[1].y, maxY |-> cells[1].y ]
    BY <1>5 DEF EndOfRows
  <2>2. Len(cells) \in Nat \ {0} /\ cells[1].x \in Int /\ cells[1].y \in Int
    <3>1. cells \in Seq(Cell) /\ 1 \in DOMAIN cells /\ Len(cells) \in Nat \ {0}
      BY <1>0, <1>5 DEF Typed
    <3>2. cells[1] \in Cell
      BY <3>1
    <3>3. cells[1].x \in Integer /\ cells[1].y \in Integer
      BY <3>2 DEF Cell
    <3>4. QED
      BY <3>1, <3>3 DEF Integer
  <2>3. BoxAround(1)'
    BY <1>0, <2>1, <2>2 DEF BoxAround
  <2>4. CellsAre(CellRows)'
    BY <1>0, <1>2, <1>3 DEF CellsAre, SameCell
  <2>5. WhileBoxing'
    BY <1>0, <1>2, <1>3, <1>5, <2>1, <2>2, <2>3, <2>4 DEF WhileBoxing
  <2>6. QED
    BY <1>0, <2>1, <2>5
       DEF QuickInv, WhileParsing, FirstFaultReported, WrongSummaryShows, Typed
<1>6. QED
  BY <1>4, <1>5

LEMMA GrowBoxKeeps ==
  ASSUME QuickInv, GrowBox
  PROVE  QuickInv'
<1> DEFINE c == cells[row]
<1>0. /\ stage = "box" /\ row \in 2 .. Len(cells) /\ Typed
      /\ Faulty = {} /\ CellsAre(CellRows) /\ cells # <<>> /\ BoxAround(row - 1)
      /\ row' = row + 1 /\ UNCHANGED <<stage, checks, text, cells, answer>>
  BY DEF QuickInv, WhileBoxing, Typed, GrowBox
<1>1. c.x \in Int /\ c.y \in Int
  <2>1. c \in Cell
    BY <1>0 DEF Typed
  <2>2. QED
    BY <2>1 DEF Cell, Integer
<1>2. /\ box'.minX = Least(box.minX, c.x) /\ box'.maxX = Greatest(box.maxX, c.x)
      /\ box'.minY = Least(box.minY, c.y) /\ box'.maxY = Greatest(box.maxY, c.y)
      /\ box' \in [minX : Int, maxX : Int, minY : Int, maxY : Int]
  <2>1. /\ box.minX \in Int /\ box.maxX \in Int /\ box.minY \in Int /\ box.maxY \in Int
    BY <1>0 DEF BoxAround
  <2>2. QED
    BY <1>1, <2>1 DEF GrowBox, Least, Greatest
<1>3. row' - 1 = row /\ row' \in 2 .. Len(cells) + 1
  BY <1>0
<1>4. BoxAround(row - 1)'
  <2>1. \A i \in 1 .. row : i = row \/ i \in 1 .. row - 1
    BY <1>0
  <2>2. /\ box.minX \in Int /\ box.maxX \in Int /\ box.minY \in Int /\ box.maxY \in Int
    BY <1>0 DEF BoxAround
  <2>3. ASSUME NEW i \in 1 .. row
        PROVE  /\ box'.minX <= cells[i].x /\ cells[i].x <= box'.maxX
               /\ box'.minY <= cells[i].y /\ cells[i].y <= box'.maxY
    <3>1. CASE i = row
      BY <1>1, <1>2, <2>2, <3>1 DEF Least, Greatest
    <3>2. CASE i \in 1 .. row - 1
      <4>1. cells[i] \in Cell
        BY <1>0, <3>2 DEF Typed
      <4>2. cells[i].x \in Int /\ cells[i].y \in Int
        BY <4>1 DEF Cell, Integer
      <4>3. /\ box.minX <= cells[i].x /\ cells[i].x <= box.maxX
            /\ box.minY <= cells[i].y /\ cells[i].y <= box.maxY
        BY <1>0, <3>2 DEF BoxAround
      <4>4. QED
        BY <1>1, <1>2, <2>2, <4>2, <4>3 DEF Least, Greatest
    <3>3. QED
      BY <2>1, <3>1, <3>2
  <2>4. row \in 1 .. row /\ \A i \in 1 .. row - 1 : i \in 1 .. row
    BY <1>0
  <2>5. /\ \E i \in 1 .. row : cells[i].x = box'.minX
        /\ \E i \in 1 .. row : cells[i].x = box'.maxX
    BY <1>0, <1>2, <2>4 DEF BoxAround, Least, Greatest
  <2>6. /\ \E i \in 1 .. row : cells[i].y = box'.minY
        /\ \E i \in 1 .. row : cells[i].y = box'.maxY
    BY <1>0, <1>2, <2>4 DEF BoxAround, Least, Greatest
  <2>7. QED
    BY <1>0, <1>2, <1>3, <2>3, <2>5, <2>6 DEF BoxAround
<1>5. CellRows' = CellRows /\ Faulty' = Faulty
  BY <1>0 DEF CellRows, Faulty
<1>6. CellsAre(CellRows)'
  BY <1>0, <1>5 DEF CellsAre, SameCell
<1>7. WhileBoxing'
  BY <1>0, <1>4, <1>5, <1>6, <1>3 DEF WhileBoxing
<1>8. Typed'
  BY <1>0 DEF Typed
<1>9. QED
  BY <1>0, <1>7, <1>8 DEF QuickInv, WhileParsing, FirstFaultReported, WrongSummaryShows

\* The box's sides are the greatest distances between the text's cells.
LEMMA BoxSpreads ==
  ASSUME Typed, CellsAre(CellRows), BoxAround(Len(cells))
  PROVE  /\ SpreadX = box.maxX - box.minX /\ SpreadX \in 0 .. 2 * Half - 1
         /\ SpreadY = box.maxY - box.minY /\ SpreadY \in 0 .. 2 * Half - 1
<1>1. \A i \in 1 .. Len(cells) : cells[i].x \in Integer /\ cells[i].y \in Integer
  <2>1. \A i \in 1 .. Len(cells) : cells[i] \in Cell
    BY DEF Typed
  <2>2. QED
    BY <2>1 DEF Cell
<1>2. DOMAIN cells = 1 .. Len(cells)
  BY DEF Typed
<1>3. /\ \A k \in CellRows : \E i \in 1 .. Len(cells) : SameCell(i, k)
      /\ \A i \in 1 .. Len(cells) : \E k \in CellRows : SameCell(i, k)
  BY <1>2 DEF CellsAre
<1>4. Half \in Nat \ {0}
  BY QuickAssumption
<1>5. /\ box.minX \in Integer /\ box.maxX \in Integer
      /\ box.minY \in Integer /\ box.maxY \in Integer
  BY <1>1 DEF BoxAround
<1>6. SpreadX = box.maxX - box.minX /\ box.minX <= box.maxX
  <2> DEFINE D == {text[j].x.n - text[k].x.n : j, k \in CellRows}
  <2>1. \A k \in CellRows : /\ text[k].x.n \in Int
                            /\ box.minX <= text[k].x.n /\ text[k].x.n <= box.maxX
    <3> SUFFICES ASSUME NEW k \in CellRows
                 PROVE  /\ text[k].x.n \in Int
                        /\ box.minX <= text[k].x.n /\ text[k].x.n <= box.maxX
      OBVIOUS
    <3>1. PICK i \in 1 .. Len(cells) : SameCell(i, k)
      BY <1>3
    <3>2. cells[i].x = text[k].x.n /\ cells[i].x \in Int
      BY <1>1, <1>4, <3>1 DEF SameCell, Integer
    <3>3. box.minX <= cells[i].x /\ cells[i].x <= box.maxX
      BY DEF BoxAround
    <3>4. QED
      BY <3>2, <3>3
  <2>2. PICK low \in CellRows : text[low].x.n = box.minX
    BY <1>3, ZenonT(30) DEF BoxAround, SameCell
  <2>3. PICK high \in CellRows : text[high].x.n = box.maxX
    BY <1>3, ZenonT(30) DEF BoxAround, SameCell
  <2>4. box.minX \in Int /\ box.maxX \in Int
    BY <1>4, <1>5 DEF Integer
  <2>5. D \in SUBSET Int /\ \A d \in D : d <= box.maxX - box.minX
    BY <2>1, <2>4
  <2>6. box.maxX - box.minX \in D
    BY <2>2, <2>3
  <2>7. Max(D) = box.maxX - box.minX
    <3> HIDE DEF D
    <3>1. QED
      BY <2>5, <2>6, GreatestIs
  <2>8. QED
    BY <2>1, <2>2, <2>7 DEF SpreadX
<1>7. SpreadY = box.maxY - box.minY /\ box.minY <= box.maxY
  <2> DEFINE D == {text[j].y.n - text[k].y.n : j, k \in CellRows}
  <2>1. \A k \in CellRows : /\ text[k].y.n \in Int
                            /\ box.minY <= text[k].y.n /\ text[k].y.n <= box.maxY
    <3> SUFFICES ASSUME NEW k \in CellRows
                 PROVE  /\ text[k].y.n \in Int
                        /\ box.minY <= text[k].y.n /\ text[k].y.n <= box.maxY
      OBVIOUS
    <3>1. PICK i \in 1 .. Len(cells) : SameCell(i, k)
      BY <1>3
    <3>2. cells[i].y = text[k].y.n /\ cells[i].y \in Int
      BY <1>1, <1>4, <3>1 DEF SameCell, Integer
    <3>3. box.minY <= cells[i].y /\ cells[i].y <= box.maxY
      BY DEF BoxAround
    <3>4. QED
      BY <3>2, <3>3
  <2>2. PICK low \in CellRows : text[low].y.n = box.minY
    BY <1>3, ZenonT(30) DEF BoxAround, SameCell
  <2>3. PICK high \in CellRows : text[high].y.n = box.maxY
    BY <1>3, ZenonT(30) DEF BoxAround, SameCell
  <2>4. box.minY \in Int /\ box.maxY \in Int
    BY <1>4, <1>5 DEF Integer
  <2>5. D \in SUBSET Int /\ \A d \in D : d <= box.maxY - box.minY
    BY <2>1, <2>4
  <2>6. box.maxY - box.minY \in D
    BY <2>2, <2>3
  <2>7. Max(D) = box.maxY - box.minY
    <3> HIDE DEF D
    <3>1. QED
      BY <2>5, <2>6, GreatestIs
  <2>8. QED
    BY <2>1, <2>2, <2>7 DEF SpreadY
<1>8. \A a, b \in Integer : a <= b => b - a \in 0 .. 2 * Half - 1
  BY <1>4 DEF Integer
<1>9. QED
  BY <1>5, <1>6, <1>7, <1>8

LEMMA SummarizeKeeps ==
  ASSUME QuickInv, Summarize
  PROVE  QuickInv'
<1> DEFINE w == box.maxX - box.minX
           h == box.maxY - box.minY
<1>0. /\ stage = "box" /\ row = Len(cells) + 1 /\ Typed
      /\ Faulty = {} /\ CellsAre(CellRows) /\ BoxAround(row - 1)
      /\ UNCHANGED <<checks, text, row, cells, box>>
  BY DEF QuickInv, WhileBoxing, Typed, Summarize
<1>1. CellRows' = CellRows /\ Faulty' = Faulty /\ SpreadX' = SpreadX /\ SpreadY' = SpreadY
  BY <1>0 DEF CellRows, Faulty, SpreadX, SpreadY
<1>2. /\ w = SpreadX /\ h = SpreadY
      /\ SpreadX \in 0 .. 2 * Half - 1 /\ SpreadY \in 0 .. 2 * Half - 1
  <2>1. row - 1 = Len(cells)
    BY <1>0 DEF Typed
  <2>2. QED
    BY <1>0, <2>1, BoxSpreads
<1>3. Half \in Nat \ {0}
  BY QuickAssumption
<1>4. Len(cells) = Cardinality(CellRows)
  BY <1>0 DEF CellsAre
<1>5. stage' = "done"
  BY DEF Summarize
<1> HIDE DEF w, h
<1> DEFINE ww == WrappedSum(w)
           wh == WrappedSum(h)
<1>6. CASE checks /\ ~ {w, h, ww + wh} \subseteq Integer
  <2>1. answer' = [kind |-> "panic"]
    BY <1>6 DEF Summarize, w, h
  <2>2. SpreadX + SpreadY >= Half
    BY <1>2, <1>3, <1>6 DEF WrappedSum, Integer
  <2>3. QED
    BY <1>0, <1>1, <1>5, <1>6, <2>1, <2>2
       DEF QuickInv, WhileParsing, WhileBoxing, FirstFaultReported, WrongSummaryShows, Typed
<1>7. CASE ~ (checks /\ ~ {w, h, ww + wh} \subseteq Integer)
  <2>1. answer' = [ kind |-> "placed", count |-> Len(cells),
                    w |-> ww, h |-> wh, hpwl |-> WrappedSum(ww + wh) ]
    BY <1>7 DEF Summarize, w, h
  <2>2. \/ ww = SpreadX /\ wh = SpreadY /\ WrappedSum(ww + wh) = SpreadX + SpreadY
        \/ ~ checks /\ (ww < 0 \/ wh < 0 \/ WrappedSum(ww + wh) < 0)
    BY <1>2, <1>3, <1>7 DEF WrappedSum, Integer
  <2>3. QED
    BY <1>0, <1>1, <1>4, <1>5, <2>1, <2>2
       DEF QuickInv, WhileParsing, WhileBoxing, FirstFaultReported, WrongSummaryShows, Typed
<1>8. QED
  BY <1>6, <1>7

LEMMA ReturnKeeps ==
  ASSUME QuickInv, QuickReturn
  PROVE  QuickInv'
BY DEF QuickInv, QuickReturn, Typed, WhileParsing, WhileBoxing, FirstFaultReported,
       WrongSummaryShows

LEMMA StutterKeeps ==
  ASSUME QuickInv, UNCHANGED quickVars
  PROVE  QuickInv'
<1>1. UNCHANGED <<stage, checks, text, row, cells, box, answer>>
  BY DEF quickVars
<1>2. CellRows' = CellRows /\ Faulty' = Faulty /\ RowsRead' = RowsRead
  BY <1>1 DEF CellRows, Faulty, RowsRead
<1>3. SpreadX' = SpreadX /\ SpreadY' = SpreadY
  BY <1>1, <1>2 DEF SpreadX, SpreadY
<1>4. (WhileParsing /\ WhileBoxing)'
  BY <1>1, <1>2 DEF QuickInv, WhileParsing, WhileBoxing, CellsAre, SameCell, BoxAround
<1>5. (Typed /\ FirstFaultReported /\ WrongSummaryShows)'
  BY <1>1, <1>2, <1>3 DEF QuickInv, Typed, FirstFaultReported, WrongSummaryShows, Valid
<1>6. QED
  BY <1>4, <1>5 DEF QuickInv

LEMMA QuickAlways == QuickSpec => []QuickInv
<1>1. QuickInv /\ [QuickNext]_quickVars => QuickInv'
  BY CallKeeps, ParseRowKeeps, EndOfRowsKeeps, GrowBoxKeeps, SummarizeKeeps, ReturnKeeps,
     StutterKeeps DEF QuickNext, QuickStep
<1>2. QED
  BY <1>1, QuickInvInit, PTL DEF QuickSpec

\* A text is refused exactly if a row is faulty, and then for the first one.
THEOREM FirstFaultReportedAlways == QuickSpec => []FirstFaultReported
<1>1. QuickInv => FirstFaultReported
  BY DEF QuickInv
<1>2. QED
  BY <1>1, QuickAlways, PTL

\* The summary is right, or a negative number shows that it wrapped; the build
\* with checks stops exactly where the summary would be wrong.
THEOREM WrongSummaryShowsAlways == QuickSpec => []WrongSummaryShows
<1>1. QuickInv => WrongSummaryShows
  BY DEF QuickInv
<1>2. QED
  BY <1>1, QuickAlways, PTL

----------------------------------------------------------------------------
(* The PDK reader: where the tokens of a schema stand *)

TokenKinds == {"string", "number", "[", "]", ",", ":", "{", "}"}
Tokens     == [kind : TokenKinds, s : STRING \cup {"-"}, n : Int]

\* The commas in a list of strings.
Comma == Mark(",")

\* Tokens by their kinds.
LEMMA TokensMade ==
  /\ \A kind \in TokenKinds : Mark(kind) \in Tokens
  /\ Mark("[") \in Tokens /\ Mark("]") \in Tokens /\ Mark("{") \in Tokens
  /\ Mark("}") \in Tokens /\ Mark(",") \in Tokens /\ Mark(":") \in Tokens
  /\ \A n \in Int : Token("number", "-", n) \in Tokens
  /\ \A x \in STRING : Quoted(x) \in Tokens
<1>1. \A kind \in TokenKinds : Mark(kind) \in Tokens
  BY DEF Mark, Token, Tokens
<1>2. {"[", "]", "{", "}", ",", ":"} \subseteq TokenKinds
  BY DEF TokenKinds
<1>3. \A n \in Int : Token("number", "-", n) \in Tokens
  BY DEF Token, Tokens, TokenKinds
<1>4. \A x \in STRING : Quoted(x) \in Tokens
  BY DEF Quoted, Token, Tokens, TokenKinds
<1>. QED
  BY <1>1, <1>2, <1>3, <1>4

\* A list of strings is written as its strings with a comma between any two.
LEMMA ListedStrings ==
  ASSUME NEW l \in Seq(STRING)
  PROVE  LET t == Listed([k \in DOMAIN l |-> <<Quoted(l[k])>>]) IN
         /\ t \in Seq(Tokens)
         /\ Len(t) = IF l = <<>> THEN 0 ELSE 2 * Len(l) - 1
         /\ \A k \in 1 .. Len(l) : t[2 * k - 1] = Quoted(l[k])
         /\ \A k \in 1 .. Len(l) - 1 : t[2 * k] = Comma
<1>. DEFINE parts == [k \in DOMAIN l |-> <<Quoted(l[k])>>]
            seqs == [k \in DOMAIN parts |-> IF k = 1 THEN parts[k] ELSE <<Comma>> \o parts[k]]
            t == FlattenSeq(seqs)
            N == Len(l)
<1>0. t = Listed(parts)
  BY DEF Listed, Comma
<1>1. N \in Nat /\ DOMAIN l = 1 .. N /\ \A k \in 1 .. N : l[k] \in STRING
  OBVIOUS
<1>2. Comma \in Tokens /\ \A k \in 1 .. N : Quoted(l[k]) \in Tokens
  BY <1>1, TokensMade DEF Comma
<1>3. \A k \in 1 .. N : /\ seqs[k] \in Seq(Tokens)
                        /\ k = 1 => Len(seqs[k]) = 1 /\ seqs[k][1] = Quoted(l[k])
                        /\ k # 1 => /\ Len(seqs[k]) = 2 /\ seqs[k][1] = Comma
                                    /\ seqs[k][2] = Quoted(l[k])
  <2>2. \A k \in 1 .. N : seqs[k] = IF k = 1 THEN <<Quoted(l[k])>> ELSE <<Comma>> \o <<Quoted(l[k])>>
    BY <1>1
  <2>. HIDE DEF seqs
  <2>. QED
    <3>1. ASSUME NEW k \in 1 .. N
          PROVE  /\ <<Quoted(l[k])>> \in Seq(Tokens) /\ Len(<<Quoted(l[k])>>) = 1
                 /\ <<Quoted(l[k])>>[1] = Quoted(l[k])
                 /\ <<Comma>> \o <<Quoted(l[k])>> \in Seq(Tokens)
                 /\ Len(<<Comma>> \o <<Quoted(l[k])>>) = 2
                 /\ (<<Comma>> \o <<Quoted(l[k])>>)[1] = Comma
                 /\ (<<Comma>> \o <<Quoted(l[k])>>)[2] = Quoted(l[k])
      <4>. DEFINE q == Quoted(l[k])
      <4>1. q \in Tokens
        BY <1>2
      <4>. HIDE DEF q
      <4>2. /\ <<q>> \in Seq(Tokens) /\ Len(<<q>>) = 1 /\ <<q>>[1] = q
            /\ <<Comma>> \o <<q>> \in Seq(Tokens) /\ Len(<<Comma>> \o <<q>>) = 2
            /\ (<<Comma>> \o <<q>>)[1] = Comma /\ (<<Comma>> \o <<q>>)[2] = q
        BY <1>2, <4>1, OneAndOne
      <4>. QED
        BY <4>2 DEF q
    <3>. QED
      BY <2>2, <3>1
<1>4. seqs \in Seq(Seq(Tokens)) /\ Len(seqs) = N
  <2>1. DOMAIN seqs = 1 .. N
    BY <1>1
  <2>2. seqs = [k \in 1 .. N |-> seqs[k]]
    BY <2>1
  <2>. HIDE DEF seqs
  <2>. QED
    BY <1>1, <1>3, <2>1, <2>2
<1>. HIDE DEF seqs
<1>5. /\ Before(seqs, 1) = 0 /\ Before(seqs, N + 1) = Len(t)
      /\ \A k \in 1 .. N :
           /\ Before(seqs, k) \in Nat
           /\ Before(seqs, k + 1) = Before(seqs, k) + Len(seqs[k])
           /\ \A i \in 1 .. Len(seqs[k]) : t[Before(seqs, k) + i] = seqs[k][i]
  BY <1>4, FlattenPlaces
<1>6. t \in Seq(Tokens)
  BY <1>4, FlattenAppend, <1>4 DEF t
<1>. HIDE DEF t
<1>7. \A n \in 0 .. N : n = 0 \/ Before(seqs, n + 1) = 2 * n - 1
  <2>. DEFINE T == {n \in 0 .. N : n = 0 \/ Before(seqs, n + 1) = 2 * n - 1}
  <2>1. 0 \in T
    BY <1>1
  <2>2. ASSUME NEW n \in Nat, n < N, n \in T
        PROVE  n + 1 \in T
    <3>1. n + 1 \in 1 .. N
      BY <1>1, <2>2
    <3>2. /\ n = 0 => Len(seqs[n + 1]) = 1 /\ Before(seqs, n + 1) = 0
          /\ n # 0 => Len(seqs[n + 1]) = 2 /\ Before(seqs, n + 1) = 2 * n - 1
      <4>1. n = 0 <=> n + 1 = 1
        BY <2>2
      <4>. QED
        BY <1>3, <1>5, <2>2, <3>1, <4>1
    <3>3. Before(seqs, (n + 1) + 1) = Before(seqs, n + 1) + Len(seqs[n + 1])
      BY <1>5, <3>1
    <3>. HIDE DEF N, T
    <3>4. Before(seqs, (n + 1) + 1) = 2 * (n + 1) - 1
      <4>. DEFINE x == Before(seqs, n + 1)
                  y == Len(seqs[n + 1])
                  z == Before(seqs, (n + 1) + 1)
      <4>1. (n = 0 => y = 1 /\ x = 0) /\ (n # 0 => y = 2 /\ x = 2 * n - 1) /\ z = x + y
        BY <3>2, <3>3
      <4>. HIDE DEF x, y, z
      <4>2. z = 2 * (n + 1) - 1
        BY <2>2, <4>1
      <4>. QED
        BY <4>2 DEF z
    <3>. QED
      BY <1>1, <2>2, <3>4 DEF T
  <2>3. \A n \in 0 .. N : n \in T
    <3>. HIDE DEF T, N
    <3>. QED
      BY <1>1, <2>1, <2>2, AllUpTo
  <2>. QED
    BY <2>3
<1>8. Len(t) = IF l = <<>> THEN 0 ELSE 2 * Len(l) - 1
  <2>1. l = <<>> <=> N = 0
    OBVIOUS
  <2>. QED
    <3>1. N \in 0 .. N /\ (N = 0 => Len(t) = 0)
      BY <1>1, <1>5
    <3>. HIDE DEF N
    <3>2. N # 0 => Len(t) = 2 * N - 1
      BY <1>5, <1>7, <3>1
    <3>. QED
      BY <2>1, <3>1, <3>2 DEF N
<1>9. ASSUME NEW k \in 1 .. N
      PROVE  t[2 * k - 1] = Quoted(l[k])
  <2>1. CASE k = 1
    BY <1>1, <1>3, <1>5, <2>1
  <2>2. CASE k # 1
    <3>. DEFINE m == k - 1
    <3>1. m \in 0 .. N /\ m # 0 /\ m + 1 = k
      BY <1>1, <2>2
    <3>. HIDE DEF m
    <3>2. Before(seqs, k) = 2 * m - 1
      BY <1>7, <3>1
    <3>3. t[Before(seqs, k) + 2] = Quoted(l[k])
      <4>1. 2 \in 1 .. Len(seqs[k]) /\ seqs[k][2] = Quoted(l[k])
        BY <1>3, <2>2
      <4>. QED
        BY <1>5, <4>1
    <3>. QED
      BY <1>1, <3>1, <3>2, <3>3
  <2>. QED
    BY <2>1, <2>2
<1>10. ASSUME NEW k \in 1 .. N - 1
       PROVE  t[2 * k] = Comma
  <2>1. k + 1 \in 1 .. N /\ k + 1 # 1
    BY <1>1
  <2>2. Before(seqs, k + 1) = 2 * k - 1
    <3>1. k \in 0 .. N /\ k # 0
      BY <1>1
    <3>. QED
      BY <1>7, <3>1
  <2>3. 1 \in 1 .. Len(seqs[k + 1]) /\ seqs[k + 1][1] = Comma
    BY <1>3, <2>1
  <2>4. t[Before(seqs, k + 1) + 1] = Comma
    BY <1>5, <2>1, <2>3
  <2>. QED
    BY <2>2, <2>4
<1>. QED
  BY <1>0, <1>6, <1>8, <1>9, <1>10

\* What a value is written as, token by token.
LEMMA ValueTokens ==
  ASSUME NEW v \in Value
  PROVE  LET t == JsonValue(v) IN
         /\ t \in Seq(Tokens) /\ Len(t) \in Nat \ {0}
         /\ v.kind = "string" => t[1] = Quoted(v.s)
         /\ v.kind = "number" => t[1] = Token("number", "-", v.n)
         /\ v.kind = "list" =>
              /\ t[1] = Mark("[")
              /\ Len(t) = (IF v.list = <<>> THEN 0 ELSE 2 * Len(v.list) - 1) + 2
              /\ t[Len(t)] = Mark("]")
              /\ \A k \in 1 .. Len(v.list) : t[2 * k] = Quoted(v.list[k])
              /\ \A k \in 1 .. Len(v.list) - 1 : t[2 * k + 1] = Comma
         /\ \A i \in 1 .. Len(t) : \A x :
              t[i] = Quoted(x) => x = v.s \/ x \in ToSet(v.list)
<1>. DEFINE t == JsonValue(v)
            N == Len(v.list)
<1>1. /\ v.kind \in {"string", "number", "list"} /\ v.s \in STRING /\ v.n \in Int
      /\ v.list \in Seq(STRING) /\ N \in Nat
  BY DEF Value
<1>2. /\ Mark("[") \in Tokens /\ Mark("]") \in Tokens
      /\ Quoted(v.s) \in Tokens /\ Token("number", "-", v.n) \in Tokens
  BY <1>1, TokensMade
<1>3. CASE v.kind = "string"
  <2>1. t = <<Quoted(v.s)>>
    BY <1>3 DEF JsonValue
  <2>. HIDE DEF t
  <2>2. t \in Seq(Tokens) /\ Len(t) = 1 /\ t[1] = Quoted(v.s)
    BY <1>2, <2>1
  <2>3. \A x : Quoted(v.s) = Quoted(x) => x = v.s
    BY DEF Quoted, Token
  <2>4. \A i \in 1 .. Len(t) : \A x : t[i] = Quoted(x) => x = v.s
    BY <2>2, <2>3
  <2>. QED
    BY <1>3, <2>2, <2>4 DEF t
<1>4. CASE v.kind = "number"
  <2>1. t = <<Token("number", "-", v.n)>>
    BY <1>4 DEF JsonValue
  <2>. HIDE DEF t
  <2>2. t \in Seq(Tokens) /\ Len(t) = 1 /\ t[1] = Token("number", "-", v.n)
    BY <1>2, <2>1
  <2>3. \A x : Token("number", "-", v.n) # Quoted(x)
    BY DEF Quoted, Token
  <2>4. \A i \in 1 .. Len(t) : \A x : t[i] # Quoted(x)
    BY <2>2, <2>3
  <2>. QED
    BY <1>4, <2>2, <2>4 DEF t
<1>5. CASE v.kind = "list"
  <2>. DEFINE inner == Listed([k \in DOMAIN v.list |-> <<Quoted(v.list[k])>>])
              a == <<Mark("[")>>
              c == <<Mark("]")>>
  <2>1. t = a \o inner \o c
    BY <1>5 DEF JsonValue, Bracketed
  <2>2. /\ inner \in Seq(Tokens)
        /\ Len(inner) = IF v.list = <<>> THEN 0 ELSE 2 * N - 1
        /\ \A k \in 1 .. N : inner[2 * k - 1] = Quoted(v.list[k])
        /\ \A k \in 1 .. N - 1 : inner[2 * k] = Comma
    BY <1>1, ListedStrings
  <2>3. /\ a \in Seq(Tokens) /\ Len(a) = 1 /\ a[1] = Mark("[")
        /\ c \in Seq(Tokens) /\ Len(c) = 1 /\ c[1] = Mark("]")
    BY <1>2
  <2>4. v.list = <<>> <=> N = 0
    BY <1>1
  <2>. HIDE DEF a, c, inner, t
  <2>5. /\ t \in Seq(Tokens) /\ Len(inner) \in Nat /\ Len(t) = Len(inner) + 2
        /\ t[1] = Mark("[")
        /\ \A i \in 1 .. Len(inner) : t[1 + i] = inner[i]
        /\ t[Len(t)] = Mark("]")
    <3>1. /\ a \o inner \o c \in Seq(Tokens)
          /\ Len(a) \in Nat /\ Len(inner) \in Nat /\ Len(c) \in Nat
          /\ Len(a \o inner \o c) = Len(a) + Len(inner) + Len(c)
          /\ \A i \in 1 .. Len(a) : (a \o inner \o c)[i] = a[i]
          /\ \A i \in 1 .. Len(inner) : (a \o inner \o c)[Len(a) + i] = inner[i]
          /\ \A i \in 1 .. Len(c) : (a \o inner \o c)[Len(a) + Len(inner) + i] = c[i]
      <4>1. a \in Seq(Tokens) /\ inner \in Seq(Tokens) /\ c \in Seq(Tokens)
        BY <2>2, <2>3
      <4>. QED
        BY <4>1, Between
    <3>2. t[Len(a) + Len(inner) + 1] = c[1] /\ t[1] = a[1]
      BY <2>1, <2>3, <3>1
    <3>. QED
      BY <2>1, <2>3, <3>1, <3>2
  <2>6. \A k \in 1 .. N : t[2 * k] = Quoted(v.list[k])
    <3>1. TAKE k \in 1 .. N
    <3>2. 2 * k - 1 \in 1 .. Len(inner) /\ 1 + (2 * k - 1) = 2 * k
      BY <1>1, <2>2, <2>4
    <3>. QED
      BY <2>2, <2>5, <3>2
  <2>7. \A k \in 1 .. N - 1 : t[2 * k + 1] = Comma
    <3>1. TAKE k \in 1 .. N - 1
    <3>2. 2 * k \in 1 .. Len(inner) /\ 1 + 2 * k = 2 * k + 1
      BY <1>1, <2>2, <2>4
    <3>. QED
      BY <2>2, <2>5, <3>2
  <2>8. ASSUME NEW i \in 1 .. Len(t), NEW x, t[i] = Quoted(x)
        PROVE  x \in ToSet(v.list)
    <3>1. \A kind \in {"[", "]", ","} : Mark(kind) # Quoted(x)
      BY DEF Mark, Quoted, Token
    <3>2. i # 1 /\ i # Len(t)
      BY <2>5, <2>8, <3>1
    <3>3. PICK k \in 1 .. N : i = 2 * k \/ (i = 2 * k + 1 /\ k \in 1 .. N - 1)
      <4>1. N # 0 /\ i \in 2 .. 2 * N
        BY <1>1, <2>2, <2>4, <2>5, <3>2
      <4>2. i = 2 * (i \div 2) \/ i = 2 * (i \div 2) + 1
        BY <4>1
      <4>3. i \div 2 \in 1 .. N /\ (i = 2 * (i \div 2) + 1 => i \div 2 \in 1 .. N - 1)
        BY <1>1, <4>1, <4>2
      <4>. QED
        BY <4>2, <4>3
    <3>4. i = 2 * k
      BY <2>7, <2>8, <3>1, <3>3 DEF Comma
    <3>5. Quoted(v.list[k]) = Quoted(x)
      BY <2>6, <2>8, <3>4
    <3>6. v.list[k] = x /\ k \in DOMAIN v.list
      BY <1>1, <3>5 DEF Quoted, Token
    <3>. QED
      BY <3>6 DEF ToSet
  <2>9. Len(t) = (IF v.list = <<>> THEN 0 ELSE 2 * N - 1) + 2 /\ Len(t) \in Nat \ {0}
    BY <2>2, <2>5
  <2>. QED
    BY <1>5, <2>5, <2>6, <2>7, <2>8, <2>9 DEF t
<1>. QED
  BY <1>1, <1>3, <1>4, <1>5

\* A declaration in a JSON object, and the declarations with commas before them.
Member(d) == <<Quoted(d.key), Mark(":")>> \o JsonValue(d.value)
Members(sc) == [k \in DOMAIN sc |-> IF k = 1 THEN Member(sc[k]) ELSE <<Comma>> \o Member(sc[k])]

\* Where the key of a declaration stands in the text.
KeyAt(sc, k) == 1 + Before(Members(sc), k) + (IF k = 1 THEN 1 ELSE 2)

LEMMA MemberTokens ==
  ASSUME NEW d \in Declaration
  PROVE  LET m == Member(d)
             w == <<Comma>> \o m IN
         /\ m \in Seq(Tokens) /\ Len(m) = Len(JsonValue(d.value)) + 2
         /\ m[1] = Quoted(d.key) /\ m[2] = Mark(":")
         /\ \A i \in 1 .. Len(JsonValue(d.value)) : m[2 + i] = JsonValue(d.value)[i]
         /\ w \in Seq(Tokens) /\ Len(w) = Len(m) + 1 /\ w[1] = Comma
         /\ \A i \in 1 .. Len(m) : w[1 + i] = m[i]
<1>. DEFINE t == JsonValue(d.value)
            a == <<Quoted(d.key), Mark(":")>>
            m == a \o t
            b == <<Comma>>
            w == b \o m
<1>1. d.key \in STRING /\ d.value \in Value
  BY DEF Declaration
<1>2. t \in Seq(Tokens) /\ Len(t) \in Nat
  BY <1>1, ValueTokens
<1>3. Quoted(d.key) \in Tokens /\ Mark(":") \in Tokens /\ Comma \in Tokens
  BY <1>1, TokensMade DEF Comma
<1>4. a \in Seq(Tokens) /\ Len(a) = 2 /\ a[1] = Quoted(d.key) /\ a[2] = Mark(":")
  BY <1>3
<1>5. b \in Seq(Tokens) /\ Len(b) = 1 /\ b[1] = Comma
  BY <1>3
<1>. HIDE DEF a, b, t
<1>6. /\ m \in Seq(Tokens) /\ Len(m) = 2 + Len(t) /\ m[1] = a[1] /\ m[2] = a[2]
      /\ \A i \in 1 .. Len(t) : m[2 + i] = t[i]
  <2>1. /\ a \o t \in Seq(Tokens) /\ Len(a \o t) = Len(a) + Len(t)
        /\ \A i \in 1 .. Len(a) : (a \o t)[i] = a[i]
        /\ \A i \in 1 .. Len(t) : (a \o t)[Len(a) + i] = t[i]
    <3>1. a \in Seq(Tokens) /\ t \in Seq(Tokens)
      BY <1>2, <1>4
    <3>. QED
      BY <3>1, Joined
  <2>. QED
    BY <1>2, <1>4, <2>1
<1>. HIDE DEF m
<1>7. /\ w \in Seq(Tokens) /\ Len(w) = 1 + Len(m) /\ w[1] = b[1]
      /\ \A i \in 1 .. Len(m) : w[1 + i] = m[i]
  <2>1. /\ b \o m \in Seq(Tokens) /\ Len(b \o m) = Len(b) + Len(m)
        /\ \A i \in 1 .. Len(b) : (b \o m)[i] = b[i]
        /\ \A i \in 1 .. Len(m) : (b \o m)[Len(b) + i] = m[i]
    <3>1. b \in Seq(Tokens) /\ m \in Seq(Tokens)
      BY <1>5, <1>6
    <3>. QED
      BY <3>1, Joined
  <2>. QED
    BY <1>5, <2>1
<1>8. m = Member(d) /\ w = <<Comma>> \o Member(d)
  BY DEF m, w, a, b, t, Member
<1>9. Len(m) = Len(t) + 2 /\ Len(w) = Len(m) + 1
  BY <1>2, <1>6, <1>7
<1>. HIDE DEF w
<1>. QED
  BY <1>4, <1>5, <1>6, <1>7, <1>8, <1>9 DEF t
\* The declarations as sequences of tokens, and the text laid out.
LEMMA MembersLaid ==
  ASSUME NEW sc \in Seq(Declaration)
  PROVE  LET flat == FlattenSeq(Members(sc)) IN
         /\ Members(sc) \in Seq(Seq(Tokens)) /\ Len(Members(sc)) = Len(sc)
         /\ flat \in Seq(Tokens) /\ Len(flat) \in Nat
         /\ Len(Json(sc)) = Len(flat) + 2
         /\ Json(sc)[1] = Mark("{")
         /\ \A i \in 1 .. Len(flat) : Json(sc)[1 + i] = flat[i]
         /\ Json(sc)[Len(flat) + 2] = Mark("}")
         /\ Json(sc) \in Seq(Tokens)
<1>. DEFINE N == Len(sc)
            flat == FlattenSeq(Members(sc))
            a == <<Mark("{")>>
            c == <<Mark("}")>>
            t == Json(sc)
<1>1. N \in Nat /\ DOMAIN sc = 1 .. N /\ \A k \in 1 .. N : sc[k] \in Declaration
  OBVIOUS
<1>2. \A k \in 1 .. N : /\ Member(sc[k]) \in Seq(Tokens)
                        /\ <<Comma>> \o Member(sc[k]) \in Seq(Tokens)
  BY <1>1, MemberTokens
<1>3. Members(sc) \in Seq(Seq(Tokens)) /\ Len(Members(sc)) = N
  <2>. DEFINE m == Members(sc)
  <2>1. m = [k \in 1 .. N |-> IF k = 1 THEN Member(sc[k]) ELSE <<Comma>> \o Member(sc[k])]
    BY <1>1 DEF Members
  <2>. HIDE DEF m, N
  <2>2. m \in [1 .. N -> Seq(Tokens)]
    BY <1>2, <2>1
  <2>. QED
    BY <1>1, <2>2 DEF m
<1>4. flat \in Seq(Tokens)
  BY <1>3, FlattenAppend, <1>3
<1>5. t = a \o flat \o c
  <2>1. Members(sc)
          = LET parts == [k \in DOMAIN sc |->
                            <<Quoted(sc[k].key), Mark(":")>> \o JsonValue(sc[k].value)]
            IN  [k \in DOMAIN parts |-> IF k = 1 THEN parts[k] ELSE <<Mark(",")>> \o parts[k]]
    BY DEF Members, Member, Comma
  <2>. QED
    BY <2>1 DEF Json, Listed
<1>6. a \in Seq(Tokens) /\ c \in Seq(Tokens)
  <2>1. \A x \in Tokens : <<x>> \in Seq(Tokens)
    BY OneAndOne
  <2>. QED
    BY <2>1, TokensMade
<1>7. Len(a) = 1 /\ Len(c) = 1 /\ a[1] = Mark("{") /\ c[1] = Mark("}")
  OBVIOUS
<1>. HIDE DEF a, c, flat, t, N
<1>8. /\ a \o flat \o c \in Seq(Tokens)
      /\ Len(a) \in Nat /\ Len(flat) \in Nat /\ Len(c) \in Nat
      /\ Len(a \o flat \o c) = Len(a) + Len(flat) + Len(c)
      /\ \A i \in 1 .. Len(a) : (a \o flat \o c)[i] = a[i]
      /\ \A i \in 1 .. Len(flat) : (a \o flat \o c)[Len(a) + i] = flat[i]
      /\ \A i \in 1 .. Len(c) : (a \o flat \o c)[Len(a) + Len(flat) + i] = c[i]
  BY <1>4, <1>6, Between
<1>9. t \in Seq(Tokens) /\ Len(flat) \in Nat /\ Len(t) = 1 + Len(flat) + 1
  BY <1>5, <1>7, <1>8
<1>10. t[1] = Mark("{") /\ t[Len(flat) + 2] = Mark("}")
  <2>1. 1 \in 1 .. Len(a) /\ 1 \in 1 .. Len(c)
    <3>1. Len(a) = 1 /\ Len(c) = 1
      BY <1>7
    <3>. QED
      BY <3>1
  <2>2. t[1] = a[1]
    BY <1>5, <1>8, <2>1
  <2>3. t[Len(a) + Len(flat) + 1] = c[1]
    BY <1>5, <1>8, <2>1
  <2>4. Len(a) + Len(flat) + 1 = Len(flat) + 2
    <3>1. Len(a) = 1 /\ Len(flat) \in Nat
      BY <1>7, <1>9
    <3>. QED
      BY <3>1
  <2>. QED
    BY <1>7, <2>2, <2>3, <2>4
<1>11. \A i \in 1 .. Len(flat) : t[1 + i] = flat[i]
  BY <1>5, <1>7, <1>8
<1>12. Len(t) = Len(flat) + 2
  BY <1>9
<1>. QED
  BY <1>3, <1>4, <1>9, <1>10, <1>11, <1>12 DEF flat, t, N

\* Each declaration stands whole behind its key.
LEMMA KeyStands ==
  ASSUME NEW sc \in Seq(Declaration), NEW k \in DOMAIN sc
  PROVE  LET p == KeyAt(sc, k)
             v == JsonValue(sc[k].value) IN
         /\ p \in Nat /\ p > 0 /\ Len(v) \in Nat /\ p + 1 + Len(v) < Len(Json(sc))
         /\ Json(sc)[p] = Quoted(sc[k].key) /\ Json(sc)[p + 1] = Mark(":")
         /\ \A i \in 1 .. Len(v) : Json(sc)[p + 1 + i] = v[i]
<1>. DEFINE m == Members(sc)
            flat == FlattenSeq(m)
            v == JsonValue(sc[k].value)
            off == IF k = 1 THEN 0 ELSE 1
            b == Before(m, k)
<1>1. /\ sc[k] \in Declaration /\ sc[k].value \in Value /\ k \in 1 .. Len(sc)
      /\ k \in DOMAIN sc
  <2>1. sc[k] \in Declaration /\ k \in 1 .. Len(sc)
    OBVIOUS
  <2>. QED
    BY <2>1 DEF Declaration
<1>2. Len(v) \in Nat
  BY <1>1, ValueTokens
<1>3. m[k] = IF k = 1 THEN Member(sc[k]) ELSE <<Comma>> \o Member(sc[k])
  BY <1>1 DEF Members
<1>4. /\ Len(m[k]) = off + 2 + Len(v)
      /\ m[k][off + 1] = Quoted(sc[k].key) /\ m[k][off + 2] = Mark(":")
      /\ \A i \in 1 .. Len(v) : m[k][off + 2 + i] = v[i]
  <2>. DEFINE x == Member(sc[k])
              w == <<Comma>> \o x
  <2>1. /\ Len(x) = Len(v) + 2
        /\ x[1] = Quoted(sc[k].key) /\ x[2] = Mark(":")
        /\ \A i \in 1 .. Len(v) : x[2 + i] = v[i]
        /\ Len(w) = Len(x) + 1
        /\ \A i \in 1 .. Len(x) : w[1 + i] = x[i]
    BY <1>1, MemberTokens
  <2>. HIDE DEF x, w, v
  <2>2. CASE k = 1
    <3>1. m[k] = x
      BY <1>3, <2>2 DEF x
    <3>. HIDE DEF m
    <3>. QED
      BY <1>2, <2>1, <2>2, <3>1
  <2>3. CASE k # 1
    <3>1. m[k] = w
      BY <1>3, <2>3 DEF x, w
    <3>. HIDE DEF m
    <3>2. w[2] = x[1] /\ w[3] = x[2] /\ \A i \in 1 .. Len(v) : w[3 + i] = x[2 + i]
      <4>1. 1 \in 1 .. Len(x) /\ 2 \in 1 .. Len(x) /\ 1 + 1 = 2 /\ 1 + 2 = 3
        BY <1>2, <2>1
      <4>2. \A i \in 1 .. Len(v) : 2 + i \in 1 .. Len(x) /\ 1 + (2 + i) = 3 + i
        BY <1>2, <2>1
      <4>. QED
        BY <2>1, <4>1, <4>2
    <3>. QED
      BY <1>2, <2>1, <2>3, <3>1, <3>2
  <2>. QED
    BY <2>2, <2>3
<1>5. /\ m \in Seq(Seq(Tokens)) /\ Len(m) = Len(sc)
      /\ Len(flat) \in Nat /\ Len(Json(sc)) = Len(flat) + 2
      /\ \A i \in 1 .. Len(flat) : Json(sc)[1 + i] = flat[i]
  BY MembersLaid
<1>6. /\ b \in Nat
      /\ \A i \in 1 .. Len(m[k]) : b + i \in 1 .. Len(flat) /\ flat[b + i] = m[k][i]
  <2>1. m \in Seq(Seq(Tokens)) /\ k \in 1 .. Len(m)
    BY <1>1, <1>5
  <2>. HIDE DEF m
  <2>. QED
    BY <2>1, FlattenPlaces
<1>7. KeyAt(sc, k) = 1 + b + off + 1
  BY <1>6 DEF KeyAt
<1>. HIDE DEF m, flat, v, b
<1>8. \A i \in 1 .. Len(m[k]) : Json(sc)[1 + b + i] = m[k][i] /\ b + i <= Len(flat)
  <2>1. TAKE i \in 1 .. Len(m[k])
  <2>2. 1 + (b + i) = 1 + b + i
    BY <1>2, <1>4, <1>6
  <2>. QED
    BY <1>5, <1>6, <2>2
<1>. DEFINE p == KeyAt(sc, k)
<1>9. Json(sc)[p] = Quoted(sc[k].key) /\ Json(sc)[p + 1] = Mark(":")
  <2>1. off + 1 \in 1 .. Len(m[k]) /\ off + 2 \in 1 .. Len(m[k])
    BY <1>2, <1>4
  <2>2. p = 1 + b + (off + 1) /\ p + 1 = 1 + b + (off + 2)
    BY <1>6, <1>7
  <2>. HIDE DEF off, p
  <2>. QED
    BY <1>4, <1>8, <2>1, <2>2
<1>10. \A i \in 1 .. Len(v) : Json(sc)[p + 1 + i] = v[i]
  <2>1. TAKE i \in 1 .. Len(v)
  <2>2. off + 2 + i \in 1 .. Len(m[k])
    BY <1>2, <1>4
  <2>3. p + 1 + i = 1 + b + (off + 2 + i)
    BY <1>2, <1>6, <1>7
  <2>. HIDE DEF off, p
  <2>. QED
    BY <1>4, <1>8, <2>2, <2>3
<1>11. p \in Nat /\ p > 0 /\ p + 1 + Len(v) < Len(Json(sc))
  <2>1. b + Len(m[k]) <= Len(flat)
    <3>1. Len(m[k]) \in 1 .. Len(m[k])
      BY <1>2, <1>4
    <3>. QED
      BY <1>8, <3>1
  <2>. QED
    BY <1>2, <1>4, <1>5, <1>6, <1>7, <2>1
<1>. QED
  BY <1>2, <1>9, <1>10, <1>11 DEF v

\* A string that stands anywhere in the text is a key, or part of a value.
LEMMA StringStands ==
  ASSUME NEW sc \in Seq(Declaration), NEW p \in DOMAIN Json(sc), NEW x,
         Json(sc)[p] = Quoted(x)
  PROVE  \E k \in DOMAIN sc :
           \/ p = KeyAt(sc, k) /\ x = sc[k].key
           \/ x = sc[k].value.s \/ x \in ToSet(sc[k].value.list)
<1>. DEFINE m == Members(sc)
            flat == FlattenSeq(m)
<1>1. /\ m \in Seq(Seq(Tokens)) /\ Len(m) = Len(sc)
      /\ Len(flat) \in Nat /\ Len(Json(sc)) = Len(flat) + 2
      /\ Json(sc)[1] = Mark("{") /\ Json(sc)[Len(flat) + 2] = Mark("}")
      /\ Json(sc) \in Seq(Tokens)
  BY MembersLaid
<1>2. \A i \in 1 .. Len(flat) : Json(sc)[1 + i] = flat[i]
  BY MembersLaid
<1>3. \A kind \in {"{", "}", ",", ":"} : Mark(kind) # Quoted(x)
  BY DEF Mark, Quoted, Token
<1>4. p - 1 \in 1 .. Len(flat)
  <2>1. p \in 1 .. Len(flat) + 2 /\ p # 1 /\ p # Len(flat) + 2
    <3>1. p \in 1 .. Len(Json(sc))
      <4>. DEFINE doc == Json(sc)
      <4>1. doc \in Seq(Tokens) /\ p \in DOMAIN doc
        BY <1>1
      <4>. HIDE DEF doc
      <4>2. p \in 1 .. Len(doc)
        BY <4>1
      <4>. QED
        BY <4>2 DEF doc
    <3>2. p # 1 /\ p # Len(flat) + 2
      BY <1>1, <1>3
    <3>. HIDE DEF flat
    <3>. QED
      BY <1>1, <3>1, <3>2
  <2>. DEFINE n == Len(flat)
  <2>2. n \in Nat /\ p \in 1 .. n + 2 /\ p # 1 /\ p # n + 2
    BY <1>1, <2>1
  <2>. HIDE DEF n
  <2>3. p - 1 \in 1 .. n
    BY <2>2
  <2>. QED
    BY <2>3 DEF n
<1>4a. p \in Int
  <2>. DEFINE doc == Json(sc)
  <2>1. doc \in Seq(Tokens) /\ p \in DOMAIN doc
    BY <1>1
  <2>. HIDE DEF doc
  <2>. QED
    BY <2>1
<1>5. PICK k \in 1 .. Len(m) : \E i \in 1 .. Len(m[k]) : p - 1 = Before(m, k) + i
  <2>. DEFINE q == p - 1
  <2>1. q \in 1 .. Len(flat)
    BY <1>4
  <2>2. m \in Seq(Seq(Tokens))
    BY <1>1
  <2>. HIDE DEF q, m
  <2>3. \E k \in 1 .. Len(m) : \E i \in 1 .. Len(m[k]) : q = Before(m, k) + i
    BY <2>1, <2>2, FlattenCovers
  <2>. QED
    BY <2>3 DEF q
<1>6. PICK i \in 1 .. Len(m[k]) : p - 1 = Before(m, k) + i
  BY <1>5
<1>7. flat[Before(m, k) + i] = m[k][i] /\ Before(m, k) \in Nat
  BY <1>1, FlattenPlaces
<1>8. m[k][i] = Quoted(x)
  <2>1. p \in Int /\ 1 + (p - 1) = p
    BY <1>4a
  <2>2. Json(sc)[p] = flat[p - 1]
    BY <1>2, <1>4, <2>1
  <2>. QED
    BY <1>6, <1>7, <2>2
<1>9. k \in DOMAIN sc /\ sc[k] \in Declaration /\ sc[k].value \in Value
  <2>1. k \in DOMAIN sc /\ sc[k] \in Declaration
    <3>1. k \in 1 .. Len(sc)
      BY <1>1
    <3>. QED
      BY <3>1
  <2>. QED
    BY <2>1 DEF Declaration
<1>. DEFINE v == JsonValue(sc[k].value)
            y == Member(sc[k])
            w == <<Comma>> \o y
<1>10. m[k] = IF k = 1 THEN y ELSE w
  BY <1>9 DEF Members
<1>11. /\ Len(y) = Len(v) + 2
       /\ y[1] = Quoted(sc[k].key) /\ y[2] = Mark(":")
       /\ \A j \in 1 .. Len(v) : y[2 + j] = v[j]
       /\ Len(w) = Len(y) + 1 /\ w[1] = Comma
       /\ \A j \in 1 .. Len(y) : w[1 + j] = y[j]
  BY <1>9, MemberTokens
<1>12. /\ Len(v) \in Nat
       /\ \A j \in 1 .. Len(v) : v[j] = Quoted(x) =>
            x = sc[k].value.s \/ x \in ToSet(sc[k].value.list)
  BY <1>9, ValueTokens
<1>. HIDE DEF m, flat, v, y, w
<1>13. ASSUME NEW j \in 1 .. Len(y), y[j] = Quoted(x), j # 1
       PROVE  x = sc[k].value.s \/ x \in ToSet(sc[k].value.list)
  <2>1. j # 2
    BY <1>3, <1>11, <1>13
  <2>2. j - 2 \in 1 .. Len(v) /\ 2 + (j - 2) = j
    BY <1>11, <1>12, <1>13, <2>1
  <2>3. v[j - 2] = Quoted(x)
    BY <1>11, <1>13, <2>2
  <2>. QED
    BY <1>12, <2>2, <2>3
<1>14. y[1] = Quoted(x) => x = sc[k].key
  BY <1>11 DEF Quoted, Token
<1>15. CASE k = 1
  <2>1. m[k] = y
    BY <1>10, <1>15
  <2>2. CASE i = 1
    <3>1. p = KeyAt(sc, k)
      <4>1. p = 1 + Before(m, k) + 1
        <5>. DEFINE x0 == Before(m, k)
        <5>1. x0 \in Nat /\ p \in Int /\ p - 1 = x0 + 1
          BY <1>4a, <1>6, <1>7, <2>2
        <5>. HIDE DEF x0
        <5>2. p = 1 + x0 + 1
          BY <5>1
        <5>. QED
          BY <5>2 DEF x0
      <4>. QED
        BY <1>15, <4>1 DEF KeyAt, m
    <3>. QED
      BY <1>8, <1>9, <1>14, <2>1, <2>2, <3>1
  <2>3. CASE i # 1
    BY <1>8, <1>9, <1>13, <2>1, <2>3
  <2>. QED
    BY <2>2, <2>3
<1>16. CASE k # 1
  <2>1. m[k] = w
    BY <1>10, <1>16
  <2>2. i # 1
    BY <1>3, <1>8, <1>11, <2>1 DEF Comma
  <2>3. i - 1 \in 1 .. Len(y) /\ 1 + (i - 1) = i
    BY <1>11, <1>12, <2>1, <2>2
  <2>4. y[i - 1] = Quoted(x)
    BY <1>8, <1>11, <2>1, <2>3
  <2>5. CASE i = 2
    <3>1. p = KeyAt(sc, k)
      <4>1. p = 1 + Before(m, k) + 2
        <5>. DEFINE x0 == Before(m, k)
        <5>1. x0 \in Nat /\ p \in Int /\ p - 1 = x0 + 2
          BY <1>4a, <1>6, <1>7, <2>5
        <5>. HIDE DEF x0
        <5>2. p = 1 + x0 + 2
          BY <5>1
        <5>. QED
          BY <5>2 DEF x0
      <4>. QED
        BY <1>16, <4>1 DEF KeyAt, m
    <3>. QED
      BY <1>9, <1>14, <2>4, <2>5, <3>1
  <2>6. CASE i # 2
    <3>1. i - 1 # 1
      BY <2>6
    <3>. QED
      BY <1>9, <1>13, <2>3, <2>4, <3>1
  <2>. QED
    BY <2>5, <2>6
<1>. QED
  BY <1>15, <1>16

\* What PlainSchema says of the schema, for any schema.
IsPlain(sc) ==
  /\ \A j, k \in DOMAIN sc : sc[j].key = sc[k].key => j = k
  /\ \A d \in ToSet(sc) :
       /\ d.key \in DOMAIN Keys => d.value.kind = Keys[d.key]
       /\ d.value.whole
       /\ ({d.value.s} \cup ToSet(d.value.list)) \cap DOMAIN Keys = {}

\* A key is found where it was declared, and nowhere else.
LEMMA KeyFound ==
  ASSUME NEW sc \in Seq(Declaration), IsPlain(sc), NEW key \in DOMAIN Keys
  PROVE  /\ \A k \in DOMAIN sc : sc[k].key = key => Needle(Json(sc), key) = {KeyAt(sc, k)}
         /\ (\A k \in DOMAIN sc : sc[k].key # key) => Needle(Json(sc), key) = {}
<1>. DEFINE doc == Json(sc)
            S == {p \in DOMAIN doc : doc[p] = Quoted(key)}
<1>1. \A p \in S : \E k \in DOMAIN sc : p = KeyAt(sc, k) /\ key = sc[k].key
  <2>1. TAKE p \in S
  <2>2. p \in DOMAIN doc /\ doc[p] = Quoted(key)
    OBVIOUS
  <2>3. PICK k \in DOMAIN sc :
          \/ p = KeyAt(sc, k) /\ key = sc[k].key
          \/ key = sc[k].value.s \/ key \in ToSet(sc[k].value.list)
    BY <2>2, StringStands
  <2>4. sc[k] \in ToSet(sc)
    BY DEF ToSet
  <2>5. key # sc[k].value.s /\ key \notin ToSet(sc[k].value.list)
    BY <2>4 DEF IsPlain
  <2>. QED
    BY <2>3, <2>5
<1>2. ASSUME NEW k \in DOMAIN sc, sc[k].key = key
      PROVE  KeyAt(sc, k) \in S
  <2>. DEFINE p == KeyAt(sc, k)
              v == JsonValue(sc[k].value)
  <2>1. /\ p \in Nat /\ p > 0 /\ Len(v) \in Nat /\ p + 1 + Len(v) < Len(doc)
        /\ doc[p] = Quoted(sc[k].key)
    BY KeyStands
  <2>2. doc \in Seq(Tokens)
    BY MembersLaid
  <2>. HIDE DEF p, v, doc
  <2>3. p \in DOMAIN doc
    BY <2>1, <2>2
  <2>. QED
    BY <1>2, <2>1, <2>3 DEF p
<1>3. ASSUME NEW k \in DOMAIN sc, sc[k].key = key
      PROVE  S = {KeyAt(sc, k)} /\ KeyAt(sc, k) \in Nat
  <2>1. \A j \in DOMAIN sc : sc[j].key = key => j = k
    BY <1>3 DEF IsPlain
  <2>2. KeyAt(sc, k) \in Nat
    BY KeyStands
  <2>. HIDE DEF S
  <2>. QED
    BY <1>1, <1>2, <1>3, <2>1, <2>2
<1>4. Needle(doc, key) = {p \in S : \A q \in S : p <= q}
  BY DEF Needle, First
<1>. HIDE DEF S
<1>5. ASSUME NEW k \in DOMAIN sc, sc[k].key = key
      PROVE  Needle(doc, key) = {KeyAt(sc, k)}
  BY <1>3, <1>4, <1>5
<1>6. (\A k \in DOMAIN sc : sc[k].key # key) => Needle(doc, key) = {}
  BY <1>1, <1>4
<1>. QED
  BY <1>5, <1>6

\* A key with a string or a number behind it is read as that.
LEMMA ScalarRead ==
  ASSUME NEW sc \in Seq(Declaration), IsPlain(sc), NEW key \in DOMAIN Keys,
         Keys[key] \in {"string", "number"}
  PROVE  JsonScalar(Json(sc), key, Keys[key])
           = {JsonValue(sc[k].value)[1] : k \in {j \in DOMAIN sc : sc[j].key = key}}
<1>. DEFINE doc == Json(sc)
            kind == Keys[key]
            Found == {q \in Needle(doc, key) :
                        q + 2 <= Len(doc) /\ doc[q + 1].kind = ":" /\ doc[q + 2].kind = kind}
<1>1. JsonScalar(doc, key, kind) = {doc[p + 2] : p \in Found}
  BY DEF JsonScalar
<1>2. ASSUME NEW k \in DOMAIN sc, sc[k].key = key
      PROVE  Found = {KeyAt(sc, k)} /\ doc[KeyAt(sc, k) + 2] = JsonValue(sc[k].value)[1]
  <2>. DEFINE p == KeyAt(sc, k)
              v == JsonValue(sc[k].value)
  <2>1. /\ p \in Nat /\ p > 0 /\ Len(v) \in Nat /\ p + 1 + Len(v) < Len(doc)
        /\ doc[p + 1] = Mark(":")
        /\ \A i \in 1 .. Len(v) : doc[p + 1 + i] = v[i]
    BY KeyStands
  <2>2. sc[k] \in ToSet(sc) /\ sc[k] \in Declaration /\ sc[k].value \in Value
    <3>1. k \in 1 .. Len(sc)
      OBVIOUS
    <3>2. sc[k] \in Declaration
      BY <3>1
    <3>. QED
      BY <3>2 DEF ToSet, Declaration
  <2>3. sc[k].value.kind = kind
    BY <1>2, <2>2 DEF IsPlain
  <2>4. Len(v) \in Nat \ {0} /\ v[1].kind = kind
    <3>1. /\ Len(v) \in Nat \ {0}
          /\ sc[k].value.kind = "string" => v[1] = Quoted(sc[k].value.s)
          /\ sc[k].value.kind = "number" => v[1] = Token("number", "-", sc[k].value.n)
      BY <2>2, ValueTokens
    <3>. HIDE DEF v
    <3>. QED
      BY <2>3, <3>1 DEF Quoted, Token
  <2>5. doc \in Seq(Tokens) /\ Len(doc) \in Nat
    <3>1. doc \in Seq(Tokens)
      BY MembersLaid
    <3>. HIDE DEF doc
    <3>. QED
      BY <3>1
  <2>6. Needle(doc, key) = {p}
    BY <1>2, KeyFound
  <2>. HIDE DEF p, v, doc, kind
  <2>7. doc[p + 2] = v[1] /\ p + 2 <= Len(doc)
    <3>1. 1 \in 1 .. Len(v) /\ p + 1 + 1 = p + 2
      BY <2>1, <2>4
    <3>. QED
      BY <2>1, <2>4, <2>5, <3>1
  <2>8. doc[p + 1].kind = ":"
    BY <2>1 DEF Mark, Token
  <2>9. Found = {p}
    BY <2>4, <2>6, <2>7, <2>8
  <2>. QED
    BY <2>7, <2>9 DEF p, v
<1>3. (\A k \in DOMAIN sc : sc[k].key # key) => Found = {}
  <2>1. (\A k \in DOMAIN sc : sc[k].key # key) => Needle(doc, key) = {}
    BY KeyFound
  <2>. QED
    BY <2>1
<1>4. \A j, k \in DOMAIN sc : sc[j].key = key /\ sc[k].key = key => j = k
  BY DEF IsPlain
<1>. HIDE DEF Found, doc, kind
<1>5. CASE \E k \in DOMAIN sc : sc[k].key = key
  <2>1. PICK k \in DOMAIN sc : sc[k].key = key
    BY <1>5
  <2>2. {j \in DOMAIN sc : sc[j].key = key} = {k}
    BY <1>4, <2>1
  <2>. QED
    BY <1>1, <1>2, <2>1, <2>2 DEF doc, kind
<1>6. CASE \A k \in DOMAIN sc : sc[k].key # key
  BY <1>1, <1>3, <1>6 DEF doc, kind
<1>. QED
  BY <1>5, <1>6

\* Strings at every other place are said in their order.
LEMMA SaidInOrder ==
  ASSUME NEW a \in Int, NEW l \in Seq(STRING), NEW doc,
         \A j \in 1 .. Len(l) : doc[a + 2 * j - 1].s = l[j]
  PROVE  Said(doc, {a + 2 * j - 1 : j \in 1 .. Len(l)}) = l
<1>. DEFINE N == Len(l)
            S == {a + 2 * j - 1 : j \in 1 .. N}
<1>1. N \in Nat /\ l = [k \in 1 .. N |-> l[k]]
  OBVIOUS
<1>2. Cardinality(S) = N /\ \A j \in 1 .. N : Rank(a + 2 * j - 1, S) = j
  BY <1>1, EveryOther
<1>3. \A q \in S : \E j \in 1 .. N : q = a + 2 * j - 1
  OBVIOUS
<1>4. \A j \in 1 .. N : a + 2 * j - 1 \in S
  OBVIOUS
<1>. HIDE DEF S, N
<1>5. ASSUME NEW k \in 1 .. N
      PROVE  (CHOOSE p \in S : Rank(p, S) = k) = a + 2 * k - 1
  <2>. DEFINE c == CHOOSE p \in S : Rank(p, S) = k
  <2>1. c \in S /\ Rank(c, S) = k
    BY <1>2, <1>4
  <2>. HIDE DEF c
  <2>2. PICK j \in 1 .. N : c = a + 2 * j - 1
    BY <1>3, <2>1
  <2>3. Rank(c, S) = j
    BY <1>2, <2>2
  <2>4. c = a + 2 * k - 1
    BY <2>1, <2>2, <2>3
  <2>. QED
    BY <2>4 DEF c
<1>6. Said(doc, S) = [k \in 1 .. N |-> doc[CHOOSE p \in S : Rank(p, S) = k].s]
  BY <1>2 DEF Said
<1>7. [k \in 1 .. N |-> doc[CHOOSE p \in S : Rank(p, S) = k].s] = [k \in 1 .. N |-> l[k]]
  <2>1. \A k \in 1 .. N : doc[CHOOSE p \in S : Rank(p, S) = k].s = l[k]
    <3>1. TAKE k \in 1 .. N
    <3>2. doc[a + 2 * k - 1].s = l[k]
      BY DEF N
    <3>. QED
      BY <1>5, <3>2
  <2>. QED
    BY <2>1
<1>. QED
  BY <1>1, <1>6, <1>7 DEF S, N

\* A list is read from its key on.
LEMMA ListRead ==
  ASSUME NEW sc \in Seq(Declaration), IsPlain(sc), NEW key \in DOMAIN Keys, Keys[key] = "list"
  PROVE  /\ \A k \in DOMAIN sc :
              sc[k].key = key => JsonList(Json(sc), key) = sc[k].value.list
         /\ (\A k \in DOMAIN sc : sc[k].key # key) => JsonList(Json(sc), key) = <<>>
<1>. DEFINE doc == Json(sc)
            Open  == First(After(Needle(doc, key), OfKind(doc, "[")))
            Close == First(After(Open, OfKind(doc, "]")))
            Items == {p \in After(Open, OfKind(doc, "string")) :
                        After({p}, Close) # {} /\ (p - 1 \in Open \/ doc[p - 1].kind = ",")}
<1>1. JsonList(doc, key) = Said(doc, Items)
  BY DEF JsonList
<1>2. doc \in Seq(Tokens) /\ Len(doc) \in Nat
  <2>1. doc \in Seq(Tokens)
    BY MembersLaid
  <2>. HIDE DEF doc
  <2>. QED
    BY <2>1
<1>3. ASSUME NEW k \in DOMAIN sc, sc[k].key = key
      PROVE  JsonList(doc, key) = sc[k].value.list
  <2>. DEFINE p == KeyAt(sc, k)
              v == JsonValue(sc[k].value)
              l == sc[k].value.list
              N == Len(l)
              a == p + 2
  <2>1. /\ p \in Nat /\ p > 0 /\ Len(v) \in Nat /\ p + 1 + Len(v) < Len(doc)
        /\ doc[p + 1] = Mark(":")
        /\ \A i \in 1 .. Len(v) : doc[p + 1 + i] = v[i]
    BY KeyStands
  <2>2. sc[k] \in ToSet(sc) /\ sc[k] \in Declaration /\ sc[k].value \in Value
    <3>1. k \in 1 .. Len(sc)
      OBVIOUS
    <3>2. sc[k] \in Declaration
      BY <3>1
    <3>. QED
      BY <3>2 DEF ToSet, Declaration
  <2>3. sc[k].value.kind = "list"
    BY <1>3, <2>2 DEF IsPlain
  <2>4. l \in Seq(STRING) /\ N \in Nat /\ (l = <<>> <=> N = 0)
    BY <2>2 DEF Value
  <2>5. /\ v[1] = Mark("[") /\ Len(v) = (IF l = <<>> THEN 0 ELSE 2 * N - 1) + 2
        /\ v[Len(v)] = Mark("]")
        /\ \A j \in 1 .. N : v[2 * j] = Quoted(l[j])
        /\ \A j \in 1 .. N - 1 : v[2 * j + 1] = Comma
    BY <2>2, <2>3, ValueTokens
  <2>6. Needle(doc, key) = {p}
    BY <1>3, KeyFound
  <2>7. /\ Mark("[").kind = "[" /\ Mark("]").kind = "]" /\ Mark(":").kind = ":"
        /\ Comma.kind = "," /\ \A x : Quoted(x).kind = "string" /\ Quoted(x).s = x
    BY DEF Mark, Comma, Quoted, Token
  <2>. DEFINE e == p + 1 + Len(v)
  <2>. HIDE DEF p, v, doc, l, N
  <2>8. /\ doc[p + 1].kind = ":" /\ doc[a].kind = "[" /\ doc[e].kind = "]"
        /\ a \in DOMAIN doc /\ e \in DOMAIN doc /\ a \in Int /\ e \in Int /\ a < e
        /\ e = IF N = 0 THEN a + 1 ELSE a + 2 * N
    <3>1. /\ 1 \in 1 .. Len(v) /\ Len(v) \in 1 .. Len(v)
          /\ Len(v) = IF N = 0 THEN 2 ELSE 2 * N + 1
      BY <2>4, <2>5
    <3>2. doc[p + 1 + 1] = v[1] /\ doc[p + 1 + Len(v)] = v[Len(v)] /\ p + 1 + 1 = a
      BY <2>1, <3>1
    <3>3. doc[p + 1].kind = ":" /\ doc[a].kind = "[" /\ doc[e].kind = "]"
      BY <2>1, <2>5, <2>7, <3>2
    <3>4. /\ a \in 1 .. Len(doc) /\ e \in 1 .. Len(doc) /\ a < e
          /\ e = IF N = 0 THEN a + 1 ELSE a + 2 * N
      <4>. DEFINE m == Len(v)
                  n == Len(doc)
      <4>1. /\ n \in Nat /\ N \in Nat /\ p \in Nat /\ p > 0 /\ p + 1 + m < n
            /\ m = IF N = 0 THEN 2 ELSE 2 * N + 1
        BY <1>2, <2>1, <2>4, <3>1
      <4>. HIDE DEF m, n
      <4>2. /\ p + 2 \in 1 .. n /\ p + 1 + m \in 1 .. n /\ p + 2 < p + 1 + m
            /\ p + 1 + m = IF N = 0 THEN p + 2 + 1 ELSE p + 2 + 2 * N
        BY <4>1
      <4>. QED
        BY <4>2 DEF m, n
    <3>5. DOMAIN doc = 1 .. Len(doc)
      BY <1>2
    <3>. HIDE DEF a, e
    <3>. QED
      BY <3>3, <3>4, <3>5
  <2>9. /\ \A j \in 1 .. N : doc[a + 2 * j - 1] = Quoted(l[j])
        /\ \A j \in 1 .. N - 1 : doc[a + 2 * j] = Comma
    <3>1. \A i \in 1 .. Len(v) : doc[a - 1 + i] = v[i]
      BY <2>1
    <3>2. ASSUME NEW j \in 1 .. N
          PROVE  doc[a + 2 * j - 1] = Quoted(l[j])
      <4>1. 2 * j \in 1 .. Len(v) /\ a - 1 + 2 * j = a + 2 * j - 1
        BY <2>1, <2>4, <2>5
      <4>. HIDE DEF a
      <4>. QED
        BY <2>5, <3>1, <4>1
    <3>3. ASSUME NEW j \in 1 .. N - 1
          PROVE  doc[a + 2 * j] = Comma
      <4>1. 2 * j + 1 \in 1 .. Len(v) /\ a - 1 + (2 * j + 1) = a + 2 * j
        BY <2>1, <2>4, <2>5
      <4>. HIDE DEF a
      <4>. QED
        BY <2>5, <3>1, <4>1
    <3>. HIDE DEF a
    <3>. QED
      BY <3>2, <3>3
  <2>. HIDE DEF a, e
  <2>10. \A q \in DOMAIN doc : q \in Int
    BY <1>2
  <2>11. Open = {a}
    <3>1. \A q \in OfKind(doc, "[") : q > p => a <= q
      <4>1. TAKE q \in OfKind(doc, "[")
      <4>2. q # p + 1 /\ q \in Int
        BY <2>8, <2>10 DEF OfKind
      <4>. QED
        BY <2>1, <4>2 DEF a
    <3>2. a \in OfKind(doc, "[") /\ p < a
      BY <2>1, <2>8 DEF OfKind, a
    <3>. DEFINE A == After({p}, OfKind(doc, "["))
    <3>3. a \in A /\ \A q \in A : a <= q /\ q \in Int
      BY <2>10, <3>1, <3>2 DEF After, OfKind
    <3>. HIDE DEF A
    <3>4. First(A) = {a}
      BY <2>8, <3>3 DEF First
    <3>. QED
      BY <2>6, <3>4 DEF A
  <2>12. \A q \in DOMAIN doc : a < q /\ q < e =>
           \E j \in 1 .. N : q = a + 2 * j - 1 \/ (q = a + 2 * j /\ j \in 1 .. N - 1)
    <3>1. TAKE q \in DOMAIN doc
    <3>2. HAVE a < q /\ q < e
    <3>. DEFINE r == q - a
                h == r \div 2
    <3>3. r \in Int /\ 0 < r /\ N # 0 /\ r < 2 * N /\ q = a + r
      <4>1. a \in Int /\ q \in Int /\ N \in Nat /\ a < q /\ q < e
        BY <2>4, <2>8, <2>10, <3>2
      <4>2. e = IF N = 0 THEN a + 1 ELSE a + 2 * N
        BY <2>8
      <4>. QED
        BY <4>1, <4>2
    <3>. HIDE DEF r
    <3>4. h \in Int /\ (r = 2 * h \/ r = 2 * (h + 1) - 1)
      BY <3>3
    <3>. HIDE DEF h
    <3>5. CASE r = 2 * h
      <4>1. h \in 1 .. N /\ h \in 1 .. N - 1
        BY <2>4, <3>3, <3>4, <3>5
      <4>. QED
        BY <3>3, <3>5, <4>1
    <3>6. CASE r = 2 * (h + 1) - 1
      <4>. DEFINE j == h + 1
      <4>1. j \in 1 .. N /\ q = a + 2 * j - 1
        BY <2>4, <2>8, <3>3, <3>4, <3>6
      <4>. HIDE DEF j
      <4>. QED
        BY <4>1
    <3>. QED
      BY <3>4, <3>5, <3>6
  <2>13. Close = {e}
    <3>1. \A q \in OfKind(doc, "]") : q > a => e <= q
      <4>1. TAKE q \in OfKind(doc, "]")
      <4>2. q \in DOMAIN doc /\ q \in Int /\ doc[q].kind = "]"
        BY <2>10 DEF OfKind
      <4>. SUFFICES ASSUME q > a, ~ (e <= q) PROVE FALSE
        OBVIOUS
      <4>3. a < q /\ q < e
        BY <2>8, <4>2
      <4>4. doc[q].kind = "string" \/ doc[q].kind = ","
        BY <2>7, <2>9, <2>12, <4>2, <4>3
      <4>. QED
        BY <4>2, <4>4
    <3>2. e \in OfKind(doc, "]") /\ a < e
      BY <2>8 DEF OfKind
    <3>. DEFINE A == After({a}, OfKind(doc, "]"))
    <3>3. e \in A /\ \A q \in A : e <= q /\ q \in Int
      BY <2>8, <2>10, <3>1, <3>2 DEF After, OfKind
    <3>. HIDE DEF A
    <3>4. First(A) = {e}
      BY <2>8, <3>3 DEF First
    <3>. QED
      BY <2>11, <3>4 DEF A
  <2>14. Items = {a + 2 * j - 1 : j \in 1 .. N}
    <3>1. ASSUME NEW q \in Items
          PROVE  \E j \in 1 .. N : q = a + 2 * j - 1
      <4>1. q \in DOMAIN doc /\ doc[q].kind = "string" /\ a < q /\ q < e
        BY <2>11, <2>13 DEF After, OfKind
      <4>2. PICK j \in 1 .. N : q = a + 2 * j - 1 \/ (q = a + 2 * j /\ j \in 1 .. N - 1)
        BY <2>12, <4>1
      <4>3. q = a + 2 * j /\ j \in 1 .. N - 1 => doc[q].kind = ","
        BY <2>7, <2>9
      <4>. QED
        BY <4>1, <4>2, <4>3
    <3>2. ASSUME NEW j \in 1 .. N
          PROVE  a + 2 * j - 1 \in Items
      <4>. DEFINE q == a + 2 * j - 1
      <4>1. q \in DOMAIN doc /\ a < q /\ q < e
        <5>1. q \in Int /\ a < q /\ q < e
          BY <2>4, <2>8
        <5>2. DOMAIN doc = 1 .. Len(doc)
          BY <1>2
        <5>. HIDE DEF q
        <5>. QED
          BY <1>2, <2>8, <5>1, <5>2
      <4>2. doc[q].kind = "string"
        BY <2>7, <2>9
      <4>3. q - 1 = a \/ doc[q - 1].kind = ","
        <5>1. CASE j = 1
          <6>1. a \in Int
            BY <2>8
          <6>. QED
            BY <5>1, <6>1
        <5>2. CASE j # 1
          <6>. DEFINE i == j - 1
          <6>1. i \in 1 .. N - 1 /\ q - 1 = a + 2 * i
            <7>1. N \in Nat /\ a \in Int
              BY <2>4, <2>8
            <7>. QED
              BY <5>2, <7>1
          <6>. HIDE DEF i, q
          <6>. QED
            BY <2>7, <2>9, <6>1
        <5>. QED
          BY <5>1, <5>2
      <4>. HIDE DEF q
      <4>4. q \in After(Open, OfKind(doc, "string"))
        BY <2>11, <4>1, <4>2 DEF After, OfKind
      <4>5. After({q}, Close) # {}
        BY <2>13, <4>1 DEF After
      <4>6. q - 1 \in Open \/ doc[q - 1].kind = ","
        BY <2>11, <4>3
      <4>7. q \in Items
        BY <4>4, <4>5, <4>6
      <4>. QED
        BY <4>7 DEF q
    <3>. HIDE DEF Items
    <3>. QED
      BY <3>1, <3>2
  <2>15. \A j \in 1 .. Len(l) : doc[a + 2 * j - 1].s = l[j]
    BY <2>7, <2>9 DEF N
  <2>16. a \in Int /\ l \in Seq(STRING)
    BY <2>4, <2>8
  <2>17. Said(doc, {a + 2 * j - 1 : j \in 1 .. Len(l)}) = l
    BY <2>15, <2>16, SaidInOrder
  <2>. QED
    BY <1>1, <2>14, <2>17 DEF N, l
<1>4. ASSUME \A k \in DOMAIN sc : sc[k].key # key
      PROVE  JsonList(doc, key) = <<>>
  <2>1. Needle(doc, key) = {}
    BY <1>4, KeyFound
  <2>2. Open = {}
    BY <2>1 DEF After, First
  <2>. HIDE DEF Open
  <2>3. Items = {}
    BY <2>2 DEF After
  <2>. HIDE DEF Items
  <2>4. Said(doc, Items) = <<>>
    <3>1. Cardinality(Items) = 0
      BY <2>3, FS_EmptySet
    <3>2. 1 .. 0 = {}
      OBVIOUS
    <3>. QED
      BY <3>1, <3>2 DEF Said
  <2>. QED
    BY <1>1, <2>4
<1>. QED
  BY <1>3, <1>4

\* In the lines of a TOML text a key is found by its line.
LEMMA TomlRead ==
  ASSUME NEW sc \in Seq(Declaration), IsPlain(sc), NEW key \in DOMAIN Keys,
         NEW hidden \in SUBSET DOMAIN sc
  PROVE  TomlValue(Toml(sc, hidden), key, Keys[key])
           = {[value |-> sc[k].value, commented |-> k \in hidden] :
                k \in {j \in DOMAIN sc : sc[j].key = key}}
<1>. DEFINE doc == Toml(sc, hidden)
            S == {j \in DOMAIN sc : sc[j].key = key}
            kind == Keys[key]
            Found == {q \in First(S) : doc[q].declared.value.kind = kind}
<1>1. /\ DOMAIN doc = DOMAIN sc
      /\ \A k \in DOMAIN sc : doc[k].declared = sc[k] /\ doc[k].commented = (k \in hidden)
  BY DEF Toml
<1>2. {r \in DOMAIN doc : doc[r].declared.key = key} = S
  BY <1>1
<1>3. TomlValue(doc, key, kind)
        = {[value |-> doc[p].declared.value, commented |-> doc[p].commented] : p \in Found}
  BY <1>2 DEF TomlValue
<1>4. \A k \in DOMAIN sc : k \in Nat /\ (sc[k].key = key => sc[k].value.kind = kind)
  <2>1. \A k \in DOMAIN sc : k \in Nat /\ sc[k] \in ToSet(sc)
    BY DEF ToSet
  <2>. QED
    BY <2>1 DEF IsPlain
<1>5. \A j, k \in S : j = k
  BY DEF IsPlain
<1>. HIDE DEF doc, kind
<1>6. Found = S
  <2>1. S \subseteq Nat
    BY <1>4
  <2>2. First(S) = S
    <3>1. S \subseteq Nat /\ \A j, k \in S : j = k
      BY <1>5, <2>1
    <3>. HIDE DEF S
    <3>2. \A p, q \in S : p <= q
      <4>1. TAKE p, q \in S
      <4>2. p = q /\ p \in Nat
        BY <3>1
      <4>. QED
        BY <4>2
    <3>. QED
      BY <3>2 DEF First
  <2>. QED
    BY <1>1, <1>4, <2>2
<1>7. \A p \in S : [value |-> doc[p].declared.value, commented |-> doc[p].commented]
                     = [value |-> sc[p].value, commented |-> p \in hidden]
  BY <1>1
<1>. DEFINE Made == {[value |-> doc[p].declared.value, commented |-> doc[p].commented] : p \in S}
<1>8. Made = {[value |-> sc[k].value, commented |-> k \in hidden] : k \in S}
  <2>. DEFINE Said1(p) == [value |-> doc[p].declared.value, commented |-> doc[p].commented]
              Said2(p) == [value |-> sc[p].value, commented |-> p \in hidden]
  <2>1. \A p \in S : Said1(p) = Said2(p)
    BY <1>7
  <2>. HIDE DEF Said1, Said2
  <2>2. {Said1(p) : p \in S} = {Said2(p) : p \in S}
    BY <2>1
  <2>. QED
    BY <2>2 DEF Said1, Said2
<1>9. TomlValue(doc, key, kind) = Made
  BY <1>3, <1>6
<1>. QED
  BY <1>8, <1>9 DEF doc, kind

\* What a plain schema is read as.
AsDeclared(sc, hidden, p) ==
  LET At(key) == {k \in DOMAIN sc : sc[k].key = key} IN
  /\ p.tech = {sc[k].value.s : k \in At("tech")}
  /\ p.unit = {sc[k].value.n : k \in
       {j \in At("db_unit_nm") \ hidden : Fits(sc[j].value.n)}}
  /\ \A k \in At("layers") \ hidden : p.layers = sc[k].value.list
  /\ At("layers") \subseteq hidden => p.layers = <<>>

LEMMA JsonAsDeclared ==
  ASSUME NEW sc \in Seq(Declaration), IsPlain(sc)
  PROVE  AsDeclared(sc, {}, ParseJson(Json(sc)))
<1>. DEFINE doc == Json(sc)
            At(key) == {k \in DOMAIN sc : sc[k].key = key}
            V(k) == JsonValue(sc[k].value)
<1>1. /\ "tech" \in DOMAIN Keys /\ "db_unit_nm" \in DOMAIN Keys /\ "layers" \in DOMAIN Keys
      /\ Keys["tech"] = "string" /\ Keys["db_unit_nm"] = "number" /\ Keys["layers"] = "list"
  BY DEF Keys
<1>2. \A k \in DOMAIN sc :
        /\ sc[k].key = "tech" => V(k)[1] = Quoted(sc[k].value.s)
        /\ sc[k].key = "db_unit_nm" => V(k)[1] = Token("number", "-", sc[k].value.n)
  <2>1. TAKE k \in DOMAIN sc
  <2>2. sc[k] \in ToSet(sc) /\ sc[k].value \in Value
    <3>1. k \in 1 .. Len(sc)
      OBVIOUS
    <3>2. sc[k] \in Declaration
      BY <3>1
    <3>. QED
      BY <3>2 DEF ToSet, Declaration
  <2>3. /\ sc[k].value.kind = "string" => V(k)[1] = Quoted(sc[k].value.s)
        /\ sc[k].value.kind = "number" => V(k)[1] = Token("number", "-", sc[k].value.n)
    BY <2>2, ValueTokens
  <2>. HIDE DEF V
  <2>. QED
    BY <1>1, <2>2, <2>3 DEF IsPlain
<1>3. JsonScalar(doc, "tech", "string") = {V(k)[1] : k \in At("tech")}
  <2>1. JsonScalar(doc, "tech", Keys["tech"]) = {V(k)[1] : k \in At("tech")}
    BY <1>1, ScalarRead
  <2>. QED
    BY <1>1, <2>1
<1>4. JsonScalar(doc, "db_unit_nm", "number") = {V(k)[1] : k \in At("db_unit_nm")}
  <2>1. JsonScalar(doc, "db_unit_nm", Keys["db_unit_nm"]) = {V(k)[1] : k \in At("db_unit_nm")}
    BY <1>1, ScalarRead
  <2>. QED
    BY <1>1, <2>1
<1>5. /\ \A k \in At("layers") : JsonList(doc, "layers") = sc[k].value.list
      /\ At("layers") = {} => JsonList(doc, "layers") = <<>>
  BY <1>1, ListRead
<1>. HIDE DEF doc, V
<1>6. {t.s : t \in JsonScalar(doc, "tech", "string")} = {sc[k].value.s : k \in At("tech")}
  <2>1. \A k \in At("tech") : V(k)[1].s = sc[k].value.s
    <3>1. \A x : Quoted(x).s = x
      BY DEF Quoted, Token
    <3>. QED
      BY <1>2, <3>1
  <2>. HIDE DEF At
  <2>2. {t.s : t \in {V(k)[1] : k \in At("tech")}} = {sc[k].value.s : k \in At("tech")}
    <3>1. {t.s : t \in {V(k)[1] : k \in At("tech")}} = {V(k)[1].s : k \in At("tech")}
      OBVIOUS
    <3>. QED
      BY <2>1, <3>1
  <2>. QED
    BY <1>3, <2>2 DEF At
<1>7. {t.n : t \in {u \in JsonScalar(doc, "db_unit_nm", "number") : Fits(u.n)}}
        = {sc[k].value.n : k \in {j \in At("db_unit_nm") : Fits(sc[j].value.n)}}
  <2>1. \A k \in At("db_unit_nm") : V(k)[1].n = sc[k].value.n
    <3>1. \A x : Token("number", "-", x).n = x
      BY DEF Token
    <3>. QED
      BY <1>2, <3>1
  <2>. DEFINE D == At("db_unit_nm")
  <2>. HIDE DEF D
  <2>2. {t.n : t \in {u \in {V(k)[1] : k \in D} : Fits(u.n)}}
          = {sc[k].value.n : k \in {j \in D : Fits(sc[j].value.n)}}
    <3>1. {t.n : t \in {u \in {V(k)[1] : k \in D} : Fits(u.n)}}
            = {V(k)[1].n : k \in {j \in D : Fits(V(j)[1].n)}}
      OBVIOUS
    <3>2. \A k \in D : V(k)[1].n = sc[k].value.n
      BY <2>1 DEF D
    <3>3. {j \in D : Fits(V(j)[1].n)} = {j \in D : Fits(sc[j].value.n)}
      BY <3>2
    <3>4. {V(k)[1].n : k \in {j \in D : Fits(sc[j].value.n)}}
            = {sc[k].value.n : k \in {j \in D : Fits(sc[j].value.n)}}
      BY <3>2
    <3>. QED
      BY <3>1, <3>3, <3>4
  <2>. QED
    BY <1>4, <2>2 DEF D
<1>. QED
  BY <1>5, <1>6, <1>7 DEF ParseJson, AsDeclared, doc

LEMMA TomlAsDeclared ==
  ASSUME NEW sc \in Seq(Declaration), IsPlain(sc), NEW hidden \in SUBSET DOMAIN sc
  PROVE  AsDeclared(sc, hidden, ParseToml(Toml(sc, hidden)))
<1>. DEFINE doc == Toml(sc, hidden)
            At(key) == {k \in DOMAIN sc : sc[k].key = key}
            Of(k) == [value |-> sc[k].value, commented |-> k \in hidden]
            lists == {l \in TomlValue(doc, "layers", "list") : ~ l.commented}
<1>1. /\ "tech" \in DOMAIN Keys /\ "db_unit_nm" \in DOMAIN Keys /\ "layers" \in DOMAIN Keys
      /\ Keys["tech"] = "string" /\ Keys["db_unit_nm"] = "number" /\ Keys["layers"] = "list"
  BY DEF Keys
<1>2. /\ TomlValue(doc, "tech", Keys["tech"]) = {Of(k) : k \in At("tech")}
      /\ TomlValue(doc, "db_unit_nm", Keys["db_unit_nm"]) = {Of(k) : k \in At("db_unit_nm")}
      /\ TomlValue(doc, "layers", Keys["layers"]) = {Of(k) : k \in At("layers")}
  BY <1>1, TomlRead
<1>3. /\ TomlValue(doc, "tech", "string") = {Of(k) : k \in At("tech")}
      /\ TomlValue(doc, "db_unit_nm", "number") = {Of(k) : k \in At("db_unit_nm")}
      /\ TomlValue(doc, "layers", "list") = {Of(k) : k \in At("layers")}
  BY <1>1, <1>2
<1>4. \A k \in DOMAIN sc : sc[k].value.whole
  <2>1. \A k \in DOMAIN sc : sc[k] \in ToSet(sc)
    BY DEF ToSet
  <2>. QED
    BY <2>1 DEF IsPlain
<1>5. \A j, k \in At("layers") : j = k
  BY DEF IsPlain
<1>. HIDE DEF doc
<1>6. {l.value.s : l \in TomlValue(doc, "tech", "string")} = {sc[k].value.s : k \in At("tech")}
  <2>1. {l.value.s : l \in {Of(k) : k \in At("tech")}} = {sc[k].value.s : k \in At("tech")}
    <3>. DEFINE D == At("tech")
    <3>. HIDE DEF D
    <3>1. {l.value.s : l \in {Of(k) : k \in D}} = {Of(k).value.s : k \in D}
      OBVIOUS
    <3>2. {Of(k).value.s : k \in D} = {sc[k].value.s : k \in D}
      OBVIOUS
    <3>. QED
      BY <3>1, <3>2 DEF D
  <2>. QED
    BY <1>3, <2>1
<1>7. {l.value.n : l \in {m \in TomlValue(doc, "db_unit_nm", "number") :
                            m.value.whole /\ ~ m.commented /\ Fits(m.value.n)}}
        = {sc[k].value.n : k \in {j \in At("db_unit_nm") \ hidden : Fits(sc[j].value.n)}}
  <2>. DEFINE D == At("db_unit_nm")
              Reads(m) == m.value.whole /\ ~ m.commented /\ Fits(m.value.n)
  <2>1. \A k \in D : Reads(Of(k)) <=> k \notin hidden /\ Fits(sc[k].value.n)
    BY <1>4
  <2>. DEFINE E == {j \in D \ hidden : Fits(sc[j].value.n)}
  <2>2. {k \in D : Reads(Of(k))} = E
    BY <2>1
  <2>. HIDE DEF D, Reads
  <2>3. {l.value.n : l \in {m \in {Of(k) : k \in D} : Reads(m)}}
          = {Of(k).value.n : k \in {j \in D : Reads(Of(j))}}
    <3>. HIDE DEF Of
    <3>. QED
      OBVIOUS
  <2>. HIDE DEF E
  <2>4. {Of(k).value.n : k \in E} = {sc[k].value.n : k \in E}
    OBVIOUS
  <2>. QED
    BY <1>3, <2>2, <2>3, <2>4 DEF D, E, Reads
<1>8. lists = {Of(k) : k \in At("layers") \ hidden}
  <2>. DEFINE D == At("layers")
  <2>. HIDE DEF D
  <2>1. {l \in {Of(k) : k \in D} : ~ l.commented} = {Of(k) : k \in D \ hidden}
    <3>1. \A k : Of(k).commented = (k \in hidden)
      OBVIOUS
    <3>. HIDE DEF Of
    <3>. QED
      BY <3>1
  <2>. QED
    BY <1>3, <2>1 DEF D
<1>. DEFINE layers == IF lists = {} THEN <<>> ELSE (CHOOSE l \in lists : TRUE).value.list
<1>. HIDE DEF lists
<1>9. ASSUME NEW k \in At("layers") \ hidden
      PROVE  layers = sc[k].value.list
  <2>1. lists = {Of(k)}
    BY <1>5, <1>8
  <2>2. (CHOOSE l \in lists : TRUE) = Of(k) /\ lists # {}
    <3>. HIDE DEF Of
    <3>. QED
      BY <2>1
  <2>3. Of(k).value.list = sc[k].value.list
    OBVIOUS
  <2>. HIDE DEF Of
  <2>. QED
    BY <2>2, <2>3
<1>10. At("layers") \subseteq hidden => layers = <<>>
  BY <1>8
<1>. DEFINE tech == {l.value.s : l \in TomlValue(doc, "tech", "string")}
            unit == {l.value.n : l \in {m \in TomlValue(doc, "db_unit_nm", "number") :
                                       m.value.whole /\ ~ m.commented /\ Fits(m.value.n)}}
<1>11. ParseToml(doc) = [tech |-> tech, unit |-> unit, layers |-> layers]
  BY DEF ParseToml, lists
<1>. HIDE DEF tech, unit
<1>. HIDE DEF layers
<1>. DEFINE p == ParseToml(doc)
<1>12. /\ p.tech = {sc[k].value.s : k \in At("tech")}
       /\ p.unit = {sc[k].value.n : k \in {j \in At("db_unit_nm") \ hidden : Fits(sc[j].value.n)}}
       /\ p.layers = layers
  <2>1. p.tech = tech /\ p.unit = unit /\ p.layers = layers
    BY <1>11
  <2>. HIDE DEF p
  <2>. QED
    BY <1>6, <1>7, <2>1 DEF tech, unit
<1>. HIDE DEF p
<1>. QED
  BY <1>9, <1>10, <1>12 DEF AsDeclared, doc, p

\* A plain schema is read as it was declared (parse_json_minimal, parse_toml_minimal).
THEOREM PdkAsDeclaredAlways == FrontSpec => []PdkAsDeclared
<1>. DEFINE Right == PlainSchema /\ pdk # NoPdk => AsDeclared(schema, comments, pdk)
<1>1. Right <=> PdkAsDeclared
  BY DEF PdkAsDeclared, AsDeclared, DeclaredAt
<1>2. PlainSchema <=> IsPlain(schema)
  BY DEF PlainSchema, IsPlain
<1>3. PdkInit => Right
  BY DEF PdkInit
<1>4. Right /\ [PdkNext]_pdkVars => Right'
  <2>. SUFFICES ASSUME Right, [PdkNext]_pdkVars PROVE Right'
    OBVIOUS
  <2>1. (PlainSchema <=> IsPlain(schema))'
    BY DEF PlainSchema, IsPlain
  <2>2. ASSUME NEW p, Loaded(p), IsPlain(schema') => AsDeclared(schema', comments', p)
        PROVE  Right'
    <3>1. pdk'.tech = p.tech /\ pdk'.unit = p.unit /\ pdk'.layers = p.layers
      BY <2>2 DEF Loaded
    <3>2. AsDeclared(schema', comments', p) => AsDeclared(schema', comments', pdk')
      BY <3>1 DEF AsDeclared
    <3>. QED
      BY <2>1, <2>2, <3>2
  <2>3. CASE LoadJson
    <3>1. schema' \in Seq(Declaration) /\ comments' = {}
      BY <2>3, PdkAssumption DEF LoadJson
    <3>2. IsPlain(schema') => AsDeclared(schema', comments', ParseJson(Json(schema')))
      BY <3>1, JsonAsDeclared
    <3>. QED
      BY <2>2, <2>3, <3>2 DEF LoadJson
  <2>4. CASE LoadToml
    <3>1. schema' \in Seq(Declaration) /\ comments' \in SUBSET DOMAIN schema'
      BY <2>4, PdkAssumption DEF LoadToml
    <3>2. IsPlain(schema') => AsDeclared(schema', comments', ParseToml(Toml(schema', comments')))
      BY <3>1, TomlAsDeclared
    <3>. QED
      BY <2>2, <2>4, <3>2 DEF LoadToml
  <2>5. CASE LoadNothing
    BY <2>5 DEF LoadNothing
  <2>6. CASE UNCHANGED pdkVars
    <3>1. schema' = schema /\ comments' = comments /\ pdk' = pdk
      BY <2>6 DEF pdkVars
    <3>. QED
      BY <1>2, <2>1, <3>1
  <2>. QED
    BY <2>3, <2>4, <2>5, <2>6 DEF PdkNext
<1>5. FrontInit => PdkInit
  BY DEF FrontInit
<1>6. [FrontNext]_<<vars, quickVars, pdkVars, frontVars>> => [PdkNext]_pdkVars
  BY DEF FrontNext
<1>. QED
  BY <1>1, <1>3, <1>4, <1>5, <1>6, PTL DEF FrontSpec
=============================================================================
