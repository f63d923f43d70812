-------------------------------- MODULE Flow --------------------------------
(***************************************************************************)
(* The tiers of the flow (crates/api/src/flow.rs, core.rs): a circuit is   *)
(* taken through constraints, placement and routing in one call or stage   *)
(* by stage.  Every stage's handle is a value of its own, which the caller *)
(* keeps and may use again after the circuit it came from has changed.     *)
(***************************************************************************)
EXTENDS SpiceNetlist, Certificates

CONSTANTS Netlists,    \* what from_spice_str can return
          BuiltNames,  \* device names of the builder's circuits
          MaxTop,      \* bound on the devices at the top level
          MaxResults   \* bound on the results the caller keeps

ASSUME NetlistsAssumption ==
  (\A nl \in Netlists : IsNetlist(nl)) /\ BuiltNames \subseteq Seq(Word)

VARIABLES
  circuit,      \* the caller's Circuit: a netlist, or None
  constraints,  \* its Constraints handle, or None
  placed,       \* its Placed handle, or None
  results,      \* every layout or flow result so far, with its netlist
  error         \* of the last call, with the netlist it was called on

vars == <<circuit, constraints, placed, results, error>>

None      == [held |-> FALSE]
Held(nl)  == [held |-> TRUE, netlist |-> nl]
NoError   == [kind |-> "none", netlist |-> EmptyNetlist]

----------------------------------------------------------------------------
(* The stage oracles *)

RunConstraints(count) == [honored |-> count, unsupported |-> 0]

RunPlacement(count) ==
  [ placedCount |-> count, baselineUsed |-> TRUE,
    certificate |-> StubPlacementCertificate ]

RunRouting(netCount, baselineUsed) ==
  [ routedSegments |-> 0, degraded |-> TRUE, certificate |-> StubRouteCertificate,
    diagnostics |-> <<>> ]

\* Mutant: the builder's path counts the top level only.
RunFlowOfTop(nl) ==
  LET placement == RunPlacement(Len(nl.top)) IN
  [ constraints |-> RunConstraints(Len(nl.top)),
    placement   |-> placement,
    routing     |-> RunRouting(Len(nl.top), placement.baselineUsed) ]

RunFlow(nl) ==
  LET placement == RunPlacement(DeviceCount(nl)) IN
  [ constraints |-> RunConstraints(DeviceCount(nl)),
    placement   |-> placement,
    routing     |-> RunRouting(DeviceCount(nl), placement.baselineUsed) ]

----------------------------------------------------------------------------
(* Circuit *)

FromSpice ==
  /\ \E nl \in Netlists : circuit' = Held(nl)
  /\ error' = NoError
  /\ UNCHANGED <<constraints, placed, results>>

\* The circuit is consumed: a name that it does not define leaves none.
CircuitSelectSubckt(name) ==
  /\ circuit # None
  /\ IF name \in DOMAIN circuit.netlist.defs
     THEN /\ circuit' = Held(SelectSubckt(circuit.netlist, name))
          /\ error' = NoError
          /\ Len(circuit'.netlist.top) <= MaxTop
     ELSE /\ circuit' = None
          /\ error' = [kind |-> "SubcktNotFound", netlist |-> circuit.netlist]
  /\ UNCHANGED <<constraints, placed, results>>

UseFirstSubcktAsTop ==
  /\ circuit # None
  /\ circuit' = Held(PromoteFirstSubckt(circuit.netlist))
  /\ error' = NoError
  /\ UNCHANGED <<constraints, placed, results>>

RefuseEmpty(nl) ==
  /\ error' = [kind |-> "EmptyNetlist", netlist |-> nl]
  /\ UNCHANGED <<constraints, placed, results>>

\* Mutant: only a netlist with no top level is taken to be empty.
AnalyzeTopOnly ==
  /\ circuit # None
  /\ IF circuit.netlist.top = <<>>
     THEN RefuseEmpty(circuit.netlist)
     ELSE /\ constraints' = [ held    |-> TRUE,
                              netlist |-> circuit.netlist,
                              result  |-> RunConstraints(DeviceCount(circuit.netlist)) ]
          /\ error' = NoError
          /\ UNCHANGED <<placed, results>>
  /\ UNCHANGED circuit

Analyze ==
  /\ circuit # None
  /\ IF DeviceCount(circuit.netlist) = 0
     THEN RefuseEmpty(circuit.netlist)
     ELSE /\ constraints' = [ held    |-> TRUE,
                              netlist |-> circuit.netlist,
                              result  |-> RunConstraints(DeviceCount(circuit.netlist)) ]
          /\ error' = NoError
          /\ UNCHANGED <<placed, results>>
  /\ UNCHANGED circuit

----------------------------------------------------------------------------
(* The staged handles *)

\* Mutant: the circuit is placed as it is now.
PlaceCircuit ==
  /\ constraints # None /\ circuit # None
  /\ placed' = [ held        |-> TRUE,
                 netlist     |-> constraints.netlist,
                 constraints |-> constraints.result,
                 placement   |-> RunPlacement(DeviceCount(circuit.netlist)) ]
  /\ error' = NoError
  /\ UNCHANGED <<circuit, constraints, results>>

Place ==
  /\ constraints # None
  /\ placed' = [ held        |-> TRUE,
                 netlist     |-> constraints.netlist,
                 constraints |-> constraints.result,
                 placement   |-> RunPlacement(DeviceCount(constraints.netlist)) ]
  /\ error' = NoError
  /\ UNCHANGED <<circuit, constraints, results>>

Keep(nl, flow) ==
  /\ results' = results \cup {[netlist |-> nl, flow |-> flow]}
  /\ Cardinality(results') <= MaxResults

Route ==
  /\ placed # None
  /\ Keep(placed.netlist,
          [ constraints |-> placed.constraints,
            placement   |-> placed.placement,
            routing     |-> RunRouting(DeviceCount(placed.netlist),
                                       placed.placement.baselineUsed) ])
  /\ error' = NoError
  /\ UNCHANGED <<circuit, constraints, placed>>

\* run goes through the stages with handles of its own.
Run ==
  /\ circuit # None
  /\ IF DeviceCount(circuit.netlist) = 0
     THEN RefuseEmpty(circuit.netlist)
     ELSE LET nl        == circuit.netlist
              placement == RunPlacement(DeviceCount(nl))
          IN  /\ Keep(nl, [ constraints |-> RunConstraints(DeviceCount(nl)),
                            placement   |-> placement,
                            routing     |-> RunRouting(DeviceCount(nl),
                                                       placement.baselineUsed) ])
              /\ error' = NoError
              /\ UNCHANGED <<constraints, placed>>
  /\ UNCHANGED circuit

\* BuiltCircuit's solve and solve_with: run_flow over the builder's netlist.
Solve(names) ==
  /\ LET nl == FromDevices(names) IN
     IF DeviceCount(nl) = 0
     THEN RefuseEmpty(nl)
     ELSE /\ Keep(nl, RunFlow(nl))
          /\ error' = NoError
          /\ UNCHANGED <<constraints, placed>>
  /\ UNCHANGED circuit

\* The oracles are public: run_flow over any circuit's netlist.
CallRunFlow ==
  /\ circuit # None
  /\ IF DeviceCount(circuit.netlist) = 0
     THEN RefuseEmpty(circuit.netlist)
     ELSE /\ Keep(circuit.netlist, RunFlow(circuit.netlist))
          /\ error' = NoError
          /\ UNCHANGED <<constraints, placed>>
  /\ UNCHANGED circuit

----------------------------------------------------------------------------

Init ==
  /\ circuit = None /\ constraints = None /\ placed = None
  /\ results = {} /\ error = NoError

Names == UNION {DOMAIN nl.defs : nl \in Netlists} \cup {Keyword("other")}

Next == \/ FromSpice
        \/ \E name \in Names : CircuitSelectSubckt(name)
        \/ UseFirstSubcktAsTop
        \/ Analyze \/ Place \/ Route \/ Run
        \/ \E names \in BuiltNames : Solve(names)
        \/ CallRunFlow

Spec == Init /\ [][Next]_vars

----------------------------------------------------------------------------

\* The stages of one result saw one netlist, the one the result carries, even
\* when the circuit was promoted or replaced between two of them.
StagesSawOneNetlist ==
  \A r \in results :
    /\ r.flow.constraints.honored = DeviceCount(r.netlist)
    /\ r.flow.placement.placedCount = DeviceCount(r.netlist)

\* The staged tiers, run, and run_flow (the builder's way) are three pieces of
\* code for one flow: of one netlist they give one result.
WaysAgree ==
  \A r, s \in results : r.netlist = s.netlist => r.flow = s.flow

\* A circuit is refused as empty exactly when it holds no card: a device in a
\* subckt alone is enough to go on, and no result is of an empty circuit.
HasNoCard(nl) == /\ nl.top = <<>>
                 /\ \A name \in DOMAIN nl.defs : nl.defs[name].body = <<>>
EmptyExactlyRefused ==
  /\ error.kind = "EmptyNetlist" => HasNoCard(error.netlist)
  /\ \A r \in results : ~ HasNoCard(r.netlist)

\* "a stub result can never be mistaken for a proven placement" (core.rs:717),
\* nor for a signoff-quality route (core.rs:351): it is accepted, and no more.
NeverSignoff ==
  \A r \in results :
    /\ IsAccepted(r.flow.placement.certificate)
    /\ ~ IsSignoffQuality(r.flow.placement.certificate)
    /\ IsFeasible(r.flow.routing.certificate.hard)
    /\ ~ IsSignoffClean(r.flow.routing.certificate)
=============================================================================
