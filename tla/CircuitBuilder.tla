--------------------------- MODULE CircuitBuilder ---------------------------
(***************************************************************************)
(* CircuitDef and its build (crates/api/src/builder.rs), one step for each *)
(* iteration of each of build's loops.                                     *)
(***************************************************************************)
EXTENDS Integers, Sequences, SequencesExt

CONSTANTS Names, Ports, Constraints,
          MaxDevices, MaxNets, MaxConnections, MaxConstraints

VARIABLES
  devices, nets, constraints,   \* what was declared so far
  result,                       \* the last build's answer
  phase,                        \* "edit", or the loop of build that runs
  i, j,                         \* its indices
  seen,                         \* seen_dev, then seen_net
  owner,                        \* terminal_owner
  errors,
  warnings                      \* the names and kinds warned of

loopVars == <<phase, i, j, seen, owner, errors, warnings>>
vars     == <<devices, nets, constraints, result, loopVars>>

\* CircuitPromise's answer holds sets where build answers with lists.
Promise == INSTANCE CircuitPromise WITH
  result <- IF result.tag = "none" THEN result
            ELSE IF result.tag = "err"
            THEN [result EXCEPT !.errors = ToSet(@)]
            ELSE [result EXCEPT !.floating = ToSet(@), !.unsupported = ToSet(@)]

ASSUME PortsAssumption == Ports \subseteq [idx : Nat, name : STRING]

ASSUME BoundAssumption == MaxConnections \in Nat

ASSUME ConstraintsAssumption ==
  Constraints \subseteq [kind : Promise!Kinds, names : Seq(Names)]

ErrorKinds      == {"DuplicateDevice", "DuplicateNet", "UnknownDevice", "TerminalConflict"}
Error(kind, of) == [kind |-> kind, of |-> of]
Known           == ToSet(devices)
EmptyMap        == [t \in {} |-> 0]
NoWarnings      == [floating |-> <<>>, unsupported |-> <<>>]

Loop(from, to) ==
  /\ phase = from
  /\ phase' = to /\ i' = 1 /\ j' = 1 /\ seen' = {}

\* An edit is a call on the builder, which build holds for itself.
Edit ==
  /\ phase = "edit"
  /\ Promise!Edit
  /\ UNCHANGED <<result, loopVars>>

StartBuild ==
  /\ Loop("edit", "devices")
  /\ owner' = EmptyMap /\ errors' = <<>>
  /\ UNCHANGED <<devices, nets, constraints, result, warnings>>

CheckName(name, kind) ==
  /\ errors' = IF name \in seen THEN Append(errors, Error(kind, <<name>>)) ELSE errors
  /\ seen' = seen \cup {name}
  /\ i' = i + 1
  /\ UNCHANGED <<devices, nets, constraints, result, phase, j, owner, warnings>>

CheckDevice ==
  /\ phase = "devices" /\ i <= Len(devices)
  /\ CheckName(devices[i], "DuplicateDevice")

DevicesChecked ==
  /\ i > Len(devices)
  /\ Loop("devices", "nets")
  /\ UNCHANGED <<devices, nets, constraints, result, owner, errors, warnings>>

CheckNet ==
  /\ phase = "nets" /\ i <= Len(nets)
  /\ CheckName(nets[i].name, "DuplicateNet")

NetsChecked ==
  /\ i > Len(nets)
  /\ Loop("nets", "terminals")
  /\ UNCHANGED <<devices, nets, constraints, result, owner, errors, warnings>>

\* Mutant: the last net to bind a terminal owns it.
BindTerminalLastOwner ==
  /\ phase = "terminals" /\ i <= Len(nets) /\ j <= Len(nets[i].connections)
  /\ LET net      == nets[i].name
         c        == nets[i].connections[j]
         terminal == <<c.device, c.port.idx>>
     IN  \/ /\ c.device \notin Known
            /\ errors' = Append(errors, Error("UnknownDevice", <<c.device>>))
            /\ UNCHANGED owner
         \/ /\ c.device \in Known
            /\ owner' = [t \in DOMAIN owner \cup {terminal} |->
                           IF t = terminal THEN net ELSE owner[t]]
            /\ errors' = IF terminal \notin DOMAIN owner THEN errors
                         ELSE IF owner[terminal] = net THEN errors
                         ELSE Append(errors, Error("TerminalConflict",
                                << c.device, c.port.name, owner[terminal], net >>))
  /\ j' = j + 1
  /\ UNCHANGED <<devices, nets, constraints, result, phase, i, seen, warnings>>

\* The first net to bind a terminal owns it; ports count by their index, of
\* whatever family they are, and a conflict names the later port.
BindTerminal ==
  /\ phase = "terminals" /\ i <= Len(nets) /\ j <= Len(nets[i].connections)
  /\ LET net      == nets[i].name
         c        == nets[i].connections[j]
         terminal == <<c.device, c.port.idx>>
     IN  \/ /\ c.device \notin Known
            /\ errors' = Append(errors, Error("UnknownDevice", <<c.device>>))
            /\ UNCHANGED owner
         \/ /\ c.device \in Known /\ terminal \notin DOMAIN owner
            /\ owner' = [t \in DOMAIN owner \cup {terminal} |->
                           IF t = terminal THEN net ELSE owner[t]]
            /\ UNCHANGED errors
         \/ /\ c.device \in Known /\ terminal \in DOMAIN owner
            /\ errors' = IF owner[terminal] = net THEN errors
                         ELSE Append(errors, Error("TerminalConflict",
                                << c.device, c.port.name, owner[terminal], net >>))
            /\ UNCHANGED owner
  /\ j' = j + 1
  /\ UNCHANGED <<devices, nets, constraints, result, phase, i, seen, warnings>>

\* Mutant: connections are counted from zero.
NextNetFromZero ==
  /\ phase = "terminals" /\ i <= Len(nets) /\ j > Len(nets[i].connections)
  /\ i' = i + 1 /\ j' = 0
  /\ UNCHANGED <<devices, nets, constraints, result, phase, seen, owner, errors, warnings>>

NextNet ==
  /\ phase = "terminals" /\ i <= Len(nets) /\ j > Len(nets[i].connections)
  /\ i' = i + 1 /\ j' = 1
  /\ UNCHANGED <<devices, nets, constraints, result, phase, seen, owner, errors, warnings>>

\* Mutant: build starts over once the terminals are bound.
TerminalsBoundRestarting ==
  /\ i > Len(nets)
  /\ Loop("terminals", "devices")
  /\ owner' = EmptyMap /\ errors' = <<>>
  /\ UNCHANGED <<devices, nets, constraints, result, warnings>>

TerminalsBound ==
  /\ i > Len(nets)
  /\ Loop("terminals", "refs")
  /\ UNCHANGED <<devices, nets, constraints, result, owner, errors, warnings>>

CheckRef ==
  /\ phase = "refs" /\ i <= Len(constraints) /\ j <= Len(Promise!DeviceRefs(constraints[i]))
  /\ LET name == Promise!DeviceRefs(constraints[i])[j] IN
     errors' = IF name \in Known THEN errors
               ELSE Append(errors, Error("UnknownDevice", <<name>>))
  /\ j' = j + 1
  /\ UNCHANGED <<devices, nets, constraints, result, phase, i, seen, owner, warnings>>

\* Mutant: the second reference of a pair is not checked.
NextConstraintEarly ==
  /\ phase = "refs" /\ i <= Len(constraints)
  /\ j > 1 \/ Promise!DeviceRefs(constraints[i]) = <<>>
  /\ i' = i + 1 /\ j' = 1
  /\ UNCHANGED <<devices, nets, constraints, result, phase, seen, owner, errors, warnings>>

NextConstraint ==
  /\ phase = "refs" /\ i <= Len(constraints) /\ j > Len(Promise!DeviceRefs(constraints[i]))
  /\ i' = i + 1 /\ j' = 1
  /\ UNCHANGED <<devices, nets, constraints, result, phase, seen, owner, errors, warnings>>

Return ==
  /\ owner' = EmptyMap /\ errors' = <<>> /\ warnings' = NoWarnings
  /\ UNCHANGED <<devices, nets, constraints>>

\* Mutant: only the last error is reported.
RefuseLastError ==
  /\ i > Len(constraints) /\ errors # <<>>
  /\ Loop("refs", "edit")
  /\ result' = [tag |-> "err", errors |-> <<Last(errors)>>]
  /\ Return

\* Any error refuses the circuit.
Refuse ==
  /\ i > Len(constraints) /\ errors # <<>>
  /\ Loop("refs", "edit")
  /\ result' = [tag |-> "err", errors |-> errors]
  /\ Return

Accept ==
  /\ i > Len(constraints) /\ errors = <<>>
  /\ Loop("refs", "floating")
  /\ UNCHANGED <<devices, nets, constraints, result, owner, errors, warnings>>

WarnOfNet ==
  /\ phase = "floating" /\ i <= Len(nets)
  /\ warnings' = IF Len(nets[i].connections) < 2
                 THEN [warnings EXCEPT !.floating = Append(@, nets[i].name)] ELSE warnings
  /\ i' = i + 1
  /\ UNCHANGED <<devices, nets, constraints, result, phase, j, seen, owner, errors>>

NetsWarnedOf ==
  /\ i > Len(nets)
  /\ Loop("floating", "unsupported")
  /\ UNCHANGED <<devices, nets, constraints, result, owner, errors, warnings>>

WarnOfConstraint ==
  /\ phase = "unsupported" /\ i <= Len(constraints)
  /\ warnings' = IF Promise!IsEngineSupported(constraints[i]) THEN warnings
                 ELSE [warnings EXCEPT !.unsupported = Append(@, constraints[i].kind)]
  /\ i' = i + 1
  /\ UNCHANGED <<devices, nets, constraints, result, phase, j, seen, owner, errors>>

\* from_devices, and the snapshot of what was declared.
Finish ==
  /\ i > Len(constraints)
  /\ Loop("unsupported", "edit")
  /\ result' = [tag |-> "ok", devices |-> devices, netCount |-> Len(nets),
                constraints |-> constraints,
                floating |-> warnings.floating, unsupported |-> warnings.unsupported]
  /\ Return

----------------------------------------------------------------------------

Init ==
  /\ devices = <<>> /\ nets = <<>> /\ constraints = <<>>
  /\ result = Promise!NoResult
  /\ phase = "edit" /\ i = 1 /\ j = 1 /\ seen = {}
  /\ owner = EmptyMap /\ errors = <<>> /\ warnings = NoWarnings

BuildStep == \/ CheckDevice \/ DevicesChecked
             \/ CheckNet \/ NetsChecked
             \/ BindTerminal \/ NextNet \/ TerminalsBound
             \/ CheckRef \/ NextConstraint \/ Refuse \/ Accept
             \/ WarnOfNet \/ NetsWarnedOf \/ WarnOfConstraint \/ Finish

Next == Edit \/ StartBuild \/ BuildStep

\* build runs to its end once it is called; nobody has to call it.
Spec == Init /\ [][Next]_vars /\ WF_vars(BuildStep)

----------------------------------------------------------------------------

TypeOK ==
  /\ devices \in Seq(Names)
  /\ nets \in Seq(Promise!Net)
  /\ constraints \in Seq(Constraints)
  /\ result.tag \in {"none", "err", "ok"}
  /\ phase \in {"edit", "devices", "nets", "terminals", "refs", "floating", "unsupported"}
  /\ i \in Nat \ {0} /\ j \in Nat \ {0}
  /\ seen \subseteq Names
  /\ DOMAIN owner \subseteq Names \X {p.idx : p \in Ports}
  /\ \A t \in DOMAIN owner : owner[t] \in Names
  /\ errors \in Seq([kind : ErrorKinds, of : Seq(Names \cup STRING)])
  /\ warnings \in [floating : Seq(Names), unsupported : Seq(Promise!Kinds)]

\* The loops compute the promised answer: build refuses exactly the circuits
\* with an error, names each error and the first owner of a contested terminal,
\* and warns of each floating net and unsupported constraint.
KeepsPromise == Promise!Spec

\* While the terminals are bound, each bound terminal is owned by the first net
\* that names it, so that the answer does not depend on which conflict is found.
FirstBinderOwns ==
  phase = "terminals" =>
    \A t \in DOMAIN owner :
      \E b \in Promise!Bindings :
        /\ Promise!Terminal(b) = t /\ owner[t] = nets[b[1]].name
        /\ Promise!Precedes(b, <<i, j>>)
        /\ \A c \in Promise!Bindings :
             Promise!Precedes(c, b) => Promise!Terminal(c) # t

\* No later declaration mends a duplicate or a contested terminal: once a build
\* has reported one, every later build reports it again.
Lasting(answer) ==
  IF answer.tag = "err"
  THEN {e \in ToSet(answer.errors) : e.kind # "UnknownDevice"} ELSE {}
ErrorsLast == [][Lasting(result) \subseteq Lasting(result')]_vars

\* Every build that is called answers.
BuildAnswers == phase # "edit" ~> phase = "edit"

----------------------------------------------------------------------------
(* What the comments say and the code does not do *)

\* FloatingNet is "a net with fewer than two terminals" (builder.rs:347): each
\* net of an accepted circuit that binds fewer than two is warned of.
FloatingNetsWarned ==
  [][ result' # result /\ result'.tag = "ok" =>
        \A n \in DOMAIN nets :
          Cardinality({<<c.device, c.port.idx>> : c \in ToSet(nets[n].connections)}) < 2
            => nets[n].name \in ToSet(result'.floating) ]_vars
=============================================================================
