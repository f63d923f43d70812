--------------------------- MODULE CircuitPromise ---------------------------
(***************************************************************************)
(* What the circuit builder promises (crates/api/src/builder.rs): devices, *)
(* nets and constraints are accumulated in any order, and a build answers  *)
(* in one step with every error of the circuit as it stands, or with the   *)
(* circuit and its warnings.  CircuitBuilder is shown to implement it.     *)
(***************************************************************************)
EXTENDS Integers, Sequences, SequencesExt

CONSTANTS
  Names,        \* device and net names, which the builder keeps as strings
  Ports,        \* terminals: an index and a canonical name
  Constraints,  \* those a caller may attach: a kind and the names it holds
  MaxDevices, MaxNets, MaxConnections, MaxConstraints   \* bounds on the edits

----------------------------------------------------------------------------
(* Constraint (core.rs): its kind, and the names that it holds *)

Forwarded   == {"Symmetric", "Matching", "SelfSymmetric", "SymmetricGroup",
                "Order", "Align", "DistanceConstraint", "GuardRing",
                "NetShield", "SetNetClass"}
NotForwarded == {"SignalFlow", "AspectRatio", "CellBoundary", "FixPosition",
                 "PlaceOnGrid", "PlaceOnBoundary", "Group", "PortLocation",
                 "NetMatch", "MultiWire", "DoNotRoute", "ChargeFlow"}
Kinds       == Forwarded \cup NotForwarded

\* The kinds whose names device_refs does not return.
Unreferring == {"NetShield", "SetNetClass", "AspectRatio", "CellBoundary",
                "PortLocation", "MultiWire", "DoNotRoute", "ChargeFlow"}

DeviceRefs(c) == IF c.kind \in Unreferring THEN <<>> ELSE c.names

IsEngineSupported(c) == c.kind \in Forwarded

\* "`Unsupported` is exactly the BuildWarning::UnsupportedConstraint set"
\* (core.rs:422): the warnings are promised by this table, and given by the other.
IntentClass(c) ==
  CASE c.kind \in {"Symmetric", "SelfSymmetric", "SymmetricGroup",
                   "Order", "Align", "GuardRing"} -> "Hard"
    [] c.kind \in {"Matching", "DistanceConstraint"} -> "Bounded"
    [] c.kind \in {"NetShield", "SetNetClass"} -> "Soft"
    [] OTHER -> "Unsupported"

----------------------------------------------------------------------------

VARIABLES
  devices,      \* names, in order of declaration
  nets,         \* each with its connections, in order
  constraints,
  result        \* the answer of the last build, or NoResult

circuit == <<devices, nets, constraints>>

Connection == [device : Names, port : Ports]
Net        == [name : Names, connections : Seq(Connection)]
NoResult   == [tag |-> "none"]

AddDevice(name) ==
  /\ Len(devices) < MaxDevices
  /\ devices' = Append(devices, name)
  /\ UNCHANGED <<nets, constraints>>

\* net runs its closure once: the connections arrive with the net.
DeclareNet(name, connections) ==
  /\ Len(nets) < MaxNets
  /\ nets' = Append(nets, [name |-> name, connections |-> connections])
  /\ UNCHANGED <<devices, constraints>>

Constrain(c) ==
  /\ Len(constraints) < MaxConstraints
  /\ constraints' = Append(constraints, c)
  /\ UNCHANGED <<devices, nets>>

Edit == \/ \E name \in Names : AddDevice(name)
        \/ \E name \in Names, conns \in BoundedSeq(Connection, MaxConnections) :
             DeclareNet(name, conns)
        \/ \E c \in Constraints : Constrain(c)

----------------------------------------------------------------------------
(* The answer, said of the whole circuit at once *)

Known == ToSet(devices)

Repeated(names) ==
  {names[j] : j \in {k \in DOMAIN names : \E i \in 1 .. k - 1 : names[i] = names[k]}}

NetNames == [i \in DOMAIN nets |-> nets[i].name]

\* The bindings of terminals to nets, by net and position in it.
Bindings == {b \in (1 .. Len(nets)) \X (1 .. MaxConnections) :
               b[2] <= Len(nets[b[1]].connections)}
At(b)       == nets[b[1]].connections[b[2]]
Terminal(b) == <<At(b).device, At(b).port.idx>>
Precedes(a, b) == a[1] < b[1] \/ (a[1] = b[1] /\ a[2] < b[2])

Unknown == {At(b).device : b \in Bindings}
           \cup UNION {ToSet(DeviceRefs(constraints[i])) : i \in DOMAIN constraints}

\* Two nets of different names claim a terminal: the first to bind it is net_a.
Conflicts ==
  {p \in Bindings \X Bindings :
     /\ At(p[1]).device \in Known
     /\ Terminal(p[1]) = Terminal(p[2])
     /\ nets[p[1][1]].name # nets[p[2][1]].name
     /\ ~ \E c \in Bindings : Precedes(c, p[1]) /\ Terminal(c) = Terminal(p[1])}

Error(kind, of) == [kind |-> kind, of |-> of]

CircuitErrors ==
  {Error("DuplicateDevice", <<n>>) : n \in Repeated(devices)}
  \cup {Error("DuplicateNet", <<n>>) : n \in Repeated(NetNames)}
  \cup {Error("UnknownDevice", <<n>>) : n \in Unknown \ Known}
  \cup {Error("TerminalConflict",
              << At(p[2]).device, At(p[2]).port.name,
                 nets[p[1][1]].name, nets[p[2][1]].name >>) : p \in Conflicts}

FloatingNets    == {nets[i].name : i \in {k \in DOMAIN nets :
                                            Len(nets[k].connections) < 2}}
Unsupported     == {constraints[i].kind : i \in {k \in DOMAIN constraints :
                                     IntentClass(constraints[k]) = "Unsupported"}}

Answer ==
  IF CircuitErrors # {}
  THEN [tag |-> "err", errors |-> CircuitErrors]
  ELSE [tag |-> "ok", devices |-> devices, netCount |-> Len(nets),
        constraints |-> constraints,
        floating |-> FloatingNets, unsupported |-> Unsupported]

Build == result' = Answer /\ UNCHANGED circuit

Init == /\ devices = <<>> /\ nets = <<>> /\ constraints = <<>>
        /\ result = NoResult

Next == (Edit /\ UNCHANGED result) \/ Build

Spec == Init /\ [][Next]_<<circuit, result>>
=============================================================================
