-------------------------------- MODULE Ports --------------------------------
(***************************************************************************)
(* Device ports and their names (crates/api/src/port.rs).  A net connects  *)
(* a PortRef, an index and a name, which is made of a port of any of three *)
(* families; nothing says whether the device has it.                       *)
(***************************************************************************)
EXTENDS Integers, Sequences, TLC

DeviceKind == {"Nmos", "Pmos", "Resistor", "Capacitor", "Bjt", "Diode", "Generic"}

\* The ports of each family, in the order of their indices.
MosfetPort  == <<"gate", "drain", "source", "bulk">>
PassivePort == <<"plus", "minus">>
BjtPort     == <<"collector", "base", "emitter">>

\* valid_port_names: a generic device is taken for a transistor.
ValidPortNames(kind) ==
  CASE kind \in {"Nmos", "Pmos", "Generic"} -> MosfetPort
    [] kind \in {"Resistor", "Capacitor", "Diode"} -> PassivePort
    [] kind = "Bjt" -> BjtPort

PortRef(family, k) == [idx |-> k - 1, name |-> family[k]]

\* Other names of a port; "b" is one of a MOSFET and of a bipolar transistor.
Aliases(port) ==
  CASE port = "gate" -> {"g"} [] port = "drain" -> {"d"} [] port = "source" -> {"s"}
    [] port = "bulk" -> {"body", "b"}
    [] port = "plus" -> {"p", "+", "anode"} [] port = "minus" -> {"m", "-", "cathode"}
    [] port = "collector" -> {"c"} [] port = "base" -> {"b"} [] port = "emitter" -> {"e"}

\* The port of a lower-case name, if there is one.
PortRefFromName(kind, name) ==
  LET family == ValidPortNames(kind)
  IN  {PortRef(family, k) : k \in {i \in DOMAIN family : name \in {family[i]} \cup Aliases(family[i])}}
=============================================================================
