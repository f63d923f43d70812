-------------------------- MODULE MCCircuitBuilder --------------------------
(* CircuitBuilder over two names and the ports that "g" is of a transistor and *)
(* "p" of a resistor: both are the terminal of index 0.                        *)
EXTENDS CircuitBuilder, Ports

Gate == PortRefFromName("Nmos", "g")
Plus == PortRefFromName("Resistor", "p")

AliasedPorts  == Gate \cup Plus
OnePort       == Gate
NoConstraints == {}

\* One constraint of each intent class, and one that refers to no device.
MCConstraints ==
  { [kind |-> "Symmetric", names |-> <<"a", "b">>], [kind |-> "Matching", names |-> <<"a", "a">>],
    [kind |-> "SetNetClass", names |-> <<"b">>],
    [kind |-> "NetMatch", names |-> <<"b", "a">>], [kind |-> "DoNotRoute", names |-> <<"b">>] }

\* Two shapes of circuit: a little of everything, and nets that contend for the
\* terminals of one device.
Contending ==
  /\ constraints = <<>> /\ devices \in {<<>>, <<"a">>}
  /\ \A n \in DOMAIN nets : \A c \in ToSet(nets[n].connections) :
       c.port \in Gate /\ (n > 1 => c.device = "a")

Mixed ==
  /\ Len(nets) <= 2 /\ \A n \in ToSet(nets) : Len(n.connections) <= 1
  /\ constraints = <<>> \/ Len(devices) <= 1 \/ Len(nets) <= 1

MCNext == Next /\ (Contending \/ Mixed)'

MCSpec == Init /\ [][MCNext]_vars /\ WF_vars(BuildStep)
=============================================================================
