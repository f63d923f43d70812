------------------------------ MODULE FrontEnds ------------------------------
(***************************************************************************)
(* The ways to reach the library: Rust calls (Flow), the philis command    *)
(* (crates/api/src/main.rs), each invocation of which is a process of its  *)
(* own, and the Python module (python.rs), whose circuits are kept and run *)
(* again.  A PDK is loaded and handed to run, but no stage looks at it, so *)
(* that its loading is followed apart.                                     *)
(***************************************************************************)
EXTENDS Flow, Quickstart, PdkReader

CONSTANT MaxShown   \* bound on what is shown to a user

VARIABLES
  user,       \* "rust", "terminal" or "python", or "loader", who loads PDKs
  asked,      \* the call or invocation whose quickstart runs, or "none"
  pyCircuit,  \* the Python caller's Circuit with the deck it was read from, or None
  shown       \* what was shown so far, with the deck or text that was given

frontVars == <<user, asked, pyCircuit, shown>>

Show(entry) == shown' = shown \cup {entry} /\ Cardinality(shown') <= MaxShown

\* What a flow prints or returns of one deck.
Counters(nl, flow) ==
  [ devices |-> DeviceCount(nl), placed |-> flow.placement.placedCount,
    segments |-> flow.routing.routedSegments ]

\* What is shown of the flow over nl, which came from the deck.
FlowEntry(via, deck, nl) ==
  IF DeviceCount(nl) = 0
  THEN [via |-> via, deck |-> deck, exit |-> "FAILURE"]
  ELSE [ via |-> via, deck |-> deck, exit |-> "SUCCESS",
         counters |-> Counters(nl, RunFlow(nl)) ]

----------------------------------------------------------------------------
(* The command: `philis <file>` is "batch", otherwise a menu is shown *)

Terminal == user = "terminal" /\ asked = "none"

\* "batch", and choice 1 of the menu.  Bound: since the quickstart keeps nothing,
\* only a user's first call of it is followed.
AskQuickstart(via) ==
  /\ asked = "none" /\ asked' = via /\ shown = {} /\ pyCircuit = None
  /\ \E input \in Texts : PlaceAndRoute(input)
  /\ UNCHANGED <<user, pyCircuit, shown>>

\* A file that cannot be read, text that is no netlist, or an unknown choice.
Fail(via) ==
  /\ Terminal
  /\ Show([via |-> via, exit |-> "FAILURE"])
  /\ UNCHANGED <<user, asked, pyCircuit, quickVars>>

\* The choices "q", "quit" and "", and the end of the input.
Quit ==
  /\ Terminal
  /\ Show([via |-> "quit", exit |-> "SUCCESS"])
  /\ UNCHANGED <<user, asked, pyCircuit, quickVars>>

\* The answer of a quickstart; a panic ends the process too.
ShowAnswer ==
  /\ asked # "none" /\ asked' = "none" /\ QuickReturn
  /\ Show([ via |-> asked, answer |-> answer,
            exit |-> IF answer.kind \in {"placed", "nothing"} THEN "SUCCESS" ELSE "FAILURE" ])
  /\ UNCHANGED <<user, pyCircuit>>

\* Mutant: the deck is run as it was read.
MenuFlowUnpromoted(deck) ==
  /\ Terminal
  /\ Show(FlowEntry("flow", deck, deck))
  /\ UNCHANGED <<user, asked, pyCircuit, quickVars>>

\* Choice 2: the first subckt becomes the top, and the flow is run.
MenuFlow(deck) ==
  /\ Terminal
  /\ Show(FlowEntry("flow", deck, PromoteFirstSubckt(deck)))
  /\ UNCHANGED <<user, asked, pyCircuit, quickVars>>

\* Choice 3.
MenuInspect(deck) ==
  /\ Terminal
  /\ Show([ via |-> "inspect", deck |-> deck, exit |-> "SUCCESS",
            devices |-> DeviceCount(deck), subckts |-> Len(deck.order) ])
  /\ UNCHANGED <<user, asked, pyCircuit, quickVars>>

----------------------------------------------------------------------------
(* The Python module *)

Python == user = "python" /\ asked = "none"

\* from_spice_text and from_spice_file.
PyFromSpice(deck) ==
  /\ Python
  /\ pyCircuit' = [held |-> TRUE, deck |-> deck, inner |-> PromoteFirstSubckt(deck)]
  /\ UNCHANGED <<user, asked, shown, quickVars>>

\* A ValueError leaves the names of the caller as they were.
PyRefused ==
  /\ Python
  /\ Show([via |-> "ValueError", exit |-> "FAILURE"])
  /\ UNCHANGED <<user, asked, pyCircuit, quickVars>>

PyRun ==
  /\ Python /\ pyCircuit # None
  /\ Show(FlowEntry("pyrun", pyCircuit.deck, pyCircuit.inner))
  /\ UNCHANGED <<user, asked, pyCircuit, quickVars>>

----------------------------------------------------------------------------

FrontInit ==
  /\ Init /\ QuickInit /\ PdkInit
  /\ user \in {"rust", "terminal", "python", "loader"}
  /\ asked = "none" /\ pyCircuit = None /\ shown = {}

AtTerminal ==
  \/ \E via \in {"batch", "menu"} : user = "terminal" /\ AskQuickstart(via)
  \/ \E via \in {"unreadable", "no netlist", "unknown choice"} : Fail(via)
  \/ Quit
  \/ \E deck \in Netlists : MenuFlow(deck) \/ MenuInspect(deck)

InPython ==
  \/ user = "python" /\ AskQuickstart("place_and_route")
  \/ \E deck \in Netlists : PyFromSpice(deck)
  \/ PyRefused
  \/ PyRun

Quickly == QuickStep /\ UNCHANGED frontVars

FrontNext ==
  \/ user = "rust" /\ Next /\ UNCHANGED <<frontVars, quickVars, pdkVars>>
  \/ (AtTerminal \/ InPython \/ Quickly \/ ShowAnswer) /\ UNCHANGED <<vars, pdkVars>>
  \/ user = "loader" /\ PdkNext /\ UNCHANGED <<vars, frontVars, quickVars>>

FrontSpec == FrontInit /\ [][FrontNext]_<<vars, quickVars, pdkVars, frontVars>>

----------------------------------------------------------------------------
(* What must hold of what users are shown *)

\* The body that the flow places once more than inspection counts it, since it
\* stays in its definition: the first subckt's, if the deck has no top level.
PromotedTwice(deck) ==
  IF deck.top = <<>> /\ deck.order # <<>> THEN Len(deck.defs[Head(deck.order)].body) ELSE 0

\* Of one deck the command and the Python module tell the same, and what is placed
\* is what the netlist they run has, which inspection accounts for.
FrontEndsAgree ==
  \A a, b \in {e \in shown : "deck" \in DOMAIN e} : a.deck = b.deck =>
    /\ a.via # "inspect" /\ b.via # "inspect" =>
         a.exit = b.exit /\ (a.exit = "SUCCESS" => a.counters = b.counters)
    /\ a.via # "inspect" /\ b.via = "inspect" =>
         /\ a.exit = "SUCCESS" <=> b.devices > 0
         /\ a.exit = "SUCCESS" =>
              /\ a.counters.placed = a.counters.devices
              /\ a.counters.placed = b.devices + PromotedTwice(a.deck)
=============================================================================
