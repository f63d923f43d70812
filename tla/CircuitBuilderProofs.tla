------------------------ MODULE CircuitBuilderProofs ------------------------
(* build computes what CircuitPromise promises, for circuits of any size: what *)
(* each loop has found so far is what is at fault in the part of the circuit   *)
(* that it has looked at (Found), and the parts add up to the circuit.         *)
EXTENDS CircuitBuilder, TLAPS

ErrorRecord == [kind : ErrorKinds, of : Seq(Names \cup STRING)]

NetsBounded == \A n \in DOMAIN nets : Len(nets[n].connections) <= MaxConnections

LEMMA BoundedSeqIsSeq ==
  ASSUME NEW S, NEW n \in Nat, NEW s \in Promise!BoundedSeq(S, n)
  PROVE  s \in Seq(S) /\ Len(s) <= n
<1>1. PICK m \in 0 .. n : s \in [1 .. m -> S]
  BY DEF Promise!BoundedSeq, Promise!SeqOf
<1>2. QED
  BY <1>1

LEMMA AppendSet ==
  ASSUME NEW S, NEW s \in Seq(S), NEW e \in S
  PROVE  /\ Append(s, e) \in Seq(S) /\ ToSet(Append(s, e)) = ToSet(s) \cup {e}
         /\ Append(s, e) # <<>>
<1>1. /\ Append(s, e) \in Seq(S) /\ DOMAIN Append(s, e) = DOMAIN s \cup {Len(s) + 1}
      /\ \A k \in DOMAIN s : Append(s, e)[k] = s[k]
      /\ Append(s, e)[Len(s) + 1] = e /\ Append(s, e) # <<>>
  OBVIOUS
<1>2. QED
  BY <1>1 DEF ToSet

LEMMA EmptySet == ToSet(<< >>) = {}
BY DEF ToSet

LEMMA OnlyEmptySet ==
  ASSUME NEW S, NEW s \in Seq(S), ToSet(s) = {}
  PROVE  s = << >>
<1>1. s # << >> => 1 \in DOMAIN s
  OBVIOUS
<1>2. QED
  BY <1>1 DEF ToSet

LEMMA FourOf ==
  ASSUME NEW S, NEW a \in S, NEW b \in S, NEW c \in S, NEW d \in S
  PROVE  << a, b, c, d >> \in Seq(S)
OBVIOUS

LEMMA ErrorTypes ==
  ASSUME NEW n \in Names
  PROVE  /\ \A kind \in ErrorKinds : Error(kind, <<n>>) \in ErrorRecord
         /\ \A p \in STRING, a, b \in Names :
              Error("TerminalConflict", << n, p, a, b >>) \in ErrorRecord
<1> DEFINE Text == Names \cup STRING
<1>1. ASSUME NEW kind \in ErrorKinds, NEW of \in Seq(Text)
      PROVE  Error(kind, of) \in ErrorRecord
  BY DEF Error, ErrorRecord
<1>2. <<n>> \in Seq(Text)
  OBVIOUS
<1>3. ASSUME NEW p \in STRING, NEW a \in Names, NEW b \in Names
      PROVE  << n, p, a, b >> \in Seq(Text)
  <2>1. n \in Text /\ p \in Text /\ a \in Text /\ b \in Text
    OBVIOUS
  <2>2. QED
    BY <2>1, FourOf
<1> HIDE DEF Text
<1>4. ASSUME NEW kind \in ErrorKinds
      PROVE  Error(kind, <<n>>) \in ErrorRecord
  BY <1>1, <1>2, Zenon
<1>5. ASSUME NEW p \in STRING, NEW a \in Names, NEW b \in Names
      PROVE  Error("TerminalConflict", << n, p, a, b >>) \in ErrorRecord
  <2>1. "TerminalConflict" \in ErrorKinds
    BY DEF ErrorKinds
  <2>2. QED
    BY <1>1, <1>3, <2>1, Zenon
<1>6. QED
  BY <1>4, <1>5, Zenon

----------------------------------------------------------------------------
(* Types *)

Typed == TypeOK /\ NetsBounded

LEMMA RefTypes ==
  ASSUME constraints \in Seq(Constraints), NEW k \in DOMAIN constraints
  PROVE  /\ Promise!DeviceRefs(constraints[k]) \in Seq(Names)
         /\ constraints[k].kind \in Promise!Kinds
<1>1. constraints[k] \in [kind : Promise!Kinds, names : Seq(Names)]
  BY ConstraintsAssumption
<1>2. QED
  BY <1>1 DEF Promise!DeviceRefs

LEMMA ConnectionTypes ==
  ASSUME nets \in Seq(Promise!Net), NEW n \in DOMAIN nets
  PROVE  /\ nets[n].name \in Names /\ nets[n].connections \in Seq(Promise!Connection)
         /\ \A k \in DOMAIN nets[n].connections :
              /\ nets[n].connections[k].device \in Names
              /\ nets[n].connections[k].port.idx \in {p.idx : p \in Ports}
              /\ nets[n].connections[k].port.name \in STRING
<1>1. nets[n] \in Promise!Net
  OBVIOUS
<1>2. nets[n].name \in Names /\ nets[n].connections \in Seq(Promise!Connection)
  BY <1>1 DEF Promise!Net
<1>3. ASSUME NEW k \in DOMAIN nets[n].connections
      PROVE  /\ nets[n].connections[k].device \in Names
             /\ nets[n].connections[k].port.idx \in {p.idx : p \in Ports}
             /\ nets[n].connections[k].port.name \in STRING
  <2>1. nets[n].connections[k] \in Promise!Connection
    BY <1>2, <1>3
  <2>2. nets[n].connections[k].device \in Names /\ nets[n].connections[k].port \in Ports
    BY <2>1 DEF Promise!Connection
  <2>3. QED
    BY <2>2, PortsAssumption
<1>4. QED
  BY <1>2, <1>3

LEMMA TypedInit == Init => Typed
BY DEF Init, Typed, TypeOK, NetsBounded, Promise!NoResult, EmptyMap, NoWarnings

LEMMA EditTyped ==
  ASSUME Typed, Edit
  PROVE  Typed'
<1>0. UNCHANGED <<result, phase, i, j, seen, owner, errors, warnings>> /\ Promise!Edit
  BY DEF Edit, loopVars
<1>1. CASE \E name \in Names : Promise!AddDevice(name)
  BY <1>0, <1>1 DEF Typed, TypeOK, NetsBounded, Promise!AddDevice
<1>2. ASSUME NEW name \in Names, NEW conns \in Promise!BoundedSeq(Promise!Connection, MaxConnections),
             Promise!DeclareNet(name, conns)
      PROVE  Typed'
  <2>1. conns \in Seq(Promise!Connection) /\ Len(conns) <= MaxConnections
    BY BoundedSeqIsSeq, BoundAssumption
  <2>2. [name |-> name, connections |-> conns] \in Promise!Net
    BY <2>1 DEF Promise!Net
  <2>3. nets' = Append(nets, [name |-> name, connections |-> conns])
        /\ UNCHANGED <<devices, constraints>>
    BY <1>2 DEF Promise!DeclareNet
  <2>4. nets' \in Seq(Promise!Net) /\ NetsBounded'
    BY <2>1, <2>2, <2>3 DEF Typed, TypeOK, NetsBounded
  <2>5. QED
    BY <1>0, <2>3, <2>4 DEF Typed, TypeOK
<1>3. CASE \E c \in Constraints : Promise!Constrain(c)
  BY <1>0, <1>3 DEF Typed, TypeOK, NetsBounded, Promise!Constrain
<1>4. \/ \E name \in Names : Promise!AddDevice(name)
      \/ \E name \in Names, conns \in Promise!BoundedSeq(Promise!Connection, MaxConnections) :
           Promise!DeclareNet(name, conns)
      \/ \E c \in Constraints : Promise!Constrain(c)
  BY <1>0, Zenon DEF Promise!Edit
<1>5. QED
  BY <1>1, <1>2, <1>3, <1>4

LEMMA CheckNameTyped ==
  ASSUME Typed, NEW name \in Names, NEW kind \in {"DuplicateDevice", "DuplicateNet"},
         CheckName(name, kind)
  PROVE  Typed'
<1>1. errors' \in Seq(ErrorRecord)
  <2>1. Error(kind, <<name>>) \in ErrorRecord
    BY ErrorTypes DEF ErrorKinds
  <2>2. errors \in Seq(ErrorRecord)
    BY DEF Typed, TypeOK, ErrorRecord
  <2>3. QED
    BY <2>1, <2>2, AppendSet DEF CheckName
<1>2. QED
  BY <1>1 DEF Typed, TypeOK, NetsBounded, CheckName, ErrorRecord

LEMMA TypedNext == Typed /\ [Next]_vars => Typed'
<1> SUFFICES ASSUME Typed, [Next]_vars
             PROVE  Typed'
  OBVIOUS
<1> USE DEF Typed
<1>1. CASE Edit
  BY <1>1, EditTyped
<1>2. CASE StartBuild
  BY <1>2 DEF StartBuild, Loop, TypeOK, NetsBounded, EmptyMap
<1>3. CASE CheckDevice
  <2>1. devices[i] \in Names
    BY <1>3 DEF CheckDevice, TypeOK
  <2>2. QED
    BY <1>3, <2>1, CheckNameTyped DEF CheckDevice
<1>4. CASE DevicesChecked
  BY <1>4 DEF DevicesChecked, Loop, TypeOK, NetsBounded
<1>5. CASE CheckNet
  <2>1. nets[i].name \in Names
    BY <1>5, ConnectionTypes DEF CheckNet, TypeOK
  <2>2. QED
    BY <1>5, <2>1, CheckNameTyped DEF CheckNet
<1>6. CASE NetsChecked
  <2>1. /\ phase' = "terminals" /\ i' = 1 /\ j' = 1 /\ seen' = {}
        /\ UNCHANGED <<devices, nets, constraints, result, owner, errors, warnings>>
    BY <1>6, Zenon DEF NetsChecked, Loop
  <2>2. QED
    BY <2>1 DEF TypeOK, NetsBounded
<1>7. CASE BindTerminal
  <2> DEFINE c == nets[i].connections[j]
             terminal == <<c.device, c.port.idx>>
  <2>1. /\ nets[i].name \in Names /\ c.device \in Names /\ c.port.name \in STRING
        /\ terminal \in Names \X {p.idx : p \in Ports}
    <3>1. i \in DOMAIN nets /\ j \in DOMAIN nets[i].connections
      <4>0. i <= Len(nets) /\ j <= Len(nets[i].connections)
        BY <1>7, Zenon DEF BindTerminal
      <4>1. i \in DOMAIN nets /\ nets \in Seq(Promise!Net) /\ j \in Nat \ {0}
        BY <4>0 DEF TypeOK
      <4>2. nets[i].connections \in Seq(Promise!Connection)
        BY <4>1, ConnectionTypes
      <4>3. QED
        BY <4>0, <4>1, <4>2
    <3>2. QED
      BY <3>1, ConnectionTypes DEF TypeOK
  <2>2. /\ DOMAIN owner' \subseteq Names \X {p.idx : p \in Ports}
        /\ \A t \in DOMAIN owner' : owner'[t] \in Names
    <3>1. \/ owner' = owner
          \/ owner' = [t \in DOMAIN owner \cup {terminal} |->
                         IF t = terminal THEN nets[i].name ELSE owner[t]]
      BY <1>7, Zenon DEF BindTerminal
    <3>2. QED
      BY <2>1, <3>1 DEF TypeOK
  <2>3. errors' \in Seq(ErrorRecord)
    <3>1. errors \in Seq(ErrorRecord)
      BY DEF TypeOK, ErrorRecord
    <3>2. CASE c.device \notin Known
      <4>1. errors' = Append(errors, Error("UnknownDevice", <<c.device>>))
        BY <1>7, <3>2 DEF BindTerminal
      <4>2. Error("UnknownDevice", <<c.device>>) \in ErrorRecord
        BY <2>1, ErrorTypes DEF ErrorKinds
      <4>3. QED
        BY <3>1, <4>1, <4>2, AppendSet, SMTT(20)
    <3>3. CASE c.device \in Known
      <4>1. \/ errors' = errors
            \/ /\ owner[terminal] \in Names
               /\ errors' = Append(errors, Error("TerminalConflict",
                              << c.device, c.port.name, owner[terminal], nets[i].name >>))
        BY <1>7, <3>3 DEF BindTerminal, TypeOK
      <4>2. owner[terminal] \in Names =>
              Error("TerminalConflict", << c.device, c.port.name, owner[terminal], nets[i].name >>)
                \in ErrorRecord
        BY <2>1, ErrorTypes
      <4>3. QED
        <5>1. \A e \in ErrorRecord : Append(errors, e) \in Seq(ErrorRecord)
          BY <3>1, SMTT(20)
        <5>2. QED
          BY <3>1, <4>1, <4>2, <5>1, Zenon
    <3>4. QED
      BY <3>2, <3>3
  <2>4. QED
    <3>1. j' = j + 1 /\ UNCHANGED <<devices, nets, constraints, result, phase, i, seen, warnings>>
      BY <1>7, Zenon DEF BindTerminal
    <3>2. QED
      BY <2>2, <2>3, <3>1 DEF TypeOK, NetsBounded, ErrorRecord
<1>8. CASE NextNet
  BY <1>8 DEF NextNet, TypeOK, NetsBounded
<1>9. CASE TerminalsBound
  BY <1>9 DEF TerminalsBound, Loop, TypeOK, NetsBounded
<1>10. CASE CheckRef
  <2>1. Promise!DeviceRefs(constraints[i])[j] \in Names
    BY <1>10, RefTypes DEF CheckRef, TypeOK
  <2>2. errors' \in Seq(ErrorRecord)
    <3>1. errors \in Seq(ErrorRecord)
      BY DEF TypeOK, ErrorRecord
    <3>2. Error("UnknownDevice", <<Promise!DeviceRefs(constraints[i])[j]>>) \in ErrorRecord
      BY <2>1, ErrorTypes DEF ErrorKinds
    <3>3. QED
      BY <1>10, <3>1, <3>2, AppendSet DEF CheckRef
  <2>3. QED
    BY <1>10, <2>2 DEF CheckRef, TypeOK, NetsBounded, ErrorRecord
<1>11. CASE NextConstraint
  BY <1>11 DEF NextConstraint, TypeOK, NetsBounded
<1>12. CASE Refuse
  BY <1>12 DEF Refuse, Return, Loop, TypeOK, NetsBounded, EmptyMap, NoWarnings
<1>13. CASE Accept
  BY <1>13 DEF Accept, Loop, TypeOK, NetsBounded
<1>14. CASE WarnOfNet
  <2>1. nets[i].name \in Names
    BY <1>14, ConnectionTypes DEF WarnOfNet, TypeOK
  <2>2. warnings' \in [floating : Seq(Names), unsupported : Seq(Promise!Kinds)]
    <3>1. Append(warnings.floating, nets[i].name) \in Seq(Names)
      BY <2>1 DEF TypeOK
    <3>2. QED
      BY <1>14, <3>1 DEF WarnOfNet, TypeOK
  <2>3. QED
    BY <1>14, <2>2 DEF WarnOfNet, TypeOK, NetsBounded
<1>15. CASE NetsWarnedOf
  BY <1>15 DEF NetsWarnedOf, Loop, TypeOK, NetsBounded
<1>16. CASE WarnOfConstraint
  <2>1. constraints[i].kind \in Promise!Kinds
    BY <1>16, RefTypes DEF WarnOfConstraint, TypeOK
  <2>2. warnings' \in [floating : Seq(Names), unsupported : Seq(Promise!Kinds)]
    <3>1. Append(warnings.unsupported, constraints[i].kind) \in Seq(Promise!Kinds)
      BY <2>1 DEF TypeOK
    <3>2. QED
      BY <1>16, <3>1 DEF WarnOfConstraint, TypeOK
  <2>3. QED
    BY <1>16, <2>2 DEF WarnOfConstraint, TypeOK, NetsBounded
<1>17. CASE Finish
  BY <1>17 DEF Finish, Return, Loop, TypeOK, NetsBounded, EmptyMap, NoWarnings
<1>18. CASE UNCHANGED vars
  BY <1>18 DEF vars, loopVars, TypeOK, NetsBounded
<1>19. QED
  BY <1>1, <1>2, <1>3, <1>4, <1>5, <1>6, <1>7, <1>8, <1>9, <1>10, <1>11, <1>12, <1>13, <1>14,
     <1>15, <1>16, <1>17, <1>18 DEF Next, BuildStep

\* Every variable of the builder and its build keeps its type.
THEOREM TypeCorrect == Spec => []TypeOK
BY TypedInit, TypedNext, PTL DEF Spec, Typed

----------------------------------------------------------------------------
(* Positions: lens[k] of them in row k, looked at row by row *)

Grid(lens)       == {b \in (DOMAIN lens) \X (Nat \ {0}) : b[2] <= lens[b[1]]}
Before(a, b)     == a[1] < b[1] \/ (a[1] = b[1] /\ a[2] < b[2])
Upto(lens, m, n) == {b \in Grid(lens) : Before(b, <<m, n>>)}

LEMMA GridTypes ==
  ASSUME NEW lens \in Seq(Nat), NEW b \in Grid(lens)
  PROVE  /\ b[1] \in 1 .. Len(lens) /\ b[1] \in DOMAIN lens /\ b[1] \in Nat \ {0}
         /\ b[2] \in Nat \ {0} /\ b = << b[1], b[2] >>
         /\ lens[b[1]] \in Nat /\ b[2] <= lens[b[1]]
<1>1. b \in (DOMAIN lens) \X (Nat \ {0}) /\ b[2] <= lens[b[1]]
  BY DEF Grid
<1>2. b[1] \in DOMAIN lens /\ b[2] \in Nat \ {0} /\ b = << b[1], b[2] >>
  BY <1>1
<1>3. DOMAIN lens = 1 .. Len(lens)
  OBVIOUS
<1>4. QED
  BY <1>1, <1>2, <1>3

LEMMA GridOrder ==
  ASSUME NEW lens \in Seq(Nat), NEW a \in Grid(lens), NEW b \in Grid(lens)
  PROVE  /\ a[1] \in Nat \ {0} /\ a[2] \in Nat \ {0} /\ a = << a[1], a[2] >>
         /\ Before(a, b) \/ Before(b, a) \/ a = b
         /\ ~ (Before(a, b) /\ Before(b, a))
<1>1. /\ a[1] \in Nat \ {0} /\ a[2] \in Nat \ {0} /\ a = << a[1], a[2] >>
      /\ b[1] \in Nat \ {0} /\ b[2] \in Nat \ {0} /\ b = << b[1], b[2] >>
  BY GridTypes
<1>2. a[1] = b[1] /\ a[2] = b[2] => a = b
  BY <1>1
<1>3. QED
  BY <1>1, <1>2 DEF Before

LEMMA GridStart ==
  ASSUME NEW lens \in Seq(Nat)
  PROVE  Upto(lens, 1, 1) = {}
<1>1. ASSUME NEW b \in Grid(lens)
      PROVE  ~ Before(b, << 1, 1 >>)
  BY <1>1, GridTypes DEF Before
<1>2. QED
  BY <1>1 DEF Upto

LEMMA GridStep ==
  ASSUME NEW lens \in Seq(Nat), NEW m \in DOMAIN lens, NEW n \in 1 .. lens[m]
  PROVE  /\ << m, n >> \in Grid(lens)
         /\ Upto(lens, m, n + 1) = Upto(lens, m, n) \cup {<< m, n >>}
<1>1. << m, n >> \in Grid(lens)
  <2>1. << m, n >> \in (DOMAIN lens) \X (Nat \ {0}) /\ n <= lens[m]
    OBVIOUS
  <2>2. QED
    BY <2>1 DEF Grid
<1>2. ASSUME NEW b \in Grid(lens)
      PROVE  Before(b, << m, n + 1 >>) <=> Before(b, << m, n >>) \/ b = << m, n >>
  <2>1. b[1] \in Nat /\ b[2] \in Nat /\ b = << b[1], b[2] >> /\ m \in Nat /\ n \in Nat
    BY <1>2, GridOrder
  <2>2. b = << m, n >> <=> b[1] = m /\ b[2] = n
    BY <2>1
  <2>3. QED
    BY <2>1, <2>2 DEF Before
<1>3. QED
  BY <1>1, <1>2 DEF Upto

LEMMA GridRow ==
  ASSUME NEW lens \in Seq(Nat), NEW m \in DOMAIN lens, NEW n \in Nat, n > lens[m]
  PROVE  Upto(lens, m + 1, 1) = Upto(lens, m, n)
<1>1. ASSUME NEW b \in Grid(lens)
      PROVE  Before(b, << m + 1, 1 >>) <=> Before(b, << m, n >>)
  <2>1. b[1] \in Nat /\ b[2] \in Nat \ {0} /\ m \in Nat /\ b[2] <= lens[b[1]] /\ lens[m] \in Nat
    BY <1>1, GridTypes
  <2>2. b[1] = m => b[2] < n
    BY <2>1
  <2>3. QED
    BY <2>1, <2>2, SMTT(20) DEF Before
<1>2. QED
  BY <1>1 DEF Upto

LEMMA GridEnd ==
  ASSUME NEW lens \in Seq(Nat), NEW m \in Nat, m > Len(lens), NEW n
  PROVE  Upto(lens, m, n) = Grid(lens)
<1>1. ASSUME NEW b \in Grid(lens)
      PROVE  Before(b, << m, n >>)
  BY <1>1, GridTypes DEF Before
<1>2. QED
  BY <1>1 DEF Upto

----------------------------------------------------------------------------
(* The errors of the part of a circuit that was looked at *)

DupError(kind, name, S)  == IF name \in S THEN {Error(kind, << name >>)} ELSE {}
UnknownError(dv, name)   == IF name \in ToSet(dv) THEN {} ELSE {Error("UnknownDevice", << name >>)}

SeenOf(names, n) == {names[k] : k \in 1 .. n}
DupErrors(names, kind, n) ==
  {Error(kind, <<names[k]>>) : k \in {l \in 1 .. n : \E m \in 1 .. l - 1 : names[m] = names[l]}}

NamesOf(nt)    == [k \in DOMAIN nt |-> nt[k].name]
NetLens(nt)    == [k \in DOMAIN nt |-> Len(nt[k].connections)]
ConnAt(nt, b)  == nt[b[1]].connections[b[2]]
TermAt(nt, b)  == << ConnAt(nt, b).device, ConnAt(nt, b).port.idx >>
First(nt, b)   == \A c \in Grid(NetLens(nt)) : Before(c, b) => TermAt(nt, c) # TermAt(nt, b)

InConflict(dv, nt, a, b) ==
  /\ ConnAt(nt, a).device \in ToSet(dv) /\ TermAt(nt, a) = TermAt(nt, b)
  /\ nt[a[1]].name # nt[b[1]].name /\ First(nt, a)
ConflictError(nt, a, b) ==
  Error("TerminalConflict", << ConnAt(nt, b).device, ConnAt(nt, b).port.name,
                               nt[a[1]].name, nt[b[1]].name >>)

\* Those of the bindings in B, each said of the binding that is found at fault.
UnboundErrors(dv, nt, B) ==
  {Error("UnknownDevice", << ConnAt(nt, b).device >>) :
     b \in {c \in B : ConnAt(nt, c).device \notin ToSet(dv)}}
Rivals(dv, nt, b)         == {a \in Grid(NetLens(nt)) : InConflict(dv, nt, a, b)}
Clashes(dv, nt, b)        == {ConflictError(nt, a, b) : a \in Rivals(dv, nt, b)}
ConflictErrors(dv, nt, B) == UNION {Clashes(dv, nt, b) : b \in B}
BindErrors(dv, nt, B) == UnboundErrors(dv, nt, B) \cup ConflictErrors(dv, nt, B)

RefLens(cs)   == [k \in DOMAIN cs |-> Len(Promise!DeviceRefs(cs[k]))]
RefAt(cs, r)  == Promise!DeviceRefs(cs[r[1]])[r[2]]
RefErrors(dv, cs, R) ==
  {Error("UnknownDevice", << RefAt(cs, r) >>) : r \in {q \in R : RefAt(cs, q) \notin ToSet(dv)}}

Declared(dv, nt) ==
  DupErrors(dv, "DuplicateDevice", Len(dv)) \cup DupErrors(NamesOf(nt), "DuplicateNet", Len(nt))
AllErrors(dv, nt, cs) ==
  Declared(dv, nt) \cup BindErrors(dv, nt, Grid(NetLens(nt)))
                   \cup RefErrors(dv, cs, Grid(RefLens(cs)))

LEMMA DupStart ==
  ASSUME NEW names, NEW kind
  PROVE  SeenOf(names, 0) = {} /\ DupErrors(names, kind, 0) = {}
BY DEF SeenOf, DupErrors

LEMMA DupStep ==
  ASSUME NEW names, NEW kind, NEW n \in Nat \ {0}
  PROVE  /\ SeenOf(names, n) = SeenOf(names, n - 1) \cup {names[n]}
         /\ DupErrors(names, kind, n) =
              DupErrors(names, kind, n - 1) \cup DupError(kind, names[n], SeenOf(names, n - 1))
<1>1. \A k : k \in 1 .. n <=> k \in 1 .. n - 1 \/ k = n
  OBVIOUS
<1>2. SeenOf(names, n) = SeenOf(names, n - 1) \cup {names[n]}
  BY <1>1 DEF SeenOf
<1>3. names[n] \in SeenOf(names, n - 1) <=> \E m \in 1 .. n - 1 : names[m] = names[n]
  BY DEF SeenOf
<1> DEFINE Late(k) == {l \in 1 .. k : \E m \in 1 .. l - 1 : names[m] = names[l]}
<1>4. Late(n) = Late(n - 1) \cup (IF names[n] \in SeenOf(names, n - 1) THEN {n} ELSE {})
  BY <1>1, <1>3
<1>5. /\ DupErrors(names, kind, n) = {Error(kind, << names[k] >>) : k \in Late(n)}
      /\ DupErrors(names, kind, n - 1) = {Error(kind, << names[k] >>) : k \in Late(n - 1)}
  BY DEF DupErrors
<1> HIDE DEF Late
<1>6. QED
  BY <1>2, <1>4, <1>5 DEF DupError

LEMMA UnboundStep ==
  ASSUME NEW dv, NEW nt, NEW B, NEW b
  PROVE  UnboundErrors(dv, nt, B \cup {b}) =
           UnboundErrors(dv, nt, B) \cup UnknownError(dv, ConnAt(nt, b).device)
BY DEF UnboundErrors, UnknownError

LEMMA ConflictStep ==
  ASSUME NEW dv, NEW nt, NEW B, NEW b
  PROVE  ConflictErrors(dv, nt, B \cup {b}) =
           ConflictErrors(dv, nt, B) \cup Clashes(dv, nt, b)
BY DEF ConflictErrors

LEMMA RefStep ==
  ASSUME NEW dv, NEW cs, NEW R, NEW r
  PROVE  RefErrors(dv, cs, R \cup {r}) =
           RefErrors(dv, cs, R) \cup UnknownError(dv, RefAt(cs, r))
BY DEF RefErrors, UnknownError

LEMMA EmptyErrors ==
  ASSUME NEW dv, NEW nt, NEW cs
  PROVE  BindErrors(dv, nt, {}) = {} /\ RefErrors(dv, cs, {}) = {}
BY DEF BindErrors, UnboundErrors, ConflictErrors, RefErrors

\* A terminal has one first binding.
LEMMA FirstIsOne ==
  ASSUME NEW nt, NetLens(nt) \in Seq(Nat),
         NEW a \in Grid(NetLens(nt)), NEW b \in Grid(NetLens(nt)),
         First(nt, a), First(nt, b), TermAt(nt, a) = TermAt(nt, b)
  PROVE  a = b
BY GridOrder DEF First

----------------------------------------------------------------------------
(* What was bound so far *)

OwnersFit(dv, nt, B, ow) ==
  /\ \A b \in B : ConnAt(nt, b).device \in ToSet(dv) => TermAt(nt, b) \in DOMAIN ow
  /\ \A t \in DOMAIN ow :
       \E b \in B : First(nt, b) /\ TermAt(nt, b) = t /\ ow[t] = nt[b[1]].name

\* Of the binding that is next: it is the first of its terminal exactly if the
\* terminal has no owner yet, and in conflict with one binding at the most.
LEMMA NextBinding ==
  ASSUME NEW dv, NEW nt, NetLens(nt) \in Seq(Nat),
         NEW m \in DOMAIN nt, NEW n \in 1 .. Len(nt[m].connections),
         NEW ow, OwnersFit(dv, nt, Upto(NetLens(nt), m, n), ow),
         NEW b, b = << m, n >>, ConnAt(nt, b).device \in ToSet(dv)
  PROVE  /\ TermAt(nt, b) \notin DOMAIN ow => First(nt, b) /\ Rivals(dv, nt, b) = {}
         /\ TermAt(nt, b) \in DOMAIN ow =>
              \E a \in Upto(NetLens(nt), m, n) :
                /\ First(nt, a) /\ TermAt(nt, a) = TermAt(nt, b)
                /\ ow[TermAt(nt, b)] = nt[a[1]].name
                /\ nt[a[1]].name = nt[m].name => Rivals(dv, nt, b) = {}
                /\ nt[a[1]].name # nt[m].name => Rivals(dv, nt, b) = {a}
<1> DEFINE G == Grid(NetLens(nt))
           U == Upto(NetLens(nt), m, n)
<1>0. b \in G /\ U = {c \in G : Before(c, b)} /\ b[1] = m
  <2>1. m \in DOMAIN NetLens(nt) /\ n \in 1 .. NetLens(nt)[m]
    BY DEF NetLens
  <2>2. QED
    BY <2>1, GridStep DEF Upto
<1>1. CASE TermAt(nt, b) \notin DOMAIN ow
  <2>1. \A c \in U : TermAt(nt, c) # TermAt(nt, b)
    BY <1>1 DEF OwnersFit, TermAt
  <2>2. First(nt, b)
    BY <1>0, <2>1 DEF First
  <2>3. Rivals(dv, nt, b) = {}
    <3> SUFFICES ASSUME NEW c \in G, InConflict(dv, nt, c, b)
                 PROVE  FALSE
      BY DEF Rivals
    <3>1. c = b
      BY <1>0, <2>2, FirstIsOne DEF InConflict
    <3>2. QED
      BY <3>1 DEF InConflict
  <2>4. QED
    BY <1>1, <2>2, <2>3
<1>2. CASE TermAt(nt, b) \in DOMAIN ow
  <2>1. PICK a \in U : /\ First(nt, a) /\ TermAt(nt, a) = TermAt(nt, b)
                       /\ ow[TermAt(nt, b)] = nt[a[1]].name
    BY <1>2 DEF OwnersFit
  <2>2. a \in G
    BY <1>0
  <2>3. \A c \in Rivals(dv, nt, b) : c = a
    BY <1>0, <2>1, <2>2, FirstIsOne DEF InConflict, Rivals
  <2>4. InConflict(dv, nt, a, b) <=> nt[a[1]].name # nt[m].name
    BY <1>0, <2>1 DEF InConflict, TermAt
  <2>5. /\ nt[a[1]].name = nt[m].name => Rivals(dv, nt, b) = {}
        /\ nt[a[1]].name # nt[m].name => Rivals(dv, nt, b) = {a}
    BY <2>2, <2>3, <2>4 DEF Rivals
  <2>6. QED
    BY <1>2, <2>1, <2>5
<1>3. QED
  BY <1>1, <1>2

----------------------------------------------------------------------------
(* What each loop has found when it runs *)

WarnedNets(nt, n)  == {nt[k].name : k \in {l \in 1 .. n : Len(nt[l].connections) < 2}}
WarnedKinds(cs, n) == {cs[k].kind : k \in {l \in 1 .. n : ~ Promise!IsEngineSupported(cs[l])}}

InDevices ==
  phase = "devices" =>
    /\ i <= Len(devices) + 1
    /\ seen = SeenOf(devices, i - 1)
    /\ ToSet(errors) = DupErrors(devices, "DuplicateDevice", i - 1)

InNets ==
  phase = "nets" =>
    /\ i <= Len(nets) + 1
    /\ seen = SeenOf(NamesOf(nets), i - 1)
    /\ ToSet(errors) = DupErrors(devices, "DuplicateDevice", Len(devices))
                         \cup DupErrors(NamesOf(nets), "DuplicateNet", i - 1)

BoundUpto(dv, nt, m, n, ow, found) ==
  /\ m <= Len(nt) + 1
  /\ found = Declared(dv, nt) \cup BindErrors(dv, nt, Upto(NetLens(nt), m, n))
  /\ OwnersFit(dv, nt, Upto(NetLens(nt), m, n), ow)

InTerminals ==
  phase = "terminals" => BoundUpto(devices, nets, i, j, owner, ToSet(errors))

ReferredUpto(dv, nt, cs, m, n, found) ==
  /\ m <= Len(cs) + 1
  /\ found = Declared(dv, nt) \cup BindErrors(dv, nt, Grid(NetLens(nt)))
                              \cup RefErrors(dv, cs, Upto(RefLens(cs), m, n))

InRefs ==
  phase = "refs" => ReferredUpto(devices, nets, constraints, i, j, ToSet(errors))

InWarnings ==
  /\ phase \in {"floating", "unsupported"} =>
       errors = << >> /\ AllErrors(devices, nets, constraints) = {}
  /\ phase = "floating" =>
       /\ i <= Len(nets) + 1
       /\ ToSet(warnings.floating) = WarnedNets(nets, i - 1) /\ warnings.unsupported = << >>
  /\ phase = "unsupported" =>
       /\ i <= Len(constraints) + 1
       /\ ToSet(warnings.floating) = WarnedNets(nets, Len(nets))
       /\ ToSet(warnings.unsupported) = WarnedKinds(constraints, i - 1)

Untouched ==
  /\ phase \in {"edit", "devices", "nets"} => owner = EmptyMap
  /\ phase \notin {"floating", "unsupported"} => warnings = NoWarnings

Found == InDevices /\ InNets /\ InTerminals /\ InRefs /\ InWarnings /\ Untouched

LEMMA Lengths ==
  ASSUME Typed
  PROVE  /\ NetLens(nets) \in Seq(Nat) /\ Len(NetLens(nets)) = Len(nets)
         /\ DOMAIN NetLens(nets) = DOMAIN nets /\ DOMAIN nets = 1 .. Len(nets)
         /\ \A k \in DOMAIN nets : NetLens(nets)[k] = Len(nets[k].connections)
         /\ RefLens(constraints) \in Seq(Nat) /\ Len(RefLens(constraints)) = Len(constraints)
         /\ DOMAIN RefLens(constraints) = DOMAIN constraints
         /\ DOMAIN constraints = 1 .. Len(constraints)
         /\ \A k \in DOMAIN constraints :
              RefLens(constraints)[k] = Len(Promise!DeviceRefs(constraints[k]))
         /\ Len(nets) \in Nat /\ Len(constraints) \in Nat /\ Len(devices) \in Nat
<1>1. nets \in Seq(Promise!Net) /\ constraints \in Seq(Constraints) /\ devices \in Seq(Names)
  BY DEF Typed, TypeOK
<1>2. \A k \in DOMAIN nets : Len(nets[k].connections) \in Nat
  <2> SUFFICES ASSUME NEW k \in DOMAIN nets
               PROVE  Len(nets[k].connections) \in Nat
    OBVIOUS
  <2>1. nets[k].connections \in Seq(Promise!Connection)
    BY <1>1, ConnectionTypes
  <2>2. QED
    BY <2>1
<1>3. \A k \in DOMAIN constraints : Len(Promise!DeviceRefs(constraints[k])) \in Nat
  <2> SUFFICES ASSUME NEW k \in DOMAIN constraints
               PROVE  Len(Promise!DeviceRefs(constraints[k])) \in Nat
    OBVIOUS
  <2>1. Promise!DeviceRefs(constraints[k]) \in Seq(Names)
    BY <1>1, RefTypes
  <2>2. QED
    BY <2>1
<1>4. /\ DOMAIN nets = 1 .. Len(nets) /\ Len(nets) \in Nat /\ Len(devices) \in Nat
      /\ DOMAIN constraints = 1 .. Len(constraints) /\ Len(constraints) \in Nat
  BY <1>1
<1>5. /\ DOMAIN NetLens(nets) = DOMAIN nets
      /\ \A k \in DOMAIN nets : NetLens(nets)[k] = Len(nets[k].connections)
      /\ NetLens(nets) \in [1 .. Len(nets) -> Nat]
  BY <1>2, <1>4 DEF NetLens
<1>6. /\ DOMAIN RefLens(constraints) = DOMAIN constraints
      /\ \A k \in DOMAIN constraints :
           RefLens(constraints)[k] = Len(Promise!DeviceRefs(constraints[k]))
      /\ RefLens(constraints) \in [1 .. Len(constraints) -> Nat]
  BY <1>3, <1>4 DEF RefLens
<1>7. /\ NetLens(nets) \in Seq(Nat) /\ Len(NetLens(nets)) = Len(nets)
      /\ RefLens(constraints) \in Seq(Nat) /\ Len(RefLens(constraints)) = Len(constraints)
  BY <1>4, <1>5, <1>6
<1>8. QED
  BY <1>4, <1>5, <1>6, <1>7

LEMMA FoundInit == Init => Found
BY DEF Init, Found, InDevices, InNets, InTerminals, InRefs, InWarnings, Untouched

LEMMA StartBuildFound ==
  ASSUME Typed, Found, StartBuild
  PROVE  Found'
<1>1. /\ phase = "edit" /\ phase' = "devices" /\ i' = 1 /\ seen' = {}
      /\ owner' = EmptyMap /\ errors' = << >> /\ UNCHANGED <<devices, nets, constraints, warnings>>
  BY DEF StartBuild, Loop
<1>2. Len(devices) \in Nat /\ i' - 1 = 0
  BY <1>1, Lengths
<1>3. SeenOf(devices, 0) = {} /\ DupErrors(devices, "DuplicateDevice", 0) = {}
  BY DupStart
<1>4. InDevices'
  <2>1. i' <= Len(devices') + 1
    BY <1>1, <1>2
  <2>2. seen' = SeenOf(devices', i' - 1)
    BY <1>1, <1>2, <1>3
  <2>3. ToSet(errors') = {}
    BY <1>1, EmptySet
  <2>4. DupErrors(devices', "DuplicateDevice", i' - 1) = {}
    BY <1>1, <1>2, <1>3
  <2>5. QED
    BY <2>1, <2>2, <2>3, <2>4 DEF InDevices
<1>5. QED
  BY <1>1, <1>4 DEF Found, InNets, InTerminals, InRefs, InWarnings, Untouched

LEMMA CheckDeviceFound ==
  ASSUME Typed, Found, CheckDevice
  PROVE  Found'
<1>1. /\ phase = "devices" /\ i \in 1 .. Len(devices) /\ CheckName(devices[i], "DuplicateDevice")
      /\ UNCHANGED <<devices, nets, constraints, phase, owner, warnings>> /\ i' = i + 1
  BY DEF CheckDevice, CheckName, Typed, TypeOK
<1>2. /\ i \in Nat \ {0} /\ i' - 1 = i /\ i' <= Len(devices) + 1
  BY <1>1, Lengths
<1>3. Error("DuplicateDevice", << devices[i] >>) \in ErrorRecord /\ errors \in Seq(ErrorRecord)
  BY <1>1, ErrorTypes DEF Typed, TypeOK, ErrorRecord, ErrorKinds
<1>4. InDevices'
  <2>1. /\ SeenOf(devices, i) = SeenOf(devices, i - 1) \cup {devices[i]}
        /\ DupErrors(devices, "DuplicateDevice", i) =
             DupErrors(devices, "DuplicateDevice", i - 1)
               \cup DupError("DuplicateDevice", devices[i], SeenOf(devices, i - 1))
    BY <1>2, DupStep
  <2>2. seen = SeenOf(devices, i - 1) /\ seen' = SeenOf(devices, i)
    BY <1>1, <2>1 DEF InDevices, Found, CheckName
  <2>3. ToSet(errors') = ToSet(errors) \cup DupError("DuplicateDevice", devices[i], SeenOf(devices, i - 1))
    BY <1>1, <1>3, <2>2, AppendSet DEF CheckName, DupError
  <2>4. QED
    BY <1>1, <1>2, <2>1, <2>2, <2>3 DEF InDevices, Found
<1>5. QED
  BY <1>1, <1>4 DEF Found, InNets, InTerminals, InRefs, InWarnings, Untouched

LEMMA DevicesCheckedFound ==
  ASSUME Typed, Found, DevicesChecked
  PROVE  Found'
<1>1. /\ phase = "devices" /\ phase' = "nets" /\ i > Len(devices) /\ i' = 1 /\ seen' = {}
      /\ UNCHANGED <<devices, nets, constraints, owner, errors, warnings>>
  BY DEF DevicesChecked, Loop
<1>2. Len(nets) \in Nat /\ i' - 1 = 0 /\ i - 1 = Len(devices)
  BY <1>1, Lengths DEF Found, InDevices, Typed, TypeOK
<1>3. InNets'
  BY <1>1, <1>2, DupStart DEF InNets, InDevices, Found
<1>4. QED
  BY <1>1, <1>3 DEF Found, InDevices, InTerminals, InRefs, InWarnings, Untouched

LEMMA CheckNetFound ==
  ASSUME Typed, Found, CheckNet
  PROVE  Found'
<1>1. /\ phase = "nets" /\ i \in 1 .. Len(nets) /\ CheckName(nets[i].name, "DuplicateNet")
      /\ UNCHANGED <<devices, nets, constraints, phase, owner, warnings>> /\ i' = i + 1
  BY DEF CheckNet, CheckName, Typed, TypeOK
<1>2. /\ i \in Nat \ {0} /\ i' - 1 = i /\ i' <= Len(nets) + 1
  BY <1>1, Lengths
<1>3. nets[i].name \in Names /\ NamesOf(nets)[i] = nets[i].name
  BY <1>1, Lengths, ConnectionTypes DEF Typed, TypeOK, NamesOf
<1>4. Error("DuplicateNet", << nets[i].name >>) \in ErrorRecord /\ errors \in Seq(ErrorRecord)
  BY <1>3, ErrorTypes DEF Typed, TypeOK, ErrorRecord, ErrorKinds
<1>5. InNets'
  <2>1. /\ SeenOf(NamesOf(nets), i) = SeenOf(NamesOf(nets), i - 1) \cup {nets[i].name}
        /\ DupErrors(NamesOf(nets), "DuplicateNet", i) =
             DupErrors(NamesOf(nets), "DuplicateNet", i - 1)
               \cup DupError("DuplicateNet", nets[i].name, SeenOf(NamesOf(nets), i - 1))
    <3>1. /\ SeenOf(NamesOf(nets), i) = SeenOf(NamesOf(nets), i - 1) \cup {NamesOf(nets)[i]}
          /\ DupErrors(NamesOf(nets), "DuplicateNet", i) =
               DupErrors(NamesOf(nets), "DuplicateNet", i - 1)
                 \cup DupError("DuplicateNet", NamesOf(nets)[i], SeenOf(NamesOf(nets), i - 1))
      BY <1>2, DupStep
    <3>2. QED
      BY <1>3, <3>1
  <2>2. seen = SeenOf(NamesOf(nets), i - 1) /\ seen' = SeenOf(NamesOf(nets), i)
    BY <1>1, <2>1 DEF InNets, Found, CheckName
  <2>3. ToSet(errors') = ToSet(errors) \cup DupError("DuplicateNet", nets[i].name, SeenOf(NamesOf(nets), i - 1))
    BY <1>1, <1>4, <2>2, AppendSet DEF CheckName, DupError
  <2>4. QED
    BY <1>1, <1>2, <2>1, <2>2, <2>3 DEF InNets, Found
<1>6. QED
  BY <1>1, <1>5 DEF Found, InDevices, InTerminals, InRefs, InWarnings, Untouched

LEMMA NetsCheckedFound ==
  ASSUME Typed, Found, NetsChecked
  PROVE  Found'
<1>1. /\ phase = "nets" /\ phase' = "terminals" /\ i > Len(nets) /\ i' = 1 /\ j' = 1
      /\ UNCHANGED <<devices, nets, constraints, owner, errors, warnings>>
  BY DEF NetsChecked, Loop
<1>2. Len(nets) \in Nat /\ i - 1 = Len(nets) /\ owner = EmptyMap
  BY <1>1, Lengths DEF Found, InNets, Typed, TypeOK, Untouched
<1>3. Upto(NetLens(nets), 1, 1) = {}
  BY Lengths, GridStart
<1>4. OwnersFit(devices, nets, {}, EmptyMap)
  BY DEF OwnersFit, EmptyMap
<1>5. ToSet(errors) = Declared(devices, nets)
  BY <1>1, <1>2 DEF InNets, Found, Declared
<1>6. InTerminals'
  <2>1. Upto(NetLens(nets'), i', j') = {} /\ BindErrors(devices', nets', {}) = {}
    BY <1>1, <1>3, EmptyErrors
  <2>2. QED
    <3>1. OwnersFit(devices', nets', Upto(NetLens(nets'), i', j'), owner')
      BY <1>1, <1>2, <1>4, <2>1
    <3>2. ToSet(errors') = Declared(devices', nets')
      BY <1>1, <1>5
    <3>3. i' <= Len(nets') + 1
      BY <1>1, <1>2
    <3>4. QED
      BY <2>1, <3>1, <3>2, <3>3 DEF InTerminals, BoundUpto
<1>7. QED
  BY <1>1, <1>6 DEF Found, InDevices, InNets, InRefs, InWarnings, Untouched

\* What one step of the loop does about the binding (m, n), on owners and errors.
BindsOne(dv, nt, m, n, ow, found, ow2, found2) ==
  LET b == << m, n >> IN
  \/ /\ ConnAt(nt, b).device \notin ToSet(dv) /\ ow2 = ow
     /\ found2 = found \cup {Error("UnknownDevice", << ConnAt(nt, b).device >>)}
  \/ /\ ConnAt(nt, b).device \in ToSet(dv) /\ TermAt(nt, b) \notin DOMAIN ow
     /\ ow2 = [t \in DOMAIN ow \cup {TermAt(nt, b)} |->
                 IF t = TermAt(nt, b) THEN nt[m].name ELSE ow[t]]
     /\ found2 = found
  \/ /\ ConnAt(nt, b).device \in ToSet(dv) /\ TermAt(nt, b) \in DOMAIN ow /\ ow2 = ow
     /\ found2 = IF ow[TermAt(nt, b)] = nt[m].name THEN found
                 ELSE found \cup {Error("TerminalConflict",
                        << ConnAt(nt, b).device, ConnAt(nt, b).port.name,
                           ow[TermAt(nt, b)], nt[m].name >>)}

LEMMA BindStep ==
  ASSUME NEW dv, NEW nt, NetLens(nt) \in Seq(Nat), Len(nt) \in Nat, DOMAIN nt = 1 .. Len(nt),
         NEW m \in DOMAIN nt, NEW n \in 1 .. Len(nt[m].connections),
         NEW ow, NEW found, BoundUpto(dv, nt, m, n, ow, found),
         NEW ow2, NEW found2, BindsOne(dv, nt, m, n, ow, found, ow2, found2)
  PROVE  BoundUpto(dv, nt, m, n + 1, ow2, found2)
<1> DEFINE G == Grid(NetLens(nt))
           U == Upto(NetLens(nt), m, n)
<1>0. PICK b : b = << m, n >>
  OBVIOUS
<1>1. b[1] = m /\ b[2] = n
  BY <1>0
<1>2. b \in G /\ Upto(NetLens(nt), m, n + 1) = U \cup {b}
  <2>1. m \in DOMAIN NetLens(nt) /\ n \in 1 .. NetLens(nt)[m]
    BY DEF NetLens
  <2>2. QED
    BY <1>0, <2>1, GridStep
<1> HIDE DEF G, U
<1>3. found = Declared(dv, nt) \cup BindErrors(dv, nt, U) /\ OwnersFit(dv, nt, U, ow)
  BY DEF BoundUpto, U
<1> DEFINE R == Rivals(dv, nt, b)
           Clash == Clashes(dv, nt, b)
<1> HIDE DEF Clash
<1>4. BindErrors(dv, nt, U \cup {b}) =
        BindErrors(dv, nt, U) \cup UnknownError(dv, ConnAt(nt, b).device) \cup Clash
  <2>1. UnboundErrors(dv, nt, U \cup {b}) =
          UnboundErrors(dv, nt, U) \cup UnknownError(dv, ConnAt(nt, b).device)
    BY UnboundStep
  <2>2. ConflictErrors(dv, nt, U \cup {b}) =
          ConflictErrors(dv, nt, U) \cup Clashes(dv, nt, b)
    BY ConflictStep
  <2>3. QED
    BY <2>1, <2>2 DEF BindErrors, Clash
<1>5. SUFFICES /\ found2 = found \cup UnknownError(dv, ConnAt(nt, b).device) \cup Clash
               /\ OwnersFit(dv, nt, U \cup {b}, ow2)
  <2>1. found2 = Declared(dv, nt) \cup BindErrors(dv, nt, U \cup {b})
    BY <1>3, <1>4, <1>5
  <2>2. QED
    BY <1>2, <1>5, <2>1 DEF BoundUpto
<1>6. CASE ConnAt(nt, b).device \notin ToSet(dv)
  <2>1. /\ found2 = found \cup {Error("UnknownDevice", << ConnAt(nt, b).device >>)}
        /\ ow2 = ow
    BY <1>0, <1>6 DEF BindsOne
  <2>2. R = {} /\ Clash = {}
    BY <1>6 DEF Rivals, InConflict, TermAt, Clash, Clashes
  <2>3. OwnersFit(dv, nt, U \cup {b}, ow)
    BY <1>3, <1>6 DEF OwnersFit
  <2>4. QED
    BY <1>6, <2>1, <2>2, <2>3 DEF UnknownError
<1>7. CASE ConnAt(nt, b).device \in ToSet(dv) /\ TermAt(nt, b) \notin DOMAIN ow
  <2>1. /\ ow2 = [t \in DOMAIN ow \cup {TermAt(nt, b)} |->
                    IF t = TermAt(nt, b) THEN nt[m].name ELSE ow[t]]
        /\ found2 = found
    BY <1>0, <1>7 DEF BindsOne
  <2>2. First(nt, b) /\ R = {}
    BY <1>0, <1>3, <1>7, NextBinding DEF U
  <2>5. Clash = {}
    BY <2>2 DEF Clash, Clashes
  <2>3. OwnersFit(dv, nt, U \cup {b}, ow2)
    <3>1. DOMAIN ow2 = DOMAIN ow \cup {TermAt(nt, b)} /\ ow2[TermAt(nt, b)] = nt[b[1]].name
      BY <1>1, <2>1
    <3>2. \A t \in DOMAIN ow : ow2[t] = ow[t]
      BY <1>7, <2>1
    <3>3. QED
      BY <1>3, <2>2, <3>1, <3>2 DEF OwnersFit
  <2>4. QED
    BY <1>7, <2>1, <2>3, <2>5 DEF UnknownError
<1>8. CASE ConnAt(nt, b).device \in ToSet(dv) /\ TermAt(nt, b) \in DOMAIN ow
  <2>1. /\ ow2 = ow
        /\ found2 = IF ow[TermAt(nt, b)] = nt[m].name THEN found
                    ELSE found \cup {Error("TerminalConflict",
                           << ConnAt(nt, b).device, ConnAt(nt, b).port.name,
                              ow[TermAt(nt, b)], nt[m].name >>)}
    BY <1>0, <1>8 DEF BindsOne
  <2>2. PICK a \in U : /\ ow[TermAt(nt, b)] = nt[a[1]].name
                       /\ nt[a[1]].name = nt[m].name => R = {}
                       /\ nt[a[1]].name # nt[m].name => R = {a}
    <3>1. OwnersFit(dv, nt, Upto(NetLens(nt), m, n), ow)
      BY <1>3 DEF U
    <3>2. \E a \in Upto(NetLens(nt), m, n) :
             /\ First(nt, a) /\ TermAt(nt, a) = TermAt(nt, b)
             /\ ow[TermAt(nt, b)] = nt[a[1]].name
             /\ nt[a[1]].name = nt[m].name => Rivals(dv, nt, b) = {}
             /\ nt[a[1]].name # nt[m].name => Rivals(dv, nt, b) = {a}
      BY <1>0, <1>8, <3>1, NextBinding, SMTT(30)
    <3>3. QED
      BY <3>2 DEF U
  <2>3. ConflictError(nt, a, b) =
          Error("TerminalConflict", << ConnAt(nt, b).device, ConnAt(nt, b).port.name,
                                       ow[TermAt(nt, b)], nt[m].name >>)
    BY <1>1, <2>2 DEF ConflictError
  <2>4. found2 = found \cup Clash
    <3>1. CASE ow[TermAt(nt, b)] = nt[m].name
      BY <2>1, <2>2, <3>1 DEF Clash, Clashes
    <3>2. CASE ow[TermAt(nt, b)] # nt[m].name
      <4>1. found2 = found \cup {ConflictError(nt, a, b)}
        BY <2>1, <2>3, <3>2
      <4>2. Clash = {ConflictError(nt, a, b)}
        BY <2>2, <3>2 DEF Clash, Clashes
      <4>3. QED
        BY <4>1, <4>2
    <3>3. QED
      BY <3>1, <3>2
  <2>5. OwnersFit(dv, nt, U \cup {b}, ow)
    BY <1>3, <1>8 DEF OwnersFit
  <2>6. QED
    BY <1>8, <2>1, <2>4, <2>5 DEF UnknownError
<1>9. QED
  BY <1>6, <1>7, <1>8

LEMMA BindTerminalFound ==
  ASSUME Typed, Found, BindTerminal
  PROVE  Found'
<1>1. /\ phase = "terminals" /\ i \in DOMAIN nets /\ j \in 1 .. Len(nets[i].connections)
      /\ UNCHANGED <<devices, nets, constraints, phase, i, warnings>> /\ j' = j + 1
  <2>1. i \in Nat \ {0} /\ j \in Nat \ {0}
    BY DEF Typed, TypeOK
  <2>2. /\ phase = "terminals" /\ i <= Len(nets) /\ j <= Len(nets[i].connections)
        /\ UNCHANGED <<devices, nets, constraints, phase, i, warnings>> /\ j' = j + 1
    BY DEF BindTerminal
  <2>3. i \in DOMAIN nets
    BY <2>1, <2>2, Lengths
  <2>4. Len(nets[i].connections) \in Nat
    BY <2>3, Lengths
  <2>5. QED
    BY <2>1, <2>2, <2>3, <2>4
<1> DEFINE b == << i, j >>
           c == nets[i].connections[j]
<1>2. ConnAt(nets, b) = c /\ TermAt(nets, b) = << c.device, c.port.idx >>
  BY DEF ConnAt, TermAt
<1>3. /\ nets[i].name \in Names /\ c.device \in Names /\ c.port.name \in STRING
      /\ errors \in Seq(ErrorRecord)
  <2>1. nets[i].connections \in Seq(Promise!Connection)
    BY <1>1, ConnectionTypes DEF Typed, TypeOK
  <2>2. j \in DOMAIN nets[i].connections
    BY <1>1, <2>1
  <2>3. QED
    BY <1>1, <2>2, ConnectionTypes DEF Typed, TypeOK, ErrorRecord
<1>4. \A e \in ErrorRecord : ToSet(Append(errors, e)) = ToSet(errors) \cup {e}
  BY <1>3, AppendSet
<1>5. Error("UnknownDevice", << c.device >>) \in ErrorRecord
  BY <1>3, ErrorTypes DEF ErrorKinds
<1>6. \A a \in Names : Error("TerminalConflict", << c.device, c.port.name, a, nets[i].name >>)
                         \in ErrorRecord
  BY <1>3, ErrorTypes
<1>7. BindsOne(devices, nets, i, j, owner, ToSet(errors), owner', ToSet(errors'))
  <2>1. CASE c.device \notin Known
    BY <1>1, <1>2, <1>4, <1>5, <2>1 DEF BindTerminal, BindsOne, Known
  <2>2. CASE c.device \in Known /\ << c.device, c.port.idx >> \notin DOMAIN owner
    BY <1>1, <1>2, <2>2 DEF BindTerminal, BindsOne, Known
  <2>3. CASE c.device \in Known /\ << c.device, c.port.idx >> \in DOMAIN owner
    <3>1. owner[<< c.device, c.port.idx >>] \in Names
      BY <2>3 DEF Typed, TypeOK
    <3>2. QED
      BY <1>1, <1>2, <1>4, <1>6, <2>3, <3>1 DEF BindTerminal, BindsOne, Known
  <2>4. QED
    BY <2>1, <2>2, <2>3
<1>8. BoundUpto(devices, nets, i, j, owner, ToSet(errors))
  BY <1>1 DEF Found, InTerminals
<1>9. BoundUpto(devices, nets, i, j + 1, owner', ToSet(errors'))
  BY <1>1, <1>7, <1>8, Lengths, BindStep, Zenon
<1>10. QED
  BY <1>1, <1>9 DEF Found, InDevices, InNets, InTerminals, InRefs, InWarnings, Untouched

LEMMA NextNetFound ==
  ASSUME Typed, Found, NextNet
  PROVE  Found'
<1>1. /\ phase = "terminals" /\ i \in DOMAIN nets /\ j > Len(nets[i].connections) /\ j \in Nat
      /\ i' = i + 1 /\ j' = 1 /\ i \in 1 .. Len(nets)
      /\ UNCHANGED <<devices, nets, constraints, phase, owner, errors, warnings>>
  BY Lengths DEF NextNet, Typed, TypeOK
<1>2. Upto(NetLens(nets), i + 1, 1) = Upto(NetLens(nets), i, j)
  <2>1. /\ NetLens(nets) \in Seq(Nat) /\ i \in DOMAIN NetLens(nets) /\ j > NetLens(nets)[i]
    BY <1>1, Lengths
  <2>2. QED
    BY <1>1, <2>1, GridRow
<1>3. BoundUpto(devices, nets, i, j, owner, ToSet(errors))
  BY <1>1 DEF Found, InTerminals
<1>4. i + 1 <= Len(nets) + 1
  BY <1>1, Lengths
<1>5. BoundUpto(devices, nets, i + 1, 1, owner, ToSet(errors))
  BY <1>2, <1>3, <1>4 DEF BoundUpto
<1>6. QED
  BY <1>1, <1>5 DEF Found, InDevices, InNets, InTerminals, InRefs, InWarnings, Untouched

LEMMA TerminalsBoundFound ==
  ASSUME Typed, Found, TerminalsBound
  PROVE  Found'
<1>1. /\ phase = "terminals" /\ phase' = "refs" /\ i > Len(nets) /\ i \in Nat /\ i' = 1 /\ j' = 1
      /\ UNCHANGED <<devices, nets, constraints, owner, errors, warnings>>
  BY DEF TerminalsBound, Loop, Typed, TypeOK
<1>2. BoundUpto(devices, nets, i, j, owner, ToSet(errors))
  BY <1>1 DEF Found, InTerminals
<1>3. Upto(NetLens(nets), i, j) = Grid(NetLens(nets)) /\ Upto(RefLens(constraints), 1, 1) = {}
  BY <1>1, Lengths, GridEnd, GridStart
<1>4. ToSet(errors) = Declared(devices, nets) \cup BindErrors(devices, nets, Grid(NetLens(nets)))
  BY <1>2, <1>3 DEF BoundUpto
<1>5. RefErrors(devices, constraints, Upto(RefLens(constraints), 1, 1)) = {}
  BY <1>3, EmptyErrors
<1>6. 1 <= Len(constraints) + 1
  BY Lengths
<1>7. ReferredUpto(devices, nets, constraints, 1, 1, ToSet(errors))
  BY <1>4, <1>5, <1>6 DEF ReferredUpto
<1>8. QED
  BY <1>1, <1>7 DEF Found, InDevices, InNets, InTerminals, InRefs, InWarnings, Untouched

LEMMA ReferenceStep ==
  ASSUME NEW dv, NEW nt, NEW cs, RefLens(cs) \in Seq(Nat),
         NEW m \in DOMAIN cs, NEW n \in 1 .. Len(Promise!DeviceRefs(cs[m])),
         NEW found, ReferredUpto(dv, nt, cs, m, n, found)
  PROVE  ReferredUpto(dv, nt, cs, m, n + 1,
                      found \cup UnknownError(dv, RefAt(cs, << m, n >>)))
<1> DEFINE U == Upto(RefLens(cs), m, n)
<1>1. Upto(RefLens(cs), m, n + 1) = U \cup {<< m, n >>}
  <2>1. m \in DOMAIN RefLens(cs) /\ n \in 1 .. RefLens(cs)[m]
    BY DEF RefLens
  <2>2. QED
    BY <2>1, GridStep
<1>2. PICK r : r = << m, n >>
  OBVIOUS
<1>3. RefErrors(dv, cs, U \cup {r}) = RefErrors(dv, cs, U) \cup UnknownError(dv, RefAt(cs, r))
  BY RefStep
<1> HIDE DEF U
<1>4. m <= Len(cs) + 1 /\ found = Declared(dv, nt) \cup BindErrors(dv, nt, Grid(NetLens(nt)))
                                                  \cup RefErrors(dv, cs, U)
  BY DEF ReferredUpto, U
<1>5. RefErrors(dv, cs, Upto(RefLens(cs), m, n + 1)) =
        RefErrors(dv, cs, U) \cup UnknownError(dv, RefAt(cs, r))
  BY <1>1, <1>2, <1>3
<1>6. QED
  BY <1>2, <1>4, <1>5 DEF ReferredUpto

LEMMA CheckRefFound ==
  ASSUME Typed, Found, CheckRef
  PROVE  Found'
<1> DEFINE name == Promise!DeviceRefs(constraints[i])[j]
<1>1. /\ phase = "refs" /\ i \in DOMAIN constraints
      /\ j \in 1 .. Len(Promise!DeviceRefs(constraints[i])) /\ j' = j + 1
      /\ errors' = IF name \in Known THEN errors
                   ELSE Append(errors, Error("UnknownDevice", << name >>))
      /\ UNCHANGED <<devices, nets, constraints, phase, i, owner, warnings>>
  BY Lengths DEF CheckRef, Typed, TypeOK
<1>2. name \in Names /\ errors \in Seq(ErrorRecord)
  <2>1. Promise!DeviceRefs(constraints[i]) \in Seq(Names)
    BY <1>1, RefTypes DEF Typed, TypeOK
  <2>2. QED
    BY <1>1, <2>1 DEF Typed, TypeOK, ErrorRecord
<1>3. RefAt(constraints, << i, j >>) = name
  BY DEF RefAt
<1> HIDE DEF name
<1>4. ToSet(errors') = ToSet(errors) \cup UnknownError(devices, name)
  <2>1. Error("UnknownDevice", << name >>) \in ErrorRecord
    BY <1>2, ErrorTypes DEF ErrorKinds
  <2>2. QED
    BY <1>1, <1>2, <2>1, AppendSet DEF UnknownError, Known
<1>5. ReferredUpto(devices, nets, constraints, i, j, ToSet(errors))
  BY <1>1 DEF Found, InRefs
<1>6. ReferredUpto(devices, nets, constraints, i, j + 1,
                   ToSet(errors) \cup UnknownError(devices, RefAt(constraints, << i, j >>)))
  BY <1>1, <1>5, Lengths, ReferenceStep, Zenon
<1>7. ReferredUpto(devices, nets, constraints, i, j + 1, ToSet(errors'))
  BY <1>3, <1>4, <1>6
<1>8. QED
  BY <1>1, <1>7 DEF Found, InDevices, InNets, InTerminals, InRefs, InWarnings, Untouched

LEMMA NextConstraintFound ==
  ASSUME Typed, Found, NextConstraint
  PROVE  Found'
<1>1. /\ phase = "refs" /\ i \in DOMAIN constraints /\ i \in 1 .. Len(constraints) /\ j \in Nat
      /\ j > Len(Promise!DeviceRefs(constraints[i])) /\ i' = i + 1 /\ j' = 1
      /\ UNCHANGED <<devices, nets, constraints, phase, owner, errors, warnings>>
  BY Lengths DEF NextConstraint, Typed, TypeOK
<1>2. Upto(RefLens(constraints), i + 1, 1) = Upto(RefLens(constraints), i, j)
  <2>1. /\ RefLens(constraints) \in Seq(Nat) /\ i \in DOMAIN RefLens(constraints)
        /\ j > RefLens(constraints)[i]
    BY <1>1, Lengths
  <2>2. QED
    BY <1>1, <2>1, GridRow
<1>3. ReferredUpto(devices, nets, constraints, i, j, ToSet(errors))
  BY <1>1 DEF Found, InRefs
<1>4. i + 1 <= Len(constraints) + 1
  BY <1>1, Lengths
<1>5. ReferredUpto(devices, nets, constraints, i + 1, 1, ToSet(errors))
  BY <1>2, <1>3, <1>4 DEF ReferredUpto
<1>6. QED
  BY <1>1, <1>5 DEF Found, InDevices, InNets, InTerminals, InRefs, InWarnings, Untouched

\* When the references are checked, every error of the circuit has been found.
LEMMA AllFound ==
  ASSUME Typed, Found, phase = "refs", i > Len(constraints)
  PROVE  ToSet(errors) = AllErrors(devices, nets, constraints)
<1>1. ReferredUpto(devices, nets, constraints, i, j, ToSet(errors)) /\ i \in Nat
  BY DEF Found, InRefs, Typed, TypeOK
<1>2. Upto(RefLens(constraints), i, j) = Grid(RefLens(constraints))
  BY <1>1, Lengths, GridEnd
<1>3. QED
  BY <1>1, <1>2 DEF ReferredUpto, AllErrors

LEMMA RefuseFound ==
  ASSUME Typed, Found, Refuse
  PROVE  Found'
BY DEF Refuse, Return, Loop, Found, InDevices, InNets, InTerminals, InRefs, InWarnings, Untouched

LEMMA WarnedStart ==
  ASSUME NEW nt, NEW cs
  PROVE  WarnedNets(nt, 0) = {} /\ WarnedKinds(cs, 0) = {}
BY DEF WarnedNets, WarnedKinds

LEMMA WarnedNetsStep ==
  ASSUME NEW nt, NEW n \in Nat \ {0}
  PROVE  WarnedNets(nt, n) =
           WarnedNets(nt, n - 1) \cup (IF Len(nt[n].connections) < 2 THEN {nt[n].name} ELSE {})
<1>1. \A k : k \in 1 .. n <=> k \in 1 .. n - 1 \/ k = n
  OBVIOUS
<1>2. QED
  BY <1>1 DEF WarnedNets

LEMMA WarnedKindsStep ==
  ASSUME NEW cs, NEW n \in Nat \ {0}
  PROVE  WarnedKinds(cs, n) =
           WarnedKinds(cs, n - 1) \cup (IF Promise!IsEngineSupported(cs[n]) THEN {} ELSE {cs[n].kind})
<1>1. \A k : k \in 1 .. n <=> k \in 1 .. n - 1 \/ k = n
  OBVIOUS
<1>2. QED
  BY <1>1 DEF WarnedKinds

LEMMA AcceptFound ==
  ASSUME Typed, Found, Accept
  PROVE  Found'
<1>1. /\ phase = "refs" /\ phase' = "floating" /\ i > Len(constraints) /\ errors = << >> /\ i' = 1
      /\ UNCHANGED <<devices, nets, constraints, owner, errors, warnings>>
  BY DEF Accept, Loop
<1>2. AllErrors(devices, nets, constraints) = {}
  BY <1>1, AllFound, EmptySet
<1>3. warnings = NoWarnings
  BY <1>1 DEF Found, Untouched
<1>4. ToSet(warnings.floating) = WarnedNets(nets, 0) /\ warnings.unsupported = << >>
  BY <1>3, EmptySet, WarnedStart DEF NoWarnings
<1>5. i' <= Len(nets') + 1 /\ i' - 1 = 0
  BY <1>1, Lengths
<1>6. InWarnings'
  BY <1>1, <1>2, <1>4, <1>5 DEF InWarnings
<1>7. QED
  BY <1>1, <1>6 DEF Found, InDevices, InNets, InTerminals, InRefs, Untouched

LEMMA WarnOfNetFound ==
  ASSUME Typed, Found, WarnOfNet
  PROVE  Found'
<1>1. /\ phase = "floating" /\ i \in DOMAIN nets /\ i \in 1 .. Len(nets) /\ i' = i + 1
      /\ warnings' = IF Len(nets[i].connections) < 2
                     THEN [warnings EXCEPT !.floating = Append(@, nets[i].name)] ELSE warnings
      /\ UNCHANGED <<devices, nets, constraints, phase, owner, errors>>
  BY Lengths DEF WarnOfNet, Typed, TypeOK
<1>2. /\ warnings.floating \in Seq(Names) /\ nets[i].name \in Names
      /\ warnings \in [floating : Seq(Names), unsupported : Seq(Promise!Kinds)]
  BY <1>1, ConnectionTypes DEF Typed, TypeOK
<1>3. i \in Nat \ {0} /\ i' - 1 = i /\ i' <= Len(nets) + 1
  BY <1>1, Lengths
<1>4. /\ ToSet(warnings.floating) = WarnedNets(nets, i - 1) /\ warnings.unsupported = << >>
      /\ errors = << >> /\ AllErrors(devices, nets, constraints) = {}
  BY <1>1 DEF Found, InWarnings
<1>5. ToSet(Append(warnings.floating, nets[i].name)) = ToSet(warnings.floating) \cup {nets[i].name}
  BY <1>2, AppendSet
<1>6. WarnedNets(nets, i) = WarnedNets(nets, i - 1)
                              \cup (IF Len(nets[i].connections) < 2 THEN {nets[i].name} ELSE {})
  BY <1>3, WarnedNetsStep
<1>7. ToSet(warnings'.floating) = WarnedNets(nets, i) /\ warnings'.unsupported = << >>
  BY <1>1, <1>2, <1>4, <1>5, <1>6
<1>8. InWarnings'
  BY <1>1, <1>3, <1>4, <1>7 DEF InWarnings
<1>9. QED
  BY <1>1, <1>8 DEF Found, InDevices, InNets, InTerminals, InRefs, Untouched

LEMMA NetsWarnedOfFound ==
  ASSUME Typed, Found, NetsWarnedOf
  PROVE  Found'
<1>1. /\ phase = "floating" /\ phase' = "unsupported" /\ i > Len(nets) /\ i' = 1
      /\ UNCHANGED <<devices, nets, constraints, owner, errors, warnings>>
  BY DEF NetsWarnedOf, Loop
<1>2. /\ i <= Len(nets) + 1 /\ i \in Nat /\ Len(nets) \in Nat /\ Len(constraints) \in Nat
      /\ ToSet(warnings.floating) = WarnedNets(nets, i - 1) /\ warnings.unsupported = << >>
      /\ errors = << >> /\ AllErrors(devices, nets, constraints) = {}
  BY <1>1, Lengths DEF Found, InWarnings, Typed, TypeOK
<1>3. i - 1 = Len(nets) /\ i' - 1 = 0 /\ i' <= Len(constraints) + 1
  BY <1>1, <1>2
<1>4. ToSet(warnings.unsupported) = WarnedKinds(constraints, 0)
  BY <1>2, EmptySet, WarnedStart
<1>5. InWarnings'
  BY <1>1, <1>2, <1>3, <1>4 DEF InWarnings
<1>6. QED
  BY <1>1, <1>5 DEF Found, InDevices, InNets, InTerminals, InRefs, Untouched

LEMMA WarnOfConstraintFound ==
  ASSUME Typed, Found, WarnOfConstraint
  PROVE  Found'
<1>1. /\ phase = "unsupported" /\ i \in DOMAIN constraints /\ i \in 1 .. Len(constraints) /\ i' = i + 1
      /\ warnings' = IF Promise!IsEngineSupported(constraints[i]) THEN warnings
                     ELSE [warnings EXCEPT !.unsupported = Append(@, constraints[i].kind)]
      /\ UNCHANGED <<devices, nets, constraints, phase, owner, errors>>
  BY Lengths DEF WarnOfConstraint, Typed, TypeOK
<1>2. /\ warnings.unsupported \in Seq(Promise!Kinds) /\ constraints[i].kind \in Promise!Kinds
      /\ warnings \in [floating : Seq(Names), unsupported : Seq(Promise!Kinds)]
  BY <1>1, RefTypes DEF Typed, TypeOK
<1>3. i \in Nat \ {0} /\ i' - 1 = i /\ i' <= Len(constraints) + 1
  BY <1>1, Lengths
<1>4. /\ ToSet(warnings.floating) = WarnedNets(nets, Len(nets))
      /\ ToSet(warnings.unsupported) = WarnedKinds(constraints, i - 1)
      /\ errors = << >> /\ AllErrors(devices, nets, constraints) = {}
  BY <1>1 DEF Found, InWarnings
<1>5. ToSet(Append(warnings.unsupported, constraints[i].kind)) =
        ToSet(warnings.unsupported) \cup {constraints[i].kind}
  BY <1>2, AppendSet
<1>6. WarnedKinds(constraints, i) =
        WarnedKinds(constraints, i - 1)
          \cup (IF Promise!IsEngineSupported(constraints[i]) THEN {} ELSE {constraints[i].kind})
  BY <1>3, WarnedKindsStep
<1>7. /\ ToSet(warnings'.unsupported) = WarnedKinds(constraints, i)
      /\ warnings'.floating = warnings.floating
  BY <1>1, <1>2, <1>4, <1>5, <1>6
<1>8. InWarnings'
  BY <1>1, <1>3, <1>4, <1>7 DEF InWarnings
<1>9. QED
  BY <1>1, <1>8 DEF Found, InDevices, InNets, InTerminals, InRefs, Untouched

LEMMA FinishFound ==
  ASSUME Typed, Found, Finish
  PROVE  Found'
BY DEF Finish, Return, Loop, Found, InDevices, InNets, InTerminals, InRefs, InWarnings, Untouched

LEMMA EditFound ==
  ASSUME Found, Edit
  PROVE  Found'
<1>1. phase = "edit" /\ UNCHANGED <<phase, owner, warnings>>
  BY DEF Edit, loopVars
<1>2. QED
  BY <1>1 DEF Found, InDevices, InNets, InTerminals, InRefs, InWarnings, Untouched

LEMMA FoundNext == Typed /\ Found /\ [Next]_vars => Found'
<1> SUFFICES ASSUME Typed, Found, [Next]_vars
             PROVE  Found'
  OBVIOUS
<1>1. CASE UNCHANGED vars
  BY <1>1 DEF vars, loopVars, Found, InDevices, InNets, InTerminals, InRefs, InWarnings, Untouched
<1>2. QED
  BY <1>1, EditFound, StartBuildFound, CheckDeviceFound, DevicesCheckedFound, CheckNetFound,
     NetsCheckedFound, BindTerminalFound, NextNetFound, TerminalsBoundFound, CheckRefFound,
     NextConstraintFound, RefuseFound, AcceptFound, WarnOfNetFound, NetsWarnedOfFound,
     WarnOfConstraintFound, FinishFound DEF Next, BuildStep

\* The invariant: what each loop has found is what is at fault in the part that
\* it has looked at.
THEOREM FoundAlways == Spec => [](Typed /\ Found)
<1>1. Init => Typed /\ Found
  BY TypedInit, FoundInit
<1>2. (Typed /\ Found) /\ [Next]_vars => (Typed /\ Found)'
  BY TypedNext, FoundNext
<1>3. QED
  BY <1>1, <1>2, PTL DEF Spec

----------------------------------------------------------------------------
(* What is at fault in the whole circuit is what is promised *)

LEMMA PromisedBindings ==
  ASSUME Typed
  PROVE  Promise!Bindings = Grid(NetLens(nets))
<1>1. ASSUME NEW k \in 1 .. Len(nets), NEW l \in Nat \ {0}, l <= Len(nets[k].connections)
      PROVE  l \in 1 .. MaxConnections
  <2>1. k \in DOMAIN nets /\ Len(nets[k].connections) \in Nat
    BY <1>1, Lengths
  <2>2. Len(nets[k].connections) <= MaxConnections
    BY <2>1 DEF Typed, NetsBounded
  <2>3. QED
    BY <1>1, <2>1, <2>2, BoundAssumption
<1>2. /\ DOMAIN NetLens(nets) = 1 .. Len(nets)
      /\ \A k \in 1 .. Len(nets) : NetLens(nets)[k] = Len(nets[k].connections)
  BY Lengths
<1>3. ASSUME NEW b \in Promise!Bindings
      PROVE  b \in Grid(NetLens(nets))
  <2>1. /\ b \in (1 .. Len(nets)) \X (1 .. MaxConnections)
        /\ b[2] <= Len(nets[b[1]].connections)
    BY DEF Promise!Bindings
  <2>2. b \in (1 .. Len(nets)) \X (Nat \ {0}) /\ NetLens(nets)[b[1]] = Len(nets[b[1]].connections)
    BY <1>2, <2>1
  <2>3. QED
    BY <1>2, <2>1, <2>2 DEF Grid
<1>4. ASSUME NEW b \in Grid(NetLens(nets))
      PROVE  b \in Promise!Bindings
  <2>1. /\ b \in (1 .. Len(nets)) \X (Nat \ {0})
        /\ b[2] <= Len(nets[b[1]].connections)
    BY <1>2 DEF Grid
  <2>2. b[2] \in 1 .. MaxConnections
    BY <1>1, <2>1
  <2>3. b \in (1 .. Len(nets)) \X (1 .. MaxConnections)
    BY <2>1, <2>2
  <2>4. QED
    BY <2>1, <2>3 DEF Promise!Bindings
<1>5. QED
  BY <1>3, <1>4

LEMMA RepeatedErrors ==
  ASSUME NEW names, NEW kind, NEW n \in Nat, DOMAIN names = 1 .. n
  PROVE  {Error(kind, << m >>) : m \in Promise!Repeated(names)} = DupErrors(names, kind, n)
BY DEF Promise!Repeated, DupErrors

LEMMA PromisedDuplicates ==
  ASSUME Typed
  PROVE  {Error("DuplicateDevice", << n >>) : n \in Promise!Repeated(devices)}
           \cup {Error("DuplicateNet", << n >>) : n \in Promise!Repeated(Promise!NetNames)}
         = Declared(devices, nets)
<1>1. DOMAIN devices = 1 .. Len(devices) /\ Len(devices) \in Nat
  BY DEF Typed, TypeOK
<1>2. /\ Promise!NetNames = NamesOf(nets)
      /\ DOMAIN NamesOf(nets) = 1 .. Len(nets) /\ Len(nets) \in Nat
  BY Lengths DEF Promise!NetNames, NamesOf
<1>3. {Error("DuplicateDevice", << n >>) : n \in Promise!Repeated(devices)}
        = DupErrors(devices, "DuplicateDevice", Len(devices))
  BY <1>1, RepeatedErrors
<1>4. {Error("DuplicateNet", << n >>) : n \in Promise!Repeated(NamesOf(nets))}
        = DupErrors(NamesOf(nets), "DuplicateNet", Len(nets))
  BY <1>2, RepeatedErrors
<1>5. QED
  BY <1>2, <1>3, <1>4 DEF Declared

LEMMA PromisedReferences ==
  ASSUME Typed
  PROVE  UNION {ToSet(Promise!DeviceRefs(constraints[k])) : k \in DOMAIN constraints}
           = {RefAt(constraints, r) : r \in Grid(RefLens(constraints))}
<1> DEFINE Refs(k) == Promise!DeviceRefs(constraints[k])
           G == Grid(RefLens(constraints))
<1>1. ASSUME NEW k \in DOMAIN constraints
      PROVE  DOMAIN Refs(k) = 1 .. Len(Refs(k)) /\ Len(Refs(k)) \in Nat
  <2>1. Refs(k) \in Seq(Names)
    BY RefTypes DEF Typed, TypeOK
  <2>2. QED
    BY <2>1
<1>2. ASSUME NEW k \in DOMAIN constraints, NEW l \in DOMAIN Refs(k)
      PROVE  << k, l >> \in G /\ RefAt(constraints, << k, l >>) = Refs(k)[l]
  <2>1. k \in DOMAIN RefLens(constraints) /\ RefLens(constraints)[k] = Len(Refs(k))
    BY Lengths
  <2>2. l \in Nat \ {0} /\ l <= Len(Refs(k))
    BY <1>1, <1>2
  <2>3. << k, l >> \in (DOMAIN RefLens(constraints)) \X (Nat \ {0})
    BY <2>1, <2>2
  <2>4. QED
    BY <2>1, <2>2, <2>3 DEF Grid, RefAt
<1>3. ASSUME NEW r \in G
      PROVE  /\ r[1] \in DOMAIN constraints /\ r[2] \in DOMAIN Refs(r[1])
             /\ RefAt(constraints, r) = Refs(r[1])[r[2]]
  <2>1. /\ r[1] \in DOMAIN RefLens(constraints) /\ r[2] \in Nat \ {0}
        /\ r[2] <= RefLens(constraints)[r[1]]
    BY DEF Grid
  <2>2. r[1] \in DOMAIN constraints /\ RefLens(constraints)[r[1]] = Len(Refs(r[1]))
    BY <2>1, Lengths
  <2>3. QED
    BY <1>1, <2>1, <2>2 DEF RefAt
<1> HIDE DEF Refs, G
<1>4. UNION {ToSet(Refs(k)) : k \in DOMAIN constraints} = {RefAt(constraints, r) : r \in G}
  <2>1. ASSUME NEW k \in DOMAIN constraints, NEW n \in ToSet(Refs(k))
        PROVE  \E r \in G : n = RefAt(constraints, r)
    <3>1. PICK l \in DOMAIN Refs(k) : n = Refs(k)[l]
      BY DEF ToSet
    <3>2. QED
      BY <1>2, <3>1
  <2>2. ASSUME NEW r \in G
        PROVE  \E k \in DOMAIN constraints : RefAt(constraints, r) \in ToSet(Refs(k))
    BY <1>3 DEF ToSet
  <2>3. QED
    BY <2>1, <2>2
<1>5. QED
  BY <1>4 DEF Refs, G

LEMMA PromisedKnown == Promise!Known = ToSet(devices)
BY DEF Promise!Known, Promise!ToSet, ToSet

LEMMA PromisedUnknown ==
  ASSUME Typed
  PROVE  {Error("UnknownDevice", << n >>) : n \in Promise!Unknown \ Promise!Known}
         = UnboundErrors(devices, nets, Grid(NetLens(nets)))
             \cup RefErrors(devices, constraints, Grid(RefLens(constraints)))
<1> DEFINE D == {ConnAt(nets, b).device : b \in Grid(NetLens(nets))}
           E == {RefAt(constraints, r) : r \in Grid(RefLens(constraints))}
<1>1. {Promise!At(b).device : b \in Promise!Bindings} = D
  BY PromisedBindings DEF Promise!At, ConnAt
<1>2. UNION {ToSet(Promise!DeviceRefs(constraints[k])) : k \in DOMAIN constraints} = E
  BY PromisedReferences
<1>3. UnboundErrors(devices, nets, Grid(NetLens(nets))) =
        {Error("UnknownDevice", << n >>) : n \in D \ ToSet(devices)}
  BY DEF UnboundErrors
<1>4. RefErrors(devices, constraints, Grid(RefLens(constraints))) =
        {Error("UnknownDevice", << n >>) : n \in E \ ToSet(devices)}
  BY DEF RefErrors
<1> HIDE DEF D, E
<1>5. Promise!Unknown \ Promise!Known = (D \ ToSet(devices)) \cup (E \ ToSet(devices))
  BY <1>1, <1>2, PromisedKnown DEF Promise!Unknown, Promise!ToSet, ToSet
<1>6. \A A, B : {Error("UnknownDevice", << n >>) : n \in A \cup B} =
                 {Error("UnknownDevice", << n >>) : n \in A}
                   \cup {Error("UnknownDevice", << n >>) : n \in B}
  OBVIOUS
<1>7. QED
  BY <1>3, <1>4, <1>5, <1>6

LEMMA PromisedConflicts ==
  ASSUME Typed
  PROVE  {Error("TerminalConflict",
                << Promise!At(p[2]).device, Promise!At(p[2]).port.name,
                   nets[p[1][1]].name, nets[p[2][1]].name >>) : p \in Promise!Conflicts}
         = ConflictErrors(devices, nets, Grid(NetLens(nets)))
<1> DEFINE G == Grid(NetLens(nets))
<1>1. \A b : /\ Promise!At(b) = ConnAt(nets, b) /\ Promise!Terminal(b) = TermAt(nets, b)
             /\ \A c : Promise!Precedes(c, b) <=> Before(c, b)
  BY DEF Promise!At, ConnAt, Promise!Terminal, TermAt, Promise!Precedes, Before
<1>2. Promise!Conflicts = {p \in G \X G : InConflict(devices, nets, p[1], p[2])}
  <2>1. Promise!Conflicts = {p \in G \X G :
           /\ Promise!At(p[1]).device \in Promise!Known
           /\ Promise!Terminal(p[1]) = Promise!Terminal(p[2])
           /\ nets[p[1][1]].name # nets[p[2][1]].name
           /\ ~ \E c \in G : Promise!Precedes(c, p[1]) /\ Promise!Terminal(c) = Promise!Terminal(p[1])}
    BY PromisedBindings DEF Promise!Conflicts
  <2> HIDE DEF G
  <2>2. ASSUME NEW p \in G \X G
        PROVE  (/\ Promise!At(p[1]).device \in Promise!Known
                /\ Promise!Terminal(p[1]) = Promise!Terminal(p[2])
                /\ nets[p[1][1]].name # nets[p[2][1]].name
                /\ ~ \E c \in G : Promise!Precedes(c, p[1])
                                    /\ Promise!Terminal(c) = Promise!Terminal(p[1]))
               <=> InConflict(devices, nets, p[1], p[2])
    <3>1. First(nets, p[1]) <=> ~ \E c \in G : Promise!Precedes(c, p[1])
                                              /\ Promise!Terminal(c) = Promise!Terminal(p[1])
      BY <1>1 DEF First, G
    <3>2. /\ Promise!At(p[1]) = ConnAt(nets, p[1]) /\ Promise!Terminal(p[1]) = TermAt(nets, p[1])
          /\ Promise!Terminal(p[2]) = TermAt(nets, p[2]) /\ Promise!Known = ToSet(devices)
      BY <1>1, PromisedKnown
    <3>3. QED
      BY <3>1, <3>2 DEF InConflict
  <2>3. QED
    BY <2>1, <2>2
<1>3. \A p : Error("TerminalConflict",
                   << Promise!At(p[2]).device, Promise!At(p[2]).port.name,
                      nets[p[1][1]].name, nets[p[2][1]].name >>)
             = ConflictError(nets, p[1], p[2])
  BY <1>1 DEF ConflictError
<1>4. ConflictErrors(devices, nets, G)
        = {ConflictError(nets, p[1], p[2]) : p \in Promise!Conflicts}
  <2> HIDE DEF G
  <2>1. ASSUME NEW e \in ConflictErrors(devices, nets, G)
        PROVE  \E p \in Promise!Conflicts : e = ConflictError(nets, p[1], p[2])
    <3>1. PICK b \in G, a \in G : InConflict(devices, nets, a, b) /\ e = ConflictError(nets, a, b)
      BY <2>1 DEF ConflictErrors, Clashes, Rivals, G
    <3>2. << a, b >> \in Promise!Conflicts
      BY <1>2, <3>1
    <3>3. QED
      BY <3>1, <3>2
  <2>2. ASSUME NEW p \in Promise!Conflicts
        PROVE  ConflictError(nets, p[1], p[2]) \in ConflictErrors(devices, nets, G)
    <3>1. p[1] \in G /\ p[2] \in G /\ InConflict(devices, nets, p[1], p[2])
      BY <1>2
    <3>2. ConflictError(nets, p[1], p[2]) \in Clashes(devices, nets, p[2])
      BY <3>1 DEF Clashes, Rivals, G
    <3>3. QED
      BY <3>1, <3>2 DEF ConflictErrors
  <2>3. QED
    BY <2>1, <2>2
<1>5. QED
  BY <1>3, <1>4

LEMMA PromisedErrors ==
  ASSUME Typed
  PROVE  Promise!CircuitErrors = AllErrors(devices, nets, constraints)
<1>1. \A kind, of : Promise!Error(kind, of) = Error(kind, of)
  BY DEF Promise!Error, Error
<1>2. Promise!CircuitErrors =
        ({Error("DuplicateDevice", << n >>) : n \in Promise!Repeated(devices)}
           \cup {Error("DuplicateNet", << n >>) : n \in Promise!Repeated(Promise!NetNames)})
        \cup {Error("UnknownDevice", << n >>) : n \in Promise!Unknown \ Promise!Known}
        \cup {Error("TerminalConflict",
                    << Promise!At(p[2]).device, Promise!At(p[2]).port.name,
                       nets[p[1][1]].name, nets[p[2][1]].name >>) : p \in Promise!Conflicts}
  BY <1>1 DEF Promise!CircuitErrors
<1>3. QED
  BY <1>2, PromisedDuplicates, PromisedUnknown, PromisedConflicts DEF AllErrors, BindErrors

\* The table that IsEngineSupported keeps and the one of IntentClass agree.
LEMMA TablesAgree ==
  ASSUME NEW c, c.kind \in Promise!Kinds
  PROVE  Promise!IntentClass(c) = "Unsupported" <=> ~ Promise!IsEngineSupported(c)
BY DEF Promise!Kinds, Promise!Forwarded, Promise!NotForwarded, Promise!IntentClass,
       Promise!IsEngineSupported

LEMMA PromisedWarnings ==
  ASSUME Typed
  PROVE  /\ Promise!FloatingNets = WarnedNets(nets, Len(nets))
         /\ Promise!Unsupported = WarnedKinds(constraints, Len(constraints))
<1>1. \A k \in DOMAIN constraints :
        Promise!IntentClass(constraints[k]) = "Unsupported"
          <=> ~ Promise!IsEngineSupported(constraints[k])
  BY RefTypes, TablesAgree DEF Typed, TypeOK
<1>2. DOMAIN nets = 1 .. Len(nets) /\ DOMAIN constraints = 1 .. Len(constraints)
  BY Lengths
<1>3. Promise!FloatingNets = WarnedNets(nets, Len(nets))
  BY <1>2 DEF Promise!FloatingNets, WarnedNets
<1>4. Promise!Unsupported = WarnedKinds(constraints, Len(constraints))
  BY <1>1, <1>2 DEF Promise!Unsupported, WarnedKinds
<1>5. QED
  BY <1>3, <1>4

----------------------------------------------------------------------------

\* While terminals are bound, each bound terminal is owned by the first net that
\* names it (builder.rs:185-206).
THEOREM FirstBinderOwnsAlways == Spec => []FirstBinderOwns
<1>1. ASSUME Typed, Found
      PROVE  FirstBinderOwns
  <2> SUFFICES ASSUME phase = "terminals", NEW t \in DOMAIN owner
               PROVE  \E b \in Promise!Bindings :
                        /\ Promise!Terminal(b) = t /\ owner[t] = nets[b[1]].name
                        /\ Promise!Precedes(b, << i, j >>)
                        /\ \A c \in Promise!Bindings :
                             Promise!Precedes(c, b) => Promise!Terminal(c) # t
    BY DEF FirstBinderOwns
  <2>1. OwnersFit(devices, nets, Upto(NetLens(nets), i, j), owner)
    BY <1>1 DEF Found, InTerminals, BoundUpto
  <2>2. PICK b \in Upto(NetLens(nets), i, j) :
               First(nets, b) /\ TermAt(nets, b) = t /\ owner[t] = nets[b[1]].name
    BY <2>1 DEF OwnersFit
  <2>3. b \in Grid(NetLens(nets)) /\ Before(b, << i, j >>)
    BY DEF Upto
  <2>4. \A c \in Grid(NetLens(nets)) : Before(c, b) => TermAt(nets, c) # t
    BY <2>2 DEF First
  <2>5. \A a : Promise!Terminal(a) = TermAt(nets, a)
    BY DEF Promise!Terminal, Promise!At, TermAt, ConnAt
  <2>6. \A a, c : Promise!Precedes(a, c) <=> Before(a, c)
    BY DEF Promise!Precedes, Before
  <2>7. QED
    BY <1>1, <2>2, <2>3, <2>4, <2>5, <2>6, PromisedBindings
<1>2. QED
  BY <1>1, FoundAlways, PTL

----------------------------------------------------------------------------
(* The loops implement the promise *)

\* The answer with sets in the place of its lists, as the promise holds it.
Shown ==
  IF result.tag = "none" THEN result
  ELSE IF result.tag = "err" THEN [result EXCEPT !.errors = ToSet(@)]
  ELSE [result EXCEPT !.floating = ToSet(@), !.unsupported = ToSet(@)]

LEMMA RefuseAnswers ==
  ASSUME Typed, Found, Refuse
  PROVE  Shown' = Promise!Answer /\ UNCHANGED Promise!circuit
<1>1. /\ phase = "refs" /\ i > Len(constraints) /\ errors # << >>
      /\ result' = [tag |-> "err", errors |-> errors]
      /\ UNCHANGED <<devices, nets, constraints>>
  BY DEF Refuse, Return, Loop
<1>2. ToSet(errors) = Promise!CircuitErrors
  BY <1>1, AllFound, PromisedErrors
<1>3. Promise!CircuitErrors # {}
  BY <1>1, <1>2, OnlyEmptySet DEF Typed, TypeOK
<1>4. Shown' = [tag |-> "err", errors |-> ToSet(errors)]
  BY <1>1 DEF Shown
<1>5. QED
  BY <1>1, <1>2, <1>3, <1>4 DEF Promise!Answer, Promise!circuit

LEMMA FinishAnswers ==
  ASSUME Typed, Found, Finish
  PROVE  Shown' = Promise!Answer /\ UNCHANGED Promise!circuit
<1>1. /\ phase = "unsupported" /\ i > Len(constraints) /\ i \in Nat
      /\ result' = [tag |-> "ok", devices |-> devices, netCount |-> Len(nets),
                    constraints |-> constraints, floating |-> warnings.floating,
                    unsupported |-> warnings.unsupported]
      /\ UNCHANGED <<devices, nets, constraints>>
  BY DEF Finish, Return, Loop, Typed, TypeOK
<1>2. /\ i <= Len(constraints) + 1 /\ AllErrors(devices, nets, constraints) = {}
      /\ ToSet(warnings.floating) = WarnedNets(nets, Len(nets))
      /\ ToSet(warnings.unsupported) = WarnedKinds(constraints, i - 1)
  BY <1>1 DEF Found, InWarnings
<1>3. i - 1 = Len(constraints)
  BY <1>1, <1>2, Lengths
<1>4. /\ Promise!CircuitErrors = {} /\ Promise!FloatingNets = ToSet(warnings.floating)
      /\ Promise!Unsupported = ToSet(warnings.unsupported)
  BY <1>2, <1>3, PromisedErrors, PromisedWarnings
<1>5. Shown' = [tag |-> "ok", devices |-> devices, netCount |-> Len(nets),
                constraints |-> constraints, floating |-> ToSet(warnings.floating),
                unsupported |-> ToSet(warnings.unsupported)]
  BY <1>1 DEF Shown
<1>6. QED
  BY <1>1, <1>4, <1>5 DEF Promise!Answer, Promise!circuit

LEMMA OthersKeep ==
  ASSUME [Next]_vars, ~ Edit, ~ Refuse, ~ Finish
  PROVE  UNCHANGED <<devices, nets, constraints, result>>
<1>1. CASE StartBuild \/ DevicesChecked \/ NetsChecked
  BY <1>1 DEF StartBuild, DevicesChecked, NetsChecked
<1>2. CASE CheckDevice \/ CheckNet
  BY <1>2, Zenon DEF CheckDevice, CheckNet, CheckName
<1>3. CASE BindTerminal
  BY <1>3 DEF BindTerminal
<1>4. CASE NextNet \/ TerminalsBound
  BY <1>4 DEF NextNet, TerminalsBound
<1>5. CASE CheckRef \/ NextConstraint
  BY <1>5 DEF CheckRef, NextConstraint
<1>6. CASE Accept \/ NetsWarnedOf
  BY <1>6 DEF Accept, NetsWarnedOf
<1>7. CASE WarnOfNet \/ WarnOfConstraint \/ UNCHANGED vars
  BY <1>7 DEF WarnOfNet, WarnOfConstraint, vars
<1>8. QED
  BY <1>1, <1>2, <1>3, <1>4, <1>5, <1>6, <1>7 DEF Next, BuildStep

LEMMA StepsPromised ==
  ASSUME Typed, Found, [Next]_vars
  PROVE  [Promise!Next]_<<Promise!circuit, Shown>>
<1>1. CASE Edit
  <2>1. Promise!Edit /\ UNCHANGED result
    BY <1>1 DEF Edit
  <2>2. UNCHANGED Shown
    BY <2>1 DEF Shown
  <2>3. QED
    BY <2>1, <2>2 DEF Promise!Next, Shown
<1>2. CASE Refuse
  BY <1>2, RefuseAnswers DEF Promise!Next, Promise!Build, Shown
<1>3. CASE Finish
  BY <1>3, FinishAnswers DEF Promise!Next, Promise!Build, Shown
<1>4. CASE UNCHANGED <<devices, nets, constraints, result>>
  BY <1>4 DEF Promise!circuit, Shown
<1>5. QED
  BY <1>1, <1>2, <1>3, <1>4, OthersKeep

\* build names every error and every warning of the circuit as it stands, and
\* no other, however it was edited between one build and the next
\* (builder.rs:162-241).
THEOREM BuilderKeepsPromise == Spec => KeepsPromise
<1>1. Init => Promise!Init
  BY DEF Init, Promise!Init, Promise!NoResult
<1>2. (Typed /\ Found) /\ [Next]_vars => [Promise!Next]_<<Promise!circuit, Shown>>
  BY StepsPromised
<1>3. QED
  BY <1>1, <1>2, FoundAlways, PTL DEF Spec, KeepsPromise, Promise!Spec, Shown

----------------------------------------------------------------------------
(* Duplicates and conflicts outlive every later edit *)

Extends(longer, s) ==
  DOMAIN s \subseteq DOMAIN longer /\ \A k \in DOMAIN s : longer[k] = s[k]

LEMMA AppendExtends ==
  ASSUME NEW S, NEW s \in Seq(S), NEW e \in S
  PROVE  Extends(Append(s, e), s) /\ Len(Append(s, e)) = Len(s) + 1
BY DEF Extends

LEMMA DuplicatesLast ==
  ASSUME NEW names, NEW names2, NEW n \in Nat, NEW n2 \in Nat, n <= n2,
         DOMAIN names = 1 .. n, Extends(names2, names), NEW kind
  PROVE  DupErrors(names, kind, n) \subseteq DupErrors(names2, kind, n2)
<1>1. \A k \in 1 .. n : k \in 1 .. n2 /\ names2[k] = names[k]
  BY DEF Extends
<1>2. \A k \in 1 .. n : \A l \in 1 .. k - 1 : names2[l] = names[l]
  BY <1>1
<1>3. QED
  BY <1>1, <1>2 DEF DupErrors

LEMMA ConflictsLast ==
  ASSUME NEW dv, NEW dv2, ToSet(dv) \subseteq ToSet(dv2),
         NEW nt, NEW nt2, Extends(nt2, nt),
         NetLens(nt) \in Seq(Nat), NetLens(nt2) \in Seq(Nat),
         NEW n \in Nat, DOMAIN nt = 1 .. n
  PROVE  ConflictErrors(dv, nt, Grid(NetLens(nt))) \subseteq ConflictErrors(dv2, nt2, Grid(NetLens(nt2)))
<1> DEFINE G == Grid(NetLens(nt))
           G2 == Grid(NetLens(nt2))
<1>1. /\ DOMAIN NetLens(nt) = 1 .. n /\ DOMAIN NetLens(nt) \subseteq DOMAIN NetLens(nt2)
      /\ \A k \in 1 .. n : nt2[k] = nt[k] /\ NetLens(nt2)[k] = NetLens(nt)[k]
  BY DEF Extends, NetLens
<1>2. ASSUME NEW b \in G
      PROVE  /\ b \in G2 /\ b[1] \in 1 .. n /\ nt2[b[1]] = nt[b[1]]
             /\ ConnAt(nt2, b) = ConnAt(nt, b) /\ TermAt(nt2, b) = TermAt(nt, b)
  <2>1. b[1] \in 1 .. n
    BY <1>1, GridTypes
  <2>2. b \in G2
    BY <1>1, <2>1 DEF Grid
  <2>3. QED
    BY <1>1, <2>1, <2>2 DEF ConnAt, TermAt
<1>3. ASSUME NEW b \in G, NEW c \in G2, Before(c, b)
      PROVE  c \in G
  <2>1. b[1] \in 1 .. n /\ c[1] \in Nat \ {0} /\ c[1] <= b[1]
    <3>1. b[1] \in 1 .. n
      BY <1>2
    <3>2. c[1] \in Nat \ {0}
      BY GridTypes
    <3>3. QED
      BY <1>3, <3>1, <3>2 DEF Before
  <2>2. c[1] \in 1 .. n
    BY <2>1
  <2>3. QED
    BY <1>1, <2>2 DEF Grid
<1> HIDE DEF G, G2
<1>4. ASSUME NEW a \in G, First(nt, a)
      PROVE  First(nt2, a)
  BY <1>2, <1>3, <1>4 DEF First, G, G2
<1>5. ASSUME NEW a \in G, NEW b \in G, InConflict(dv, nt, a, b)
      PROVE  /\ InConflict(dv2, nt2, a, b)
             /\ ConflictError(nt2, a, b) = ConflictError(nt, a, b)
  BY <1>2, <1>4, <1>5 DEF InConflict, ConflictError
<1>6. ASSUME NEW e \in ConflictErrors(dv, nt, G)
      PROVE  e \in ConflictErrors(dv2, nt2, G2)
  <2>1. PICK b \in G, a \in G : InConflict(dv, nt, a, b) /\ e = ConflictError(nt, a, b)
    BY <1>6 DEF ConflictErrors, Clashes, Rivals, G
  <2>2. a \in G2 /\ b \in G2 /\ InConflict(dv2, nt2, a, b) /\ e = ConflictError(nt2, a, b)
    BY <1>2, <1>5, <2>1
  <2>3. e \in Clashes(dv2, nt2, b)
    BY <2>2 DEF Clashes, Rivals, G2
  <2>4. QED
    BY <2>2, <2>3 DEF ConflictErrors
<1>7. QED
  BY <1>6 DEF G, G2

LEMMA NetLensSeq ==
  ASSUME NEW nt \in Seq(Promise!Net)
  PROVE  NetLens(nt) \in Seq(Nat)
<1>1. \A k \in DOMAIN nt : Len(nt[k].connections) \in Nat
  <2> SUFFICES ASSUME NEW k \in DOMAIN nt
               PROVE  Len(nt[k].connections) \in Nat
    OBVIOUS
  <2>1. nt[k] \in Promise!Net
    OBVIOUS
  <2>2. nt[k].connections \in Seq(Promise!Connection)
    BY <2>1 DEF Promise!Net
  <2>3. QED
    BY <2>2
<1>2. DOMAIN nt = 1 .. Len(nt) /\ Len(nt) \in Nat
  OBVIOUS
<1>3. NetLens(nt) \in [1 .. Len(nt) -> Nat]
  BY <1>1, <1>2 DEF NetLens
<1>4. QED
  BY <1>2, <1>3

LEMMA EditExtends ==
  ASSUME Typed, Edit
  PROVE  /\ Extends(devices', devices) /\ Extends(nets', nets)
         /\ Len(devices) <= Len(devices') /\ Len(nets) <= Len(nets')
<1>1. devices \in Seq(Names) /\ nets \in Seq(Promise!Net) /\ Promise!Edit
  BY DEF Typed, TypeOK, Edit
<1>2. /\ Len(devices) \in Nat /\ Len(nets) \in Nat
      /\ Extends(devices, devices) /\ Extends(nets, nets)
  BY <1>1 DEF Extends
<1>3. CASE \E name \in Names : Promise!AddDevice(name)
  BY <1>1, <1>2, <1>3, AppendExtends DEF Promise!AddDevice
<1>4. ASSUME NEW name \in Names, NEW conns \in Promise!BoundedSeq(Promise!Connection, MaxConnections),
             Promise!DeclareNet(name, conns)
      PROVE  /\ Extends(nets', nets) /\ Len(nets) <= Len(nets') /\ devices' = devices
  <2>1. [name |-> name, connections |-> conns] \in Promise!Net
    BY BoundedSeqIsSeq, BoundAssumption DEF Promise!Net
  <2>2. nets' = Append(nets, [name |-> name, connections |-> conns]) /\ devices' = devices
    BY <1>4 DEF Promise!DeclareNet
  <2>3. QED
    BY <1>1, <1>2, <2>1, <2>2, AppendExtends
<1>5. CASE \E c \in Constraints : Promise!Constrain(c)
  BY <1>2, <1>5 DEF Promise!Constrain
<1>6. \/ \E name \in Names : Promise!AddDevice(name)
      \/ \E name \in Names, conns \in Promise!BoundedSeq(Promise!Connection, MaxConnections) :
           Promise!DeclareNet(name, conns)
      \/ \E c \in Constraints : Promise!Constrain(c)
  BY <1>1, Zenon DEF Promise!Edit
<1>7. QED
  BY <1>2, <1>3, <1>4, <1>5, <1>6

LEMMA LastingErrors ==
  ASSUME NEW dv, NEW nt, NEW cs, NEW e \in AllErrors(dv, nt, cs), e.kind # "UnknownDevice"
  PROVE  \/ e \in DupErrors(dv, "DuplicateDevice", Len(dv))
         \/ e \in DupErrors(NamesOf(nt), "DuplicateNet", Len(nt))
         \/ e \in ConflictErrors(dv, nt, Grid(NetLens(nt)))
<1>1. e \notin UnboundErrors(dv, nt, Grid(NetLens(nt)))
  BY DEF UnboundErrors, Error
<1>2. e \notin RefErrors(dv, cs, Grid(RefLens(cs)))
  BY DEF RefErrors, Error
<1>3. QED
  BY <1>1, <1>2 DEF AllErrors, Declared, BindErrors

LEMMA ErrorsOutliveEdit ==
  ASSUME Typed, Typed', Edit, NEW e \in AllErrors(devices, nets, constraints),
         e.kind # "UnknownDevice"
  PROVE  e \in AllErrors(devices, nets, constraints)'
<1>1. /\ Extends(devices', devices) /\ Extends(nets', nets)
      /\ Len(devices) <= Len(devices') /\ Len(nets) <= Len(nets')
  BY EditExtends
<1>2. /\ DOMAIN devices = 1 .. Len(devices) /\ Len(devices) \in Nat /\ Len(devices') \in Nat
      /\ DOMAIN nets = 1 .. Len(nets) /\ Len(nets) \in Nat /\ Len(nets') \in Nat
      /\ NetLens(nets) \in Seq(Nat) /\ NetLens(nets') \in Seq(Nat)
  <2>1. Len(devices') \in Nat /\ Len(nets') \in Nat /\ NetLens(nets') \in Seq(Nat)
    <3>1. devices' \in Seq(Names) /\ nets' \in Seq(Promise!Net)
      BY DEF Typed, TypeOK
    <3>2. QED
      BY <3>1, NetLensSeq
  <2>2. DOMAIN devices = 1 .. Len(devices)
    BY DEF Typed, TypeOK
  <2>3. QED
    BY <2>1, <2>2, Lengths
<1>3. Extends(NamesOf(nets'), NamesOf(nets)) /\ DOMAIN NamesOf(nets) = 1 .. Len(nets)
  BY <1>1, <1>2 DEF Extends, NamesOf
<1>4. ToSet(devices) \subseteq ToSet(devices')
  BY <1>1 DEF Extends, ToSet
<1>5. DupErrors(devices, "DuplicateDevice", Len(devices))
        \subseteq DupErrors(devices', "DuplicateDevice", Len(devices'))
  BY <1>1, <1>2, DuplicatesLast
<1>6. DupErrors(NamesOf(nets), "DuplicateNet", Len(nets))
        \subseteq DupErrors(NamesOf(nets'), "DuplicateNet", Len(nets'))
  BY <1>1, <1>2, <1>3, DuplicatesLast
<1>7. ConflictErrors(devices, nets, Grid(NetLens(nets)))
        \subseteq ConflictErrors(devices', nets', Grid(NetLens(nets')))
  BY <1>1, <1>2, <1>4, ConflictsLast
<1>8. \/ e \in DupErrors(devices', "DuplicateDevice", Len(devices'))
      \/ e \in DupErrors(NamesOf(nets'), "DuplicateNet", Len(nets'))
      \/ e \in ConflictErrors(devices', nets', Grid(NetLens(nets')))
  BY <1>5, <1>6, <1>7, LastingErrors
<1>9. QED
  BY <1>8 DEF AllErrors, Declared, BindErrors

\* What was reported and lasts is still at fault in the circuit as it stands.
Reported == Lasting(result) \subseteq AllErrors(devices, nets, constraints)

LEMMA ReportedInit == Init => Reported
BY DEF Init, Reported, Lasting, Promise!NoResult

LEMMA ReportedNext ==
  ASSUME Typed, Typed', Found, Reported, [Next]_vars
  PROVE  Reported' /\ Lasting(result) \subseteq Lasting(result')
<1>1. CASE Edit
  <2>1. result' = result
    BY <1>1 DEF Edit
  <2>2. \A e \in Lasting(result) : e.kind # "UnknownDevice"
    BY DEF Lasting
  <2>3. Lasting(result) \subseteq AllErrors(devices, nets, constraints)'
    BY <1>1, <2>2, ErrorsOutliveEdit DEF Reported
  <2>4. QED
    BY <2>1, <2>3 DEF Reported
<1>2. CASE Refuse
  <2>1. /\ phase = "refs" /\ i > Len(constraints)
        /\ result' = [tag |-> "err", errors |-> errors]
        /\ UNCHANGED <<devices, nets, constraints>>
    BY <1>2 DEF Refuse, Return, Loop
  <2>2. ToSet(errors) = AllErrors(devices, nets, constraints)
    BY <2>1, AllFound
  <2>3. Lasting(result') = {e \in AllErrors(devices, nets, constraints) : e.kind # "UnknownDevice"}
    BY <2>1, <2>2 DEF Lasting
  <2>4. \A e \in Lasting(result) : e.kind # "UnknownDevice"
    BY DEF Lasting
  <2>5. QED
    BY <2>1, <2>3, <2>4 DEF Reported
<1>3. CASE Finish
  <2>1. /\ phase = "unsupported" /\ result'.tag = "ok" /\ UNCHANGED <<devices, nets, constraints>>
    BY <1>3 DEF Finish, Return, Loop
  <2>2. Lasting(result) = {} /\ Lasting(result') = {}
    BY <2>1 DEF Found, InWarnings, Reported, Lasting
  <2>3. QED
    BY <2>2 DEF Reported
<1>4. CASE UNCHANGED <<devices, nets, constraints, result>>
  BY <1>4 DEF Reported
<1>5. QED
  BY <1>1, <1>2, <1>3, <1>4, OthersKeep

\* A duplicate or a contested terminal that one build reported, every later
\* build reports, whatever is declared between them (builder.rs:167-218).
THEOREM ErrorsLastAlways == Spec => ErrorsLast
<1>1. Init => Reported
  BY ReportedInit
<1>2. (Typed /\ Found) /\ (Typed /\ Found)' /\ Reported /\ [Next]_vars =>
        Reported' /\ [Lasting(result) \subseteq Lasting(result')]_vars
  BY ReportedNext
<1>3. QED
  BY <1>1, <1>2, FoundAlways, PTL DEF Spec, ErrorsLast

----------------------------------------------------------------------------
(* The loops run out *)

\* The loops of build in their order; a build ends with "edit".
Turn(p) ==
  CASE p = "devices" -> 1 [] p = "nets" -> 2 [] p = "terminals" -> 3
    [] p = "refs" -> 4 [] p = "floating" -> 5 [] p = "unsupported" -> 6 [] OTHER -> 7

IndicesInRange ==
  /\ phase = "devices" => i <= Len(devices) + 1
  /\ phase \in {"nets", "terminals", "floating"} => i <= Len(nets) + 1
  /\ phase \in {"refs", "unsupported"} => i <= Len(constraints) + 1
  /\ phase = "terminals" /\ i <= Len(nets) => j <= Len(nets[i].connections) + 1
  /\ phase = "refs" /\ i <= Len(constraints) =>
       j <= Len(Promise!DeviceRefs(constraints[i])) + 1

\* The circuit stands still and the place in the loops moves on.
Advances ==
  phase # "edit" =>
    /\ UNCHANGED <<devices, nets, constraints>>
    /\ \/ Turn(phase) < Turn(phase')
       \/ phase' = phase /\ i < i'
       \/ phase' = phase /\ i' = i /\ j < j'

LEMMA ListLengths ==
  ASSUME Typed
  PROVE  /\ Len(devices) \in Nat /\ Len(nets) \in Nat /\ Len(constraints) \in Nat
         /\ \A n \in 1 .. Len(nets) : Len(nets[n].connections) \in Nat
         /\ \A n \in 1 .. Len(constraints) : Len(Promise!DeviceRefs(constraints[n])) \in Nat
         /\ i \in Nat \ {0} /\ j \in Nat \ {0}
<1>1. \A k \in 1 .. Len(nets) : NetLens(nets)[k] \in Nat
  BY Lengths
<1>2. \A k \in 1 .. Len(constraints) : RefLens(constraints)[k] \in Nat
  BY Lengths
<1>3. i \in Nat \ {0} /\ j \in Nat \ {0}
  BY DEF Typed, TypeOK
<1>4. QED
  BY <1>1, <1>2, <1>3, Lengths

LEMMA IndicesNext ==
  ASSUME Typed, IndicesInRange, [Next]_vars
  PROVE  IndicesInRange' /\ (UNCHANGED vars \/ Advances)
<1>1. /\ Len(devices) \in Nat /\ Len(nets) \in Nat /\ Len(constraints) \in Nat
      /\ \A n \in 1 .. Len(nets) : Len(nets[n].connections) \in Nat
      /\ \A n \in 1 .. Len(constraints) : Len(Promise!DeviceRefs(constraints[n])) \in Nat
      /\ i \in Nat \ {0} /\ j \in Nat \ {0}
  BY ListLengths
<1> DEFINE refs(n) == Promise!DeviceRefs(constraints[n])
<1>2. CASE Edit
  BY <1>2 DEF Edit, loopVars, IndicesInRange, Advances
<1>3. CASE StartBuild
  BY <1>1, <1>3 DEF StartBuild, Loop, IndicesInRange, Advances
<1>4. CASE CheckDevice
  BY <1>1, <1>4 DEF CheckDevice, CheckName, IndicesInRange, Advances
<1>5. CASE DevicesChecked
  BY <1>1, <1>5 DEF DevicesChecked, Loop, IndicesInRange, Advances, Turn
<1>6. CASE CheckNet
  BY <1>1, <1>6 DEF CheckNet, CheckName, IndicesInRange, Advances
<1>7. CASE NetsChecked
  BY <1>1, <1>7 DEF NetsChecked, Loop, IndicesInRange, Advances, Turn
<1>8. CASE BindTerminal
  <2>1. /\ phase = "terminals" /\ i <= Len(nets) /\ j <= Len(nets[i].connections)
        /\ j' = j + 1 /\ UNCHANGED <<devices, nets, constraints, phase, i>>
    BY <1>8 DEF BindTerminal
  <2>2. i \in 1 .. Len(nets)
    BY <1>1, <2>1
  <2>3. Len(nets[i].connections) \in Nat
    BY <1>1, <2>2
  <2>4. QED
    BY <1>1, <2>1, <2>3 DEF IndicesInRange, Advances
<1>9. CASE NextNet
  <2>1. /\ phase = "terminals" /\ i <= Len(nets) /\ i' = i + 1 /\ j' = 1
        /\ UNCHANGED <<devices, nets, constraints, phase>>
    BY <1>9 DEF NextNet
  <2>2. i' <= Len(nets) => i' \in 1 .. Len(nets)
    BY <1>1, <2>1
  <2>3. i' <= Len(nets) => 1 <= Len(nets[i'].connections) + 1
    BY <1>1, <2>2
  <2>4. QED
    BY <1>1, <2>1, <2>3 DEF IndicesInRange, Advances
<1>10. CASE TerminalsBound
  <2>1. 1 <= Len(constraints) => 1 <= Len(refs(1)) + 1
    BY <1>1
  <2>2. QED
    BY <1>1, <1>10, <2>1 DEF TerminalsBound, Loop, IndicesInRange, Advances, Turn
<1>11. CASE CheckRef
  <2>1. /\ phase = "refs" /\ i <= Len(constraints) /\ j <= Len(refs(i))
        /\ j' = j + 1 /\ UNCHANGED <<devices, nets, constraints, phase, i>>
    BY <1>11 DEF CheckRef
  <2>2. i \in 1 .. Len(constraints)
    BY <1>1, <2>1
  <2>3. Len(refs(i)) \in Nat
    BY <1>1, <2>2
  <2>4. j' <= Len(refs(i)) + 1 /\ j < j'
    BY <1>1, <2>1, <2>3
  <2>5. QED
    BY <1>1, <2>1, <2>4 DEF IndicesInRange, Advances
<1>12. CASE NextConstraint
  <2>1. /\ phase = "refs" /\ i <= Len(constraints) /\ i' = i + 1 /\ j' = 1
        /\ UNCHANGED <<devices, nets, constraints, phase>>
    BY <1>12 DEF NextConstraint
  <2>2. i' <= Len(constraints) => i' \in 1 .. Len(constraints)
    BY <1>1, <2>1
  <2>3. i' <= Len(constraints) => 1 <= Len(refs(i')) + 1
    BY <1>1, <2>2
  <2>4. QED
    BY <1>1, <2>1, <2>3 DEF IndicesInRange, Advances
<1>13. CASE Refuse
  BY <1>13 DEF Refuse, Return, Loop, IndicesInRange, Advances, Turn
<1>14. CASE Accept
  BY <1>1, <1>14 DEF Accept, Loop, IndicesInRange, Advances, Turn
<1>15. CASE WarnOfNet
  BY <1>1, <1>15 DEF WarnOfNet, IndicesInRange, Advances
<1>16. CASE NetsWarnedOf
  BY <1>1, <1>16 DEF NetsWarnedOf, Loop, IndicesInRange, Advances, Turn
<1>17. CASE WarnOfConstraint
  BY <1>1, <1>17 DEF WarnOfConstraint, IndicesInRange, Advances
<1>18. CASE Finish
  BY <1>18 DEF Finish, Return, Loop, IndicesInRange, Advances, Turn
<1>19. CASE UNCHANGED vars
  BY <1>19 DEF vars, loopVars, IndicesInRange
<1>20. QED
  BY <1>2, <1>3, <1>4, <1>5, <1>6, <1>7, <1>8, <1>9, <1>10, <1>11, <1>12, <1>13, <1>14,
     <1>15, <1>16, <1>17, <1>18, <1>19 DEF Next, BuildStep

\* Each step of a build moves its place in the loops on, in a circuit that stands
\* still and within its lists: a build has finitely many steps, whatever the circuit
\* (builder.rs:173-229).
THEOREM LoopsRunOut == Spec => []IndicesInRange /\ [][Advances]_vars
<1>1. Init => IndicesInRange
  BY DEF Init, IndicesInRange
<1>2. Typed /\ IndicesInRange /\ [Next]_vars => IndicesInRange'
  BY IndicesNext
<1>3. Typed /\ IndicesInRange /\ [Next]_vars => [Advances]_vars
  BY IndicesNext
<1>4. QED
  BY <1>1, <1>2, <1>3, FoundAlways, PTL DEF Spec

====
