------------------------------- MODULE MCFlow -------------------------------
(* The flow and its front ends over a flat netlist, one whose only device is *)
(* in a subckt, one whose first subckt is empty, and an empty one.            *)
EXTENDS FrontEnds

W(lead, id) == [lead |-> lead, kv |-> FALSE, id |-> id]
M1          == <<W("M", "1")>>
R1          == <<W("R", "1")>>
A           == W("other", "a")
B           == W("other", "b")

MCId == {"", "1", "2", "a", "b"}

Sub(name, body) == [header |-> <<name>>, body |-> body]

MCNetlists ==
  { EmptyNetlist,
    [EmptyNetlist EXCEPT !.top = <<M1>>],
    [EmptyNetlist EXCEPT !.defs = Insert(EmptyDefs, A, Sub(A, <<M1>>)),
                         !.order = <<A>>],
    [EmptyNetlist EXCEPT
       !.defs = Insert(Insert(EmptyDefs, A, Sub(A, <<>>)), B, Sub(B, <<M1, R1>>)),
       !.order = <<A, B>>] }

\* Rows with a good, an overlong or a missing coordinate, and texts of up to three.
At(given, n) == [given |-> given, n |-> n]
Ends    == {- Half, -1, Half - 1}
MCRows  == [skipped : {FALSE}, x : {At(TRUE, n) : n \in Ends}, y : {At(TRUE, n) : n \in Ends}]
           \cup [skipped : {FALSE}, x : {At(TRUE, Half), At(FALSE, 0)}, y : {At(FALSE, 0)}]
           \cup [skipped : {FALSE}, x : {At(TRUE, 0)}, y : {At(TRUE, - Half - 1), At(FALSE, 0)}]
           \cup {[skipped |-> TRUE, x |-> At(FALSE, 0), y |-> At(FALSE, 0)]}
MCTexts == BoundedSeq(MCRows, 3)

\* Schemas of any two declarations, and of three that may mislead the scanners.
V(kind, x, n, whole, list) == [kind |-> kind, s |-> x, n |-> n, whole |-> whole, list |-> list]
Text(x)    == V("string", x, 0, TRUE, <<>>)
Number(n)  == V("number", "", n, TRUE, <<>>)
List(xs)   == V("list", "", 0, TRUE, xs)
Values     == { Text("x"), Text("tech"), Number(3), Number(4), V("number", "", 1, FALSE, <<>>),
                List(<<>>), List(<<"y", "z">>), List(<<"layers">>) }
AnySchema  == [key : {"tech", "db_unit_nm", "layers", "vendor"}, value : Values]
MostlyPlain ==
  [key : {"tech"}, value : {Text("x")}] \cup [key : {"db_unit_nm"}, value : {Number(3), Number(4)}]
  \cup [key : {"layers"}, value : {List(<<>>), List(<<"y", "z">>)}]
  \cup [key : {"vendor"}, value : {Text("tech"), List(<<"v">>), List(<<"layers">>)}]
MCSchemas  == BoundedSeq(AnySchema, 2) \cup BoundedSeq(MostlyPlain, 3)

MCBuiltNames == {<<>>, <<W("M", "1")>>}
=============================================================================
