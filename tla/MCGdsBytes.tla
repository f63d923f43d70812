------------------------------ MODULE MCGdsBytes ------------------------------
(* GdsBytes with bytes of five bits: a record is shorter than 1024 bytes, an    *)
(* integer of four bytes has 20 bits, a mantissa 35.                            *)
EXTENDS GdsBytes

R(rt, data) == [rt |-> rt, data |-> data]

\* Two units with every bit set.
Ones(neg, low, high) == [neg |-> neg, bits |-> low .. high]
MCDefaults == <<Ones(FALSE, -40, -9), Ones(FALSE, -60, -29)>>

Boxed(name, cell, layer, xy) ==
  << R(HEADER, <<Version>>), R(LIBNAME, name), R(UNITS, MCDefaults),
     R(BGNSTR, <<0>>), R(STRNAME, cell), R(BOUNDARY, <<>>), R(LAYER, <<layer>>),
     R(XY, xy), R(ENDEL, <<>>), R(ENDSTR, <<>>), R(ENDLIB, <<>>) >>

Long1 == -((Base * Base * Base * Base) \div 2)
Long2 == (Base * Base * Base * Base) \div 2 - 1

Names == {<<>>, <<1>>, <<1, 31>>, <<1, 0, 2>>}
NewDocuments ==
  {Document(n, MCDefaults) : n \in Names}
  \cup {Boxed(<<1>>, n, l, <<0, -1, Long1, Long2>>) : n \in Names, l \in {-512, -1, 511}}

\* Names around the longest that a header can tell.
Limit     == Base * Base - 4
LongNames == {[k \in 1 .. n |-> 1] : n \in {Limit - 2, Limit - 1, Limit, Limit + 1}}
LongDocuments == {Document(n, MCDefaults) : n \in LongNames}

\* Streams of others: any real for a unit, payloads that do not fit, and any few bytes.
Mantissas ==
  {{}, {0}, {34}, {30}, 0 .. 34, 3 .. 34, 2 .. 34, 0 .. 33, 0 .. 30, {33} \cup 0 .. 2,
   {34, 2}, {34, 3, 2}, {34, 2, 0}, {31, 30, 0}, {34} \cup 0 .. 1}
Reals8 == [neg : BOOLEAN, biased : 0 .. 15, mantissa : Mantissas]

Framed(rt, payload) == Header(rt, Len(payload)) \o payload
Start     == Framed(HEADER, <<0, 1>>)
UnitFiles == {Start \o Framed(UNITS, BytesOfReal(r) \o BytesOfReal(r)) : r \in Reals8}
OddFiles  == {Start \o Framed(rt, [k \in 1 .. n |-> 1]) :
                rt \in {LIBNAME, UNITS, LAYER, XY, BGNLIB}, n \in 0 .. 9}
AnyFiles  == BoundedSeq({0, 4, 7}, 5) \cup {Start \o b : b \in BoundedSeq({0, 4, 7}, 5)}

MCForeign == UnitFiles \cup OddFiles \cup AnyFiles

Ends    == {Long1, -1, 0, 1, Long2}
MCRects == [x : Ends, y : {0, Long2}, w : Ends, h : {-1, 1}]

NoFiles == {}
=============================================================================
