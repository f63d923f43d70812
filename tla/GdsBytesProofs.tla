---------------------------- MODULE GdsBytesProofs ----------------------------
(***************************************************************************)
(* That the reals of GDSII are exact (GdsReal): what the decoder returns   *)
(* is a double, and what the encoder writes has the double's value.  Then  *)
(* that a stream is framed as its reader takes it apart (GdsBytes), that   *)
(* its units are exact, and that what is read from it is what was written: *)
(* names to their first NUL, every integer, and every double that has a    *)
(* real, for every document and every stream.                              *)
(***************************************************************************)
EXTENDS GdsBytes, WellFoundedInduction, SequenceTheorems, TLAPS

----------------------------------------------------------------------------
(* Shifts, and the ends of a set of weights *)

LEMMA ShiftShifts ==
  ASSUME NEW bits \in SUBSET Int, NEW j \in Int, NEW k \in Int
  PROVE  /\ Shift(bits, k) \in SUBSET Int
         /\ Shift(Shift(bits, j), k) = Shift(bits, j + k)
         /\ Shift(bits, 0) = bits
         /\ \A p \in Int : p \in Shift(bits, k) <=> p - k \in bits
         /\ FitsDouble(bits) => FitsDouble(Shift(bits, k))
<1>1. Shift(bits, k) \in SUBSET Int
  BY DEF Shift
<1>2. \A p \in Int : p \in Shift(bits, k) <=> p - k \in bits
  BY DEF Shift
<1>3. Shift(bits, 0) = bits
  <2>1. \A p \in bits : p + 0 = p
    OBVIOUS
  <2>2. QED
    BY <2>1, Zenon DEF Shift
<1>4. Shift(Shift(bits, j), k) = Shift(bits, j + k)
  <2>1. \A p \in bits : (p + j) + k = p + (j + k)
    OBVIOUS
  <2>2. QED
    BY <2>1 DEF Shift
<1>5. FitsDouble(bits) => FitsDouble(Shift(bits, k))
  BY WidthsAssumption DEF FitsDouble, Shift
<1>6. QED
  BY <1>1, <1>2, <1>3, <1>4, <1>5

LEMMA LeastNat ==
  ASSUME NEW T \in SUBSET Nat, T # {}
  PROVE  \E m \in T : \A n \in T : m <= n
<1>1. PICK m \in T : \A n \in T : ~ (<<n, m>> \in OpToRel(<, Nat))
  BY NatLessThanWellFounded, WFMin
<1>2. \A n \in T : ~ (n < m)
  BY <1>1 DEF OpToRel
<1>3. QED
  BY <1>2

LEMMA Greatest ==
  ASSUME NEW bits \in SUBSET Int, bits # {}, NEW b \in Int, \A p \in bits : p <= b
  PROVE  \E t \in bits : \A p \in bits : p <= t
<1> DEFINE T == {b - p : p \in bits}
<1>1. T \in SUBSET Nat /\ T # {}
  <2>1. \A p \in bits : b - p \in Nat
    OBVIOUS
  <2>2. T \in SUBSET Nat
    BY <2>1
  <2>3. PICK p \in bits : TRUE
    OBVIOUS
  <2>4. b - p \in T
    OBVIOUS
  <2>5. QED
    BY <2>2, <2>4
<1>2. PICK m \in T : \A n \in T : m <= n
  BY <1>1, LeastNat
<1>3. PICK t \in bits : m = b - t
  OBVIOUS
<1>4. ASSUME NEW p \in bits PROVE p <= t
  <2>1. b - p \in T
    OBVIOUS
  <2>2. b - t <= b - p
    BY <1>2, <1>3, <2>1
  <2>3. p \in Int /\ t \in Int
    OBVIOUS
  <2>4. QED
    BY <2>2, <2>3
<1>5. QED
  BY <1>4

----------------------------------------------------------------------------
(* The decoder *)

\* A carry ends at the first place that is free.
LEMMA PlusFits ==
  ASSUME NEW bits \in SUBSET Int, NEW p \in Int,
         \A q \in bits : q >= p /\ q < p + P
  PROVE  Plus(bits, p) \in SUBSET Int /\ FitsDouble(Plus(bits, p))
<1> DEFINE IsFree(q) == q \notin bits /\ p .. q - 1 \subseteq bits
           T == {n \in Nat : p + n \notin bits}
<1>1. P \in T
  BY WidthsAssumption
<1>2. PICK m \in T : \A n \in T : m <= n
  BY <1>1, LeastNat
<1>3. p + m \in p .. p + Q /\ IsFree(p + m)
  <2>1. m <= P /\ P <= Q
    BY <1>1, <1>2, WidthsAssumption
  <2>2. \A q \in p .. p + m - 1 : q \in bits
    <3> SUFFICES ASSUME NEW q \in p .. p + m - 1, q \notin bits PROVE FALSE
      OBVIOUS
    <3>1. q - p \in T
      OBVIOUS
    <3>2. QED
      BY <3>1, <1>2
  <2>3. QED
    BY <2>1, <2>2, WidthsAssumption
<1> DEFINE free == CHOOSE q \in p .. p + Q : IsFree(q)
<1>4. free \in p .. p + Q /\ IsFree(free)
  BY <1>3
<1>5. Plus(bits, p) = (bits \ (p .. free)) \cup {free}
  BY DEF Plus
<1> HIDE DEF free
<1>6. free \in Int /\ p <= free /\ \A q \in Int : p <= q /\ q < free => q \in bits
  <2>1. free \in Int /\ p <= free
    BY <1>4, WidthsAssumption
  <2>2. \A q \in p .. free - 1 : q \in bits
    BY <1>4
  <2>3. QED
    BY <2>1, <2>2
<1>7. free <= p + P
  <2>1. CASE free > p + P
    <3>1. p + P \in Int /\ p <= p + P
      BY WidthsAssumption
    <3>2. p + P \in bits
      BY <2>1, <3>1, <1>6
    <3>3. QED
      BY <3>2, WidthsAssumption
  <2>2. QED
    BY <2>1, <1>6, WidthsAssumption
<1> DEFINE rest == bits \ (p .. free)
<1>8. \A q \in rest : q \in Int /\ free < q /\ q < p + P
  BY <1>6
<1>9. FitsDouble(rest \cup {free})
  <2>1. SUFFICES ASSUME NEW q \in rest \cup {free}, NEW r \in rest \cup {free}
                 PROVE  q - r < P
    BY DEF FitsDouble
  <2>2. q \in Int /\ p <= q /\ (q = free \/ q < p + P)
    BY <1>6, <1>8
  <2>3. r \in Int /\ p <= r /\ (r = free \/ free < r)
    BY <1>6, <1>8
  <2> HIDE DEF rest
  <2>4. CASE q = free
    BY <2>2, <2>3, <2>4, <1>6, <1>7, WidthsAssumption
  <2>5. CASE q < p + P
    BY <2>2, <2>3, <2>5, <1>6, WidthsAssumption
  <2>6. QED
    BY <2>2, <2>4, <2>5
<1>10. QED
  BY <1>5, <1>6, <1>9

LEMMA ToDoubleFits ==
  ASSUME NEW bits \in SUBSET Int, NEW b \in Int, \A p \in bits : p <= b
  PROVE  ToDouble[bits] \in SUBSET Int /\ FitsDouble(ToDouble[bits])
<1>1. CASE FitsDouble(bits)
  BY <1>1 DEF ToDouble
<1>2. CASE ~ FitsDouble(bits)
  <2> DEFINE top   == CHOOSE p \in bits : \A q \in bits : q <= p
             low   == top - P + 1
             upper == {p \in bits : p >= low}
  <2>1. bits # {}
    BY <1>2 DEF FitsDouble
  <2>2. top \in bits /\ \A q \in bits : q <= top
    BY <2>1, Greatest
  <2>3. \/ ToDouble[bits] = Plus(upper, low)
        \/ ToDouble[bits] = upper
    BY <1>2 DEF ToDouble
  <2>4. upper \in SUBSET Int /\ low \in Int /\ \A q \in upper : q >= low /\ q < low + P
    <3> HIDE DEF top
    <3> HIDE DEF upper
    <3>1. top \in Int /\ low \in Int
      BY <2>2, WidthsAssumption
    <3> USE DEF upper
    <3>2. top < low + P
      BY <3>1, WidthsAssumption
    <3> HIDE DEF low
    <3>3. \A q \in upper : q \in Int /\ q >= low /\ q <= top
      BY <2>2
    <3> HIDE DEF upper
    <3>4. QED
      BY <3>1, <3>2, <3>3, WidthsAssumption
  <2> HIDE DEF top, low, upper
  <2>5. Plus(upper, low) \in SUBSET Int /\ FitsDouble(Plus(upper, low))
    BY <2>4, PlusFits
  <2>6. FitsDouble(upper)
    BY <2>4, WidthsAssumption DEF FitsDouble
  <2>7. QED
    BY <2>3, <2>4, <2>5, <2>6
<1>3. QED
  BY <1>1, <1>2

\* What real8_to_f64 returns is a double, whatever the mantissa, normalized or not.
THEOREM DecodeReturnsDouble == \A r \in Real8 : Decode(r) \in Double
<1> SUFFICES ASSUME NEW r \in Real8 PROVE Decode(r) \in Double
  OBVIOUS
<1>1. CASE r.mantissa = {}
  <2>1. Decode(r) = Zero
    BY <1>1 DEF Decode
  <2>2. QED
    BY <2>1 DEF Zero, Double, FitsDouble
<1>2. CASE r.mantissa # {}
  <2> DEFINE k == 4 * (r.biased - Bias) - Q
  <2>1. r.mantissa \in SUBSET Int /\ r.biased \in Int /\ k \in Int /\ r.neg \in BOOLEAN
    BY WidthsAssumption DEF Real8
  <2>2. Weights(r) \in SUBSET Int /\ \A p \in Weights(r) : p <= Q + k
    <3>1. Weights(r) = {p + k : p \in r.mantissa}
      BY DEF Weights, Shift
    <3>2. \A p \in r.mantissa : p \in Int /\ p <= Q
      BY WidthsAssumption DEF Real8
    <3> HIDE DEF k
    <3>3. QED
      BY <2>1, <3>1, <3>2, WidthsAssumption
  <2>3. ToDouble[Weights(r)] \in SUBSET Int /\ FitsDouble(ToDouble[Weights(r)])
    <3>1. Q + k \in Int
      BY <2>1, WidthsAssumption
    <3> HIDE DEF k
    <3>2. QED
      BY <2>2, <3>1, ToDoubleFits
  <2>4. Decode(r) = [neg |-> r.neg, bits |-> ToDouble[Weights(r)]]
    BY <1>2 DEF Decode
  <2>5. QED
    BY <2>1, <2>3, <2>4 DEF Double
<1>3. QED
  BY <1>1, <1>2

----------------------------------------------------------------------------
(* The encoder *)

RealInv ==
  /\ coding \in {"idle", "scale", "done"}
  /\ value \in Double /\ v \in SUBSET Int /\ exponent \in Int /\ real8 \in Real8
  /\ coding = "done" /\ value.bits = {} => real8 = Zero8
  /\ ScalingExact
  /\ EncodingExact

LEMMA ZerosAreNumbers == Zero8 \in Real8 /\ Zero \in Double
  BY WidthsAssumption DEF Zero8, Real8, Zero, Double, FitsDouble

LEMMA RealInitial == RealInit => RealInv
  BY ZerosAreNumbers DEF RealInit, RealInv, ScalingExact, EncodingExact

LEMMA RealStart == ASSUME RealInv, NEW d \in Double, StartEncode(d) PROVE RealInv'
<1>1. d.bits \in SUBSET Int /\ FitsDouble(d.bits)
  BY DEF Double
<1>2. Shift(d.bits, 4 * 0) = d.bits
  BY <1>1, ShiftShifts
<1>3. QED
  BY <1>1, <1>2, ZerosAreNumbers DEF RealInv, StartEncode, ScalingExact, EncodingExact

LEMMA RealRest ==
  ASSUME RealInv, coding' = coding \/ coding' = "idle", UNCHANGED <<value, v, exponent, real8>>
  PROVE  RealInv'
BY DEF RealInv, ScalingExact, EncodingExact

\* One more pass of either loop.
LEMMA ScalePreserves ==
  ASSUME RealInv, coding = "scale", coding' = coding, value' = value, real8' = real8,
         NEW k \in {-1, 1}, v' = Shift(v, 4 * k), exponent' = exponent - k
  PROVE  RealInv'
<1>1. v \in SUBSET Int /\ v # {} /\ FitsDouble(v) /\ exponent \in Int
      /\ Shift(v, 4 * exponent) = value.bits
  BY DEF RealInv, ScalingExact
<1>2. v' \in SUBSET Int /\ FitsDouble(v')
  <2>1. 4 * k \in Int
    OBVIOUS
  <2>2. \A m \in Int : Shift(v, m) \in SUBSET Int /\ FitsDouble(Shift(v, m))
    BY ONLY <1>1, ShiftShifts
  <2>3. QED
    BY <2>1, <2>2
<1>3. v' # {}
  <2>1. PICK p \in v : TRUE
    BY <1>1
  <2>2. p + 4 * k \in Shift(v, 4 * k)
    BY DEF Shift
  <2>3. QED
    BY <2>2
<1>4. exponent' \in Int /\ 4 * k + 4 * exponent' = 4 * exponent
  <2>1. exponent \in Int /\ exponent' = exponent - k
    BY <1>1
  <2>2. QED
    BY ONLY <2>1, k \in {-1, 1}
<1>5. Shift(v', 4 * exponent') = Shift(v, 4 * k + 4 * exponent')
  BY <1>1, <1>4, ShiftShifts
<1>6. QED
  BY <1>1, <1>2, <1>3, <1>4, <1>5 DEF RealInv, ScalingExact, EncodingExact

\* A scaled double fits the mantissa: nothing is rounded and nothing carried.
LEMMA ScaledFits ==
  ASSUME NEW bits \in SUBSET Int, FitsDouble(bits),
         \A p \in bits : p < 0, \E p \in bits : p >= -4
  PROVE  /\ Shift(bits, Q) \in SUBSET (0 .. Q - 1)
         /\ RoundToInteger(Shift(bits, Q)) = Shift(bits, Q)
         /\ \E p \in Shift(bits, Q) : p >= Q - 4
<1>1. PICK t \in bits : t >= -4
  OBVIOUS
<1>2. \A p \in bits : p + Q \in 0 .. Q - 1
  <2>1. SUFFICES ASSUME NEW p \in bits PROVE p + Q \in 0 .. Q - 1
    OBVIOUS
  <2>2. p \in Int /\ t \in Int /\ p < 0 /\ t - p < P
    BY DEF FitsDouble
  <2>3. QED
    BY <1>1, <2>2, WidthsAssumption
<1>3. Shift(bits, Q) \in SUBSET (0 .. Q - 1)
  BY <1>2 DEF Shift
<1>4. t + Q \in Shift(bits, Q) /\ t + Q >= Q - 4
  BY <1>1, WidthsAssumption DEF Shift
<1>5. \A p \in Shift(bits, Q) : p >= 0 /\ p # -1
  BY <1>3, WidthsAssumption
<1>6. RoundToInteger(Shift(bits, Q)) = Shift(bits, Q)
  BY <1>5 DEF RoundToInteger
<1>7. QED
  BY <1>3, <1>4, <1>6

LEMMA PackPreserves == ASSUME RealInv, Pack PROVE RealInv'
<1> DEFINE mantissa == Shift(v, Q)
           biased   == exponent + Bias
<1>1. /\ v \in SUBSET Int /\ FitsDouble(v) /\ exponent \in Int /\ biased \in Int
      /\ value \in Double /\ Shift(v, 4 * exponent) = value.bits
  BY WidthsAssumption DEF RealInv, ScalingExact, Pack, Scaled
<1>2. (\A p \in v : p < 0) /\ \E p \in v : p >= -4
  BY DEF Pack, Scaled
<1>3. /\ mantissa \in SUBSET (0 .. Q - 1) /\ RoundToInteger(mantissa) = mantissa
      /\ \E p \in mantissa : p >= Q - 4
  BY <1>1, <1>2, ScaledFits
<1>4. ~ \E p \in mantissa : p >= Q
  BY <1>3, WidthsAssumption
<1>5. /\ coding' = "done" /\ value' = value /\ v' = v /\ exponent' = exponent
      /\ real8' = IF biased \in 0 .. 2 * Bias - 1
                  THEN [neg |-> value.neg, biased |-> biased, mantissa |-> mantissa]
                  ELSE Zero8
  <2>1. biased + 0 = biased
    BY <1>1
  <2>2. QED
    BY <1>3, <1>4, <2>1, WidthsAssumption DEF Pack
<1>6. value.bits # {}
  BY <1>1, <1>2 DEF Shift
<1> HIDE DEF mantissa
<1>7. CASE biased \in 0 .. 2 * Bias - 1
  <2>1. real8' = [neg |-> value.neg, biased |-> biased, mantissa |-> mantissa]
    BY <1>5, <1>7
  <2>2. real8' \in Real8
    BY <1>1, <1>3, <1>7, <2>1 DEF Real8, Double
  <2>3. Weights(real8') = value.bits
    <3>1. Weights(real8') = Shift(mantissa, 4 * (biased - Bias) - Q)
      BY <2>1 DEF Weights
    <3>2. /\ 4 * (biased - Bias) - Q \in Int
          /\ Q + (4 * (biased - Bias) - Q) = 4 * exponent
      BY <1>1, WidthsAssumption
    <3>3. Shift(Shift(v, Q), 4 * (biased - Bias) - Q) = Shift(v, 4 * exponent)
      BY <1>1, <3>2, ShiftShifts, WidthsAssumption
    <3>4. QED
      BY <1>1, <3>1, <3>3 DEF mantissa
  <2>4. EncodingExact'
    BY <1>3, <1>5, <2>1, <2>3 DEF EncodingExact
  <2>5. QED
    BY <1>1, <1>5, <1>6, <2>2, <2>4 DEF RealInv, ScalingExact
<1>8. CASE biased < 0
  <2>1. \A p \in value.bits : p < -4 * (Bias + 1)
    <3>1. SUFFICES ASSUME NEW p \in v PROVE p + 4 * exponent < -4 * (Bias + 1)
      BY <1>1 DEF Shift
    <3>2. QED
      BY <1>1, <1>2, <1>8, WidthsAssumption
  <2>2. real8' = Zero8
    BY <1>5, <1>8, WidthsAssumption
  <2>3. QED
    BY <1>1, <1>5, <2>1, <2>2, ZerosAreNumbers DEF RealInv, ScalingExact, EncodingExact
<1>9. CASE biased >= 2 * Bias
  <2>1. \E p \in value.bits : p >= 4 * (Bias - 1)
    <3>1. PICK p \in v : p >= -4
      BY <1>2
    <3>2. p + 4 * exponent \in value.bits
      BY <1>1 DEF Shift
    <3>3. p + 4 * exponent >= 4 * (Bias - 1)
      BY <1>1, <1>9, <3>1, WidthsAssumption
    <3>4. QED
      BY <3>2, <3>3
  <2>2. real8' = Zero8
    BY <1>1, <1>5, <1>9, WidthsAssumption
  <2>3. QED
    BY <1>1, <1>5, <2>1, <2>2, ZerosAreNumbers DEF RealInv, ScalingExact, EncodingExact
<1>10. QED
  BY <1>1, <1>7, <1>8, <1>9, WidthsAssumption

LEMMA EncodeStepPreserves == ASSUME RealInv, EncodeStep PROVE RealInv'
<1>1. CASE ScaleDown
  <2>1. 4 * (-1) = -4 /\ exponent - (-1) = exponent + 1
    BY DEF RealInv
  <2>2. QED
    BY <1>1, <2>1, ScalePreserves DEF ScaleDown
<1>2. CASE ScaleUp
  <2>1. 4 * 1 = 4
    OBVIOUS
  <2>2. QED
    BY <1>2, <2>1, ScalePreserves DEF ScaleUp
<1>3. CASE Pack
  BY <1>3, PackPreserves
<1>4. QED
  BY <1>1, <1>2, <1>3 DEF EncodeStep

----------------------------------------------------------------------------
(* Numbers and bytes *)

LEMMA Sequences ==
  /\ \A S : \A s, t \in Seq(S) : s \o t \in Seq(S) /\ Len(s \o t) = Len(s) + Len(t)
  /\ \A S : \A s \in Seq(S) : \A e \in S :
       Append(s, e) \in Seq(S) /\ Len(Append(s, e)) = Len(s) + 1
  /\ \A S : \A s \in Seq(S) : Len(s) \in Nat /\ \A k \in 1 .. Len(s) : s[k] \in S
  /\ \A S : <<>> \in Seq(S)
  /\ Len(<<>>) = 0
BY ConcatProperties, AppendProperties, LenProperties, ElementOfSeq

LEMMA DivMod ==
  ASSUME NEW b \in Nat \ {0}, NEW n \in Int
  PROVE  n \div b \in Int /\ n % b \in 0 .. b - 1 /\ n = b * (n \div b) + (n % b)
OBVIOUS

LEMMA Quotient ==
  ASSUME NEW b \in Nat \ {0}, NEW c \in Nat, NEW n \in 0 .. b * c - 1
  PROVE  n \div b \in 0 .. c - 1
<1> DEFINE d == n \div b
           r == n % b
<1>1. d \in Int /\ r \in 0 .. b - 1 /\ n = b * d + r
  BY DivMod
<1> HIDE DEF d, r
<1>2. b * c \in Nat /\ n >= 0 /\ n < b * c
  OBVIOUS
<1>3. d >= 0
  <2>1. CASE d < 0
    <3>1. b * d <= b * (-1)
      BY <1>1, <2>1
    <3>2. QED
      BY <1>1, <1>2, <3>1
  <2>2. QED
    BY <1>1, <2>1
<1>4. d < c
  <2>1. CASE d >= c
    <3>1. b * d >= b * c
      BY <1>1, <2>1
    <3>2. QED
      BY <1>1, <1>2, <3>1
  <2>2. QED
    BY <1>1, <2>1
<1>5. QED
  BY <1>1, <1>3, <1>4 DEF d

LEMMA Bases ==
  /\ Base \in Nat /\ Base > 17 /\ 0 \in Byte /\ 0 .. 17 \subseteq Byte
  /\ Base \div 2 = 2 * Bias /\ Base = 2 * (Base \div 2)
  /\ Base * Base \in Nat \ {0} /\ Base * Base * Base * Base \in Nat \ {0}
  /\ Base * Base = 2 * ((Base * Base) \div 2)
  /\ Base * Base * Base * Base = 2 * ((Base * Base * Base * Base) \div 2)
<1>1. Base \in Nat /\ Base > 17 /\ 4 * Bias = Base /\ Bias \in Nat
  BY ByteAssumption, WidthsAssumption DEF ENDEL
<1>2. 0 \in Byte /\ 0 .. 17 \subseteq Byte
  BY <1>1 DEF Byte
<1>3. Base \div 2 = 2 * Bias /\ Base = 2 * (Base \div 2)
  BY <1>1
<1>4. Base * Base \in Nat /\ Base * Base > 0
  BY <1>1
<1> DEFINE square == Base * Base
<1>5. square = 2 * (2 * Bias * Base)
  <2>1. square = (4 * Bias) * Base
    BY <1>1
  <2>2. QED
    BY <1>1, <2>1
<1>6. \A n \in Int : (2 * n) \div 2 = n
  OBVIOUS
<1>7. 2 * Bias * Base \in Int
  BY <1>1
<1>8. square = 2 * (square \div 2)
  BY <1>5, <1>6, <1>7
<1>9. square * Base * Base = square * square
  BY <1>1
<1> HIDE DEF square
<1>10. square \in Nat /\ square > 0
  BY <1>4 DEF square
<1>11. square * square \in Nat /\ square * square > 0
  BY <1>10
<1>12. square * square = 2 * ((square * square) \div 2)
  <2>1. 2 * Bias * Base * square \in Int
    BY <1>1, <1>10
  <2>2. square * square = 2 * (2 * Bias * Base * square)
    BY <1>1, <1>5, <1>10
  <2>3. QED
    BY <1>6, <2>1, <2>2
<1>13. QED
  BY <1>1, <1>2, <1>3, <1>4, <1>8, <1>9, <1>11, <1>12 DEF square

LEMMA Squares == Base * Base > 44 /\ Base * Base > 28 /\ Base * Base > 4
<1>1. Base \in Nat /\ Base >= 18
  BY Bases
<1>2. Base * Base >= 18 * Base
  BY <1>1
<1>3. QED
  BY <1>1, <1>2

LEMMA TwoBytes ==
  ASSUME NEW n \in Int
  PROVE  /\ Bytes2(n) \in Seq(Byte) /\ Len(Bytes2(n)) = 2
         /\ n \in 0 .. Base * Base - 1 => Bytes2(n)[1] * Base + Bytes2(n)[2] = n
<1> DEFINE u == n % (Base * Base)
<1>1. u \in 0 .. Base * Base - 1
  BY Bases, DivMod
<1>2. n \in 0 .. Base * Base - 1 => u = n
  BY Bases
<1>3. Bytes2(n) = <<u \div Base, u % Base>>
  BY DEF Bytes2
<1> HIDE DEF u
<1>4. u \in Int
  BY <1>1
<1>5. u \div Base \in Byte /\ u % Base \in Byte /\ u = Base * (u \div Base) + (u % Base)
  <2>1. Base \in Nat \ {0}
    BY Bases
  <2>2. u \div Base \in Byte
    BY <1>1, <2>1, Quotient DEF Byte
  <2>3. QED
    BY <1>4, <2>1, <2>2, DivMod DEF Byte
<1>6. QED
  BY <1>2, <1>3, <1>5, Bases DEF Byte

LEMMA FourBytes ==
  ASSUME NEW n \in Int
  PROVE  Bytes4(n) \in Seq(Byte) /\ Len(Bytes4(n)) = 4
<1> DEFINE u == n % (Base * Base * Base * Base)
           square == Base * Base
<1>1. u \in Int
  BY Bases, DivMod
<1>2. Bytes4(n) = Bytes2(u \div square) \o Bytes2(u % square)
  BY DEF Bytes4
<1> HIDE DEF u
<1>3. square \in Nat \ {0}
  BY Bases
<1> HIDE DEF square
<1>4. u \div square \in Int /\ u % square \in Int
  BY <1>1, <1>3, DivMod
<1> DEFINE high == Bytes2(u \div square)
           low  == Bytes2(u % square)
<1>5. high \in Seq(Byte) /\ Len(high) = 2 /\ low \in Seq(Byte) /\ Len(low) = 2
  BY <1>4, TwoBytes
<1> HIDE DEF high, low
<1>6. high \o low \in Seq(Byte) /\ Len(high \o low) = 4
  <2>1. \A s, t \in Seq(Byte) : s \o t \in Seq(Byte) /\ Len(s \o t) = Len(s) + Len(t)
    BY Sequences
  <2>2. high \o low \in Seq(Byte) /\ Len(high \o low) = Len(high) + Len(low)
    BY <1>5, <2>1
  <2>3. QED
    BY <1>5, <2>2
<1>7. QED
  BY <1>2, <1>6 DEF high, low

LEMMA SignedCode ==
  ASSUME NEW n \in Nat, n = 2 * (n \div 2), NEW u \in 0 .. n - 1
  PROVE  AsSigned(u, n) \in Signed(n)
BY DEF AsSigned, Signed

LEMMA UnsignedFits ==
  ASSUME NEW b \in Seq(Byte), NEW at \in Nat \ {0}
  PROVE  /\ at + 1 <= Len(b) => Unsigned2(b, at) \in 0 .. Base * Base - 1
         /\ at + 3 <= Len(b) => Unsigned4(b, at) \in 0 .. Base * Base * Base * Base - 1
<1>1. \A m \in Nat : \A c, d \in 0 .. m - 1 : c * m + d \in 0 .. m * m - 1
  <2>1. SUFFICES ASSUME NEW m \in Nat, NEW c \in 0 .. m - 1, NEW d \in 0 .. m - 1
                 PROVE  c * m + d \in 0 .. m * m - 1
    OBVIOUS
  <2>2. (c + 1) * m <= m * m
    OBVIOUS
  <2>3. c * m >= 0 /\ c * m \in Int /\ (c + 1) * m = c * m + m
    OBVIOUS
  <2>4. QED
    BY <2>2, <2>3
<1>2. ASSUME NEW i \in Nat \ {0}, i + 1 <= Len(b)
      PROVE  Unsigned2(b, i) \in 0 .. Base * Base - 1
  <2>1. b[i] \in Byte /\ b[i + 1] \in Byte
    BY <1>2, ElementOfSeq, LenProperties
  <2>2. QED
    BY <1>1, <2>1, Bases DEF Unsigned2, Byte
<1>3. ASSUME at + 3 <= Len(b)
      PROVE  Unsigned4(b, at) \in 0 .. Base * Base * Base * Base - 1
  <2> DEFINE square == Base * Base
             c      == Unsigned2(b, at)
             d      == Unsigned2(b, at + 2)
  <2>1. c \in 0 .. square - 1 /\ d \in 0 .. square - 1 /\ square \in Nat
    BY <1>2, <1>3, Bases, LenProperties, SMTT(30)
  <2>2. Unsigned4(b, at) = c * Base * Base + d
    BY DEF Unsigned4
  <2> HIDE DEF c, d
  <2>3. c * Base * Base = c * square /\ square * square = Base * Base * Base * Base
    BY <2>1, Bases
  <2>4. QED
    BY <1>1, <2>1, <2>2, <2>3
<1>4. QED
  BY <1>2, <1>3

----------------------------------------------------------------------------
(* Payloads *)

Record == UNION {[rt : {t}, data : Seq(Datum(DataType(t)))] : t \in Byte}

LEMMA Records ==
  /\ \A r \in Record : r.rt \in Byte /\ r.data \in Seq(Datum(DataType(r.rt)))
  /\ \A t \in Byte : \A d \in Seq(Datum(DataType(t))) : [rt |-> t, data |-> d] \in Record
  /\ \A r : IsRecord(r) => r \in Record
BY DEF Record, IsRecord

LEMMA Types ==
  /\ \A rt : DataType(rt) \in {Ascii, Real, Long, Short, NoData}
  /\ \A rt \in {LIBNAME, STRNAME} : DataType(rt) = Ascii
  /\ DataType(UNITS) = Real /\ DataType(XY) = Long
  /\ \A rt \in {HEADER, BGNLIB, LAYER, DATATYPE} : DataType(rt) = Short
  /\ DataType(ENDLIB) = NoData
  /\ Datum(Ascii) = Byte /\ Datum(Real) = Double /\ Datum(Long) = Int4
  /\ Datum(Short) = Int2 /\ Datum(NoData) = {}
BY DEF DataType, Datum, Ascii, Real, Long, Short, NoData, HEADER, BGNLIB, LIBNAME, UNITS,
       ENDLIB, BGNSTR, STRNAME, ENDSTR, BOUNDARY, LAYER, DATATYPE, XY, ENDEL

\* Names have an even length in a stream, numbers their width.
LEMMA PayloadBytes ==
  ASSUME NEW r \in Record
  PROVE  /\ Payload(r) \in Seq(Byte) /\ PayloadLength(r) \in Nat
         /\ DataType(r.rt) # Real => PayloadLength(r) = Len(Payload(r))
         /\ DataType(r.rt) = Real => Payload(r) = <<>> /\ PayloadLength(r) = 8 * Len(r.data)
         /\ r.rt \in Parsed /\ DataType(r.rt) # Ascii =>
              PayloadLength(r) % Width(DataType(r.rt)) = 0
<1> DEFINE t == DataType(r.rt)
           d == r.data
<1>1. d \in Seq(Datum(t)) /\ Len(d) \in Nat /\ t \in {Ascii, Real, Long, Short, NoData}
  BY Records, Types
<1>2. CASE t = Ascii
  <2>1. d \in Seq(Byte)
    BY <1>1, <1>2, Types
  <2>2. Padded(d) \in Seq(Byte)
    BY <2>1, Bases, Sequences DEF Padded
  <2>3. Payload(r) = Padded(d) /\ PayloadLength(r) = Len(Padded(d))
    BY <1>2 DEF Payload, PayloadLength, Ascii, Real, Short, Long
  <2>4. QED
    BY <1>2, <2>2, <2>3 DEF Ascii, Real
<1>3. CASE t = Short
  <2> DEFINE e(k) == Bytes2(d[(k + 1) \div 2])[1 + ((k - 1) % 2)]
             n == 2 * Len(d)
  <2>1. Payload(r) = [k \in 1 .. n |-> e(k)] /\ PayloadLength(r) = Len(Payload(r))
    BY <1>3 DEF Payload, PayloadLength, Ascii, Real, Short, Long
  <2>2. \A k \in 1 .. n : e(k) \in Byte
    <3>1. SUFFICES ASSUME NEW k \in 1 .. n PROVE e(k) \in Byte
      OBVIOUS
    <3>2. (k + 1) \div 2 \in 1 .. Len(d) /\ 1 + ((k - 1) % 2) \in 1 .. 2
      BY <1>1
    <3>3. d[(k + 1) \div 2] \in Int
      <4>1. d \in Seq(Int2)
        BY <1>1, <1>3, Types
      <4>2. d[(k + 1) \div 2] \in Int2
        BY <3>2, <4>1, Sequences
      <4>3. QED
        BY <4>2, Bases DEF Int2, Signed
    <3>4. QED
      BY <3>2, <3>3, TwoBytes
  <2> HIDE DEF e
  <2>3. n \in Nat
    BY <1>1
  <2>4. Payload(r) \in Seq(Byte) /\ Len(Payload(r)) = n
    BY <2>1, <2>2, <2>3, IsASeq
  <2>5. r.rt \in Parsed => Width(DataType(r.rt)) = 2
    BY <1>3 DEF Width, Real, Long, Short
  <2>6. QED
    BY <1>1, <1>3, <2>1, <2>3, <2>4, <2>5 DEF Short, Real
<1>4. CASE t = Long
  <2> DEFINE e(k) == Bytes4(d[(k + 3) \div 4])[1 + ((k - 1) % 4)]
             n == 4 * Len(d)
  <2>1. Payload(r) = [k \in 1 .. n |-> e(k)] /\ PayloadLength(r) = Len(Payload(r))
    BY <1>4 DEF Payload, PayloadLength, Ascii, Real, Short, Long
  <2>2. \A k \in 1 .. n : e(k) \in Byte
    <3>1. SUFFICES ASSUME NEW k \in 1 .. n PROVE e(k) \in Byte
      OBVIOUS
    <3>2. (k + 3) \div 4 \in 1 .. Len(d) /\ 1 + ((k - 1) % 4) \in 1 .. 4
      BY <1>1
    <3>3. d[(k + 3) \div 4] \in Int
      <4>1. d \in Seq(Int4)
        BY <1>1, <1>4, Types
      <4>2. d[(k + 3) \div 4] \in Int4
        BY <3>2, <4>1, Sequences
      <4>3. QED
        BY <4>2, Bases DEF Int4, Signed
    <3>4. QED
      BY <3>2, <3>3, FourBytes
  <2> HIDE DEF e
  <2>3. n \in Nat
    BY <1>1
  <2>4. Payload(r) \in Seq(Byte) /\ Len(Payload(r)) = n
    BY <2>1, <2>2, <2>3, IsASeq
  <2>5. r.rt \in Parsed => Width(DataType(r.rt)) = 4
    BY <1>4 DEF Width, Real, Long
  <2>6. QED
    BY <1>1, <1>4, <2>1, <2>3, <2>4, <2>5 DEF Long, Real
<1>5. CASE t = Real
  <2>1. Payload(r) = <<>> /\ PayloadLength(r) = 8 * Len(d) /\ Width(t) = 8
    BY <1>5 DEF Payload, PayloadLength, Ascii, Real, Short, Long, Width
  <2>2. 8 * Len(d) \in Nat /\ (8 * Len(d)) % 8 = 0
    <3>1. \A n \in Nat : 8 * n \in Nat /\ (8 * n) % 8 = 0
      OBVIOUS
    <3>2. QED
      BY <1>1, <3>1, Zenon
  <2>3. <<>> \in Seq(Byte)
    OBVIOUS
  <2>4. t # Ascii
    BY <1>5 DEF Ascii, Real
  <2>5. PayloadLength(r) % Width(t) = 0
    BY <2>1, <2>2, Zenon
  <2>6. PayloadLength(r) \in Nat
    BY <2>1, <2>2, Zenon
  <2> HIDE DEF d
  <2>7. QED
    BY <1>5, <2>1, <2>3, <2>4, <2>5, <2>6, Zenon DEF d
<1>6. CASE t = NoData
  <2>1. Payload(r) = <<>> /\ PayloadLength(r) = 0
    BY <1>6 DEF Payload, PayloadLength, Ascii, Real, Short, Long, NoData
  <2>2. Width(t) = 2
    BY <1>6 DEF Width, Real, Long, NoData
  <2>3. QED
    BY <1>6, <2>1, <2>2 DEF Real, NoData
<1>7. QED
  BY <1>1, <1>2, <1>3, <1>4, <1>5, <1>6

----------------------------------------------------------------------------
(* What is parsed *)

LEMMA RealBytes ==
  ASSUME NEW r \in Real8
  PROVE  BytesOfReal(r) \in Seq(Byte) /\ Len(BytesOfReal(r)) = 8
<1> DEFINE e(k) == IF k = 1 THEN r.biased + (IF r.neg THEN Base \div 2 ELSE 0)
                   ELSE ByteOf(Digit(r.mantissa, k - 1))
<1>1. \A bits \in SUBSET (0 .. ByteBits - 1) : ByteOf(bits) \in Byte
  BY ByteAssumption DEF ByteOf
<1>2. ASSUME NEW k \in 1 .. 8 PROVE e(k) \in Byte
  <2>1. CASE k = 1
    <3>1. r.biased \in 0 .. 2 * Bias - 1
      BY DEF Real8
    <3>2. QED
      BY <2>1, <3>1, Bases DEF Byte
  <2>2. CASE k # 1
    <3>1. Digit(r.mantissa, k - 1) \in SUBSET (0 .. ByteBits - 1)
      BY DEF Digit
    <3>2. QED
      BY <1>1, <2>2, <3>1
  <2>3. QED
    BY <2>1, <2>2
<1>3. BytesOfReal(r) = [k \in 1 .. 8 |-> e(k)]
  BY DEF BytesOfReal
<1> HIDE DEF e
<1>4. QED
  BY <1>2, <1>3, IsASeq

LEMMA RealParsed ==
  ASSUME NEW b \in Seq(Byte), NEW at \in Nat \ {0}, at + 7 <= Len(b)
  PROVE  RealOfBytes(b, at) \in Real8
<1>1. \A k \in 0 .. 7 : b[at + k] \in Byte
  BY ElementOfSeq, LenProperties
<1> DEFINE m == UNION {Shift(BitsOf(b[at + k]), (7 - k) * ByteBits) : k \in 1 .. 7}
<1>2. m \in SUBSET (0 .. Q - 1)
  <2>1. SUFFICES ASSUME NEW k \in 1 .. 7, NEW p \in Shift(BitsOf(b[at + k]), (7 - k) * ByteBits)
                 PROVE  p \in 0 .. Q - 1
    OBVIOUS
  <2>2. PICK j \in 0 .. ByteBits - 1 : p = j + (7 - k) * ByteBits
    BY DEF Shift, BitsOf
  <2>3. /\ ByteBits \in Nat /\ Q = 7 * ByteBits
        /\ (7 - k) * ByteBits \in Nat /\ (7 - k) * ByteBits <= 6 * ByteBits
    BY ByteAssumption
  <2>4. QED
    BY <2>2, <2>3
<1>3. b[at] \in Byte /\ (b[at] >= Base \div 2) \in BOOLEAN
  <2>1. b[at + 0] \in Byte /\ at + 0 = at
    BY <1>1
  <2>2. QED
    BY <2>1
<1>4. b[at] % (Base \div 2) \in 0 .. 2 * Bias - 1
  <2>1. 2 * Bias \in Nat \ {0}
    BY WidthsAssumption
  <2>2. b[at] \in Int
    BY <1>3 DEF Byte
  <2>3. b[at] % (2 * Bias) \in 0 .. 2 * Bias - 1
    BY <2>1, <2>2, DivMod
  <2>4. QED
    BY <2>3, Bases
<1>5. RealOfBytes(b, at) = [neg |-> b[at] >= Base \div 2, biased |-> b[at] % (Base \div 2),
                            mantissa |-> m]
  BY DEF RealOfBytes
<1> HIDE DEF m
<1>6. QED
  BY <1>2, <1>3, <1>4, <1>5 DEF Real8

LEMMA TextParsed == ASSUME NEW b \in Seq(Byte) PROVE Text(b) \in Seq(Byte)
<1> DEFINE nul == {k \in DOMAIN b : b[k] = 0}
<1>1. CASE nul = {}
  BY <1>1 DEF Text
<1>2. CASE nul # {}
  <2>1. DOMAIN b = 1 .. Len(b) /\ Len(b) \in Nat
    BY LenProperties
  <2>2. nul \in SUBSET Nat
    BY <2>1
  <2>3. PICK m \in nul : \A n \in nul : m <= n
    BY <1>2, <2>2, LeastNat
  <2>4. Min(nul) \in nul
    BY <2>3 DEF Min
  <2>5. Min(nul) - 1 \in 0 .. Len(b)
    BY <2>1, <2>4
  <2>6. Text(b) = SubSeq(b, 1, Min(nul) - 1)
    BY <1>2 DEF Text
  <2>7. \A i \in 0 .. Len(b) : SubSeq(b, 1, i) \in Seq(Byte)
    BY <2>1, SubSeqProperties
  <2>8. QED
    BY <2>5, <2>6, <2>7, Zenon
<1>3. QED
  BY <1>1, <1>2

LEMMA ParsedRecord ==
  ASSUME NEW rt \in Byte, NEW b \in Seq(Byte), ~ Misfits(rt, b)
  PROVE  [rt |-> rt, data |-> Parse(rt, b)] \in Record
<1> DEFINE t == DataType(rt)
           w == Width(t)
           n == Len(b) \div w
<1>1. CASE rt \notin Parsed
  <2>1. Parse(rt, b) = <<>>
    BY <1>1 DEF Parse
  <2>2. QED
    BY <2>1, Records, Sequences
<1>2. CASE rt \in {LIBNAME, STRNAME}
  <2>1. t = Ascii /\ rt \in Parsed
    BY <1>2, Types DEF Parsed
  <2>2. Parse(rt, b) = Text(b)
    BY <2>1 DEF Parse
  <2>3. Parse(rt, b) \in Seq(Datum(t))
    BY <2>1, <2>2, TextParsed, Types
  <2>4. QED
    BY <2>3, Records
<1>3. CASE rt = UNITS
  <2> DEFINE e(k) == Decode(RealOfBytes(b, (k - 1) * 8 + 1))
  <2>1. t = Real /\ rt \in Parsed /\ w = 8 /\ t # Ascii
    BY <1>3, Types DEF Parsed, Width, Real, Ascii, Long
  <2>2. Parse(rt, b) = [k \in 1 .. n |-> e(k)]
    BY <2>1 DEF Parse
  <2>3. n \in Nat /\ 8 * n <= Len(b)
    BY <2>1, LenProperties
  <2>4. ASSUME NEW k \in 1 .. n PROVE e(k) \in Double
    <3>1. (k - 1) * 8 + 1 \in Nat \ {0} /\ (k - 1) * 8 + 1 + 7 <= Len(b)
      BY <2>3, LenProperties
    <3>2. QED
      BY <3>1, RealParsed, DecodeReturnsDouble
  <2> HIDE DEF e, n
  <2>5. Parse(rt, b) \in Seq(Datum(t))
    BY <2>1, <2>2, <2>3, <2>4, IsASeq, Types
  <2>6. QED
    BY <2>5, Records
<1>4. CASE rt = XY
  <2> DEFINE m    == Base * Base * Base * Base
             e(k) == AsSigned(Unsigned4(b, (k - 1) * 4 + 1), m)
  <2>1. t = Long /\ rt \in Parsed /\ w = 4 /\ t # Ascii
    BY <1>4, Types DEF Parsed, Width, Real, Ascii, Long
  <2>2. Parse(rt, b) = [k \in 1 .. n |-> e(k)]
    BY <2>1 DEF Parse
  <2>3. n \in Nat /\ 4 * n <= Len(b)
    BY <2>1, LenProperties
  <2>4. ASSUME NEW k \in 1 .. n PROVE e(k) \in Int4
    <3>1. (k - 1) * 4 + 1 \in Nat \ {0} /\ (k - 1) * 4 + 1 + 3 <= Len(b)
      BY <2>3, LenProperties
    <3> DEFINE at == (k - 1) * 4 + 1
    <3>2. Unsigned4(b, at) \in 0 .. m - 1
      BY <3>1, UnsignedFits
    <3>3. QED
      BY <3>2, Bases, SignedCode DEF Int4
  <2> HIDE DEF e, n
  <2>5. Parse(rt, b) \in Seq(Datum(t))
    BY <2>1, <2>2, <2>3, <2>4, IsASeq, Types
  <2>6. QED
    BY <2>5, Records
<1>5. CASE rt \in {LAYER, DATATYPE}
  <2> DEFINE m    == Base * Base
             e(k) == AsSigned(Unsigned2(b, (k - 1) * 2 + 1), m)
  <2>1. t = Short /\ rt \in Parsed /\ w = 2 /\ t # Ascii
    BY <1>5, Types DEF Parsed, Width, Real, Ascii, Long, Short
  <2>2. Parse(rt, b) = [k \in 1 .. n |-> e(k)]
    BY <2>1 DEF Parse
  <2>3. n \in Nat /\ 2 * n <= Len(b)
    BY <2>1, LenProperties
  <2>4. ASSUME NEW k \in 1 .. n PROVE e(k) \in Int2
    <3>1. (k - 1) * 2 + 1 \in Nat \ {0} /\ (k - 1) * 2 + 1 + 1 <= Len(b)
      BY <2>3, LenProperties
    <3>2. Unsigned2(b, (k - 1) * 2 + 1) \in 0 .. m - 1
      BY <3>1, UnsignedFits
    <3>3. QED
      BY <3>2, Bases, SignedCode DEF Int2
  <2> HIDE DEF e, n
  <2>5. Parse(rt, b) \in Seq(Datum(t))
    BY <2>1, <2>2, <2>3, <2>4, IsASeq, Types, SMTT(30)
  <2>6. QED
    BY <2>5, Records
<1>6. QED
  BY <1>1, <1>2, <1>3, <1>4, <1>5 DEF Parsed

----------------------------------------------------------------------------
(* Documents *)

\* What IsDocument says of a sequence of records.
Doc(d) == /\ d \in Seq(Record) /\ d # <<>> /\ d[1].rt = HEADER
          /\ \A k \in 1 .. Len(d) : d[k].rt = ENDLIB <=> k = Len(d)

LEMMA GivenDocuments == ASSUME NEW d \in Documents PROVE Doc(d)
<1>1. IsDocument(d)
  BY DocumentsAssumption
<1>2. d \in Seq(ToSet(d)) /\ Len(d) \in Nat /\ DOMAIN d = 1 .. Len(d)
  BY <1>1, LenProperties DEF IsDocument
<1>3. \A k \in 1 .. Len(d) : d[k] \in Record
  BY <1>1, <1>2, Records DEF IsDocument
<1>4. d \in Seq(Record)
  <2>1. d \in [1 .. Len(d) -> Record]
    BY <1>2, <1>3, LenProperties
  <2>2. QED
    BY <1>2, <2>1, SeqDef
<1>5. QED
  BY <1>1, <1>2, <1>4 DEF IsDocument, Doc

LEMMA LibraryDocument ==
  ASSUME NEW name \in Seq(Byte), NEW units \in Seq(Double)
  PROVE  Doc(Document(name, units))
<1> DEFINE d == Document(name, units)
<1>1. 0 \in Int2 /\ Version \in Int2
  BY ByteAssumption, Bases DEF Int2, Signed
<1>2. <<Version>> \in Seq(Int2) /\ [k \in 1 .. 12 |-> 0] \in Seq(Int2)
  <2>1. [k \in 1 .. 12 |-> 0] \in Seq(Int2)
    BY <1>1, IsASeq
  <2>2. QED
    BY <1>1, <2>1
<1>3. /\ HEADER \in Byte /\ BGNLIB \in Byte /\ LIBNAME \in Byte /\ UNITS \in Byte
      /\ ENDLIB \in Byte
  BY Bases DEF HEADER, BGNLIB, LIBNAME, UNITS, ENDLIB
<1>4. /\ [rt |-> HEADER, data |-> <<Version>>] \in Record
      /\ [rt |-> BGNLIB, data |-> [k \in 1 .. 12 |-> 0]] \in Record
      /\ [rt |-> LIBNAME, data |-> name] \in Record
      /\ [rt |-> UNITS, data |-> units] \in Record
      /\ [rt |-> ENDLIB, data |-> <<>>] \in Record
  BY <1>2, <1>3, Records, Types, EmptySeq
<1>5. d \in Seq(Record) /\ Len(d) = 5
  BY <1>4 DEF Document
<1>6. \A k \in 1 .. 5 : d[k].rt = ENDLIB <=> k = 5
  BY DEF Document, HEADER, BGNLIB, LIBNAME, UNITS, ENDLIB
<1>7. d # <<>> /\ d[1].rt = HEADER
  BY DEF Document
<1>8. QED
  BY <1>5, <1>6, <1>7 DEF Doc

LEMMA OutlineDocument == ASSUME NEW r \in Rects PROVE Doc(RectDocument(r))
<1> DEFINE d == RectDocument(r)
<1>1. r.x \in Int4 /\ r.y \in Int4 /\ r.w \in Int4 /\ r.h \in Int4 /\ Int4 \subseteq Int
  <2>1. r \in [x : Int4, y : Int4, w : Int4, h : Int4]
    BY DocumentsAssumption
  <2>2. r.x \in Int4 /\ r.y \in Int4 /\ r.w \in Int4 /\ r.h \in Int4
    BY <2>1
  <2>3. Int4 \subseteq Int
    BY DEF Int4, Signed
  <2>4. QED
    BY <2>2, <2>3
<1>2. \A n \in Int : Wrapped(n) \in Int4
  <2> DEFINE m == Base * Base * Base * Base
  <2>1. m \in Nat \ {0} /\ m = 2 * (m \div 2)
    BY Bases
  <2>2. Int4 = Signed(m) /\ \A n : Wrapped(n) = AsSigned(n % m, m)
    BY DEF Int4, Wrapped
  <2> HIDE DEF m
  <2>3. \A n \in Int : n % m \in 0 .. m - 1
    BY <2>1, DivMod
  <2>4. \A u \in 0 .. m - 1 : AsSigned(u, m) \in Signed(m)
    BY <2>1, SignedCode
  <2>5. QED
    BY <2>2, <2>3, <2>4
<1>3. Outline(r) \in Seq(Int4)
  <2> DEFINE right == Wrapped(r.x + r.w)
             top   == Wrapped(r.y + r.h)
  <2>1. right \in Int4 /\ top \in Int4
    <3>1. r.x \in Int /\ r.w \in Int /\ r.y \in Int /\ r.h \in Int
      BY <1>1
    <3>2. r.x + r.w \in Int /\ r.y + r.h \in Int
      BY <3>1
    <3>3. QED
      BY <1>2, <3>2
  <2>2. Outline(r) = << r.x, r.y, right, r.y, right, top, r.x, top, r.x, r.y >>
    BY DEF Outline
  <2> HIDE DEF right, top
  <2>3. QED
    BY <1>1, <2>1, <2>2
<1>4. 0 \in Int2 /\ Version \in Int2 /\ <<Version>> \in Seq(Int2)
  BY ByteAssumption, Bases DEF Int2, Signed
<1>5. HEADER \in Byte /\ XY \in Byte /\ ENDLIB \in Byte
  BY Bases DEF HEADER, XY, ENDLIB
<1>6. /\ [rt |-> HEADER, data |-> <<Version>>] \in Record
      /\ [rt |-> XY, data |-> Outline(r)] \in Record
      /\ [rt |-> ENDLIB, data |-> <<>>] \in Record
  BY <1>3, <1>4, <1>5, Records, Types, EmptySeq
<1>7. d \in Seq(Record) /\ Len(d) = 3
  BY <1>6 DEF RectDocument
<1>8. \A k \in 1 .. 3 : d[k].rt = ENDLIB <=> k = 3
  BY DEF RectDocument, HEADER, XY, ENDLIB
<1>9. d # <<>> /\ d[1].rt = HEADER
  BY DEF RectDocument
<1>10. QED
  BY <1>7, <1>8, <1>9 DEF Doc

\* The last record of a type, where there is one.
LEMMA LastFound ==
  ASSUME got \in Seq(Record), NEW rt, NEW n, NEW default
  PROVE  \/ LastOf(rt, n, default) = default
         \/ \E k \in 1 .. Len(got) :
              /\ got[k].rt = rt /\ LastOf(rt, n, default) = got[k].data
              /\ Len(got[k].data) >= n
<1> DEFINE found == {k \in DOMAIN got : got[k].rt = rt /\ Len(got[k].data) >= n}
<1>1. CASE found = {}
  BY <1>1 DEF LastOf
<1>2. CASE found # {}
  <2>1. DOMAIN got = 1 .. Len(got) /\ Len(got) \in Nat
    BY LenProperties
  <2>2. found \in SUBSET Int /\ \A k \in found : k <= Len(got)
    BY <2>1
  <2>3. PICK k \in found : \A j \in found : j <= k
    <3> HIDE DEF found
    <3>1. Len(got) \in Int
      BY <2>1
    <3>2. QED
      BY <1>2, <2>2, <3>1, Greatest
  <2>4. Max(found) \in found
    BY <2>2, <2>3 DEF Max
  <2>5. LastOf(rt, n, default) = got[Max(found)].data
    BY <1>2 DEF LastOf
  <2>6. QED
    BY <2>1, <2>4, <2>5
<1>3. QED
  BY <1>1, <1>2

LEMMA LastRecord ==
  ASSUME got \in Seq(Record), NEW rt \in Byte, NEW n \in Nat, NEW default,
         default \in Seq(Datum(DataType(rt))), Len(default) >= n
  PROVE  LastOf(rt, n, default) \in Seq(Datum(DataType(rt))) /\ Len(LastOf(rt, n, default)) >= n
<1>1. CASE LastOf(rt, n, default) = default
  BY <1>1
<1>2. CASE \E k \in 1 .. Len(got) :
             /\ got[k].rt = rt /\ LastOf(rt, n, default) = got[k].data
             /\ Len(got[k].data) >= n
  <2>1. \A k \in 1 .. Len(got) : got[k] \in Record
    BY ElementOfSeq
  <2>2. QED
    BY <1>2, <2>1, Records
<1>3. QED
  BY <1>1, <1>2, LastFound

LEMMA RewrittenDocument ==
  ASSUME got \in Seq(Record)
  PROVE  Doc(Document(LastOf(LIBNAME, 0, <<>>), SubSeq(LastOf(UNITS, 2, Defaults), 1, 2)))
<1>1. LIBNAME \in Byte /\ UNITS \in Byte
  BY Bases DEF LIBNAME, UNITS
<1>2. LastOf(LIBNAME, 0, <<>>) \in Seq(Byte)
  <2>1. <<>> \in Seq(Byte) /\ Len(<<>>) >= 0
    OBVIOUS
  <2>2. QED
    BY <1>1, <2>1, LastRecord, Types
<1> DEFINE u == LastOf(UNITS, 2, Defaults)
<1>3. u \in Seq(Double) /\ Len(u) >= 2
  BY <1>1, LastRecord, Types, DocumentsAssumption, SMTT(30)
<1> HIDE DEF u
<1>4. \A k \in 1 .. 2 : u[k] \in Double
  BY <1>3, ElementOfSeq, LenProperties
<1>5. SubSeq(u, 1, 2) \in Seq(Double)
  BY <1>4, SubSeqProperties
<1>6. QED
  BY <1>2, <1>5, LibraryDocument DEF u

----------------------------------------------------------------------------
(* What the variables hold *)

BytesInv ==
  /\ RealInv
  /\ phase \in {"write", "read"}
  /\ file \in Seq(Byte) /\ todo \in Seq(Record) /\ doubles \in Seq(Double)
  /\ written \in Seq(Record) /\ got \in Seq(Record)
  /\ pos \in Nat /\ (phase = "read" => pos <= Len(file))
  /\ coding # "idle" => phase = "write" /\ doubles # <<>>

LEMMA HeaderBytes ==
  ASSUME NEW r \in Record
  PROVE  /\ Header(r.rt, PayloadLength(r)) \in Seq(Byte)
         /\ Len(Header(r.rt, PayloadLength(r))) = 4
         /\ Header(r.rt, PayloadLength(r))[3] = r.rt
         /\ PayloadLength(r) + 4 < Base * Base =>
              Unsigned2(Header(r.rt, PayloadLength(r)), 1) = PayloadLength(r) + 4
<1> DEFINE length == PayloadLength(r) + 4
           high   == Bytes2(length)
           low    == <<r.rt, DataType(r.rt)>>
<1>1. PayloadLength(r) \in Nat /\ r.rt \in Byte
  BY PayloadBytes, Records
<1>2. DataType(r.rt) \in Byte
  BY Types, Bases DEF Ascii, Real, Long, Short, NoData
<1>3. /\ high \in Seq(Byte) /\ Len(high) = 2
      /\ length < Base * Base => high[1] * Base + high[2] = length
  BY <1>1, TwoBytes, Bases, SMTT(30)
<1>4. low \in Seq(Byte) /\ Len(low) = 2 /\ low[1] = r.rt
  BY <1>1, <1>2
<1>5. Header(r.rt, PayloadLength(r)) = high \o low
  BY DEF Header
<1> HIDE DEF high, low
<1>6. /\ high \o low \in Seq(Byte) /\ Len(high \o low) = 4
      /\ (high \o low)[1] = high[1] /\ (high \o low)[2] = high[2] /\ (high \o low)[3] = low[1]
  <2>1. /\ high \o low \in Seq(Byte) /\ Len(high \o low) = Len(high) + Len(low)
        /\ \A k \in 1 .. Len(high) + Len(low) :
             (high \o low)[k] = IF k <= Len(high) THEN high[k] ELSE low[k - Len(high)]
    BY <1>3, <1>4, ConcatProperties
  <2>2. QED
    BY <1>3, <1>4, <2>1
<1> HIDE DEF length
<1>7. Unsigned2(high \o low, 1) = high[1] * Base + high[2]
  BY <1>6 DEF Unsigned2
<1>8. QED
  BY <1>3, <1>4, <1>5, <1>6, <1>7 DEF length

LEMMA BytesInitial == ByteInit => BytesInv
<1> SUFFICES ASSUME ByteInit PROVE BytesInv
  OBVIOUS
<1>1. RealInv /\ coding = "idle"
  BY RealInitial DEF ByteInit, RealInit
<1>2. todo \in Seq(Record) /\ file \in Seq(Byte)
  <2>1. todo \in Documents \cup {RectDocument(r) : r \in Rects} => todo \in Seq(Record)
    BY GivenDocuments, OutlineDocument DEF Doc
  <2>2. <<>> \in Seq(Record) /\ <<>> \in Seq(Byte)
    OBVIOUS
  <2>3. QED
    BY <2>1, <2>2, DocumentsAssumption DEF ByteInit
<1>3. /\ phase \in {"write", "read"} /\ doubles \in Seq(Double) /\ written \in Seq(Record)
      /\ got \in Seq(Record) /\ pos = 0
  BY DEF ByteInit
<1>4. Len(file) \in Nat
  BY <1>2, LenProperties
<1>5. QED
  BY <1>1, <1>2, <1>3, <1>4 DEF BytesInv

LEMMA HeadAndTail ==
  ASSUME NEW S, NEW s \in Seq(S), s # <<>>
  PROVE  /\ Head(s) \in S /\ Head(s) = s[1] /\ Tail(s) \in Seq(S)
         /\ Len(s) \in Nat \ {0} /\ Len(Tail(s)) = Len(s) - 1
         /\ \A k \in 1 .. Len(s) - 1 : Tail(s)[k] = s[k + 1]
BY HeadTailProperties, LenProperties, EmptySeq

LEMMA BytesStep == ASSUME BytesInv, [ByteNext]_byteVars PROVE BytesInv'
<1> USE DEF BytesInv
<1>1. CASE WriteRecord
  <2> DEFINE r == Head(todo)
             h == Header(r.rt, PayloadLength(r))
  <2>1. r \in Record /\ Tail(todo) \in Seq(Record)
    BY <1>1, HeadAndTail DEF WriteRecord, Writing
  <2>2. h \in Seq(Byte) /\ Payload(r) \in Seq(Byte)
    BY <2>1, HeaderBytes, PayloadBytes
  <2>3. file' \in Seq(Byte)
    <3>1. file' = file \o h \o Payload(r)
      BY <1>1 DEF WriteRecord
    <3> HIDE DEF h, r
    <3>2. QED
      BY <2>2, <3>1, ConcatProperties
  <2>4. doubles' \in Seq(Double)
    <3>1. DataType(r.rt) = Real => r.data \in Seq(Double)
      BY <2>1, Records, Types
    <3>2. <<>> \in Seq(Double)
      OBVIOUS
    <3>3. QED
      BY <1>1, <3>1, <3>2 DEF WriteRecord
  <2>5. written' \in Seq(Record)
    BY <1>1, <2>1, AppendProperties DEF WriteRecord
  <2>6. RealInv' /\ coding' = "idle"
    BY <1>1, RealRest DEF WriteRecord, Writing, realVars
  <2>7. QED
    BY <1>1, <2>1, <2>3, <2>4, <2>5, <2>6 DEF WriteRecord, Writing, readerVars
<1>2. CASE BeginDouble
  <2>1. Head(doubles) \in Double
    BY <1>2, HeadAndTail DEF BeginDouble
  <2>2. RealInv'
    BY <1>2, <2>1, RealStart DEF BeginDouble
  <2>3. QED
    BY <1>2, <2>2 DEF BeginDouble, writerVars, readerVars
<1>3. CASE EncodeDouble
  <2>1. RealInv'
    BY <1>3, EncodeStepPreserves DEF EncodeDouble
  <2>2. coding = "scale"
    BY <1>3 DEF EncodeDouble, EncodeStep, ScaleDown, ScaleUp, Pack, Scaled
  <2>3. QED
    BY <1>3, <2>1, <2>2 DEF EncodeDouble, writerVars, readerVars
<1>4. CASE WriteDouble
  <2>1. RealInv'
    BY <1>4, RealRest DEF WriteDouble
  <2>2. real8 \in Real8
    BY DEF RealInv
  <2>3. file' \in Seq(Byte)
    BY <1>4, <2>2, RealBytes, ConcatProperties DEF WriteDouble
  <2>4. doubles' \in Seq(Double) /\ phase = "write"
    BY <1>4, HeadAndTail DEF WriteDouble
  <2>5. QED
    BY <1>4, <2>1, <2>3, <2>4 DEF WriteDouble, readerVars
<1>5. CASE Open
  <2>1. RealInv' /\ coding' = "idle"
    BY <1>5, RealRest DEF Open, realVars
  <2>2. file' \in Seq(Byte)
    <3>1. PICK n \in 0 .. Len(file) : file' = SubSeq(file, 1, n)
      BY <1>5 DEF Open
    <3>2. \A k \in 1 .. n : file[k] \in Byte
      BY ElementOfSeq, LenProperties
    <3>3. QED
      BY <3>1, <3>2, SubSeqProperties
  <2>3. Len(file') \in Nat
    BY <2>2, LenProperties
  <2>4. QED
    BY <1>5, <2>1, <2>2, <2>3 DEF Open, writerVars
<1>6. CASE EndOfFile
  BY <1>6, RealRest DEF EndOfFile, writerVars, realVars
<1>7. CASE BadRecordLength
  BY <1>7, RealRest DEF BadRecordLength, writerVars, realVars
<1>8. CASE NextRecord
  <2>1. RealInv' /\ coding' = coding /\ file' = file /\ phase' = phase /\ phase = "read"
    BY <1>8, RealRest DEF NextRecord, Reading, realVars
  <2>2. Len(file) \in Nat /\ \A k \in 1 .. Len(file) : file[k] \in Byte
    BY ElementOfSeq, LenProperties
  <2>3. Length \in Nat /\ Length >= 4 /\ pos + Length <= Len(file)
    <3>1. Remaining \in Nat /\ Remaining >= 4 /\ Length \in 4 .. Remaining
      BY <1>8, <2>1, <2>2 DEF NextRecord, Remaining
    <3> HIDE DEF BytesInv
    <3>2. pos \in Nat
      BY DEF BytesInv
    <3>3. QED
      BY <2>2, <3>1, <3>2 DEF Remaining
  <2>4. Type \in Byte
    BY <2>2, <2>3 DEF Type
  <2>5. Data \in Seq(Byte)
    <3>1. \A k \in pos + 5 .. pos + Length : file[k] \in Byte
      BY <2>2, <2>3
    <3>2. pos + 5 \in Int /\ pos + Length \in Int
      BY <2>3
    <3>3. QED
      BY <3>1, <3>2, SubSeqProperties DEF Data
  <2>6. got' \in Seq(Record)
    <3>1. CASE UNCHANGED got
      BY <3>1
    <3>2. CASE /\ ~ Misfits(Type, Data)
               /\ got' = Append(got, [rt |-> Type, data |-> Parse(Type, Data)])
      <4>1. [rt |-> Type, data |-> Parse(Type, Data)] \in Record
        BY <2>4, <2>5, <3>2, ParsedRecord
      <4>2. QED
        BY <3>2, <4>1, AppendProperties
    <3>3. QED
      BY <1>8, <3>1, <3>2 DEF NextRecord
  <2>7. pos' \in Nat /\ pos' <= Len(file)
    BY <1>8, <2>3 DEF NextRecord
  <2>8. QED
    BY <1>8, <2>1, <2>6, <2>7 DEF NextRecord, writerVars
<1>9. CASE Rewrite
  <2>1. RealInv' /\ coding' = "idle"
    BY <1>9, RealRest DEF Rewrite, realVars
  <2>2. todo' \in Seq(Record)
    BY <1>9, RewrittenDocument DEF Rewrite, Doc
  <2>3. <<>> \in Seq(Byte) /\ <<>> \in Seq(Double) /\ <<>> \in Seq(Record)
    OBVIOUS
  <2>4. QED
    BY <1>9, <2>1, <2>2, <2>3 DEF Rewrite, readerVars
<1>10. CASE UNCHANGED byteVars
  BY <1>10, RealRest DEF byteVars, writerVars, readerVars, realVars
<1>11. QED
  BY <1>1, <1>2, <1>3, <1>4, <1>5, <1>6, <1>7, <1>8, <1>9, <1>10 DEF ByteNext, WritesOn, ReadsOn

\* A double that is written, and not too large or small, is written exactly, for
\* every width of its numbers and in every stream that write and read pass on.
THEOREM EncodingCorrect == ByteSpec => []EncodingExact
<1>1. ByteInit => BytesInv
  BY BytesInitial
<1>2. BytesInv /\ [ByteNext]_byteVars => BytesInv'
  BY BytesStep
<1>3. BytesInv => EncodingExact
  BY DEF BytesInv, RealInv
<1>4. QED
  BY <1>1, <1>2, <1>3, PTL DEF ByteSpec

----------------------------------------------------------------------------
(* Where the records stand in a stream *)

HeaderOf(r) == Header(r.rt, PayloadLength(r))

MarksInv ==
  /\ marks \in Seq(Nat) /\ Len(marks) = Len(written) + 1 /\ marks[1] = 0
  /\ \A k \in 1 .. Len(written) : marks[k + 1] = marks[k] + 4 + PayloadLength(written[k])
  /\ \A j, k \in 1 .. Len(marks) : j < k => marks[j] + 4 <= marks[k]

HeadersInv ==
  \A k \in 1 .. Len(written) :
    marks[k] + 4 <= Len(file) =>
      \A j \in 1 .. 4 : file[marks[k] + j] = HeaderOf(written[k])[j]

OrderInv ==
  /\ \A k \in 1 .. Len(written) :
       written[k].rt = ENDLIB <=> k = Len(written) /\ todo = <<>>
  /\ \A k \in 1 .. Len(todo) : todo[k].rt = ENDLIB <=> k = Len(todo)
  /\ written # <<>> => written[1].rt = HEADER
  /\ written = <<>> /\ todo # <<>> => todo[1].rt = HEADER

PhaseInv ==
  /\ phase = "write" =>
       /\ Len(file) + 8 * Len(doubles) = marks[Len(marks)]
       /\ written # <<>> \/ todo # <<>>
       /\ \A k \in 1 .. Len(written) : marks[k] + 4 <= Len(file)
  /\ phase = "read" =>
       /\ todo = <<>> /\ doubles = <<>>
       /\ written # <<>> => Len(file) <= marks[Len(marks)]

FrameInv == MarksInv /\ HeadersInv /\ OrderInv /\ PhaseInv

\* A stream that is about to be written: none of it is there, all is to be done.
LEMMA FrameStart ==
  ASSUME todo' = <<>> \/ Doc(todo'), written' = <<>>, marks' = << 0 >>,
         doubles' = <<>>, phase' \in {"write", "read"},
         phase' = "write" => file' = <<>> /\ Doc(todo'), phase' = "read" => todo' = <<>>
  PROVE  FrameInv'
BY DEF FrameInv, MarksInv, HeadersInv, OrderInv, PhaseInv, Doc

LEMMA FrameInitial == ByteInit => FrameInv
<1> SUFFICES ASSUME ByteInit PROVE FrameInv
  OBVIOUS
<1>1. todo \in Documents \cup {RectDocument(r) : r \in Rects} => Doc(todo)
  BY GivenDocuments, OutlineDocument
<1>2. written = <<>> /\ marks = <<0>> /\ doubles = <<>>
  BY DEF ByteInit
<1>3. \/ phase = "write" /\ file = <<>> /\ Doc(todo)
      \/ phase = "read" /\ todo = <<>>
  BY <1>1 DEF ByteInit
<1>4. QED
  BY <1>2, <1>3 DEF FrameInv, MarksInv, HeadersInv, OrderInv, PhaseInv, Doc

LEMMA Appended ==
  ASSUME NEW S, NEW s \in Seq(S), NEW e \in S
  PROVE  /\ Len(Append(s, e)) = Len(s) + 1 /\ Len(s) \in Nat
         /\ \A k \in 1 .. Len(s) : Append(s, e)[k] = s[k]
         /\ Append(s, e)[Len(s) + 1] = e
BY AppendProperties, LenProperties

LEMMA Concatenated ==
  ASSUME NEW S, NEW s \in Seq(S), NEW t \in Seq(S)
  PROVE  /\ s \o t \in Seq(S) /\ Len(s \o t) = Len(s) + Len(t)
         /\ Len(s) \in Nat /\ Len(t) \in Nat
         /\ \A k \in 1 .. Len(s) : (s \o t)[k] = s[k]
         /\ \A k \in 1 .. Len(t) : (s \o t)[Len(s) + k] = t[k]
<1>1. Len(s) \in Nat /\ Len(t) \in Nat
  BY LenProperties
<1>2. \A k \in 1 .. Len(t) : Len(s) + k \in 1 .. Len(s) + Len(t) /\ ~ (Len(s) + k <= Len(s))
                            /\ Len(s) + k - Len(s) = k
  BY <1>1
<1>3. \A k \in 1 .. Len(s) : k \in 1 .. Len(s) + Len(t) /\ k <= Len(s)
  BY <1>1
<1>4. QED
  BY <1>1, <1>2, <1>3, ConcatProperties

\* What WriteRecord adds to the stream and to its history.
LEMMA RecordWritten ==
  ASSUME BytesInv, FrameInv, WriteRecord
  PROVE  LET r == todo[1]  n == Len(written)  m == Len(file) IN
         /\ r \in Record /\ n \in Nat /\ m \in Nat /\ phase = "write" /\ phase' = "write"
         /\ Len(written') = n + 1 /\ written'[n + 1] = r
         /\ \A k \in 1 .. n : written'[k] = written[k]
         /\ marks' \in Seq(Nat) /\ Len(marks') = n + 2 /\ marks'[n + 2] = m + 4 + PayloadLength(r)
         /\ \A k \in 1 .. n + 1 : marks'[k] = marks[k]
         /\ marks[n + 1] = m
         /\ Len(file') + 8 * Len(doubles') = m + 4 + PayloadLength(r)
         /\ Len(file') >= m + 4
         /\ \A k \in 1 .. m : file'[k] = file[k]
         /\ \A j \in 1 .. 4 : file'[m + j] = HeaderOf(r)[j]
         /\ \A j \in 1 .. Len(Payload(r)) : file'[m + 4 + j] = Payload(r)[j]
<1> DEFINE r == todo[1]
           n == Len(written)
           m == Len(file)
           h == HeaderOf(r)
           p == Payload(r)
<1>1. /\ todo \in Seq(Record) /\ todo # <<>> /\ file \in Seq(Byte) /\ written \in Seq(Record)
      /\ marks \in Seq(Nat) /\ Len(marks) = n + 1 /\ phase = "write" /\ doubles = <<>>
  BY DEF BytesInv, FrameInv, MarksInv, WriteRecord, Writing
<1>2. r \in Record /\ Head(todo) = r
  BY <1>1, HeadAndTail
<1>3. h \in Seq(Byte) /\ Len(h) = 4 /\ p \in Seq(Byte) /\ PayloadLength(r) \in Nat
  BY <1>2, HeaderBytes, PayloadBytes DEF HeaderOf
<1>4. n \in Nat /\ m \in Nat
  BY <1>1, LenProperties
<1>5. /\ written' = Append(written, r) /\ marks' = Append(marks, m + 4 + PayloadLength(r))
      /\ file' = (file \o h) \o p /\ phase' = "write"
      /\ doubles' = IF DataType(r.rt) = Real THEN r.data ELSE <<>>
  BY <1>1, <1>2 DEF WriteRecord, Writing, HeaderOf
<1>6. marks[n + 1] = m
  BY <1>1, <1>4 DEF FrameInv, PhaseInv
<1>7. Len(p) + 8 * Len(doubles') = PayloadLength(r) /\ Len(p) \in Nat
  <2>1. Len(p) \in Nat
    BY <1>3, LenProperties
  <2>2. CASE DataType(r.rt) = Real
    <3>1. p = <<>> /\ PayloadLength(r) = 8 * Len(r.data)
      BY <1>2, <2>2, PayloadBytes
    <3>2. Len(p) = 0 /\ doubles' = r.data
      BY <1>5, <2>2, <3>1
    <3>3. Len(r.data) \in Nat
      <4>1. r.data \in Seq(Datum(DataType(r.rt)))
        BY <1>2, Records
      <4>2. QED
        BY <4>1, LenProperties
    <3>4. QED
      BY <2>1, <3>1, <3>2, <3>3
  <2>3. CASE DataType(r.rt) # Real
    <3>1. Len(p) = PayloadLength(r) /\ Len(doubles') = 0
      BY <1>2, <1>5, <2>3, PayloadBytes
    <3>2. QED
      BY <2>1, <3>1
  <2>4. QED
    BY <2>2, <2>3
<1> HIDE DEF r, h, p, n
<1>8. /\ Len(written') = n + 1 /\ written'[n + 1] = r
      /\ \A k \in 1 .. n : written'[k] = written[k]
  BY <1>1, <1>2, <1>5, Appended DEF n
<1>9. /\ marks' \in Seq(Nat) /\ Len(marks') = n + 2 /\ marks'[n + 2] = m + 4 + PayloadLength(r)
      /\ \A k \in 1 .. n + 1 : marks'[k] = marks[k]
  <2>1. m + 4 + PayloadLength(r) \in Nat /\ n + 1 + 1 = n + 2
    BY <1>3, <1>4
  <2>2. QED
    BY <1>1, <1>5, <2>1, Appended, AppendProperties
<1>10. /\ file \o h \in Seq(Byte) /\ Len(file \o h) = m + 4
       /\ \A k \in 1 .. m : (file \o h)[k] = file[k]
       /\ \A j \in 1 .. 4 : (file \o h)[m + j] = h[j]
  <2>1. /\ file \o h \in Seq(Byte) /\ Len(file \o h) = Len(file) + Len(h)
        /\ \A k \in 1 .. Len(file) : (file \o h)[k] = file[k]
        /\ \A k \in 1 .. Len(h) : (file \o h)[Len(file) + k] = h[k]
    <3>1. file \in Seq(Byte) /\ h \in Seq(Byte)
      BY <1>1, <1>3
    <3> HIDE DEF m
    <3>2. QED
      BY ONLY <3>1, Concatenated
  <2>2. QED
    BY <1>3, <2>1
<1>11. /\ Len(file') = m + 4 + Len(p)
       /\ \A k \in 1 .. m + 4 : file'[k] = (file \o h)[k]
       /\ \A j \in 1 .. Len(p) : file'[m + 4 + j] = p[j]
  <2> DEFINE g == file \o h
  <2> HIDE DEF g
  <2>1. g \in Seq(Byte) /\ Len(g) = m + 4 /\ file' = g \o p
    BY <1>5, <1>10 DEF g
  <2>2. /\ Len(g \o p) = Len(g) + Len(p)
        /\ \A k \in 1 .. Len(g) : (g \o p)[k] = g[k]
        /\ \A k \in 1 .. Len(p) : (g \o p)[Len(g) + k] = p[k]
    <3>1. g \in Seq(Byte) /\ p \in Seq(Byte)
      BY <1>3, <2>1
    <3>2. QED
      BY ONLY <3>1, Concatenated
  <2>3. QED
    BY <2>1, <2>2 DEF g
<1>12. /\ \A k \in 1 .. m : file'[k] = file[k]
       /\ \A j \in 1 .. 4 : file'[m + j] = h[j]
  <2>1. \A k \in 1 .. m : k \in 1 .. m + 4
    BY <1>4
  <2>2. \A j \in 1 .. 4 : m + j \in 1 .. m + 4
    BY <1>4
  <2>3. QED
    BY <1>10, <1>11, <2>1, <2>2
<1>13. Len(file') + 8 * Len(doubles') = m + 4 + PayloadLength(r) /\ Len(file') >= m + 4
  <2>1. Len(doubles') \in Nat
    <3>1. r.data \in Seq(Datum(DataType(r.rt)))
      BY <1>2, Records
    <3>2. QED
      BY <1>5, <3>1, LenProperties
  <2>2. QED
    BY <1>3, <1>4, <1>7, <1>11, <2>1
<1>14. QED
  BY <1>1, <1>2, <1>4, <1>5, <1>6, <1>8, <1>9, <1>11, <1>12, <1>13 DEF r, n, h, p

LEMMA WriteRecordFrames == ASSUME BytesInv, FrameInv, WriteRecord PROVE FrameInv'
<1> DEFINE r == todo[1]
           n == Len(written)
           m == Len(file)
<1>1. /\ r \in Record /\ n \in Nat /\ m \in Nat /\ phase = "write" /\ phase' = "write"
      /\ Len(written') = n + 1 /\ written'[n + 1] = r
      /\ \A k \in 1 .. n : written'[k] = written[k]
      /\ marks' \in Seq(Nat) /\ Len(marks') = n + 2 /\ marks'[n + 2] = m + 4 + PayloadLength(r)
      /\ \A k \in 1 .. n + 1 : marks'[k] = marks[k]
      /\ marks[n + 1] = m
      /\ Len(file') + 8 * Len(doubles') = m + 4 + PayloadLength(r)
      /\ Len(file') >= m + 4
      /\ \A k \in 1 .. m : file'[k] = file[k]
      /\ \A j \in 1 .. 4 : file'[m + j] = HeaderOf(r)[j]
  BY RecordWritten
<1>0. n \in Nat /\ m \in Nat
  BY <1>1
<1>2. PayloadLength(r) \in Nat
  BY <1>1, PayloadBytes
<1>3. /\ marks \in Seq(Nat) /\ Len(marks) = n + 1 /\ marks[1] = 0
      /\ \A k \in 1 .. n : marks[k + 1] = marks[k] + 4 + PayloadLength(written[k])
      /\ \A j, k \in 1 .. n + 1 : j < k => marks[j] + 4 <= marks[k]
  BY DEF FrameInv, MarksInv
<1>4. \A k \in 1 .. n + 1 : marks[k] \in Nat /\ marks[k] <= m
  <2>1. SUFFICES ASSUME NEW k \in 1 .. n + 1 PROVE marks[k] \in Nat /\ marks[k] <= m
    OBVIOUS
  <2>2. marks[k] \in Nat
    BY <1>3, ElementOfSeq
  <2>3. CASE k = n + 1
    BY <1>1, <2>3, SMTT(30)
  <2>4. CASE k < n + 1
    <3>1. n + 1 \in 1 .. n + 1
      BY <1>1
    <3>2. marks[k] + 4 <= m
      BY <1>1, <1>3, <2>4, <3>1
    <3>3. QED
      BY <1>1, <2>2, <3>2, SMTT(30)
  <2>5. k = n + 1 \/ k < n + 1
    BY <1>0
  <2>6. QED
    BY <2>3, <2>4, <2>5
<1> HIDE DEF n, m, r
<1>5. MarksInv'
  <2>1. marks'[1] = 0
    BY <1>1, <1>3
  <2>2. ASSUME NEW k \in 1 .. n + 1
        PROVE  marks'[k + 1] = marks'[k] + 4 + PayloadLength(written'[k])
    <3>1. CASE k = n + 1
      <4>1. k + 1 = n + 2 /\ marks'[k] = m
        BY <1>1, <3>1
      <4>2. QED
        BY <1>1, <3>1, <4>1
    <3>2. CASE k \in 1 .. n
      <4>1. k + 1 \in 1 .. n + 1
        BY <1>1, <3>2
      <4>2. QED
        BY <1>1, <1>3, <3>2, <4>1
    <3>3. QED
      BY <1>1, <3>1, <3>2
  <2>3. ASSUME NEW j \in 1 .. n + 2, NEW k \in 1 .. n + 2, j < k
        PROVE  marks'[j] + 4 <= marks'[k]
    <3>1. j \in 1 .. n + 1
      BY <1>1, <2>3
    <3>2. CASE k = n + 2
      <4>1. marks'[j] \in Nat /\ marks'[j] <= m
        BY <1>1, <1>4, <3>1
      <4>2. QED
        BY <1>1, <1>2, <3>2, <4>1, SMTT(30)
    <3>3. CASE k \in 1 .. n + 1
      BY <1>1, <1>3, <2>3, <3>1, <3>3
    <3>4. QED
      BY <1>1, <3>2, <3>3
  <2>4. Len(marks') = Len(written') + 1
    BY <1>1
  <2>5. QED
    BY <1>1, <2>1, <2>2, <2>3, <2>4 DEF MarksInv
<1>6. ASSUME NEW k \in 1 .. n + 1
      PROVE  /\ marks'[k] + 4 <= Len(file')
             /\ \A j \in 1 .. 4 : file'[marks'[k] + j] = HeaderOf(written'[k])[j]
  <2>1. CASE k = n + 1
    <3>1. marks'[k] = m /\ written'[k] = r
      BY <1>1, <2>1
    <3>2. QED
      BY <1>1, <3>1
  <2>2. CASE k \in 1 .. n
    <3>1. marks[k] + 4 <= m /\ marks[k] \in Nat
      BY <1>1, <1>4, <2>2 DEF FrameInv, PhaseInv, n, m
    <3>2. \A j \in 1 .. 4 : file[marks[k] + j] = HeaderOf(written[k])[j]
      BY <2>2, <3>1 DEF FrameInv, HeadersInv, n, m
    <3>3. \A j \in 1 .. 4 : marks[k] + j \in 1 .. m
      BY <1>0, <3>1
    <3>4. marks'[k] = marks[k] /\ written'[k] = written[k]
      BY <1>1, <2>2
    <3>5. marks[k] + 4 <= Len(file')
      <4>1. BytesInv'
        BY BytesStep DEF ByteNext, WritesOn, ReadsOn
      <4>2. Len(file') \in Nat
        BY <4>1, LenProperties DEF BytesInv
      <4>3. Len(file') >= m + 4
        BY <1>1
      <4>4. QED
        BY <1>0, <3>1, <4>2, <4>3
    <3>6. \A j \in 1 .. 4 : file'[marks[k] + j] = HeaderOf(written[k])[j]
      <4>1. \A i \in 1 .. m : file'[i] = file[i]
        BY <1>1
      <4>2. QED
        BY <3>2, <3>3, <4>1
    <3>7. QED
      BY <3>4, <3>5, <3>6
  <2>3. QED
    BY <1>1, <2>1, <2>2
<1>7. HeadersInv'
  BY <1>1, <1>6 DEF HeadersInv
<1>8. OrderInv'
  <2>1. /\ todo \in Seq(Record) /\ todo # <<>> /\ todo' = Tail(todo)
    BY DEF BytesInv, WriteRecord, Writing
  <2>2. /\ Len(todo) \in Nat \ {0} /\ Len(todo') = Len(todo) - 1
        /\ \A k \in 1 .. Len(todo) - 1 : todo'[k] = todo[k + 1]
        /\ todo' \in Seq(Record)
    BY <2>1, HeadAndTail
  <2>3. \A k \in 1 .. Len(todo) : todo[k].rt = ENDLIB <=> k = Len(todo)
    BY DEF FrameInv, OrderInv
  <2>4. todo' = <<>> <=> Len(todo) = 1
    BY <2>2, EmptySeq
  <2>5. \A k \in 1 .. Len(todo') : todo'[k].rt = ENDLIB <=> k = Len(todo')
    <3>1. SUFFICES ASSUME NEW k \in 1 .. Len(todo')
                   PROVE  todo'[k].rt = ENDLIB <=> k = Len(todo')
      OBVIOUS
    <3>2. k + 1 \in 1 .. Len(todo) /\ todo'[k] = todo[k + 1]
      BY <2>2
    <3>3. k + 1 = Len(todo) <=> k = Len(todo')
      BY <2>2
    <3>4. QED
      BY <2>3, <3>2, <3>3
  <2>6. \A k \in 1 .. n : written[k].rt # ENDLIB
    BY <2>1 DEF FrameInv, OrderInv, n
  <2>7. r.rt = ENDLIB <=> todo' = <<>>
    BY <2>2, <2>3, <2>4 DEF r
  <2>8. \A k \in 1 .. n + 1 :
          written'[k].rt = ENDLIB <=> k = n + 1 /\ todo' = <<>>
    <3>1. SUFFICES ASSUME NEW k \in 1 .. n + 1
                   PROVE  written'[k].rt = ENDLIB <=> k = n + 1 /\ todo' = <<>>
      OBVIOUS
    <3>2. CASE k = n + 1
      BY <1>1, <2>7, <3>2
    <3>3. CASE k \in 1 .. n
      <4>1. written'[k] = written[k]
        BY <1>1, <3>3
      <4>2. k # n + 1
        BY <1>0, <3>3
      <4>3. QED
        BY <2>6, <3>3, <4>1, <4>2
    <3>4. QED
      BY <1>1, <3>2, <3>3
  <2>9. written'[1].rt = HEADER
    <3>1. written \in Seq(Record)
      BY DEF BytesInv
    <3>2. CASE written = <<>>
      <4>1. n = 0 /\ r.rt = HEADER
        BY <2>1, <3>2 DEF FrameInv, OrderInv, n, r
      <4>2. QED
        BY <1>1, <4>1
    <3>3. CASE written # <<>>
      <4>1. n > 0
        BY <3>1, <3>3, EmptySeq DEF n
      <4>2. 1 \in 1 .. n
        BY <1>1, <4>1
      <4>3. QED
        BY <1>1, <3>3, <4>2 DEF FrameInv, OrderInv
    <3>4. QED
      BY <3>2, <3>3
  <2>10. written' # <<>>
    BY <1>1
  <2>11. QED
    BY <1>1, <2>5, <2>8, <2>9, <2>10 DEF OrderInv
<1>9. PhaseInv'
  <2>1. written' # <<>>
    BY <1>1
  <2>2. Len(file') + 8 * Len(doubles') = marks'[Len(marks')]
    BY <1>1
  <2>3. QED
    BY <1>1, <1>6, <2>1, <2>2 DEF PhaseInv
<1>10. QED
  BY <1>5, <1>7, <1>8, <1>9 DEF FrameInv

LEMMA WriteDoubleFrames == ASSUME BytesInv, FrameInv, WriteDouble PROVE FrameInv'
<1> DEFINE b == BytesOfReal(real8)
           m == Len(file)
<1>1. /\ phase = "write" /\ phase' = "write" /\ doubles \in Seq(Double) /\ doubles # <<>>
      /\ file \in Seq(Byte) /\ UNCHANGED <<todo, written, marks>>
      /\ file' = file \o b /\ doubles' = Tail(doubles)
  BY DEF BytesInv, WriteDouble
<1>2. b \in Seq(Byte) /\ Len(b) = 8
  BY RealBytes DEF BytesInv, RealInv
<1> HIDE DEF b
<1>3. /\ Len(file') = m + 8 /\ m \in Nat
      /\ \A k \in 1 .. m : file'[k] = file[k]
  <2>1. file \in Seq(Byte) /\ b \in Seq(Byte)
    BY <1>1, <1>2
  <2>2. /\ Len(file \o b) = Len(file) + Len(b) /\ Len(file) \in Nat
        /\ \A k \in 1 .. Len(file) : (file \o b)[k] = file[k]
    BY ONLY <2>1, Concatenated
  <2>3. QED
    BY <1>1, <1>2, <2>2
<1>4. Len(doubles') = Len(doubles) - 1 /\ Len(doubles) \in Nat
  BY <1>1, HeadAndTail
<1> HIDE DEF m
<1>5. /\ m + 8 * Len(doubles) = marks[Len(marks)]
      /\ written # <<>> \/ todo # <<>>
      /\ \A k \in 1 .. Len(written) : marks[k] + 4 <= m
  BY <1>1 DEF FrameInv, PhaseInv, m
<1>6. \A k \in 1 .. Len(written) : marks[k] \in Nat
  <2>1. marks \in Seq(Nat) /\ Len(marks) = Len(written) + 1 /\ written \in Seq(Record)
    BY DEF FrameInv, MarksInv, BytesInv
  <2>2. \A k \in 1 .. Len(marks) : marks[k] \in Nat
    BY <2>1, ElementOfSeq
  <2>3. Len(written) \in Nat
    BY <2>1, LenProperties
  <2>4. QED
    BY <2>1, <2>2, <2>3
<1>7. HeadersInv'
  <2>1. SUFFICES ASSUME NEW k \in 1 .. Len(written), NEW j \in 1 .. 4
                 PROVE  file'[marks[k] + j] = HeaderOf(written[k])[j]
    BY <1>1 DEF HeadersInv
  <2>2. marks[k] + j \in 1 .. m
    <3>1. marks[k] \in Nat /\ marks[k] + 4 <= m /\ m \in Nat
      BY <1>3, <1>5, <1>6
    <3>2. QED
      BY <3>1, SMTT(30)
  <2>3. file[marks[k] + j] = HeaderOf(written[k])[j]
    BY <1>5 DEF FrameInv, HeadersInv, m
  <2>4. QED
    BY <1>3, <2>2, <2>3
<1>8. PhaseInv'
  <2>1. Len(file') + 8 * Len(doubles') = m + 8 * Len(doubles)
    BY <1>3, <1>4
  <2>2. \A k \in 1 .. Len(written) : marks[k] + 4 <= Len(file')
    BY <1>3, <1>5, <1>6
  <2>3. QED
    BY <1>1, <1>5, <2>1, <2>2 DEF PhaseInv
<1>9. QED
  BY <1>1, <1>7, <1>8 DEF FrameInv, MarksInv, OrderInv

LEMMA OpenFrames == ASSUME BytesInv, FrameInv, Open PROVE FrameInv'
<1>1. /\ phase = "write" /\ phase' = "read" /\ todo = <<>> /\ doubles = <<>>
      /\ file \in Seq(Byte) /\ UNCHANGED <<todo, doubles, written, marks>>
  BY DEF BytesInv, Open, writerVars
<1>2. PICK n \in 0 .. Len(file) : file' = SubSeq(file, 1, n)
  BY DEF Open
<1>3. Len(file) \in Nat /\ n \in Nat /\ n <= Len(file)
  BY <1>1, <1>2, LenProperties
<1>4. Len(file') = n /\ \A k \in 1 .. n : file'[k] = file[k]
  <2>1. \A k \in 1 .. n : file[k] \in Byte
    BY <1>1, <1>3, ElementOfSeq
  <2>2. /\ Len(SubSeq(file, 1, n)) = IF 1 <= n THEN n - 1 + 1 ELSE 0
        /\ \A k \in 1 .. n - 1 + 1 : SubSeq(file, 1, n)[k] = file[1 + k - 1]
    BY <1>3, <2>1, SubSeqProperties
  <2>3. n - 1 + 1 = n /\ \A k \in 1 .. n : 1 + k - 1 = k
    BY <1>3
  <2>4. /\ Len(file') = IF 1 <= n THEN n ELSE 0
        /\ \A k \in 1 .. n : file'[k] = file[1 + k - 1]
    BY <1>2, <2>2, <2>3
  <2>5. QED
    BY <1>3, <2>3, <2>4
<1>5. Len(file) = marks[Len(marks)]
  BY <1>1, <1>3 DEF FrameInv, PhaseInv
<1>6. \A k \in 1 .. Len(written) : marks[k] + 4 <= Len(file)
  BY <1>1 DEF FrameInv, PhaseInv
<1>7. \A k \in 1 .. Len(written) : marks[k] \in Nat
  <2>1. marks \in Seq(Nat) /\ Len(marks) = Len(written) + 1 /\ written \in Seq(Record)
    BY DEF FrameInv, MarksInv, BytesInv
  <2>2. \A k \in 1 .. Len(marks) : marks[k] \in Nat
    BY <2>1, ElementOfSeq
  <2>3. Len(written) \in Nat
    BY <2>1, LenProperties
  <2>4. QED
    BY <2>1, <2>2, <2>3
<1>8. HeadersInv'
  <2>1. SUFFICES ASSUME NEW k \in 1 .. Len(written), marks[k] + 4 <= n, NEW j \in 1 .. 4
                 PROVE  file'[marks[k] + j] = HeaderOf(written[k])[j]
    BY <1>1, <1>4 DEF HeadersInv
  <2>2. marks[k] + j \in 1 .. n
    BY <1>3, <1>7, <2>1, SMTT(30)
  <2>3. file[marks[k] + j] = HeaderOf(written[k])[j]
    BY <1>6 DEF FrameInv, HeadersInv
  <2>4. QED
    BY <1>4, <2>2, <2>3
<1>9. PhaseInv'
  BY <1>1, <1>3, <1>4, <1>5 DEF PhaseInv
<1>10. QED
  BY <1>1, <1>8, <1>9 DEF FrameInv, MarksInv, OrderInv

LEMMA FrameStep == ASSUME BytesInv, FrameInv, [ByteNext]_byteVars PROVE FrameInv'
<1>1. CASE WriteRecord
  BY <1>1, WriteRecordFrames
<1>2. CASE WriteDouble
  BY <1>2, WriteDoubleFrames
<1>3. CASE Open
  BY <1>3, OpenFrames
<1>4. CASE Rewrite
  <2>1. Doc(todo')
    BY <1>4, RewrittenDocument DEF Rewrite, BytesInv
  <2>2. QED
    BY <1>4, <2>1, FrameStart DEF Rewrite
<1>5. CASE UNCHANGED <<phase, file, todo, doubles, written, marks>>
  BY <1>5 DEF FrameInv, MarksInv, HeadersInv, OrderInv, PhaseInv
<1>6. QED
  BY <1>1, <1>2, <1>3, <1>4, <1>5
     DEF ByteNext, WritesOn, ReadsOn, BeginDouble, EncodeDouble, EndOfFile, BadRecordLength, NextRecord,
         byteVars, writerVars

----------------------------------------------------------------------------
(* The reader of a stream of our own *)

\* While it reads it stands at the mark of a record that is still to be read.
ReadInv ==
  phase = "read" /\ written # <<>> /\ LengthsFit =>
    /\ Len(got) <= Len(written) /\ pos = marks[Len(got) + 1]
    /\ status = "reading" => Len(got) < Len(written)
    /\ status # "reading" =>
         /\ status \in {"UnexpectedEof", "BadRecordLength"} <=> Len(file) \notin ToSet(marks)
         /\ status = "MissingHeader" <=> Len(file) = 0
         /\ status = "ok" => pos = Len(file)

\* What a reader finds that stands at a mark.
LEMMA AtMark ==
  ASSUME BytesInv, FrameInv, phase = "read", written # <<>>, LengthsFit,
         Len(got) < Len(written), pos = marks[Len(got) + 1]
  PROVE  LET g == Len(got) + 1 IN
         /\ g \in 1 .. Len(written) /\ Len(file) \in Nat /\ Remaining = Len(file) - pos
         /\ Remaining \in Nat /\ pos \in Nat
         /\ \A k \in 1 .. Len(marks) : marks[k] \in Nat
         /\ Len(marks) = Len(written) + 1
         /\ \A k \in 1 .. Len(marks) : k <= g => marks[k] <= pos
         /\ \A k \in 1 .. Len(marks) : k > g => marks[k] >= marks[g + 1]
         /\ marks[g + 1] = pos + 4 + PayloadLength(written[g])
         /\ PayloadLength(written[g]) \in Nat
         /\ pos = 0 <=> g = 1
         /\ Remaining >= 4 => /\ Length = 4 + PayloadLength(written[g])
                              /\ Type = written[g].rt
<1> DEFINE g == Len(got) + 1
           n == Len(written)
           r == written[g]
<1>1. /\ got \in Seq(Record) /\ written \in Seq(Record) /\ file \in Seq(Byte)
      /\ pos \in Nat /\ pos <= Len(file)
  BY DEF BytesInv
<1>2. Len(got) \in Nat /\ n \in Nat /\ Len(file) \in Nat
  BY <1>1, LenProperties
<1>3. g \in 1 .. n /\ r \in Record /\ g + 1 \in 1 .. n + 1
  <2>1. g \in 1 .. n /\ g + 1 \in 1 .. n + 1
    BY <1>2
  <2>2. QED
    BY <1>1, <2>1, ElementOfSeq
<1>4. /\ marks \in Seq(Nat) /\ Len(marks) = n + 1 /\ marks[1] = 0
      /\ \A k \in 1 .. n : marks[k + 1] = marks[k] + 4 + PayloadLength(written[k])
      /\ \A j, k \in 1 .. n + 1 : j < k => marks[j] + 4 <= marks[k]
      /\ pos = marks[g]
  BY DEF FrameInv, MarksInv
<1>5. \A k \in 1 .. n + 1 : marks[k] \in Nat
  BY <1>4, ElementOfSeq
<1>6. marks[g + 1] = pos + 4 + PayloadLength(r) /\ PayloadLength(r) \in Nat
  BY <1>3, <1>4, PayloadBytes
<1> HIDE DEF g, n
<1>7. g \in 1 .. n + 1 /\ 1 \in 1 .. n + 1
  BY <1>2, <1>3
<1>8. ASSUME NEW k \in 1 .. n + 1 PROVE k <= g => marks[k] <= pos
  <2>1. k = g \/ k < g \/ k > g
    BY <1>7
  <2>2. marks[k] \in Nat
    BY <1>5
  <2>3. k < g => marks[k] + 4 <= marks[g]
    BY <1>4, <1>7
  <2>4. k < g => marks[k] <= pos
    BY <1>1, <1>4, <2>2, <2>3
  <2>5. QED
    BY <1>1, <1>4, <1>7, <2>1, <2>4
<1>9. ASSUME NEW k \in 1 .. n + 1 PROVE k > g => marks[k] >= marks[g + 1]
  <2>1. k > g => k = g + 1 \/ g + 1 < k
    BY <1>7
  <2>2. marks[k] \in Nat /\ marks[g + 1] \in Nat
    BY <1>3, <1>5
  <2>3. g + 1 < k => marks[g + 1] + 4 <= marks[k]
    BY <1>3, <1>4
  <2>4. g + 1 < k => marks[k] >= marks[g + 1]
    BY <2>2, <2>3
  <2>5. k = g + 1 => marks[k] >= marks[g + 1]
    BY <2>2
  <2>6. QED
    BY <2>1, <2>4, <2>5
<1>10. pos = 0 <=> g = 1
  <2>1. g = 1 => pos = 0
    BY <1>4
  <2>2. g # 1 => 1 < g
    BY <1>7
  <2>3. 1 < g => marks[1] + 4 <= marks[g]
    BY <1>4, <1>7
  <2>4. 1 < g => pos # 0
    BY <1>1, <1>4, <2>3
  <2>5. QED
    BY <2>1, <2>2, <2>4
<1>11. ASSUME Remaining >= 4 PROVE Length = 4 + PayloadLength(r) /\ Type = r.rt
  <2>1. pos + 4 <= Len(file)
    BY <1>1, <1>2, <1>11 DEF Remaining
  <2>2. \A j \in 1 .. 4 : file[pos + j] = HeaderOf(r)[j]
    BY <1>3, <1>4, <2>1 DEF FrameInv, HeadersInv, n
  <2>3. PayloadLength(r) + 4 < Base * Base
    <3>1. g \in DOMAIN written
      BY <1>1, <1>3, LenProperties DEF n
    <3>2. QED
      BY <3>1 DEF LengthsFit
  <2>4. HeaderOf(r)[3] = r.rt /\ Unsigned2(HeaderOf(r), 1) = PayloadLength(r) + 4
    BY <1>3, <2>3, HeaderBytes DEF HeaderOf
  <2>5. /\ Length = file[pos + 1] * Base + file[pos + 2] /\ Type = file[pos + 3]
        /\ Unsigned2(HeaderOf(r), 1) = HeaderOf(r)[1] * Base + HeaderOf(r)[2]
    <3>1. pos + 1 + 1 = pos + 2
      BY <1>1
    <3>2. QED
      BY <3>1 DEF Length, Type, Unsigned2
  <2>6. QED
    BY <1>6, <2>2, <2>4, <2>5
<1>12. Remaining = Len(file) - pos /\ Remaining \in Nat
  BY <1>1, <1>2 DEF Remaining
<1>13. QED
  BY <1>1, <1>2, <1>3, <1>4, <1>5, <1>6, <1>8, <1>9, <1>10, <1>11, <1>12 DEF g, n

LEMMA Marked ==
  ASSUME NEW m \in Nat, marks \in Seq(Nat)
  PROVE  m \in ToSet(marks) <=> \E k \in 1 .. Len(marks) : marks[k] = m
BY LenProperties DEF ToSet

\* No mark lies between those of a record and of the one after it.
LEMMA CutInside ==
  ASSUME BytesInv, FrameInv, phase = "read", written # <<>>, LengthsFit,
         Len(got) < Len(written), pos = marks[Len(got) + 1],
         Len(file) > pos, Len(file) < pos + 4 + PayloadLength(written[Len(got) + 1])
  PROVE  Len(file) \notin ToSet(marks)
<1> DEFINE g == Len(got) + 1
           m == Len(file)
<1>1. /\ g \in 1 .. Len(written) /\ m \in Nat /\ pos \in Nat
      /\ \A k \in 1 .. Len(marks) : marks[k] \in Nat
      /\ \A k \in 1 .. Len(marks) : k <= g => marks[k] <= pos
      /\ \A k \in 1 .. Len(marks) : k > g => marks[k] >= marks[g + 1]
      /\ marks[g + 1] = pos + 4 + PayloadLength(written[g])
      /\ PayloadLength(written[g]) \in Nat
  BY AtMark
<1>2. m > pos /\ m < marks[g + 1] /\ marks[g + 1] \in Nat
  BY <1>1
<1>3. marks \in Seq(Nat)
  BY DEF FrameInv, MarksInv
<1>4. Len(marks) \in Nat
  BY <1>3, LenProperties
<1> HIDE DEF g, m
<1>5. ASSUME NEW k \in 1 .. Len(marks) PROVE marks[k] # m
  <2>1. k <= g \/ k > g
    BY <1>1, <1>4
  <2>2. k <= g => marks[k] <= pos /\ marks[k] \in Nat
    BY <1>1
  <2>3. k > g => marks[k] >= marks[g + 1] /\ marks[k] \in Nat
    BY <1>1
  <2>4. k <= g => marks[k] # m
    BY <1>1, <1>2, <2>2
  <2>5. k > g => marks[k] # m
    BY <1>1, <1>2, <2>3
  <2>6. QED
    BY <2>1, <2>4, <2>5
<1>6. QED
  BY <1>1, <1>3, <1>5, Marked DEF m

LEMMA EndOfFileReads ==
  ASSUME BytesInv, FrameInv, ReadInv, EndOfFile, written # <<>>, LengthsFit
  PROVE  ReadInv'
<1> DEFINE g == Len(got) + 1
<1>1. /\ phase = "read" /\ status = "reading" /\ Remaining < 4
      /\ UNCHANGED <<phase, file, written, marks, pos, got>>
      /\ status' = IF Remaining # 0 THEN "UnexpectedEof"
                   ELSE IF pos = 0 THEN "MissingHeader" ELSE "ok"
  BY DEF EndOfFile, Reading, writerVars
<1>2. Len(got) < Len(written) /\ pos = marks[g] /\ Len(got) <= Len(written)
  BY <1>1 DEF ReadInv
<1>3. /\ g \in 1 .. Len(written) /\ Len(file) \in Nat /\ Remaining = Len(file) - pos
      /\ Remaining \in Nat /\ pos \in Nat /\ PayloadLength(written[g]) \in Nat
      /\ Len(marks) = Len(written) + 1
  BY <1>1, <1>2, AtMark
<1>4. marks \in Seq(Nat) /\ Len(marks) \in Nat
  BY LenProperties DEF FrameInv, MarksInv
<1>5. CASE Remaining # 0
  <2>1. Len(file) > pos /\ Len(file) < pos + 4 + PayloadLength(written[g])
    BY <1>1, <1>3, <1>5
  <2>2. Len(file) \notin ToSet(marks)
    BY <1>1, <1>2, <2>1, CutInside
  <2>3. status' = "UnexpectedEof" /\ Len(file) # 0
    BY <1>1, <1>3, <1>5, <2>1
  <2>4. QED
    BY <1>1, <1>2, <2>2, <2>3 DEF ReadInv
<1>6. CASE Remaining = 0
  <2>1. Len(file) = pos /\ g \in 1 .. Len(marks)
    BY <1>3, <1>4, <1>6
  <2>2. Len(file) \in ToSet(marks)
    BY <1>2, <1>3, <1>4, <2>1, Marked
  <2>3. status' = IF pos = 0 THEN "MissingHeader" ELSE "ok"
    BY <1>1, <1>6
  <2>4. QED
    BY <1>1, <1>2, <2>1, <2>2, <2>3 DEF ReadInv
<1>7. QED
  BY <1>5, <1>6

LEMMA BadLengthReads ==
  ASSUME BytesInv, FrameInv, ReadInv, BadRecordLength, written # <<>>, LengthsFit
  PROVE  ReadInv'
<1> DEFINE g == Len(got) + 1
<1>1. /\ phase = "read" /\ status = "reading" /\ Remaining >= 4
      /\ UNCHANGED <<phase, file, written, marks, pos, got>>
      /\ status' = "BadRecordLength" /\ (Length < 4 \/ Length > Remaining)
  BY DEF BadRecordLength, Reading, writerVars
<1>2. Len(got) < Len(written) /\ pos = marks[g] /\ Len(got) <= Len(written)
  BY <1>1 DEF ReadInv
<1>3. /\ Len(file) \in Nat /\ Remaining = Len(file) - pos
      /\ pos \in Nat /\ PayloadLength(written[g]) \in Nat
      /\ Length = 4 + PayloadLength(written[g])
  BY <1>1, <1>2, AtMark
<1>4. Len(file) > pos /\ Len(file) < pos + 4 + PayloadLength(written[g])
  BY <1>1, <1>3
<1>5. Len(file) \notin ToSet(marks)
  BY <1>1, <1>2, <1>4, CutInside
<1>6. Len(file) # 0
  BY <1>3, <1>4
<1>7. QED
  BY <1>1, <1>2, <1>5, <1>6 DEF ReadInv

\* A record that was written fits its type.
LEMMA NoMisfit ==
  ASSUME NEW r \in Record, NEW b, Len(b) = PayloadLength(r)
  PROVE  ~ Misfits(r.rt, b)
BY PayloadBytes DEF Misfits

LEMMA NextReads ==
  ASSUME BytesInv, FrameInv, ReadInv, NextRecord, written # <<>>, LengthsFit
  PROVE  /\ ReadInv'
         /\ got' = Append(got, [rt |-> Type, data |-> Parse(Type, Data)])
<1> DEFINE g == Len(got) + 1
           r == written[g]
<1>1. /\ phase = "read" /\ status = "reading" /\ Remaining >= 4
      /\ UNCHANGED <<phase, file, todo, written, marks>>
      /\ Length \in 4 .. Remaining /\ pos' = pos + Length
  BY DEF NextRecord, Reading, writerVars
<1>2. Len(got) < Len(written) /\ pos = marks[g]
  BY <1>1 DEF ReadInv
<1>3. /\ g \in 1 .. Len(written) /\ Len(file) \in Nat /\ Remaining = Len(file) - pos
      /\ pos \in Nat /\ PayloadLength(r) \in Nat /\ Len(marks) = Len(written) + 1
      /\ Length = 4 + PayloadLength(r) /\ Type = r.rt /\ (pos = 0 <=> g = 1)
      /\ marks[g + 1] = pos + 4 + PayloadLength(r)
  BY <1>1, <1>2, AtMark
<1>4. r \in Record /\ got \in Seq(Record) /\ Len(got) \in Nat
  BY <1>3, ElementOfSeq, LenProperties DEF BytesInv
<1>5. ~ (pos = 0 /\ Type # HEADER)
  BY <1>3 DEF FrameInv, OrderInv
<1>6. Len(Data) = PayloadLength(r)
  <2>1. \A k \in pos + 5 .. pos + Length : file[k] \in Byte
    <3>1. file \in Seq(Byte)
      BY DEF BytesInv
    <3>2. \A k \in pos + 5 .. pos + Length : k \in 1 .. Len(file)
      BY <1>1, <1>3
    <3>3. QED
      BY <3>1, <3>2, ElementOfSeq
  <2> DEFINE a == pos + 5
             z == pos + Length
  <2>2. a \in Int /\ z \in Int /\ (IF a <= z THEN z - a + 1 ELSE 0) = PayloadLength(r)
    BY <1>3
  <2>3. Data = SubSeq(file, a, z)
    BY DEF Data
  <2> HIDE DEF a, z
  <2>4. QED
    BY <2>1, <2>2, <2>3, SubSeqProperties DEF a, z
<1>7. ~ Misfits(Type, Data)
  BY <1>3, <1>4, <1>6, NoMisfit
<1>8. /\ got' = Append(got, [rt |-> Type, data |-> Parse(Type, Data)])
      /\ status' = IF Type = ENDLIB THEN "ok" ELSE "reading"
  BY <1>5, <1>7 DEF NextRecord
<1>9. Len(got') = g
  BY <1>4, <1>8
<1>10. pos' = marks'[Len(got') + 1] /\ Len(got') <= Len(written')
  BY <1>1, <1>3, <1>9
<1>11. Type = ENDLIB <=> g = Len(written)
  <2>1. todo = <<>>
    BY <1>1 DEF FrameInv, PhaseInv
  <2>2. QED
    BY <1>3, <2>1 DEF FrameInv, OrderInv
<1>12. CASE Type = ENDLIB
  <2>1. Len(file) <= marks[Len(marks)]
    BY <1>1 DEF FrameInv, PhaseInv
  <2>2. Len(marks) = g + 1
    BY <1>3, <1>11, <1>12
  <2>3. Len(file) = pos' /\ Len(file) = marks[g + 1] /\ Len(file) # 0
    BY <1>1, <1>3, <2>1, <2>2, SMTT(30)
  <2>4. Len(file) \in ToSet(marks)
    <3>1. marks \in Seq(Nat) /\ g + 1 \in 1 .. Len(marks)
      BY <1>3, <2>2 DEF FrameInv, MarksInv
    <3>2. QED
      BY <1>3, <2>3, <3>1, Marked
  <2>5. status' = "ok"
    BY <1>8, <1>12
  <2>6. QED
    BY <1>1, <1>8, <1>10, <2>3, <2>4, <2>5 DEF ReadInv
<1>13. CASE Type # ENDLIB
  <2>1. Len(got') < Len(written')
    BY <1>1, <1>3, <1>9, <1>11, <1>13
  <2>2. status' = "reading"
    BY <1>8, <1>13
  <2>3. QED
    BY <1>1, <1>8, <1>10, <2>1, <2>2 DEF ReadInv
<1>14. QED
  BY <1>8, <1>12, <1>13

LEMMA OpenReads == ASSUME BytesInv, FrameInv, Open PROVE ReadInv'
<1>1. got' = <<>> /\ pos' = 0 /\ status' = "reading" /\ UNCHANGED <<written, marks>>
  BY DEF Open, writerVars
<1>2. marks[1] = 0 /\ written \in Seq(Record)
  BY DEF FrameInv, MarksInv, BytesInv
<1>3. written # <<>> => Len(written) \in Nat \ {0}
  BY <1>2, EmptySeq
<1>4. QED
  BY <1>1, <1>2, <1>3 DEF ReadInv

LEMMA ReadStep == ASSUME BytesInv, FrameInv, ReadInv, [ByteNext]_byteVars PROVE ReadInv'
<1>1. CASE Open
  BY <1>1, OpenReads
<1>2. CASE phase' = "write"
  BY <1>2 DEF ReadInv
<1>3. CASE EndOfFile \/ BadRecordLength \/ NextRecord
  <2>1. UNCHANGED written
    BY <1>3 DEF EndOfFile, BadRecordLength, NextRecord, writerVars
  <2>2. CASE written # <<>> /\ LengthsFit
    BY <1>3, <2>2, EndOfFileReads, BadLengthReads, NextReads
  <2>3. CASE ~ (written # <<>> /\ LengthsFit)
    BY <2>1, <2>3 DEF ReadInv, LengthsFit
  <2>4. QED
    BY <2>2, <2>3
<1>4. CASE UNCHANGED <<phase, file, written, marks, pos, got, status>>
  BY <1>4 DEF ReadInv, LengthsFit
<1>5. CASE WriteRecord \/ WriteDouble \/ Rewrite
  <2>1. WriteDouble => phase = "write"
    BY DEF WriteDouble, BytesInv
  <2>2. phase' = "write"
    BY <1>5, <2>1 DEF WriteRecord, Writing, WriteDouble, Rewrite
  <2>3. QED
    BY <1>2, <2>2
<1>6. QED
  BY <1>1, <1>3, <1>4, <1>5
     DEF ByteNext, WritesOn, ReadsOn, BeginDouble, EncodeDouble, byteVars, writerVars, readerVars

\* A stream that write emitted is refused for being cut exactly when it was cut
\* inside a record, and a stream that is accepted was read to its last byte:
\* for all documents whose records fit their lengths, and wherever they are cut.
THEOREM CutCorrect == ByteSpec => []CutRefused
<1> DEFINE Inv == BytesInv /\ FrameInv /\ ReadInv
<1>1. ByteInit => Inv
  <2>1. ByteInit => ReadInv
    BY DEF ByteInit, ReadInv
  <2>2. QED
    BY <2>1, BytesInitial, FrameInitial
<1>2. Inv /\ [ByteNext]_byteVars => Inv'
  BY BytesStep, FrameStep, ReadStep
<1>3. Inv => CutRefused
  BY DEF ReadInv, CutRefused
<1>4. QED
  BY <1>1, <1>2, <1>3, PTL DEF ByteSpec
----------------------------------------------------------------------------
(* Integers *)

LEMMA SignedReads ==
  ASSUME NEW m \in Nat \ {0}, m = 2 * (m \div 2), NEW n \in Signed(m)
  PROVE  n \in Int /\ AsSigned(n % m, m) = n
<1> DEFINE q == n \div m
           u == n % m
           h == m \div 2
<1>1. h \in Int /\ m = 2 * h
  BY DivMod
<1>2. n \in Int /\ - h <= n /\ n < h
  BY <1>1 DEF Signed
<1>3. q \in Int /\ u \in 0 .. m - 1 /\ n = m * q + u
  BY <1>2, DivMod
<1>4. AsSigned(u, m) = IF u < h THEN u ELSE u - m
  BY DEF AsSigned
<1> HIDE DEF q, u, h
<1>5. q = 0 \/ q = -1
  <2>1. CASE q >= 1
    <3>1. m * q >= m
      BY <1>3, <2>1
    <3>2. QED
      BY <1>1, <1>2, <1>3, <3>1
  <2>2. CASE q <= -2
    <3>1. m * q <= m * (-2)
      BY <1>3, <2>2
    <3>2. QED
      BY <1>1, <1>2, <1>3, <3>1
  <2>3. QED
    BY <1>3, <2>1, <2>2
<1>6. CASE q = 0
  BY <1>1, <1>2, <1>3, <1>4, <1>6 DEF u
<1>7. CASE q = -1
  <2>1. n = u - m
    BY <1>3, <1>7
  <2>2. QED
    BY <1>1, <1>2, <1>3, <1>4, <2>1 DEF u
<1>8. QED
  BY <1>5, <1>6, <1>7

LEMMA TwoBytesRead ==
  ASSUME NEW n \in Int
  PROVE  Bytes2(n)[1] * Base + Bytes2(n)[2] = n % (Base * Base)
<1> DEFINE m == Base * Base
           u == n % m
<1>1. m \in Nat \ {0} /\ u \in 0 .. m - 1
  BY Bases, DivMod
<1>2. u % m = u
  BY <1>1
<1>3. Bytes2(u) = Bytes2(n)
  BY <1>2 DEF Bytes2
<1>4. u \in Int
  BY <1>1
<1> HIDE DEF u
<1>5. Bytes2(u)[1] * Base + Bytes2(u)[2] = u
  BY <1>1, <1>4, TwoBytes
<1>6. QED
  BY <1>3, <1>5 DEF u

LEMMA FourBytesRead ==
  ASSUME NEW n \in Int
  PROVE  /\ Bytes4(n) \in Seq(Byte) /\ Len(Bytes4(n)) = 4
         /\ (Bytes4(n)[1] * Base + Bytes4(n)[2]) * Base * Base
              + (Bytes4(n)[3] * Base + Bytes4(n)[4]) = n % (Base * Base * Base * Base)
<1> DEFINE square == Base * Base
           m      == Base * Base * Base * Base
           u      == n % m
           high   == u \div square
           low    == u % square
<1>1. square \in Nat \ {0} /\ m \in Nat \ {0} /\ Base \in Nat
  BY Bases
<1>2. m = square * square
  BY <1>1
<1>3. u \in 0 .. m - 1 /\ u \in Int
  <2> HIDE DEF m
  <2>1. u \in 0 .. m - 1
    BY <1>1, DivMod
  <2>2. QED
    BY <1>1, <2>1
<1>4. Bytes4(n) = Bytes2(high) \o Bytes2(low)
  BY DEF Bytes4
<1> HIDE DEF u, m
<1>5. high \in Int /\ low \in 0 .. square - 1 /\ u = square * high + low
  <2> HIDE DEF square
  <2>1. QED
    BY <1>1, <1>3, DivMod
<1>6. high \in 0 .. square - 1
  <2> HIDE DEF square
  <2>1. u \in 0 .. square * square - 1
    BY <1>2, <1>3
  <2>2. QED
    BY <1>1, <2>1, Quotient
<1> HIDE DEF high, low
<1> DEFINE a == Bytes2(high)
           b == Bytes2(low)
<1>7. a \in Seq(Byte) /\ Len(a) = 2 /\ a[1] * Base + a[2] = high
  BY <1>5, <1>6, TwoBytes
<1>8. b \in Seq(Byte) /\ Len(b) = 2 /\ b[1] * Base + b[2] = low
  BY <1>5, TwoBytes
<1> HIDE DEF a, b
<1>9. /\ Len(a \o b) = 4
      /\ (a \o b)[1] = a[1] /\ (a \o b)[2] = a[2]
      /\ (a \o b)[3] = b[1] /\ (a \o b)[4] = b[2]
  <2>1. /\ Len(a \o b) = Len(a) + Len(b)
        /\ \A k \in 1 .. Len(a) : (a \o b)[k] = a[k]
        /\ \A k \in 1 .. Len(b) : (a \o b)[Len(a) + k] = b[k]
    <3>1. a \in Seq(Byte) /\ b \in Seq(Byte)
      BY <1>7, <1>8
    <3>2. QED
      BY ONLY <3>1, Concatenated
  <2>2. QED
    BY <1>7, <1>8, <2>1
<1>10. Bytes4(n) = a \o b
  BY <1>4 DEF a, b
<1>11. high * Base * Base = square * high
  BY <1>1, <1>5
<1>12. (a[1] * Base + a[2]) * Base * Base + (b[1] * Base + b[2]) = u
  BY <1>5, <1>7, <1>8, <1>11
<1>13. QED
  BY <1>9, <1>10, <1>12, FourBytes DEF u, m

----------------------------------------------------------------------------
(* Reals *)

LEMMA RealReads ==
  ASSUME NEW r \in Real8, NEW f, NEW at \in Nat,
         \A j \in 1 .. 8 : f[at + j] = BytesOfReal(r)[j]
  PROVE  RealOfBytes(f, at + 1) = r
<1> DEFINE b == BytesOfReal(r)
<1>1. /\ r.neg \in BOOLEAN /\ r.biased \in 0 .. 2 * Bias - 1 /\ r.mantissa \in SUBSET (0 .. Q - 1)
      /\ r = [neg |-> r.neg, biased |-> r.biased, mantissa |-> r.mantissa]
  BY DEF Real8
<1>2. f[at + 1] = r.biased + (IF r.neg THEN 2 * Bias ELSE 0)
  BY Bases DEF BytesOfReal
<1>3. /\ f[at + 1] >= Base \div 2 <=> r.neg
      /\ f[at + 1] % (Base \div 2) = r.biased
  <2>1. 2 * Bias \in Nat \ {0} /\ Base \div 2 = 2 * Bias
    BY Bases, WidthsAssumption
  <2> DEFINE d == 2 * Bias
  <2> HIDE DEF d
  <2>2. d \in Nat \ {0} /\ r.biased \in 0 .. d - 1 /\ Base \div 2 = d
        /\ f[at + 1] = r.biased + (IF r.neg THEN d ELSE 0)
    BY <1>1, <1>2, <2>1 DEF d
  <2>3. r.biased % d = r.biased
    BY <2>2
  <2>4. (r.biased + d) % d = r.biased
    BY <2>2
  <2>5. QED
    BY <1>1, <2>2, <2>3, <2>4
<1>4. \A k \in 1 .. 7 : BitsOf(f[at + 1 + k]) = Digit(r.mantissa, k)
  <2>1. SUFFICES ASSUME NEW k \in 1 .. 7 PROVE BitsOf(f[at + 1 + k]) = Digit(r.mantissa, k)
    OBVIOUS
  <2>2. at + 1 + k = at + (k + 1) /\ k + 1 \in 1 .. 8 /\ k + 1 # 1 /\ (k + 1) - 1 = k
    OBVIOUS
  <2>3. f[at + 1 + k] = ByteOf(Digit(r.mantissa, k))
    BY <2>2 DEF BytesOfReal
  <2>4. Digit(r.mantissa, k) \in SUBSET (0 .. ByteBits - 1)
    BY DEF Digit
  <2>5. \E c \in Byte : BitsOf(c) = Digit(r.mantissa, k)
    BY <2>4, ByteAssumption
  <2>6. QED
    BY <2>3, <2>5 DEF ByteOf
<1> DEFINE whole8 == UNION {Shift(BitsOf(f[at + 1 + k]), (7 - k) * ByteBits) : k \in 1 .. 7}
<1>5. ByteBits \in Nat /\ Q = 7 * ByteBits
  BY ByteAssumption
<1>6. ASSUME NEW p \in r.mantissa PROVE p \in whole8
  <2>1. p \in 0 .. Q - 1
    BY <1>1
  <2>2. ByteBits \in Nat \ {0}
    BY <1>5, <2>1
  <2>3. p \div ByteBits \in 0 .. 6 /\ p % ByteBits \in 0 .. ByteBits - 1
        /\ p = ByteBits * (p \div ByteBits) + (p % ByteBits)
    <3>1. p \in 0 .. ByteBits * 7 - 1
      <4>1. ByteBits * 7 = Q
        BY <1>5
      <4>2. QED
        BY <2>1, <4>1
    <3>2. p \div ByteBits \in 0 .. 7 - 1
      BY <2>2, <3>1, Quotient
    <3>3. /\ p % ByteBits \in 0 .. ByteBits - 1
          /\ p = ByteBits * (p \div ByteBits) + (p % ByteBits)
      <4>1. p \in Int
        BY <2>1
      <4>2. QED
        BY <2>2, <4>1, DivMod
    <3>4. p \div ByteBits \in 0 .. 6
      BY <3>2
    <3>5. QED
      BY <3>3, <3>4
  <2> DEFINE k == 7 - (p \div ByteBits)
             j == p % ByteBits
  <2>4. k \in 1 .. 7 /\ 7 - k = p \div ByteBits /\ j \in 0 .. ByteBits - 1
    BY <2>3
  <2>5. (7 - k) * ByteBits + j = p /\ j + (7 - k) * ByteBits = p
    BY <1>5, <2>3, <2>4
  <2> HIDE DEF k, j
  <2>6. j \in Digit(r.mantissa, k)
    BY <2>4, <2>5 DEF Digit
  <2>7. p \in Shift(BitsOf(f[at + 1 + k]), (7 - k) * ByteBits)
    BY <1>4, <2>4, <2>5, <2>6 DEF Shift
  <2>8. QED
    BY <2>4, <2>7
<1>7. ASSUME NEW p \in whole8 PROVE p \in r.mantissa
  <2>1. PICK k \in 1 .. 7 : p \in Shift(BitsOf(f[at + 1 + k]), (7 - k) * ByteBits)
    OBVIOUS
  <2>2. PICK j \in Digit(r.mantissa, k) : p = j + (7 - k) * ByteBits
    BY <1>4, <2>1 DEF Shift
  <2>3. j \in Nat /\ (7 - k) * ByteBits + j \in r.mantissa /\ (7 - k) * ByteBits \in Int
    BY <1>5, <2>2 DEF Digit
  <2>4. QED
    BY <2>2, <2>3
<1>8. whole8 = r.mantissa
  BY <1>6, <1>7
<1>9. RealOfBytes(f, at + 1) =
        [neg |-> f[at + 1] >= Base \div 2, biased |-> f[at + 1] % (Base \div 2),
         mantissa |-> whole8]
  BY DEF RealOfBytes
<1> HIDE DEF whole8
<1>10. (f[at + 1] >= Base \div 2) = r.neg
  BY <1>1, <1>3
<1>11. QED
  BY <1>1, <1>3, <1>8, <1>9, <1>10

\* What has been encoded is decoded to the same double, or to zero out of range.
LEMMA EncodedReads ==
  ASSUME RealInv, coding = "done"
  PROVE  real8 \in Real8 /\ Decode(real8) = Kept(value)
<1>1. real8 \in Real8 /\ value \in Double /\ EncodingExact
  BY DEF RealInv
<1>2. value.bits \in SUBSET Int /\ FitsDouble(value.bits)
      /\ value = [neg |-> value.neg, bits |-> value.bits]
  BY <1>1 DEF Double
<1>3. Decode(Zero8) = Zero
  BY ZerosAreNumbers DEF Decode, Zero8
<1>4. CASE value.bits = {}
  <2>1. Kept(value) = Zero
    BY <1>4 DEF Kept, InRange
  <2>2. QED
    BY <1>1, <1>3, <1>4, <2>1 DEF RealInv
<1>5. CASE /\ value.bits # {} /\ real8.neg = value.neg /\ Weights(real8) = value.bits
           /\ \E p \in real8.mantissa : p >= Q - 4
  <2> DEFINE k == 4 * (real8.biased - Bias) - Q
  <2>1. /\ real8.mantissa \in SUBSET (0 .. Q - 1) /\ real8.biased \in 0 .. 2 * Bias - 1
        /\ Weights(real8) = {p + k : p \in real8.mantissa}
    BY <1>1 DEF Real8, Weights, Shift
  <2>2. InRange(value)
    <3>1. ASSUME NEW p \in real8.mantissa PROVE p + k < 4 * (Bias - 1)
      BY <2>1, WidthsAssumption
    <3>2. PICK p \in real8.mantissa : p >= Q - 4
      BY <1>5
    <3>3. p + k >= -4 * (Bias + 1)
      BY <2>1, <3>2, WidthsAssumption
    <3>4. p + k \in value.bits
      BY <1>5, <2>1
    <3>5. \A q \in value.bits : q < 4 * (Bias - 1)
      BY <1>5, <2>1, <3>1
    <3>6. QED
      BY <3>3, <3>4, <3>5 DEF InRange
  <2>3. real8.mantissa # {}
    BY <1>5
  <2>4. ToDouble[Weights(real8)] = value.bits
    BY <1>2, <1>5 DEF ToDouble
  <2>5. Decode(real8) = [neg |-> value.neg, bits |-> value.bits]
    BY <1>1, <1>5, <2>3, <2>4 DEF Decode
  <2>6. QED
    BY <1>1, <1>2, <2>2, <2>5 DEF Kept
<1>6. CASE /\ value.bits # {} /\ real8 = Zero8
           /\ \/ \E p \in value.bits : p >= 4 * (Bias - 1)
              \/ \A p \in value.bits : p < -4 * (Bias + 1)
  <2>1. ~ InRange(value)
    <3>1. \A p \in value.bits : p \in Int
      BY <1>2
    <3>2. 4 * (Bias - 1) \in Int /\ -4 * (Bias + 1) \in Int
      BY WidthsAssumption
    <3>3. QED
      BY <1>6, <3>1, <3>2 DEF InRange
  <2>2. QED
    BY <1>1, <1>3, <1>6, <2>1 DEF Kept
<1>7. QED
  BY <1>1, <1>4, <1>5, <1>6 DEF EncodingExact

----------------------------------------------------------------------------
(* Names *)

LEMMA LeastMember ==
  ASSUME NEW T \in SUBSET Nat, T # {}
  PROVE  Min(T) \in T /\ \A n \in T : Min(T) <= n
BY LeastNat DEF Min

\* A name without a NUL is read to its end.
LEMMA NulFreeText == ASSUME NEW b, NulFree(b) PROVE Text(b) = b
<1>1. {k \in DOMAIN b : b[k] = 0} = {}
  BY DEF NulFree
<1>2. QED
  BY <1>1 DEF Text

\* The padding is a NUL, and does not outlive the reader.
LEMMA NameReads == ASSUME NEW d \in Seq(Byte) PROVE Text(Padded(d)) = Text(d)
<1> DEFINE n      == Len(d)
           e      == Append(d, 0)
           nul(s) == {k \in DOMAIN s : s[k] = 0}
<1>1. n \in Nat /\ DOMAIN d = 1 .. n /\ 0 \in Byte
  BY LenProperties, Bases
<1>2. /\ e \in Seq(Byte) /\ Len(e) = n + 1 /\ DOMAIN e = 1 .. n + 1
      /\ \A k \in 1 .. n : e[k] = d[k]
      /\ e[n + 1] = 0
  BY <1>1, AppendProperties, LenProperties
<1> HIDE DEF e, n
<1>3. \A s : Text(s) = IF nul(s) = {} THEN s ELSE SubSeq(s, 1, Min(nul(s)) - 1)
  BY DEF Text
<1>4. nul(e) = nul(d) \cup {n + 1}
  BY <1>1, <1>2
<1>5. nul(d) \in SUBSET (1 .. n)
  BY <1>1
<1> DEFINE m == Min(nul(e))
<1>6. m \in nul(e) /\ \A k \in nul(e) : m <= k
  <2>1. nul(e) \in SUBSET Nat /\ nul(e) # {}
    BY <1>1, <1>4, <1>5
  <2>2. QED
    BY <2>1, LeastMember
<1>7. m - 1 \in 0 .. n
  BY <1>1, <1>4, <1>5, <1>6
<1>8. Text(e) = SubSeq(e, 1, m - 1)
  BY <1>3, <1>6
<1>9. SubSeq(e, 1, m - 1) = SubSeq(d, 1, m - 1)
  <2> HIDE DEF m
  <2> DEFINE l == m - 1
  <2>1. l \in 0 .. n /\ l \in Int
    BY <1>7
  <2> HIDE DEF l
  <2>2. \A k \in 1 .. l : k \in 1 .. n
    BY <1>1, <2>1
  <2>3. \A k \in 1 .. l : d[k] \in Byte /\ e[k] = d[k]
    BY <1>2, <2>2, ElementOfSeq DEF n
  <2>4. SubSeq(e, 1, l) \in Seq(Byte) /\ SubSeq(d, 1, l) \in Seq(Byte)
    BY <2>1, <2>3, SubSeqProperties
  <2>5. Len(SubSeq(e, 1, l)) = l /\ Len(SubSeq(d, 1, l)) = l
    BY <1>1, <2>1, <2>3, SubSeqProperties
  <2>6. \A k \in 1 .. l : SubSeq(e, 1, l)[k] = e[k] /\ SubSeq(d, 1, l)[k] = d[k]
    BY <2>1
  <2>7. \A k \in 1 .. l : SubSeq(e, 1, l)[k] = SubSeq(d, 1, l)[k]
    BY <2>3, <2>6
  <2>8. QED
    BY <2>4, <2>5, <2>7, SeqEqual DEF l
<1>10. CASE nul(d) = {}
  <2>1. m = n + 1
    BY <1>4, <1>6, <1>10
  <2>2. SubSeq(d, 1, n) = d
    BY SubSeqFull DEF n
  <2>3. m - 1 = n
    BY <1>1, <2>1
  <2> HIDE DEF m
  <2>4. SubSeq(d, 1, m - 1) = d
    BY <2>2, <2>3
  <2>5. Text(e) = d
    BY <1>8, <1>9, <2>4
  <2>6. Text(d) = d
    BY <1>3, <1>10
  <2>7. QED
    BY <2>5, <2>6 DEF Padded, e
<1>11. CASE nul(d) # {}
  <2>1. nul(d) \in SUBSET Nat
    BY <1>1, <1>5
  <2>2. Min(nul(d)) \in nul(d) /\ \A k \in nul(d) : Min(nul(d)) <= k
    BY <1>11, <2>1, LeastMember
  <2>3. m = Min(nul(d))
    <3> HIDE DEF m, nul
    <3>1. m <= Min(nul(d)) /\ m \in nul(d) /\ m \in Int /\ Min(nul(d)) \in 1 .. n
      <4>1. Min(nul(d)) \in 1 .. n /\ m <= Min(nul(d)) /\ m \in 1 .. n + 1
        BY <1>1, <1>4, <1>5, <1>6, <2>2
      <4>2. m # n + 1
        BY <1>1, <4>1
      <4>3. QED
        BY <1>4, <1>6, <4>1, <4>2
    <3>2. Min(nul(d)) <= m
      BY <2>2, <3>1
    <3>3. QED
      BY <3>1, <3>2
  <2>4. Text(e) = Text(d)
    BY <1>3, <1>8, <1>9, <1>11, <2>3
  <2>5. QED
    BY <2>4 DEF Padded, e
<1>12. QED
  BY <1>10, <1>11

----------------------------------------------------------------------------
(* Payloads *)

\* A real is told by its own eight bytes.
LEMMA SameReal ==
  ASSUME NEW f, NEW g, NEW i \in Nat, NEW k \in Nat, \A j \in 1 .. 8 : f[i + j] = g[k + j]
  PROVE  RealOfBytes(f, i + 1) = RealOfBytes(g, k + 1)
<1>1. f[i + 1] = g[k + 1]
  OBVIOUS
<1>2. \A j \in 1 .. 7 : f[i + 1 + j] = g[k + 1 + j]
  <2>1. SUFFICES ASSUME NEW j \in 1 .. 7 PROVE f[i + 1 + j] = g[k + 1 + j]
    OBVIOUS
  <2>2. j + 1 \in 1 .. 8 /\ i + 1 + j = i + (j + 1) /\ k + 1 + j = k + (j + 1)
    OBVIOUS
  <2>3. QED
    BY <2>2
<1>3. UNION {Shift(BitsOf(f[i + 1 + j]), (7 - j) * ByteBits) : j \in 1 .. 7}
        = UNION {Shift(BitsOf(g[k + 1 + j]), (7 - j) * ByteBits) : j \in 1 .. 7}
  BY <1>2
<1>4. QED
  BY <1>1, <1>3 DEF RealOfBytes

LEMMA RecordData ==
  ASSUME NEW r \in Record
  PROVE  r.data \in Seq(Datum(DataType(r.rt))) /\ Len(r.data) \in Nat
         /\ DOMAIN r.data = 1 .. Len(r.data)
<1>1. r.data \in Seq(Datum(DataType(r.rt)))
  BY Records
<1>2. QED
  BY <1>1, LenProperties

LEMMA NamePayload ==
  ASSUME NEW r \in Record, r.rt \in {LIBNAME, STRNAME}
  PROVE  Parse(r.rt, Payload(r)) = ReadsAs(r).data
<1>1. DataType(r.rt) = Ascii /\ r.rt \in Parsed /\ r.data \in Seq(Byte)
  BY RecordData, Types DEF Parsed
<1>2. Payload(r) = Padded(r.data)
  BY <1>1 DEF Payload, Ascii, Short, Long
<1>3. Parse(r.rt, Payload(r)) = Text(Padded(r.data))
  BY <1>1, <1>2 DEF Parse
<1>4. ReadsAs(r).data = Text(r.data)
  BY <1>1, NulFreeText DEF ReadsAs, Ascii, Real
<1>5. QED
  BY <1>1, <1>3, <1>4, NameReads

LEMMA ShortPayload ==
  ASSUME NEW r \in Record, r.rt \in {LAYER, DATATYPE}
  PROVE  Parse(r.rt, Payload(r)) = ReadsAs(r).data
<1> DEFINE d == r.data
           n == Len(d)
           b == Payload(r)
           m == Base * Base
<1>1. /\ DataType(r.rt) = Short /\ r.rt \in Parsed /\ d \in Seq(Int2) /\ n \in Nat
      /\ DOMAIN d = 1 .. n /\ Width(Short) = 2
  BY RecordData, Types DEF Parsed, Width, Short, Real, Long
<1>2. b = [k \in 1 .. 2 * n |-> Bytes2(d[(k + 1) \div 2])[1 + ((k - 1) % 2)]]
  BY <1>1 DEF Payload, Ascii, Short, Long, Real
<1>3. Len(b) = 2 * n
  <2>1. 2 * n \in Nat
    BY <1>1
  <2>2. QED
    BY <1>2, <2>1
<1>4. Parse(r.rt, b) = [k \in 1 .. Len(b) \div 2 |-> AsSigned(Unsigned2(b, (k - 1) * 2 + 1), m)]
  BY <1>1 DEF Parse, Ascii, Short
<1>5. Len(b) \div 2 = n
  <2>1. \A i \in Nat : (2 * i) \div 2 = i
    OBVIOUS
  <2>2. QED
    BY <1>1, <1>3, <2>1
<1>6. ASSUME NEW k \in 1 .. n
      PROVE  AsSigned(Unsigned2(b, (k - 1) * 2 + 1), m) = d[k]
  <2>1. d[k] \in Int2
    BY <1>1, ElementOfSeq
  <2> DEFINE i == (k - 1) * 2 + 1
  <2>2. /\ i \in 1 .. 2 * n /\ i + 1 \in 1 .. 2 * n
        /\ (i + 1) \div 2 = k /\ (i + 1 + 1) \div 2 = k
        /\ 1 + ((i - 1) % 2) = 1 /\ 1 + ((i + 1 - 1) % 2) = 2
    BY <1>1
  <2> HIDE DEF i
  <2>3. b[i] = Bytes2(d[k])[1] /\ b[i + 1] = Bytes2(d[k])[2]
    BY <1>2, <2>2, SMTT(30)
  <2>4. d[k] \in Int /\ AsSigned(d[k] % m, m) = d[k]
    <3>1. m \in Nat \ {0} /\ m = 2 * (m \div 2) /\ d[k] \in Signed(m)
      BY <2>1, Bases DEF Int2
    <3> HIDE DEF m, d
    <3>2. QED
      BY <3>1, SignedReads
  <2>5. Bytes2(d[k])[1] * Base + Bytes2(d[k])[2] = d[k] % m
    BY <2>4, TwoBytesRead
  <2>6. Unsigned2(b, i) = d[k] % m
    BY <2>3, <2>5 DEF Unsigned2
  <2>7. QED
    BY <2>4, <2>6 DEF i
<1>7. d = [k \in 1 .. n |-> d[k]]
  BY <1>1, LenProperties
<1>8. Parse(r.rt, b) = d
  BY <1>4, <1>5, <1>6, <1>7
<1>9. ReadsAs(r).data = d
  BY <1>1 DEF ReadsAs, Ascii, Real, Short
<1>10. QED
  BY <1>8, <1>9

LEMMA LongPayload ==
  ASSUME NEW r \in Record, r.rt = XY
  PROVE  Parse(r.rt, Payload(r)) = ReadsAs(r).data
<1> DEFINE d == r.data
           n == Len(d)
           b == Payload(r)
           m == Base * Base * Base * Base
<1>1. /\ DataType(r.rt) = Long /\ r.rt \in Parsed /\ d \in Seq(Int4) /\ n \in Nat
      /\ DOMAIN d = 1 .. n /\ Width(Long) = 4
  BY RecordData, Types DEF Parsed, Width, Short, Real, Long
<1>2. b = [k \in 1 .. 4 * n |-> Bytes4(d[(k + 3) \div 4])[1 + ((k - 1) % 4)]]
  BY <1>1 DEF Payload, Ascii, Short, Long, Real
<1>3. Len(b) = 4 * n
  <2>1. 4 * n \in Nat
    BY <1>1
  <2>2. QED
    BY <1>2, <2>1
<1>4. Parse(r.rt, b) = [k \in 1 .. Len(b) \div 4 |-> AsSigned(Unsigned4(b, (k - 1) * 4 + 1), m)]
  BY <1>1 DEF Parse, Ascii, Long
<1>5. Len(b) \div 4 = n
  <2>1. \A i \in Nat : (4 * i) \div 4 = i
    OBVIOUS
  <2>2. QED
    BY <1>1, <1>3, <2>1
<1>6. ASSUME NEW k \in 1 .. n
      PROVE  AsSigned(Unsigned4(b, (k - 1) * 4 + 1), m) = d[k]
  <2>1. d[k] \in Int4
    BY <1>1, ElementOfSeq
  <2> DEFINE i == (k - 1) * 4 + 1
  <2>2. /\ \A j \in 0 .. 3 : i + j \in 1 .. 4 * n /\ (i + j + 3) \div 4 = k
        /\ \A j \in 0 .. 3 : 1 + (((i + j) - 1) % 4) = j + 1
        /\ i + 2 + 1 = i + 3 /\ i = i + 0
    BY <1>1
  <2> HIDE DEF i
  <2>3. \A j \in 0 .. 3 : b[i + j] = Bytes4(d[k])[j + 1]
    <3>1. SUFFICES ASSUME NEW j \in 0 .. 3 PROVE b[i + j] = Bytes4(d[k])[j + 1]
      OBVIOUS
    <3> DEFINE c == i + j
    <3>2. c \in 1 .. 4 * n /\ (c + 3) \div 4 = k /\ 1 + ((c - 1) % 4) = j + 1
      BY <2>2
    <3> HIDE DEF c
    <3>3. b[c] = Bytes4(d[(c + 3) \div 4])[1 + ((c - 1) % 4)]
      BY <1>2, <3>2
    <3>4. QED
      BY <3>2, <3>3 DEF c
  <2>4. d[k] \in Int /\ AsSigned(d[k] % m, m) = d[k]
    <3>1. m \in Nat \ {0} /\ m = 2 * (m \div 2) /\ d[k] \in Signed(m)
      BY <2>1, Bases DEF Int4
    <3> HIDE DEF m, d
    <3>2. QED
      BY <3>1, SignedReads
  <2> DEFINE q == Bytes4(d[k])
  <2>5. (q[1] * Base + q[2]) * Base * Base + (q[3] * Base + q[4]) = d[k] % m
    BY <2>4, FourBytesRead
  <2>6. b[i] = q[1] /\ b[i + 1] = q[2] /\ b[i + 2] = q[3] /\ b[i + 2 + 1] = q[4]
    BY <2>2, <2>3
  <2> HIDE DEF q, b, m
  <2>7. Unsigned4(b, i) = (q[1] * Base + q[2]) * Base * Base + (q[3] * Base + q[4])
    BY <2>6 DEF Unsigned4, Unsigned2
  <2>8. QED
    BY <2>4, <2>5, <2>7 DEF i
<1>7. d = [k \in 1 .. n |-> d[k]]
  BY <1>1, LenProperties
<1>8. Parse(r.rt, b) = d
  BY <1>4, <1>5, <1>6, <1>7
<1>9. ReadsAs(r).data = d
  BY <1>1 DEF ReadsAs, Ascii, Real, Long
<1>10. QED
  BY <1>8, <1>9

LEMMA RealPayload ==
  ASSUME NEW r \in Record, r.rt = UNITS, NEW b, Len(b) = 8 * Len(r.data),
         \A k \in 1 .. Len(r.data) : Decode(RealOfBytes(b, (k - 1) * 8 + 1)) = Kept(r.data[k])
  PROVE  Parse(r.rt, b) = ReadsAs(r).data
<1> DEFINE n == Len(r.data)
<1>1. /\ DataType(r.rt) = Real /\ r.rt \in Parsed /\ n \in Nat /\ DOMAIN r.data = 1 .. n
      /\ Width(Real) = 8 /\ Real # Ascii
  BY RecordData, Types DEF Parsed, Width, Real, Ascii, Long
<1>2. Len(b) \div 8 = n
  <2>1. \A i \in Nat : (8 * i) \div 8 = i
    OBVIOUS
  <2>2. QED
    BY <1>1, <2>1
<1>3. Parse(r.rt, b) = [k \in 1 .. Len(b) \div 8 |-> Decode(RealOfBytes(b, (k - 1) * 8 + 1))]
  BY <1>1 DEF Parse
<1>4. ReadsAs(r).data = [k \in 1 .. n |-> Kept(r.data[k])]
  BY <1>1 DEF ReadsAs, Ascii, Real
<1>5. QED
  BY <1>2, <1>3, <1>4

----------------------------------------------------------------------------
(* What stands in the stream *)

\* As much of r as lies within the first n bytes of f, after a header at m.
StandsAt(f, n, m, r) ==
  /\ \A j \in 1 .. Len(Payload(r)) : m + 4 + j <= n => f[m + 4 + j] = Payload(r)[j]
  /\ DataType(r.rt) = Real =>
       \A i \in 1 .. Len(r.data) : m + 4 + 8 * i <= n =>
         Decode(RealOfBytes(f, m + 4 + 8 * (i - 1) + 1)) = Kept(r.data[i])

StandInv == \A k \in 1 .. Len(written) : StandsAt(file, Len(file), marks[k], written[k])

\* Doubles that are still to be written are the last of the record's.
PendingInv ==
  doubles # <<>> =>
    LET r == written[Len(written)] IN
    /\ written # <<>> /\ DataType(r.rt) = Real /\ Len(doubles) <= Len(r.data)
    /\ \A i \in 1 .. Len(doubles) : doubles[i] = r.data[Len(r.data) - Len(doubles) + i]
    /\ coding # "idle" => value = doubles[1]

GotInv ==
  phase = "read" /\ written # <<>> /\ LengthsFit =>
    \A k \in 1 .. Len(got) : got[k] = ReadsAs(written[k])

\* A record stays as it stands where it was written whole, and what is left of it
\* where the stream is cut.
LEMMA StandsStill ==
  ASSUME NEW r \in Record, NEW m \in Nat, NEW f, NEW g, NEW n \in Nat, NEW l \in Nat,
         StandsAt(f, n, m, r), \A i \in 1 .. n : i <= l => g[i] = f[i],
         l <= n \/ m + 4 + PayloadLength(r) <= n
  PROVE  StandsAt(g, l, m, r)
<1>1. /\ Len(Payload(r)) \in Nat /\ Len(r.data) \in Nat /\ PayloadLength(r) \in Nat
      /\ DataType(r.rt) # Real => PayloadLength(r) = Len(Payload(r))
      /\ DataType(r.rt) = Real => Len(Payload(r)) = 0 /\ PayloadLength(r) = 8 * Len(r.data)
  <2>1. Payload(r) \in Seq(Byte)
    BY PayloadBytes
  <2>2. Len(Payload(r)) \in Nat
    BY <2>1, LenProperties
  <2>3. QED
    BY <2>2, PayloadBytes, RecordData
<1>2. ASSUME NEW j \in 1 .. Len(Payload(r)), m + 4 + j <= l
      PROVE  g[m + 4 + j] = Payload(r)[j]
  <2>1. m + 4 + j \in 1 .. n
    BY <1>1, <1>2
  <2>2. f[m + 4 + j] = Payload(r)[j]
    BY <2>1 DEF StandsAt
  <2>3. QED
    BY <1>2, <2>1, <2>2
<1>3. ASSUME DataType(r.rt) = Real, NEW i \in 1 .. Len(r.data), m + 4 + 8 * i <= l
      PROVE  Decode(RealOfBytes(g, m + 4 + 8 * (i - 1) + 1)) = Kept(r.data[i])
  <2> DEFINE at == m + 4 + 8 * (i - 1)
  <2>1. at \in Nat /\ at + 8 = m + 4 + 8 * i /\ at + 8 <= n
    BY <1>1, <1>3
  <2>2. Decode(RealOfBytes(f, at + 1)) = Kept(r.data[i])
    BY <1>3, <2>1 DEF StandsAt
  <2>3. at + 8 <= l
    BY <1>3, <2>1
  <2> HIDE DEF at
  <2>4. \A j \in 1 .. 8 : at + j \in 1 .. n /\ at + j <= l
    BY <2>1, <2>3
  <2>5. \A j \in 1 .. 8 : g[at + j] = f[at + j]
    BY <2>4
  <2>6. RealOfBytes(g, at + 1) = RealOfBytes(f, at + 1)
    BY <2>1, <2>5, SameReal
  <2>7. QED
    BY <2>2, <2>6 DEF at
<1>4. QED
  BY <1>2, <1>3 DEF StandsAt

\* The marks of the records that were written.
LEMMA MarksRise ==
  ASSUME BytesInv, FrameInv, NEW k \in 1 .. Len(written)
  PROVE  /\ written[k] \in Record /\ marks[k] \in Nat /\ Len(written) \in Nat
         /\ marks[k + 1] = marks[k] + 4 + PayloadLength(written[k])
         /\ marks[k] + 4 + PayloadLength(written[k]) <= marks[Len(marks)]
         /\ k # Len(written) =>
              marks[k] + 4 + PayloadLength(written[k]) <= marks[Len(written)]
<1> DEFINE n == Len(written)
<1>1. /\ written \in Seq(Record) /\ marks \in Seq(Nat) /\ Len(marks) = n + 1
      /\ \A i \in 1 .. n : marks[i + 1] = marks[i] + 4 + PayloadLength(written[i])
      /\ \A i, j \in 1 .. n + 1 : i < j => marks[i] + 4 <= marks[j]
  BY DEF BytesInv, FrameInv, MarksInv
<1>2. n \in Nat /\ written[k] \in Record
  BY <1>1, LenProperties, ElementOfSeq
<1> HIDE DEF n
<1>3. \A i \in 1 .. n + 1 : marks[i] \in Nat
  BY <1>1, ElementOfSeq
<1>4. k \in 1 .. n /\ k \in 1 .. n + 1 /\ k + 1 \in 1 .. n + 1
  BY <1>2 DEF n
<1>5. marks[k + 1] = marks[k] + 4 + PayloadLength(written[k])
  BY <1>1, <1>4
<1>6. ASSUME NEW j \in 1 .. n + 1, k + 1 <= j PROVE marks[k + 1] <= marks[j]
  <2>1. k + 1 = j \/ k + 1 < j
    BY <1>4, <1>6
  <2>2. marks[k + 1] \in Nat /\ marks[j] \in Nat
    BY <1>3, <1>4
  <2>3. k + 1 < j => marks[k + 1] + 4 <= marks[j]
    BY <1>1, <1>4
  <2>4. k + 1 = j => marks[k + 1] <= marks[j]
    BY <2>2
  <2>5. k + 1 < j => marks[k + 1] <= marks[j]
    BY <2>2, <2>3
  <2>6. QED
    BY <2>1, <2>4, <2>5
<1>7. marks[k + 1] <= marks[n + 1]
  <2>1. n + 1 \in 1 .. n + 1 /\ k + 1 <= n + 1
    BY <1>2, <1>4
  <2>2. QED
    BY <1>6, <2>1
<1>8. k # n => marks[k + 1] <= marks[n]
  <2>1. k # n => n \in 1 .. n + 1 /\ k + 1 <= n
    BY <1>2, <1>4
  <2>2. QED
    BY <1>6, <2>1
<1>9. QED
  BY <1>1, <1>2, <1>3, <1>4, <1>5, <1>7, <1>8 DEF n

LEMMA RecordStands ==
  ASSUME BytesInv, FrameInv, StandInv, WriteRecord PROVE StandInv' /\ PendingInv'
<1> DEFINE r == todo[1]
           n == Len(written)
           m == Len(file)
<1>1. /\ r \in Record /\ n \in Nat /\ m \in Nat
      /\ Len(written') = n + 1 /\ written'[n + 1] = r
      /\ \A k \in 1 .. n : written'[k] = written[k]
      /\ marks'[n + 1] = m /\ marks[n + 1] = m /\ Len(marks) = n + 1
      /\ \A k \in 1 .. n : marks'[k] = marks[k]
      /\ Len(file') + 8 * Len(doubles') = m + 4 + PayloadLength(r)
      /\ \A k \in 1 .. m : file'[k] = file[k]
      /\ \A j \in 1 .. Len(Payload(r)) : file'[m + 4 + j] = Payload(r)[j]
  <2>1. Len(marks) = n + 1
    BY DEF FrameInv, MarksInv
  <2>2. n \in Nat => n + 1 \in 1 .. n + 1 /\ \A k \in 1 .. n : k \in 1 .. n + 1
    OBVIOUS
  <2>3. QED
    BY <2>1, <2>2, RecordWritten
<1>2. /\ coding' = "idle" /\ r = Head(todo)
      /\ doubles' = IF DataType(r.rt) = Real THEN r.data ELSE <<>>
  <2>1. todo \in Seq(Record) /\ todo # <<>> /\ coding = "idle"
    BY DEF BytesInv, WriteRecord, Writing
  <2>2. Head(todo) = r
    BY <2>1, HeadAndTail
  <2>3. QED
    BY <2>1, <2>2 DEF WriteRecord, realVars
<1>3. Len(file') \in Nat
  <2>1. BytesInv'
    BY BytesStep DEF ByteNext, WritesOn, ReadsOn
  <2>2. QED
    BY <2>1, LenProperties DEF BytesInv
<1>4. Len(r.data) \in Nat
  BY <1>1, RecordData
<1> HIDE DEF r, n, m
<1>5. ASSUME NEW k \in 1 .. n PROVE StandsAt(file', Len(file'), marks[k], written[k])
  <2>1. /\ written[k] \in Record /\ marks[k] \in Nat
        /\ marks[k] + 4 + PayloadLength(written[k]) <= m
    BY <1>1, MarksRise DEF n
  <2>2. StandsAt(file, m, marks[k], written[k])
    BY DEF StandInv, n, m
  <2>3. /\ \A i \in 1 .. m : i <= Len(file') => file'[i] = file[i]
        /\ Len(file') <= m \/ marks[k] + 4 + PayloadLength(written[k]) <= m
    BY <1>1, <2>1
  <2>4. m \in Nat
    BY <1>1
  <2> DEFINE g == file'
             l == Len(file')
  <2> HIDE DEF g, l
  <2>5. l \in Nat /\ \A i \in 1 .. m : i <= l => g[i] = file[i]
    BY <1>3, <2>3 DEF g, l
  <2>6. StandsAt(g, l, marks[k], written[k])
    BY <2>1, <2>2, <2>4, <2>5, StandsStill
  <2>7. QED
    BY <2>6 DEF g, l
<1>6. StandsAt(file', Len(file'), m, r)
  <2>1. ASSUME DataType(r.rt) = Real, NEW i \in 1 .. Len(r.data)
        PROVE  ~ (m + 4 + 8 * i <= Len(file'))
    <3>1. PayloadLength(r) = 8 * Len(r.data) /\ doubles' = r.data
      BY <1>1, <1>2, <2>1, PayloadBytes
    <3>2. Len(file') + 8 * Len(r.data) = m + 4 + 8 * Len(r.data)
      BY <1>1, <3>1
    <3>3. Len(file') = m + 4
      <4> DEFINE x == Len(file')
                 y == Len(r.data)
      <4>1. x \in Nat /\ m \in Nat /\ y \in Nat /\ x + 8 * y = m + 4 + 8 * y
        BY <1>1, <1>3, <1>4, <3>2
      <4> HIDE DEF x, y, m
      <4>2. x = m + 4
        BY ONLY <4>1
      <4>3. QED
        BY <4>2 DEF x
    <3>4. i > 0 /\ i \in Int /\ m \in Nat
      BY <1>1, <1>4
    <3>5. QED
      BY <3>3, <3>4
  <2>2. QED
    BY <1>1, <2>1 DEF StandsAt
<1>7. StandInv'
  <2>1. SUFFICES ASSUME NEW k \in 1 .. n + 1
                 PROVE  StandsAt(file', Len(file'), marks'[k], written'[k])
    BY <1>1 DEF StandInv
  <2>2. CASE k = n + 1
    BY <1>1, <1>6, <2>2
  <2>3. CASE k \in 1 .. n
    BY <1>1, <1>5, <2>3
  <2>4. QED
    BY <1>1, <2>2, <2>3
<1>8. PendingInv'
  <2>1. SUFFICES ASSUME doubles' # <<>> PROVE PendingInv'
    BY DEF PendingInv
  <2>2. DataType(r.rt) = Real /\ doubles' = r.data
    BY <1>2, <2>1
  <2>3. written'[Len(written')] = r /\ written' # <<>>
    BY <1>1
  <2>4. \A i \in 1 .. Len(r.data) : r.data[i] = r.data[Len(r.data) - Len(r.data) + i]
    BY <1>4
  <2>5. QED
    BY <1>2, <1>4, <2>2, <2>3, <2>4 DEF PendingInv
<1>9. QED
  BY <1>7, <1>8

LEMMA DoubleStands ==
  ASSUME BytesInv, FrameInv, StandInv, PendingInv, WriteDouble PROVE StandInv' /\ PendingInv'
<1> DEFINE b == BytesOfReal(real8)
           m == Len(file)
           n == Len(written)
           r == written[n]
           d == Len(doubles)
           z == Len(r.data)
<1>1. /\ phase = "write" /\ doubles \in Seq(Double) /\ doubles # <<>> /\ file \in Seq(Byte)
      /\ UNCHANGED <<written, marks>> /\ written \in Seq(Record)
      /\ file' = file \o b /\ doubles' = Tail(doubles) /\ coding' = "idle" /\ coding = "done"
  BY DEF BytesInv, WriteDouble
<1>2. /\ written # <<>> /\ DataType(r.rt) = Real /\ d <= z
      /\ \A i \in 1 .. d : doubles[i] = r.data[(z - d) + i]
      /\ value = doubles[1]
  BY <1>1 DEF PendingInv
<1>3. real8 \in Real8 /\ Decode(real8) = Kept(value) /\ b \in Seq(Byte) /\ Len(b) = 8
  <2>1. real8 \in Real8 /\ Decode(real8) = Kept(value)
    BY <1>1, EncodedReads DEF BytesInv
  <2>2. QED
    BY <2>1, RealBytes
<1>4. n \in 1 .. n /\ r \in Record /\ marks[n] \in Nat /\ Len(marks) = n + 1
      /\ marks[n + 1] = marks[n] + 4 + PayloadLength(r)
  <2>1. n \in Nat \ {0}
    BY <1>1, <1>2, EmptySeq
  <2>2. n \in 1 .. n
    BY <2>1
  <2>3. QED
    BY <2>2, MarksRise DEF FrameInv, MarksInv
<1>5. z \in Nat /\ PayloadLength(r) = 8 * z
  BY <1>2, <1>4, RecordData, PayloadBytes
<1>6. m + 8 * d = marks[n + 1]
  BY <1>1, <1>4 DEF FrameInv, PhaseInv
<1>7. d \in Nat \ {0} /\ Len(doubles') = d - 1
      /\ \A i \in 1 .. d - 1 : doubles'[i] = doubles[i + 1]
  BY <1>1, HeadAndTail
<1>8. /\ Len(file') = m + 8 /\ m \in Nat
      /\ \A k \in 1 .. m : file'[k] = file[k]
      /\ \A j \in 1 .. 8 : file'[m + j] = b[j]
  <2>1. file \in Seq(Byte) /\ b \in Seq(Byte)
    BY <1>1, <1>3
  <2> HIDE DEF b, m
  <2>2. /\ Len(file \o b) = Len(file) + Len(b) /\ Len(file) \in Nat
        /\ \A k \in 1 .. Len(file) : (file \o b)[k] = file[k]
        /\ \A k \in 1 .. Len(b) : (file \o b)[Len(file) + k] = b[k]
    BY ONLY <2>1, Concatenated
  <2>3. QED
    BY <1>1, <1>3, <2>2 DEF m
<1>9. RealOfBytes(file', m + 1) = real8
  BY <1>3, <1>8, RealReads
<1> HIDE DEF b, m, n, r, d, z
<1>10. m = marks[n] + 4 + 8 * (z - d)
  <2> DEFINE a == marks[n]
  <2>1. a \in Nat /\ m + 8 * d = a + 4 + 8 * z
    BY <1>4, <1>5, <1>6
  <2> HIDE DEF a
  <2>2. m \in Nat /\ d \in Nat /\ z \in Nat
    BY <1>5, <1>7, <1>8
  <2>3. m = a + 4 + 8 * (z - d)
    BY <2>1, <2>2
  <2>4. QED
    BY <2>3 DEF a
<1>11. ASSUME NEW k \in 1 .. n, k # n
       PROVE  StandsAt(file', Len(file'), marks[k], written[k])
  <2>1. /\ written[k] \in Record /\ marks[k] \in Nat
        /\ marks[k] + 4 + PayloadLength(written[k]) <= marks[n]
    BY <1>11, MarksRise DEF n
  <2>2. marks[k] + 4 + PayloadLength(written[k]) <= m
    <3>1. PayloadLength(written[k]) \in Nat
      BY <2>1, PayloadBytes
    <3>2. marks[n] <= m
      <4>1. z - d \in Nat
        BY <1>2, <1>5, <1>7
      <4>2. QED
        BY <1>4, <1>8, <1>10, <4>1, SMTT(30)
    <3>3. marks[n] \in Nat /\ m \in Nat /\ marks[k] \in Nat
      BY <1>4, <1>8, <2>1
    <3>4. marks[k] + 4 + PayloadLength(written[k]) \in Nat
      BY <3>1, <3>3
    <3>5. marks[k] + 4 + PayloadLength(written[k]) <= marks[n]
      BY <2>1
    <3>6. \A a, c, e \in Nat : a <= c /\ c <= e => a <= e
      OBVIOUS
    <3>7. QED
      BY ONLY <3>2, <3>3, <3>4, <3>5, <3>6
  <2>3. StandsAt(file, m, marks[k], written[k])
    BY DEF StandInv, n, m
  <2>4. m \in Nat /\ m + 8 \in Nat /\ \A i \in 1 .. m : file'[i] = file[i]
    BY <1>8
  <2> DEFINE g == file'
             l == m + 8
  <2> HIDE DEF g, l
  <2>5. m \in Nat /\ l \in Nat /\ \A i \in 1 .. m : i <= l => g[i] = file[i]
    BY <2>4 DEF g, l
  <2>6. StandsAt(g, l, marks[k], written[k])
    BY <2>1, <2>2, <2>3, <2>5, StandsStill
  <2>7. QED
    BY <1>8, <2>6 DEF g, l
<1>12. StandsAt(file', Len(file'), marks[n], r)
  <2>1. Len(Payload(r)) = 0
    BY <1>2, <1>4, PayloadBytes
  <2>2. ASSUME NEW i \in 1 .. z, marks[n] + 4 + 8 * i <= m + 8
        PROVE  Decode(RealOfBytes(file', marks[n] + 4 + 8 * (i - 1) + 1)) = Kept(r.data[i])
    <3> DEFINE at == marks[n] + 4 + 8 * (i - 1)
               s == z - d
    <3>1. s \in Nat /\ i \in Int /\ m = marks[n] + 4 + 8 * s
      BY <1>2, <1>5, <1>7, <1>10
    <3>2. i <= s + 1
      <4>1. \A a, c, e \in Int : a + 4 + 8 * c <= (a + 4 + 8 * e) + 8 => c <= e + 1
        OBVIOUS
      <4>2. marks[n] \in Int /\ i \in Int /\ s \in Int
        BY <1>4, <3>1
      <4>3. marks[n] + 4 + 8 * i <= (marks[n] + 4 + 8 * s) + 8
        BY <2>2, <3>1
      <4>4. QED
        BY ONLY <4>1, <4>2, <4>3
    <3>3. CASE i = s + 1
      <4>1. i - 1 = s
        BY <3>1, <3>3
      <4>2. at = m
        BY <3>1, <4>1
      <4>3. r.data[i] = value
        <5>1. 1 \in 1 .. d
          BY <1>7
        <5>2. doubles[1] = r.data[s + 1]
          BY <1>2, <5>1
        <5>3. QED
          BY <1>2, <3>3, <5>2
      <4>4. QED
        BY <1>3, <1>9, <4>2, <4>3
    <3>4. CASE i <= s
      <4>1. StandsAt(file, m, marks[n], r)
        BY <1>4 DEF StandInv, n, m, r
      <4>2. marks[n] + 4 + 8 * i <= m
        BY <1>4, <3>1, <3>4
      <4>3. Decode(RealOfBytes(file, at + 1)) = Kept(r.data[i])
        BY <1>2, <4>1, <4>2 DEF StandsAt, z
      <4>4. at \in Nat /\ at + 8 <= m
        BY <1>4, <3>1, <4>2
      <4> HIDE DEF at
      <4>5. \A j \in 1 .. 8 : at + j \in 1 .. m
        BY <1>8, <4>4
      <4>6. \A j \in 1 .. 8 : file'[at + j] = file[at + j]
        BY <1>8, <4>5
      <4>7. RealOfBytes(file', at + 1) = RealOfBytes(file, at + 1)
        BY <4>4, <4>6, SameReal
      <4>8. QED
        BY <4>3, <4>7 DEF at
    <3> HIDE DEF s
    <3>5. i = s + 1 \/ i <= s
      BY <3>1, <3>2
    <3>6. QED
      BY <3>3, <3>4, <3>5
  <2>3. QED
    BY <1>8, <2>1, <2>2 DEF StandsAt, z
<1>13. StandInv'
  <2>1. \A k \in 1 .. n : StandsAt(file', Len(file'), marks[k], written[k])
    BY <1>11, <1>12 DEF r
  <2>2. QED
    BY <1>1, <2>1 DEF StandInv, n
<1>14. PendingInv'
  <2>1. \A i \in 1 .. d - 1 : doubles'[i] = r.data[(z - (d - 1)) + i]
    <3>1. SUFFICES ASSUME NEW i \in 1 .. d - 1 PROVE doubles'[i] = r.data[(z - (d - 1)) + i]
      OBVIOUS
    <3>2. i + 1 \in 1 .. d /\ (z - d) + (i + 1) = (z - (d - 1)) + i
      BY <1>5, <1>7
    <3>3. QED
      BY <1>2, <1>7, <3>2
  <2>2. d - 1 <= z
    BY <1>2, <1>5, <1>7
  <2>3. UNCHANGED r /\ UNCHANGED z /\ UNCHANGED n
    BY <1>1 DEF r, z, n
  <2>4. QED
    BY <1>1, <1>2, <1>7, <2>1, <2>2 DEF PendingInv, r, z, n
<1>15. QED
  BY <1>13, <1>14

LEMMA OpenStands == ASSUME BytesInv, FrameInv, StandInv, Open PROVE StandInv' /\ PendingInv'
<1>1. file \in Seq(Byte) /\ UNCHANGED <<written, marks>> /\ doubles' = <<>>
  BY DEF BytesInv, Open, writerVars
<1>2. PICK n \in 0 .. Len(file) : file' = SubSeq(file, 1, n)
  BY DEF Open
<1>3. Len(file) \in Nat /\ n \in Nat /\ n <= Len(file)
  BY <1>1, <1>2, LenProperties
<1>4. Len(file') = n /\ \A k \in 1 .. n : file'[k] = file[k]
  <2>1. \A k \in 1 .. n : file[k] \in Byte
    BY <1>1, <1>3, ElementOfSeq
  <2>2. /\ Len(SubSeq(file, 1, n)) = IF 1 <= n THEN (n - 1) + 1 ELSE 0
        /\ \A k \in 1 .. (n - 1) + 1 : SubSeq(file, 1, n)[k] = file[1 + k - 1]
    BY <1>3, <2>1, SubSeqProperties
  <2>3. (n - 1) + 1 = n /\ \A k \in 1 .. n : 1 + k - 1 = k
    BY <1>3
  <2>4. QED
    BY <1>2, <1>3, <2>2, <2>3
<1>5. ASSUME NEW k \in 1 .. Len(written) PROVE StandsAt(file', n, marks[k], written[k])
  <2>1. written[k] \in Record /\ marks[k] \in Nat
    BY MarksRise
  <2>2. StandsAt(file, Len(file), marks[k], written[k])
    BY DEF StandInv
  <2> DEFINE g == file'
             l == Len(file)
  <2> HIDE DEF g, l
  <2>3. l \in Nat /\ n <= l /\ \A i \in 1 .. l : i <= n => g[i] = file[i]
    BY <1>3, <1>4 DEF g, l
  <2>4. StandsAt(g, n, marks[k], written[k])
    BY <1>3, <2>1, <2>2, <2>3, StandsStill DEF l
  <2>5. QED
    BY <2>4 DEF g
<1>6. QED
  BY <1>1, <1>4, <1>5 DEF StandInv, PendingInv

LEMMA StandStep ==
  ASSUME BytesInv, FrameInv, StandInv, PendingInv, [ByteNext]_byteVars
  PROVE  StandInv' /\ PendingInv'
<1>1. CASE WriteRecord
  BY <1>1, RecordStands
<1>2. CASE WriteDouble
  BY <1>2, DoubleStands
<1>3. CASE Open
  BY <1>3, OpenStands
<1>4. CASE Rewrite
  <2>1. written' = <<>> /\ doubles' = <<>>
    BY <1>4 DEF Rewrite
  <2>2. QED
    BY <2>1 DEF StandInv, PendingInv
<1>5. CASE BeginDouble
  <2>1. /\ UNCHANGED <<file, doubles, written, marks>> /\ doubles # <<>>
        /\ value' = Head(doubles) /\ doubles \in Seq(Double)
    BY <1>5 DEF BeginDouble, StartEncode, writerVars, BytesInv
  <2>2. value' = doubles[1]
    BY <2>1, HeadAndTail
  <2>3. QED
    BY <2>1, <2>2 DEF StandInv, PendingInv
<1>6. CASE EncodeDouble
  <2>1. UNCHANGED <<file, doubles, written, marks, value>> /\ coding # "idle"
    BY <1>6 DEF EncodeDouble, EncodeStep, ScaleDown, ScaleUp, Pack, Scaled, writerVars
  <2>2. QED
    BY <2>1 DEF StandInv, PendingInv
<1>7. CASE UNCHANGED <<file, doubles, written, marks, coding, value>>
  BY <1>7 DEF StandInv, PendingInv
<1>8. QED
  BY <1>1, <1>2, <1>3, <1>4, <1>5, <1>6, <1>7
     DEF ByteNext, WritesOn, ReadsOn, EndOfFile, BadRecordLength, NextRecord, byteVars, writerVars, realVars

----------------------------------------------------------------------------
(* What is read *)

\* The payload between two marks is read as what was written there.
LEMMA DataRead ==
  ASSUME BytesInv, FrameInv, StandInv, NEW k \in 1 .. Len(written),
         pos = marks[k], Len(file) \in Nat,
         Length = 4 + PayloadLength(written[k]), pos + Length <= Len(file)
  PROVE  Parse(written[k].rt, Data) = ReadsAs(written[k]).data
<1> DEFINE r == written[k]
           l == PayloadLength(r)
           p == Payload(r)
           b == Data
<1>1. r \in Record /\ pos \in Nat /\ l \in Nat /\ file \in Seq(Byte) /\ p \in Seq(Byte)
  BY MarksRise, PayloadBytes DEF BytesInv
<1>2. pos + 4 + l <= Len(file) /\ Length = 4 + l
  BY <1>1
<1> HIDE DEF r, l, p
<1>3. b \in Seq(Byte) /\ Len(b) = l /\ \A j \in 1 .. l : b[j] = file[pos + 4 + j]
  <2> DEFINE a == pos + 5
             z == pos + Length
  <2>1. a \in Int /\ z \in Int /\ (IF a <= z THEN (z - a) + 1 ELSE 0) = l /\ (z - a) + 1 = l
    <3>1. z = pos + (4 + l)
      BY <1>2, Zenon
    <3> HIDE DEF z
    <3>0. pos \in Nat /\ l \in Nat /\ a = pos + 5
      BY <1>1
    <3> HIDE DEF a
    <3>2. a \in Int /\ z \in Int /\ (z - a) + 1 = l
      BY ONLY <3>0, <3>1
    <3>3. a <= z \/ l = 0
      BY ONLY <3>0, <3>1
    <3>4. a <= z => l # 0
      BY ONLY <3>0, <3>1
    <3>5. QED
      BY <3>2, <3>3, <3>4
  <2>2. \A i \in a .. z : file[i] \in Byte
    <3>0. pos \in Nat /\ Len(file) \in Nat /\ a = pos + 5 /\ z \in Int /\ z <= Len(file)
      BY <1>1, <1>2, <2>1
    <3>1. \A i \in a .. z : i \in 1 .. Len(file)
      BY ONLY <3>0
    <3>2. QED
      BY <1>1, <3>1, ElementOfSeq
  <2>3. \A j \in 1 .. l : a + j - 1 = pos + 4 + j
    BY <1>1
  <2>4. b = SubSeq(file, a, z)
    BY DEF Data
  <2> HIDE DEF a, z, b
  <2>5. /\ b \in Seq(Byte) /\ Len(b) = IF a <= z THEN (z - a) + 1 ELSE 0
        /\ \A j \in 1 .. (z - a) + 1 : b[j] = file[a + j - 1]
    BY <2>1, <2>2, <2>4, SubSeqProperties
  <2>6. QED
    BY <2>1, <2>3, <2>5
<1>4. StandsAt(file, Len(file), pos, r)
  BY DEF StandInv, r
<1> HIDE DEF b
<1>5. DataType(r.rt) # Real => b = p
  <2>1. SUFFICES ASSUME DataType(r.rt) # Real PROVE b = p
    OBVIOUS
  <2>2. Len(p) = l
    BY <1>1, <2>1, PayloadBytes DEF l, p
  <2>3. \A j \in 1 .. l : p[j] = file[pos + 4 + j]
    <3>1. SUFFICES ASSUME NEW j \in 1 .. l PROVE p[j] = file[pos + 4 + j]
      OBVIOUS
    <3>2. pos + 4 + j <= Len(file)
      BY <1>1, <1>2, SMTT(20)
    <3>3. QED
      BY <1>4, <2>2, <3>2 DEF StandsAt, p
  <2>4. QED
    BY <1>1, <1>3, <2>2, <2>3, SeqEqual
<1>6. CASE r.rt \notin Parsed
  BY <1>6 DEF Parse, ReadsAs, r, b
<1>7. CASE r.rt \in {LIBNAME, STRNAME}
  <2>1. DataType(r.rt) # Real
    BY <1>7, Types DEF Ascii, Real
  <2>2. QED
    BY <1>1, <1>5, <1>7, <2>1, NamePayload DEF r, b, p
<1>8. CASE r.rt \in {LAYER, DATATYPE}
  <2>1. DataType(r.rt) # Real
    BY <1>8, Types DEF Short, Real
  <2>2. QED
    BY <1>1, <1>5, <1>8, <2>1, ShortPayload DEF r, b, p
<1>9. CASE r.rt = XY
  <2>1. DataType(r.rt) # Real
    BY <1>9, Types DEF Long, Real
  <2>2. QED
    BY <1>1, <1>5, <1>9, <2>1, LongPayload DEF r, b, p
<1>10. CASE r.rt = UNITS
  <2>1. DataType(r.rt) = Real
    BY <1>10, Types
  <2>2. l = 8 * Len(r.data) /\ Len(r.data) \in Nat
    BY <1>1, <2>1, PayloadBytes, RecordData DEF l
  <2>3. ASSUME NEW i \in 1 .. Len(r.data)
        PROVE  Decode(RealOfBytes(b, (i - 1) * 8 + 1)) = Kept(r.data[i])
    <3> DEFINE at == pos + 4 + 8 * (i - 1)
               c  == (i - 1) * 8
    <3>0. i \in Nat /\ i > 0 /\ i <= Len(r.data) /\ pos \in Nat /\ Len(r.data) \in Nat
      BY <1>1, <2>2
    <3>1. pos + 4 + 8 * i <= Len(file)
      <4>1. pos + 4 + 8 * Len(r.data) <= Len(file)
        BY <1>2, <2>2
      <4>2. \A x, y, e, f \in Nat : x + 4 + 8 * e <= f /\ y <= e => x + 4 + 8 * y <= f
        OBVIOUS
      <4>3. Len(file) \in Nat
        OBVIOUS
      <4>4. QED
        BY ONLY <3>0, <4>1, <4>2, <4>3
    <3>2. Decode(RealOfBytes(file, at + 1)) = Kept(r.data[i])
      BY <1>4, <2>1, <3>1 DEF StandsAt
    <3>3. /\ at \in Nat /\ c \in Nat
          /\ \A j \in 1 .. 8 : c + j \in 1 .. l /\ pos + 4 + (c + j) = at + j
      <4>1. at \in Nat /\ c \in Nat /\ at = pos + 4 + c
        BY <3>0
      <4>2. c + 8 = 8 * i /\ 8 * i <= 8 * Len(r.data) /\ l \in Nat
        BY <1>1, <3>0
      <4> HIDE DEF at, c
      <4>3. c + 8 <= l
        BY <2>2, <3>0, <4>1, <4>2
      <4>4. \A j \in 1 .. 8 : c + j \in 1 .. l
        BY <4>1, <4>2, <4>3
      <4>5. \A j \in 1 .. 8 : pos + 4 + (c + j) = at + j
        <5>1. \A e, f, j \in Nat : e + 4 + (f + j) = (e + 4 + f) + j
          OBVIOUS
        <5>2. pos \in Nat /\ c \in Nat /\ at = pos + 4 + c
          BY <3>0, <4>1
        <5>3. QED
          BY ONLY <5>1, <5>2
      <4>6. QED
        BY <4>1, <4>4, <4>5
    <3> HIDE DEF at, c
    <3>4. \A j \in 1 .. 8 : b[c + j] = file[at + j]
      BY <1>3, <3>3
    <3>5. RealOfBytes(b, c + 1) = RealOfBytes(file, at + 1)
      BY <3>3, <3>4, SameReal, SMTT(30)
    <3>6. QED
      BY <3>2, <3>5 DEF c
  <2>4. QED
    BY <1>1, <1>3, <1>10, <2>2, <2>3, RealPayload DEF r, b
<1>11. QED
  BY <1>6, <1>7, <1>8, <1>9, <1>10 DEF Parsed, r

LEMMA GotStep ==
  ASSUME BytesInv, FrameInv, StandInv, ReadInv, GotInv, [ByteNext]_byteVars PROVE GotInv'
<1>1. CASE NextRecord
  <2>1. SUFFICES ASSUME phase = "read", written # <<>>, LengthsFit PROVE GotInv'
    BY <1>1 DEF NextRecord, writerVars, GotInv, LengthsFit
  <2> DEFINE g == Len(got) + 1
             r == written[g]
  <2>2. /\ got' = Append(got, [rt |-> Type, data |-> Parse(Type, Data)])
        /\ UNCHANGED <<phase, written>>
        /\ status = "reading" /\ Remaining >= 4 /\ Length \in 4 .. Remaining
    BY <1>1, <2>1, NextReads DEF NextRecord, writerVars, Reading
  <2>3. Len(got) < Len(written) /\ pos = marks[g]
    BY <2>1, <2>2 DEF ReadInv
  <2>4. /\ g \in 1 .. Len(written) /\ Len(file) \in Nat /\ Remaining = Len(file) - pos
        /\ Length = 4 + PayloadLength(r) /\ Type = r.rt /\ pos \in Nat
    BY <2>1, <2>2, <2>3, AtMark
  <2>5. pos + Length <= Len(file)
    BY <2>2, <2>4
  <2>6. Parse(r.rt, Data) = ReadsAs(r).data
    BY <2>3, <2>4, <2>5, DataRead
  <2>7. [rt |-> Type, data |-> Parse(Type, Data)] = ReadsAs(r)
    BY <2>4, <2>6 DEF ReadsAs
  <2> DEFINE e == [rt |-> Type, data |-> Parse(Type, Data)]
  <2>8. /\ Len(got') = g /\ got'[g] = ReadsAs(r) /\ Len(got) \in Nat
        /\ \A k \in 1 .. Len(got) : got'[k] = got[k]
    <3>1. got \in Seq(Record) /\ e \in Record
      <4>1. got' \in Seq(Record) /\ got \in Seq(Record)
        BY BytesStep DEF BytesInv
      <4>2. Len(got') \in Nat /\ Len(got) \in Nat
        BY <4>1, LenProperties
      <4>3. Len(got') = g /\ got'[g] = e
        BY <2>2, <4>1
      <4>4. g \in 1 .. Len(got')
        BY <4>2, <4>3
      <4>5. QED
        BY <4>1, <4>3, <4>4, ElementOfSeq
    <3> HIDE DEF e
    <3>2. got' = Append(got, e)
      BY <2>2 DEF e
    <3>3. /\ Len(got') = Len(got) + 1 /\ Len(got) \in Nat
          /\ \A k \in 1 .. Len(got) : got'[k] = got[k]
          /\ got'[Len(got) + 1] = e
      BY ONLY <3>1, <3>2, Appended
    <3>4. QED
      BY <2>7, <3>3 DEF e
  <2> HIDE DEF g, r
  <2>9. \A k \in 1 .. Len(got) : got[k] = ReadsAs(written[k])
    BY <2>1 DEF GotInv
  <2>10. \A k \in 1 .. g : k \in 1 .. Len(got) \/ k = g
    BY <2>8 DEF g
  <2>11. \A k \in 1 .. g : got'[k] = ReadsAs(written[k])
    BY <2>8, <2>9, <2>10 DEF r
  <2>12. QED
    BY <2>2, <2>8, <2>11 DEF GotInv
<1>2. CASE Open
  BY <1>2 DEF Open, GotInv
<1>3. CASE phase' = "write"
  BY <1>3 DEF GotInv
<1>4. CASE UNCHANGED <<phase, written, got>>
  BY <1>4 DEF GotInv, LengthsFit
<1>5. CASE WriteRecord \/ WriteDouble \/ Rewrite
  <2>1. WriteDouble => phase = "write"
    BY DEF WriteDouble, BytesInv
  <2>2. phase' = "write"
    BY <1>5, <2>1 DEF WriteRecord, Writing, WriteDouble, Rewrite
  <2>3. QED
    BY <1>3, <2>2
<1>6. QED
  BY <1>1, <1>2, <1>4, <1>5
     DEF ByteNext, WritesOn, ReadsOn, BeginDouble, EncodeDouble, EndOfFile, BadRecordLength, byteVars,
         writerVars, readerVars

\* What the reader of a stream of our own relies on and finds.
OwnStreamInv == BytesInv /\ FrameInv /\ ReadInv /\ StandInv /\ PendingInv /\ GotInv

LEMMA OwnStream == ByteSpec => []OwnStreamInv
<1>1. ByteInit => OwnStreamInv
  <2>1. ByteInit => ReadInv /\ StandInv /\ PendingInv /\ GotInv
    BY DEF ByteInit, ReadInv, StandInv, PendingInv, GotInv
  <2>2. QED
    BY <2>1, BytesInitial, FrameInitial DEF OwnStreamInv
<1>2. OwnStreamInv /\ [ByteNext]_byteVars => OwnStreamInv'
  BY BytesStep, FrameStep, ReadStep, StandStep, GotStep DEF OwnStreamInv
<1>3. QED
  BY <1>1, <1>2, PTL DEF ByteSpec

\* Whatever document is written, and wherever the stream is cut: as long as every
\* record fits its length, the reader stands at the start of a record, and each
\* record it has read is the one that was written there.
THEOREM FramingCorrect == ByteSpec => []FramedExactly
<1>1. OwnStreamInv => FramedExactly
  <2>1. SUFFICES ASSUME OwnStreamInv PROVE FramedExactly
    OBVIOUS
  <2>2. DOMAIN got = 1 .. Len(got)
    BY <2>1, LenProperties DEF OwnStreamInv, BytesInv
  <2>3. SUFFICES ASSUME phase = "read", written # <<>>, LengthsFit
                 PROVE  /\ Len(got) <= Len(written) /\ pos = marks[Len(got) + 1]
                        /\ \A k \in DOMAIN got : got[k] = ReadsAs(written[k])
    BY DEF FramedExactly
  <2>4. \A k \in 1 .. Len(got) : got[k] = ReadsAs(written[k])
    BY <2>1, <2>3 DEF OwnStreamInv, GotInv
  <2>5. QED
    BY <2>1, <2>2, <2>3, <2>4 DEF OwnStreamInv, ReadInv
<1>2. QED
  BY <1>1, OwnStream, PTL

----------------------------------------------------------------------------
(* An outline that overflowed *)

\* Two's complement: a sum that does not fit comes out on the other side.
LEMMA SumWraps ==
  ASSUME NEW x \in Int4, NEW w \in Int4, NEW s, s = Wrapped(x + w)
  PROVE  s - x = w \/ (s < x) # (w < 0)
<1> DEFINE m == Base * Base * Base * Base
<1>1. m \in Nat \ {0} /\ m = 2 * (m \div 2)
  BY Bases
<1>2. Int4 = Signed(m) /\ s = AsSigned((x + w) % m, m)
  BY DEF Int4, Wrapped
<1> HIDE DEF m
<1> DEFINE h == m \div 2
           q == (x + w) \div m
           u == (x + w) % m
<1>3. x \in Int /\ w \in Int /\ h \in Int /\ -h <= x /\ x < h /\ -h <= w /\ w < h /\ m = 2 * h
  BY <1>1, <1>2 DEF Signed
<1>4. q \in Int /\ u \in 0 .. m - 1 /\ x + w = m * q + u
  BY <1>1, <1>3, DivMod
<1>5. s = IF u < h THEN u ELSE u - m
  BY <1>2 DEF AsSigned
<1> HIDE DEF h, q, u
<1>6. q \in {-1, 0}
  <2>1. q >= 1 => m * q >= m
    BY <1>1, <1>4
  <2>2. q <= -2 => m * q <= -2 * m
    BY <1>1, <1>4
  <2>3. QED
    BY <1>1, <1>3, <1>4, <2>1, <2>2
<1>7. x + w = u \/ x + w = u - m
  <2>1. m * 0 = 0 /\ m * (-1) = -m
    BY <1>1
  <2>2. QED
    BY <1>1, <1>4, <1>6, <2>1
<1>8. QED
  BY <1>1, <1>3, <1>4, <1>5, <1>7

\* The records of a library with one rectangle fit their lengths.
LEMMA OutlineFits ==
  ASSUME NEW r \in Rects, written = RectDocument(r)
  PROVE  LengthsFit /\ Len(written) = 3 /\ written[2].rt = XY /\ written[2].data = Outline(r)
<1>1. /\ Len(written) = 3 /\ DOMAIN written = 1 .. 3
      /\ written[1] = [rt |-> HEADER, data |-> <<Version>>]
      /\ written[2] = [rt |-> XY, data |-> Outline(r)]
      /\ written[3] = [rt |-> ENDLIB, data |-> <<>>]
  BY DEF RectDocument
<1>2. Len(Outline(r)) = 10 /\ Len(<<Version>>) = 1
  BY DEF Outline
<1>3. PayloadLength(written[1]) = 2
  <2> DEFINE r1   == written[1]
             e(k) == Bytes2(r1.data[(k + 1) \div 2])[1 + ((k - 1) % 2)]
  <2>1. DataType(r1.rt) = Short /\ Len(r1.data) = 1
    BY <1>1, <1>2, Types
  <2> HIDE DEF r1
  <2>2. Payload(r1) = [k \in 1 .. 2 * Len(r1.data) |-> e(k)] /\ PayloadLength(r1) = Len(Payload(r1))
    BY <2>1 DEF Payload, PayloadLength, Ascii, Real, Short, Long
  <2> HIDE DEF e
  <2>3. Len([k \in 1 .. 2 |-> e(k)]) = 2
    OBVIOUS
  <2>4. QED
    BY <2>1, <2>2, <2>3 DEF r1
<1>4. PayloadLength(written[2]) = 40
  <2> DEFINE r2   == written[2]
             e(k) == Bytes4(r2.data[(k + 3) \div 4])[1 + ((k - 1) % 4)]
  <2>1. DataType(r2.rt) = Long /\ Len(r2.data) = 10
    BY <1>1, <1>2, Types
  <2> HIDE DEF r2
  <2>2. Payload(r2) = [k \in 1 .. 4 * Len(r2.data) |-> e(k)] /\ PayloadLength(r2) = Len(Payload(r2))
    BY <2>1 DEF Payload, PayloadLength, Ascii, Real, Short, Long
  <2> HIDE DEF e
  <2>3. Len([k \in 1 .. 40 |-> e(k)]) = 40
    OBVIOUS
  <2>4. QED
    BY <2>1, <2>2, <2>3 DEF r2
<1>5. PayloadLength(written[3]) = 0
  <2>1. DataType(written[3].rt) = NoData
    BY <1>1, Types
  <2>2. NoData # Real /\ NoData # Ascii /\ NoData # Short /\ NoData # Long
    BY DEF NoData, Long, Real, Ascii, Short
  <2>3. QED
    BY <2>1, <2>2 DEF PayloadLength, Payload
<1>6. Base * Base > 44
  BY Squares
<1>7. ASSUME NEW k \in 1 .. 3
      PROVE  PayloadLength(written[k]) + 4 < Base * Base
  BY <1>3, <1>4, <1>5, <1>6, Bases
<1>8. QED
  BY <1>1, <1>7 DEF LengthsFit

\* A stream of ours that nothing was cut off ends where its last record does.
WholeInv == phase = "read" /\ whole /\ written # <<>> => Len(file) = marks[Len(marks)]

LEMMA WholeStep == ASSUME BytesInv, FrameInv, WholeInv, [ByteNext]_byteVars PROVE WholeInv'
<1>1. CASE Open
  <2>1. /\ phase = "write" /\ todo = <<>> /\ doubles = <<>>
        /\ UNCHANGED <<written, marks>>
    BY <1>1 DEF Open, writerVars
  <2>2. PICK n \in 0 .. Len(file) :
          file' = SubSeq(file, 1, n) /\ whole' = (n = Len(file))
    BY <1>1 DEF Open
  <2>3. Len(file) \in Nat /\ file \in Seq(Byte)
    BY LenProperties DEF BytesInv
  <2>4. whole' => file' = file
    <3>1. whole' => n = Len(file)
      BY <2>2
    <3>2. SubSeq(file, 1, Len(file)) = file
      BY <2>3
    <3>3. QED
      BY <2>2, <3>1, <3>2, Zenon
  <2>5. Len(file) = marks[Len(marks)]
    <3>1. Len(doubles) = 0
      BY <2>1, Sequences
    <3>2. QED
      BY <2>1, <2>3, <3>1 DEF FrameInv, PhaseInv
  <2>6. QED
    BY <2>1, <2>4, <2>5 DEF WholeInv
<1>2. CASE phase' = "write"
  BY <1>2 DEF WholeInv
<1>3. CASE UNCHANGED <<phase, file, whole, written, marks>>
  BY <1>3 DEF WholeInv
<1>4. CASE WriteRecord \/ WriteDouble \/ Rewrite
  <2>1. WriteDouble => phase = "write"
    BY DEF WriteDouble, BytesInv
  <2>2. phase' = "write"
    BY <1>4, <2>1 DEF WriteRecord, Writing, WriteDouble, Rewrite
  <2>3. QED
    BY <1>2, <2>2
<1>5. QED
  BY <1>1, <1>3, <1>4
     DEF ByteNext, WritesOn, ReadsOn, BeginDouble, EncodeDouble, EndOfFile, BadRecordLength, NextRecord,
         byteVars, writerVars

\* A rectangle whose far corner does not fit its 32 bits is written and read back
\* inside out, of every width of its integers: never as one of another size that
\* the caller might have asked for.
THEOREM OverflowCorrect == ByteSpec => []OverflowShows
<1>1. ByteInit => WholeInv
  <2>1. <<>> = <<>>
    OBVIOUS
  <2>2. QED
    BY DEF ByteInit, WholeInv
<1>2. OwnStreamInv /\ WholeInv /\ [ByteNext]_byteVars => WholeInv'
  BY WholeStep DEF OwnStreamInv
<1>3. OwnStreamInv /\ WholeInv => OverflowShows
  <2>1. SUFFICES ASSUME OwnStreamInv, WholeInv, NEW r \in Rects,
                        phase = "read", status = "ok", whole, written = RectDocument(r)
                 PROVE  LET o == got[2].data IN
                        /\ o[3] - o[1] = r.w \/ (o[3] < o[1]) # (r.w < 0)
                        /\ o[6] - o[2] = r.h \/ (o[6] < o[2]) # (r.h < 0)
    BY DEF OverflowShows
  <2>2. /\ LengthsFit /\ Len(written) = 3 /\ written[2].rt = XY
        /\ written[2].data = Outline(r)
    BY <2>1, OutlineFits
  <2>3. written # <<>>
    BY <2>2, Sequences
  <2>4. /\ Len(got) <= Len(written) /\ pos = marks[Len(got) + 1] /\ pos = Len(file)
        /\ Len(file) = marks[Len(marks)] /\ Len(got) \in Nat
    BY <2>1, <2>2, <2>3, LenProperties DEF OwnStreamInv, ReadInv, WholeInv, BytesInv
  <2>5. Len(got) = 3
    <3>1. /\ Len(marks) = 4 /\ marks \in Seq(Nat)
          /\ \A j, k \in 1 .. Len(marks) : j < k => marks[j] + 4 <= marks[k]
      BY <2>1, <2>2 DEF OwnStreamInv, FrameInv, MarksInv
    <3>2. \A j \in 1 .. 4 : marks[j] \in Nat
      BY <3>1, ElementOfSeq
    <3> DEFINE n == Len(got)
    <3>3. n \in Nat /\ n <= 3 /\ marks[n + 1] = marks[4]
      BY <2>2, <2>4, <3>1
    <3> HIDE DEF n
    <3>4. n < 3 => n + 1 \in 1 .. 4 /\ n + 1 < 4
      BY <3>3
    <3>5. n < 3 => marks[n + 1] + 4 <= marks[4]
      BY <3>1, <3>4
    <3>6. n >= 3
      BY <3>2, <3>3, <3>5
    <3>7. n = 3
      BY <3>3, <3>6
    <3>8. QED
      BY <3>7 DEF n
  <2>6. got[2] = ReadsAs(written[2])
    BY <2>1, <2>2, <2>3, <2>5 DEF OwnStreamInv, GotInv
  <2>7. XY \in Parsed /\ DataType(XY) = Long /\ Long # Ascii /\ Long # Real
    BY Types DEF Parsed, Long, Ascii, Real
  <2>8. got[2].data = Outline(r)
    BY <2>2, <2>6, <2>7 DEF ReadsAs
  <2> DEFINE right == Wrapped(r.x + r.w)
             top   == Wrapped(r.y + r.h)
  <2>9. r.x \in Int4 /\ r.y \in Int4 /\ r.w \in Int4 /\ r.h \in Int4
    <3>1. r \in [x : Int4, y : Int4, w : Int4, h : Int4]
      BY DocumentsAssumption
    <3>2. QED
      BY <3>1
  <2>10. /\ right - r.x = r.w \/ (right < r.x) # (r.w < 0)
         /\ top - r.y = r.h \/ (top < r.y) # (r.h < 0)
    BY <2>9, SumWraps
  <2>11. Outline(r) = << r.x, r.y, right, r.y, right, top, r.x, top, r.x, r.y >>
    BY DEF Outline
  <2> HIDE DEF right, top
  <2>12. /\ Outline(r)[1] = r.x /\ Outline(r)[3] = right
         /\ Outline(r)[2] = r.y /\ Outline(r)[6] = top
    BY <2>11
  <2>13. QED
    BY <2>8, <2>10, <2>12
<1>4. QED
  BY <1>1, <1>2, <1>3, OwnStream, PTL DEF ByteSpec

----------------------------------------------------------------------------
(* Streams that are written again *)

\* A library that was read before: its name has no NUL and was once told by a header,
\* and where it is settled, its units are doubles that have a real.
Reread(d, settled) ==
  LET name == d[3].data  units == d[4].data IN
  /\ Len(d) = 5 /\ name \in Seq(Byte) /\ units \in Seq(Double) /\ Len(units) = 2
  /\ d = Document(name, units)
  /\ NulFree(name) /\ Len(name) + 4 < Base * Base
  /\ settled => \A k \in 1 .. 2 : Kept(units[k]) = units[k]

RewrittenInv ==
  /\ round \in Nat
  /\ phase = "write" /\ round >= 1 => Reread(written \o todo, round >= 2)
  /\ phase = "read" /\ round >= 2 => Reread(written, round >= 3)

NamesInv ==
  phase = "read" =>
    \A k \in 1 .. Len(got) :
      got[k].rt = LIBNAME => NulFree(got[k].data) /\ Len(got[k].data) + 4 < Base * Base

\* A name whose padding no longer fits is told by a header of length zero, and the
\* reader stops there.
StuckInv ==
  phase = "read" /\ round >= 2 /\ whole /\ ~ LengthsFit =>
    /\ Len(got) <= 2 /\ status # "ok"
    /\ status = "reading" => pos = marks[Len(got) + 1]

LEMMA NameFound ==
  ASSUME NEW b \in Seq(Byte)
  PROVE  Text(b) \in Seq(Byte) /\ NulFree(Text(b)) /\ Len(Text(b)) <= Len(b)
<1> DEFINE nul == {k \in DOMAIN b : b[k] = 0}
<1>1. DOMAIN b = 1 .. Len(b) /\ Len(b) \in Nat /\ Text(b) \in Seq(Byte)
  BY LenProperties, TextParsed
<1>2. CASE nul = {}
  <2>1. Text(b) = b
    BY <1>2 DEF Text
  <2>2. QED
    BY <1>1, <1>2, <2>1 DEF NulFree
<1>3. CASE nul # {}
  <2> DEFINE l == Min(nul) - 1
  <2>1. Min(nul) \in nul /\ \A k \in nul : Min(nul) <= k
    <3>1. nul \in SUBSET Nat
      BY <1>1
    <3>2. QED
      BY <1>3, <3>1, LeastMember
  <2>2. l \in 0 .. Len(b) /\ l \in Nat /\ \A k \in 1 .. l : k \in 1 .. Len(b) /\ k \notin nul
    <3> DEFINE m == Min(nul)
    <3>1. m \in 1 .. Len(b) /\ l = m - 1 /\ \A k \in nul : m <= k
      BY <1>1, <2>1
    <3> HIDE DEF nul, m, l
    <3>2. QED
      BY <1>1, <3>1
  <2>3. Text(b) = SubSeq(b, 1, l)
    BY <1>3 DEF Text
  <2>4. \A k \in 1 .. l : b[k] # 0 /\ b[k] \in Byte
    BY <1>1, <2>2, ElementOfSeq
  <2> HIDE DEF l, nul
  <2>5. Len(SubSeq(b, 1, l)) = l /\ \A k \in 1 .. l : SubSeq(b, 1, l)[k] = b[k]
    BY <2>2, <2>4, SubSeqProperties
  <2>6. DOMAIN Text(b) = 1 .. l /\ Len(Text(b)) = l
    BY <1>1, <2>3, <2>5, LenProperties
  <2>7. QED
    BY <1>1, <2>2, <2>3, <2>4, <2>5, <2>6 DEF NulFree
<1>4. QED
  BY <1>2, <1>3

\* What was kept once is kept for ever.
LEMMA KeptTwice == ASSUME NEW d PROVE Kept(Kept(d)) = Kept(d)
BY DEF Kept

LEMMA KeptDouble == ASSUME NEW d \in Double PROVE Kept(d) \in Double
BY ZerosAreNumbers DEF Kept

LEMMA RereadDocument ==
  ASSUME NEW name \in Seq(Byte), NEW units \in Seq(Double), Len(units) = 2,
         NulFree(name), Len(name) + 4 < Base * Base, NEW settled \in BOOLEAN,
         settled => \A k \in 1 .. 2 : Kept(units[k]) = units[k]
  PROVE  Reread(Document(name, units), settled)
<1> DEFINE d == Document(name, units)
<1>1. Len(d) = 5 /\ d[3].data = name /\ d[4].data = units
  BY DEF Document
<1> HIDE DEF d
<1>2. d = Document(d[3].data, d[4].data)
  BY <1>1 DEF d
<1>3. QED
  BY <1>1, <1>2 DEF Reread, d

\* The lengths of what was written again: only a name can be too long, by its padding.
LEMMA RereadLengths ==
  ASSUME NEW settled, Reread(written, settled)
  PROVE  /\ Len(written) = 5
         /\ written[1].rt = HEADER /\ written[2].rt = BGNLIB /\ written[3].rt = LIBNAME
         /\ PayloadLength(written[1]) = 2 /\ PayloadLength(written[2]) = 24
         /\ ~ LengthsFit => PayloadLength(written[3]) + 4 = Base * Base
<1> DEFINE name  == written[3].data
           units == written[4].data
           square == Base * Base
<1>1. /\ name \in Seq(Byte) /\ units \in Seq(Double) /\ Len(units) = 2
      /\ written = Document(name, units) /\ Len(name) + 4 < square /\ Len(written) = 5
  BY DEF Reread
<1>2. /\ DOMAIN written = 1 .. 5
      /\ written[1] = [rt |-> HEADER, data |-> <<Version>>]
      /\ written[2] = [rt |-> BGNLIB, data |-> [k \in 1 .. 12 |-> 0]]
      /\ written[3].rt = LIBNAME /\ written[4].rt = UNITS
      /\ written[5] = [rt |-> ENDLIB, data |-> <<>>]
  <2> HIDE DEF name, units
  <2>1. QED
    BY <1>1 DEF Document
<1> HIDE DEF name, units
<1>3. ASSUME NEW r, NEW n \in Nat, DataType(r.rt) = Short, Len(r.data) = n
      PROVE  PayloadLength(r) = 2 * n
  <2> DEFINE e(k) == Bytes2(r.data[(k + 1) \div 2])[1 + ((k - 1) % 2)]
  <2>1. Payload(r) = [k \in 1 .. 2 * Len(r.data) |-> e(k)] /\ PayloadLength(r) = Len(Payload(r))
    BY <1>3 DEF Payload, PayloadLength, Ascii, Real, Short, Long
  <2> HIDE DEF e
  <2>2. 2 * n \in Nat /\ Len([k \in 1 .. 2 * n |-> e(k)]) = 2 * n
    OBVIOUS
  <2>3. QED
    BY <1>3, <2>1, <2>2
<1>4. PayloadLength(written[1]) = 2
  <2>1. DataType(written[1].rt) = Short /\ Len(written[1].data) = 1
    BY <1>2, Types
  <2>2. PayloadLength(written[1]) = 2 * 1
    BY <1>3, <2>1
  <2>3. QED
    BY <2>2
<1>5. PayloadLength(written[2]) = 24
  <2>1. DataType(written[2].rt) = Short /\ Len(written[2].data) = 12
    BY <1>2, Types
  <2>2. PayloadLength(written[2]) = 2 * 12
    BY <1>3, <2>1
  <2>3. QED
    BY <2>2
<1>6. PayloadLength(written[3]) = Len(Padded(name))
  <2>1. DataType(written[3].rt) = Ascii
    BY <1>2, Types
  <2>2. QED
    BY <2>1 DEF PayloadLength, Payload, Ascii, Short, Long, Real, name
<1>7. PayloadLength(written[4]) = 16
  <2>1. DataType(written[4].rt) = Real
    BY <1>2, Types
  <2>2. QED
    BY <1>1, <2>1 DEF PayloadLength, units
<1>8. PayloadLength(written[5]) = 0
  <2>1. DataType(written[5].rt) = NoData
    BY <1>2, Types
  <2>2. QED
    BY <2>1 DEF PayloadLength, Payload, NoData, Long, Real, Ascii, Short
<1>9. square > 28
  BY Squares
<1>10. Len(Padded(name)) + 4 < square \/ Len(Padded(name)) + 4 = square
  <2>1. Len(name) \in Nat /\ square \in Nat /\ square % 2 = 0
    <3>1. square = 2 * (square \div 2) /\ square \in Nat
      BY Bases
    <3> HIDE DEF square
    <3>2. QED
      BY <1>1, <3>1, LenProperties
  <2>2. CASE Len(name) % 2 = 1
    <3>1. Len(Padded(name)) = Len(name) + 1
      BY <1>1, <2>2, Bases, Sequences DEF Padded
    <3>2. QED
      BY <1>1, <2>1, <3>1
  <2>3. CASE Len(name) % 2 # 1
    BY <1>1, <2>3 DEF Padded
  <2>4. QED
    BY <2>2, <2>3
<1> HIDE DEF square
<1>11. ~ LengthsFit => PayloadLength(written[3]) + 4 = square
  <2>1. SUFFICES ASSUME PayloadLength(written[3]) + 4 # square PROVE LengthsFit
    OBVIOUS
  <2>2. \A k \in 1 .. 5 : PayloadLength(written[k]) + 4 < square
    <3>1. PayloadLength(written[3]) + 4 < square
      BY <1>6, <1>10, <2>1
    <3>2. square \in Nat /\ 2 + 4 < square /\ 24 + 4 < square /\ 16 + 4 < square /\ 0 + 4 < square
      BY <1>9, Bases DEF square
    <3>3. \A k \in 1 .. 5 : k = 1 \/ k = 2 \/ k = 3 \/ k = 4 \/ k = 5
      OBVIOUS
    <3>4. QED
      BY <1>4, <1>5, <1>7, <1>8, <3>1, <3>2, <3>3, Zenon
  <2>3. QED
    BY <1>2, <2>2 DEF LengthsFit, square
<1>12. QED
  BY <1>1, <1>2, <1>4, <1>5, <1>11 DEF square

\* Between its header and the next record stands what the header tells.
LEMMA DataLength ==
  ASSUME BytesInv, phase = "read", Remaining >= 4, Length \in 4 .. Remaining
  PROVE  /\ Data \in Seq(Byte) /\ Len(Data) = Length - 4 /\ Length < Base * Base
         /\ Type \in Byte
<1>1. file \in Seq(Byte) /\ Len(file) \in Nat /\ pos \in Nat /\ Remaining = Len(file) - pos
  BY LenProperties DEF BytesInv, Remaining
<1>2. Length \in 0 .. Base * Base - 1
  <2>1. pos + 1 \in Nat \ {0} /\ pos + 1 + 1 <= Len(file)
    BY <1>1
  <2>2. QED
    BY <1>1, <2>1, UnsignedFits DEF Length
<1> DEFINE a == pos + 5
           z == pos + Length
<1>3. /\ a \in Int /\ z \in Int /\ (IF a <= z THEN (z - a) + 1 ELSE 0) = Length - 4
      /\ \A i \in a .. z : i \in 1 .. Len(file)
  <2> DEFINE l == Length
  <2>1. l \in Nat /\ l >= 4 /\ pos + l <= Len(file) /\ z = pos + l
    BY <1>1, <1>2
  <2> HIDE DEF l, z
  <2>2. a \in Int /\ z \in Int
    BY <1>1, <2>1
  <2>3. (IF a <= z THEN (z - a) + 1 ELSE 0) = l - 4
    BY <1>1, <2>1
  <2>4. \A i \in a .. z : i \in 1 .. Len(file)
    BY <1>1, <2>1
  <2>5. QED
    BY <2>2, <2>3, <2>4 DEF l
<1>4. \A i \in a .. z : file[i] \in Byte
  BY <1>1, <1>3, ElementOfSeq
<1>5. Data = SubSeq(file, a, z)
  BY DEF Data
<1> HIDE DEF a, z
<1>6. Data \in Seq(Byte) /\ Len(Data) = Length - 4
  BY <1>3, <1>4, <1>5, SubSeqProperties
<1>7. Type \in Byte
  <2>1. pos + 3 \in 1 .. Len(file)
    BY <1>1
  <2>2. QED
    BY <1>1, <2>1, ElementOfSeq DEF Type
<1>8. Length < Base * Base
  <2>1. Base * Base \in Nat
    BY Bases
  <2>2. QED
    BY <1>2, <2>1
<1>9. QED
  BY <1>6, <1>7, <1>8

LEMMA NamesStep == ASSUME BytesInv, NamesInv, [ByteNext]_byteVars PROVE NamesInv'
<1>1. CASE NextRecord
  <2> DEFINE e == [rt |-> Type, data |-> Parse(Type, Data)]
  <2>1. /\ phase = "read" /\ Remaining >= 4 /\ Length \in 4 .. Remaining /\ UNCHANGED phase
        /\ UNCHANGED got \/ (got' = Append(got, e) /\ ~ Misfits(Type, Data))
    BY <1>1 DEF NextRecord, Reading
  <2>2. Data \in Seq(Byte) /\ Len(Data) = Length - 4 /\ Length < Base * Base /\ Type \in Byte
    BY <2>1, DataLength
  <2>3. CASE UNCHANGED got
    BY <2>1, <2>3 DEF NamesInv
  <2>4. CASE got' = Append(got, e) /\ ~ Misfits(Type, Data)
    <3>1. e \in Record
      BY <2>2, <2>4, ParsedRecord
    <3>2. Type = LIBNAME => NulFree(e.data) /\ Len(e.data) + 4 < Base * Base
      <4>1. SUFFICES ASSUME Type = LIBNAME
                     PROVE  NulFree(e.data) /\ Len(e.data) + 4 < Base * Base
        OBVIOUS
      <4>2. e.data = Text(Data)
        BY <4>1, Types DEF Parse, Parsed
      <4>3. Text(Data) \in Seq(Byte) /\ NulFree(Text(Data)) /\ Len(Text(Data)) <= Len(Data)
        BY <2>2, NameFound
      <4>4. Len(Text(Data)) + 4 < Base * Base
        <5>1. Len(Text(Data)) \in Nat /\ Base * Base \in Nat
          BY <4>3, LenProperties, Bases
        <5>2. Length \in Int
          BY <2>1
        <5>3. QED
          BY <2>2, <4>3, <5>1, <5>2
      <4>5. QED
        BY <4>2, <4>3, <4>4
    <3>3. e.rt = Type
      OBVIOUS
    <3> HIDE DEF e
    <3>4. /\ Len(got') = Len(got) + 1 /\ Len(got) \in Nat
          /\ \A k \in 1 .. Len(got) : got'[k] = got[k]
          /\ got'[Len(got) + 1] = e
      <4>1. got \in Seq(Record)
        BY DEF BytesInv
      <4>2. QED
        BY <2>4, <3>1, <4>1, Appended
    <3>5. \A k \in 1 .. Len(got') : k \in 1 .. Len(got) \/ k = Len(got) + 1
      BY <3>4
    <3>6. QED
      BY <2>1, <3>2, <3>3, <3>4, <3>5 DEF NamesInv
  <2>5. QED
    BY <2>1, <2>3, <2>4
<1>2. CASE Open
  BY <1>2 DEF Open, NamesInv
<1>3. CASE phase' = "write"
  BY <1>3 DEF NamesInv
<1>4. CASE UNCHANGED <<phase, got>>
  BY <1>4 DEF NamesInv
<1>5. QED
  BY <1>1, <1>2, <1>3, <1>4
     DEF ByteNext, WritesOn, ReadsOn, WriteRecord, BeginDouble, EncodeDouble, WriteDouble, EndOfFile,
         BadRecordLength, Rewrite, byteVars, writerVars, readerVars

\* The reader that cannot get past a name.
LEMMA StuckReads ==
  ASSUME BytesInv, FrameInv, WholeInv, RewrittenInv, StuckInv, Reading,
         round >= 2, whole, ~ LengthsFit
  PROVE  LET g == Len(got) + 1 IN
         /\ g \in 1 .. 3 /\ Remaining >= 4 /\ pos = marks[g]
         /\ g = 3 => Length = 0
         /\ g # 3 => Type # ENDLIB /\ pos + Length = marks[g + 1]
<1> DEFINE g == Len(got) + 1
           r == written[g]
           b == HeaderOf(r)
<1>1. /\ phase = "read" /\ status = "reading" /\ pos = marks[g] /\ Len(got) <= 2
      /\ file \in Seq(Byte) /\ Len(file) \in Nat /\ pos \in Nat /\ Len(got) \in Nat
  BY LenProperties DEF Reading, StuckInv, BytesInv
<1>2. /\ Len(written) = 5
      /\ written[1].rt = HEADER /\ written[2].rt = BGNLIB /\ written[3].rt = LIBNAME
      /\ PayloadLength(written[1]) = 2 /\ PayloadLength(written[2]) = 24
      /\ PayloadLength(written[3]) + 4 = Base * Base
  BY <1>1, RereadLengths DEF RewrittenInv
<1>3. g \in 1 .. 3 /\ g \in 1 .. 5 /\ (g = 1 \/ g = 2 \/ g = 3)
  BY <1>1
<1> HIDE DEF g
<1>4. /\ r \in Record /\ marks[g + 1] = marks[g] + 4 + PayloadLength(r)
      /\ PayloadLength(r) \in Nat
      /\ marks[g] + 4 + PayloadLength(r) <= marks[Len(marks)]
  BY <1>2, <1>3, MarksRise, PayloadBytes
<1>5. Len(file) = marks[Len(marks)]
  <2>1. written # <<>>
    BY <1>2, Sequences
  <2>2. QED
    BY <1>1, <2>1 DEF WholeInv
<1>6. Remaining >= 4 /\ pos + 4 <= Len(file)
  <2> DEFINE l == PayloadLength(r)
  <2>1. l \in Nat /\ pos + 4 + l <= Len(file)
    BY <1>1, <1>4, <1>5
  <2> HIDE DEF l
  <2>2. QED
    BY <1>1, <2>1 DEF Remaining
<1>7. \A j \in 1 .. 4 : file[pos + j] = b[j]
  BY <1>1, <1>2, <1>3, <1>6 DEF FrameInv, HeadersInv
<1>8. /\ Length = Unsigned2(b, 1) /\ Type = b[3]
  <2>1. /\ Length = file[pos + 1] * Base + file[pos + 2] /\ Type = file[pos + 3]
        /\ Unsigned2(b, 1) = b[1] * Base + b[2]
    <3>1. pos + 1 + 1 = pos + 2
      BY <1>1
    <3>2. QED
      BY <3>1 DEF Length, Type, Unsigned2
  <2>2. QED
    BY <1>7, <2>1
<1>9. Type = r.rt
  BY <1>4, <1>8, HeaderBytes DEF HeaderOf
<1>10. Base * Base > 28
  BY Squares
<1>11. g # 3 => Length = PayloadLength(r) + 4 /\ Type # ENDLIB
  <2>1. SUFFICES ASSUME g # 3 PROVE Length = PayloadLength(r) + 4 /\ Type # ENDLIB
    OBVIOUS
  <2>2. PayloadLength(r) + 4 < Base * Base
    BY <1>2, <1>3, <1>10, <2>1, Bases
  <2>3. Type # ENDLIB
    BY <1>2, <1>3, <1>9, <2>1 DEF HEADER, BGNLIB, ENDLIB
  <2>4. QED
    BY <1>4, <1>8, <2>2, <2>3, HeaderBytes DEF HeaderOf
<1>12. g = 3 => Length = 0
  <2>1. SUFFICES ASSUME g = 3 PROVE Unsigned2(b, 1) = 0
    BY <1>8
  <2> DEFINE square == Base * Base
             high   == Bytes2(square)
             low    == <<r.rt, DataType(r.rt)>>
  <2>2. b = high \o low
    BY <1>2, <2>1 DEF HeaderOf, Header
  <2>3. high = <<0, 0>>
    <3>1. square \in Nat \ {0} /\ Base \in Nat \ {0}
      BY Bases
    <3> HIDE DEF square
    <3>2. square % square = 0
      BY <3>1
    <3>3. 0 \div Base = 0 /\ 0 % Base = 0
      BY <3>1
    <3>4. high = <<(square % square) \div Base, (square % square) % Base>>
      BY DEF Bytes2, square
    <3> HIDE DEF high
    <3>5. QED
      BY <3>2, <3>3, <3>4
  <2> HIDE DEF high
  <2>4. b[1] = 0 /\ b[2] = 0
    BY <2>2, <2>3
  <2>5. Unsigned2(b, 1) = 0 * Base + 0
    BY <2>4 DEF Unsigned2
  <2>6. QED
    BY <2>5, Bases
<1>13. g # 3 => pos + Length = marks[g + 1]
  <2> DEFINE l == PayloadLength(r)
             here == marks[g]
             next == marks[g + 1]
  <2>1. l \in Nat /\ here \in Nat /\ pos = here /\ next = here + 4 + l
        /\ (g # 3 => Length = l + 4)
    BY <1>1, <1>4, <1>11
  <2> HIDE DEF l, here, next
  <2>2. g # 3 => pos + Length = next
    BY <2>1
  <2>3. QED
    BY <2>2 DEF next
<1>14. QED
  BY <1>1, <1>3, <1>6, <1>11, <1>12, <1>13 DEF g

LEMMA StuckStep ==
  ASSUME BytesInv, FrameInv, WholeInv, RewrittenInv, StuckInv, [ByteNext]_byteVars
  PROVE  StuckInv'
<1>1. CASE NextRecord
  <2>1. SUFFICES ASSUME round >= 2, whole, ~ LengthsFit PROVE StuckInv'
    BY <1>1 DEF NextRecord, writerVars, StuckInv, LengthsFit
  <2> DEFINE g == Len(got) + 1
             e == [rt |-> Type, data |-> Parse(Type, Data)]
  <2>2. /\ Reading /\ Length \in 4 .. Remaining /\ pos' = pos + Length
        /\ UNCHANGED <<phase, marks>>
        /\ \/ status' \in {"MissingHeader", "BadPayload"} /\ UNCHANGED got
           \/ /\ got' = Append(got, e) /\ ~ Misfits(Type, Data)
              /\ status' = IF Type = ENDLIB THEN "ok" ELSE "reading"
    BY <1>1 DEF NextRecord, writerVars
  <2>3. /\ g \in 1 .. 3 /\ Remaining >= 4 /\ g # 3
        /\ Type # ENDLIB /\ pos + Length = marks[g + 1]
    <3>1. /\ g \in 1 .. 3 /\ Remaining >= 4 /\ (g = 3 => Length = 0)
          /\ (g # 3 => Type # ENDLIB /\ pos + Length = marks[g + 1])
      BY <2>1, <2>2, StuckReads
    <3>2. g # 3
      BY <2>2, <3>1
    <3>3. QED
      BY <3>1, <3>2
  <2>4. got \in Seq(Record) /\ Len(got) \in Nat
    BY LenProperties DEF BytesInv
  <2>5. CASE status' \in {"MissingHeader", "BadPayload"} /\ UNCHANGED got
    BY <2>3, <2>4, <2>5 DEF StuckInv
  <2>6. CASE got' = Append(got, e) /\ ~ Misfits(Type, Data)
             /\ status' = IF Type = ENDLIB THEN "ok" ELSE "reading"
    <3>1. e \in Record
      <4>1. Data \in Seq(Byte) /\ Type \in Byte
        BY <2>2, <2>3, DataLength DEF Reading
      <4>2. QED
        BY <2>6, <4>1, ParsedRecord
    <3> HIDE DEF e
    <3>2. Len(got') = Len(got) + 1
      BY <2>4, <2>6, <3>1, Appended
    <3>3. Len(got') = g /\ g <= 2
      BY <2>3, <2>4, <3>2
    <3>4. status' = "reading" /\ pos' = marks'[g + 1]
      BY <2>2, <2>3, <2>6
    <3>5. QED
      BY <3>3, <3>4 DEF StuckInv
  <2>7. QED
    BY <2>2, <2>5, <2>6
<1>2. CASE EndOfFile
  <2>1. /\ Reading /\ Remaining < 4
        /\ UNCHANGED <<phase, written, marks, whole, round, pos, got>>
    BY <1>2 DEF EndOfFile, writerVars
  <2>2. CASE round >= 2 /\ whole /\ ~ LengthsFit
    <3>1. Remaining >= 4
      BY <2>1, <2>2, StuckReads
    <3>2. Remaining \in Int
      BY LenProperties DEF Remaining, BytesInv
    <3>3. QED
      BY <2>1, <3>1, <3>2
  <2>3. CASE ~ (round >= 2 /\ whole /\ ~ LengthsFit)
    BY <2>1, <2>3 DEF StuckInv, LengthsFit
  <2>4. QED
    BY <2>2, <2>3
<1>3. CASE BadRecordLength
  BY <1>3 DEF BadRecordLength, Reading, writerVars, StuckInv, LengthsFit
<1>4. CASE Open
  <2>1. got' = <<>> /\ pos' = 0 /\ status' = "reading" /\ UNCHANGED marks
    BY <1>4 DEF Open, writerVars
  <2>2. marks[0 + 1] = 0
    BY DEF FrameInv, MarksInv
  <2>3. Len(got') = 0
    BY <2>1, Sequences
  <2>4. QED
    BY <2>1, <2>2, <2>3 DEF StuckInv
<1>5. CASE phase' = "write"
  BY <1>5 DEF StuckInv
<1>6. CASE UNCHANGED <<phase, written, marks, whole, round, pos, got, status>>
  BY <1>6 DEF StuckInv, LengthsFit
<1>7. CASE WriteRecord \/ WriteDouble \/ Rewrite
  <2>1. WriteDouble => phase = "write"
    BY DEF WriteDouble, BytesInv
  <2>2. phase' = "write"
    BY <1>7, <2>1 DEF WriteRecord, Writing, WriteDouble, Rewrite
  <2>3. QED
    BY <1>5, <2>2
<1>8. QED
  BY <1>1, <1>2, <1>3, <1>4, <1>6, <1>7
     DEF ByteNext, WritesOn, ReadsOn, BeginDouble, EncodeDouble, byteVars, writerVars, readerVars

\* A stream of ours that was not cut and was accepted has been read to its last record.
LEMMA ReadWhole ==
  ASSUME OwnStreamInv, WholeInv, phase = "read", status = "ok", whole, written # <<>>, LengthsFit
  PROVE  /\ Len(got) = Len(written) /\ Len(got) \in Nat
         /\ \A k \in 1 .. Len(got) : got[k] = ReadsAs(written[k])
<1> DEFINE n == Len(got)
           m == Len(written)
<1>1. n \in Nat /\ m \in Nat /\ n <= m
  BY LenProperties DEF OwnStreamInv, BytesInv, ReadInv
<1>2. pos = marks[n + 1] /\ pos = Len(file) /\ Len(file) = marks[Len(marks)]
  BY DEF OwnStreamInv, ReadInv, WholeInv
<1>3. /\ marks \in Seq(Nat) /\ Len(marks) = m + 1
      /\ \A j, k \in 1 .. Len(marks) : j < k => marks[j] + 4 <= marks[k]
  BY DEF OwnStreamInv, FrameInv, MarksInv
<1>4. \A k \in 1 .. n : got[k] = ReadsAs(written[k])
  BY DEF OwnStreamInv, GotInv
<1> HIDE DEF n, m
<1>5. \A j \in 1 .. m + 1 : marks[j] \in Nat
  BY <1>3, ElementOfSeq
<1>6. n < m => FALSE
  <2>1. SUFFICES ASSUME n < m PROVE FALSE
    OBVIOUS
  <2>2. n + 1 \in 1 .. m + 1 /\ m + 1 \in 1 .. m + 1 /\ n + 1 < m + 1
    BY <1>1, <2>1
  <2>3. marks[n + 1] + 4 <= marks[m + 1]
    BY <1>3, <2>2
  <2>4. QED
    BY <1>2, <1>3, <1>5, <2>2, <2>3
<1>7. n = m
  BY <1>1, <1>6
<1>8. QED
  BY <1>1, <1>4, <1>7 DEF n, m

\* Where one record of its type was read, that is the last.
LEMMA OnlyFound ==
  ASSUME NEW rt, NEW n, NEW default, NEW j \in Nat, j \in DOMAIN got,
         got[j].rt = rt, Len(got[j].data) >= n,
         \A k \in DOMAIN got : got[k].rt = rt => k = j
  PROVE  LastOf(rt, n, default) = got[j].data
<1> DEFINE found == {k \in DOMAIN got : got[k].rt = rt /\ Len(got[k].data) >= n}
<1>1. found = {j}
  OBVIOUS
<1>2. Max(found) = j
  <2>1. j \in {j} /\ \A k \in {j} : j >= k
    OBVIOUS
  <2>2. Max({j}) \in {j}
    BY <2>1 DEF Max
  <2>3. QED
    BY <1>1, <2>2
<1>3. QED
  BY <1>1, <1>2 DEF LastOf

\* What a library that is read again has in its place of the units.
LEMMA RereadRead ==
  ASSUME OwnStreamInv, WholeInv, StuckInv, RewrittenInv, phase = "read", status = "ok",
         whole, round >= 2
  PROVE  LET units == written[4].data IN
         /\ LastOf(LIBNAME, 0, <<>>) = written[3].data
         /\ SubSeq(LastOf(UNITS, 2, Defaults), 1, 2) = [k \in 1 .. 2 |-> Kept(units[k])]
<1> DEFINE name  == written[3].data
           units == written[4].data
           kept  == [k \in 1 .. 2 |-> Kept(units[k])]
<1>1. /\ name \in Seq(Byte) /\ units \in Seq(Double) /\ Len(units) = 2 /\ Len(written) = 5
      /\ written = Document(name, units) /\ NulFree(name)
  BY DEF RewrittenInv, Reread
<1>2. /\ written[1].rt = HEADER /\ written[2].rt = BGNLIB /\ written[3].rt = LIBNAME
      /\ written[4].rt = UNITS /\ written[5].rt = ENDLIB
  <2> HIDE DEF name, units
  <2>1. QED
    BY <1>1 DEF Document
<1> HIDE DEF name, units
<1>3. written # <<>> /\ LengthsFit
  <2>1. Len(written) = 5
    BY <1>1
  <2>2. written # <<>>
    BY <2>1, Sequences
  <2>3. LengthsFit
    BY DEF StuckInv
  <2>4. QED
    BY <2>2, <2>3
<1>4. Len(got) = 5 /\ \A k \in 1 .. 5 : got[k] = ReadsAs(written[k])
  BY <1>1, <1>3, ReadWhole
<1>5. DOMAIN got = 1 .. 5 /\ got \in Seq(Record)
  <2>1. got \in Seq(Record)
    BY DEF OwnStreamInv, BytesInv
  <2>2. QED
    BY <1>4, <2>1, LenProperties
<1>6. \A k \in 1 .. 5 : got[k].rt = written[k].rt
  BY <1>4 DEF ReadsAs
<1>7. got[3].data = name
  <2>1. LIBNAME \in Parsed /\ DataType(LIBNAME) = Ascii
    BY Types DEF Parsed
  <2>2. got[3] = ReadsAs(written[3])
    BY <1>4
  <2>3. ReadsAs(written[3]).data = name
    BY <1>1, <1>2, <2>1 DEF ReadsAs, name, Ascii, Real
  <2>4. QED
    BY <2>2, <2>3
<1>8. got[4].data = kept
  <2>1. UNITS \in Parsed /\ DataType(UNITS) = Real /\ Real # Ascii
    BY Types DEF Parsed, Real, Ascii
  <2>2. got[4].data = [k \in DOMAIN units |-> Kept(units[k])]
    BY <1>2, <1>4, <2>1 DEF ReadsAs, units
  <2>3. DOMAIN units = 1 .. 2
    BY <1>1, LenProperties
  <2>4. QED
    BY <2>2, <2>3
<1>9. \A k \in 1 .. 5 : k = 1 \/ k = 2 \/ k = 3 \/ k = 4 \/ k = 5
  OBVIOUS
<1>10. /\ \A k \in DOMAIN got : got[k].rt = LIBNAME => k = 3
       /\ \A k \in DOMAIN got : got[k].rt = UNITS => k = 4
  BY <1>2, <1>5, <1>6, <1>9 DEF HEADER, BGNLIB, LIBNAME, UNITS, ENDLIB
<1>11. LastOf(LIBNAME, 0, <<>>) = name
  <2> DEFINE none  == <<>>
             least == 0
  <2>1. Len(got[3].data) >= least
    BY <1>1, <1>7, LenProperties
  <2>2. 3 \in DOMAIN got /\ got[3].rt = LIBNAME /\ 3 \in Nat
    BY <1>2, <1>5, <1>6
  <2>3. \A k \in DOMAIN got : got[k].rt = LIBNAME => k = 3
    BY <1>10
  <2> HIDE DEF none, least
  <2>4. LastOf(LIBNAME, least, none) = got[3].data
    BY <2>1, <2>2, <2>3, OnlyFound
  <2>5. QED
    BY <1>7, <2>4 DEF none, least
<1>12. SubSeq(LastOf(UNITS, 2, Defaults), 1, 2) = kept
  <2>1. units[1] \in Double /\ units[2] \in Double
    <3>1. 1 \in 1 .. Len(units) /\ 2 \in 1 .. Len(units) /\ units \in Seq(Double)
      BY <1>1
    <3>2. QED
      BY <3>1, ElementOfSeq
  <2>2. kept \in Seq(Double) /\ Len(kept) = 2
    <3>1. \A k \in 1 .. 2 : Kept(units[k]) \in Double
      BY <2>1, KeptDouble
    <3>2. QED
      BY <3>1, IsASeq
  <2> HIDE DEF kept
  <2>3. 4 \in DOMAIN got /\ got[4].rt = UNITS /\ 4 \in Nat /\ Len(got[4].data) >= 2
    BY <1>2, <1>5, <1>6, <1>8, <2>2
  <2>4. LastOf(UNITS, 2, Defaults) = got[4].data
    BY <1>10, <2>3, OnlyFound
  <2>5. SubSeq(kept, 1, 2) = kept
    BY <2>2, SubSeqFull
  <2>6. QED
    BY <1>8, <2>4, <2>5
<1>13. QED
  BY <1>11, <1>12 DEF name, units

LEMMA Moved ==
  ASSUME NEW S, NEW s \in Seq(S), NEW t \in Seq(S), t # <<>>
  PROVE  Append(s, Head(t)) \o Tail(t) = s \o t
<1> DEFINE n == Len(s)
           m == Len(t)
           h == Head(t)
           l == Tail(t)
           a == Append(s, h)
<1>1. /\ h \in S /\ h = t[1] /\ l \in Seq(S) /\ m \in Nat \ {0} /\ Len(l) = m - 1
      /\ \A k \in 1 .. m - 1 : l[k] = t[k + 1]
  BY HeadAndTail
<1> HIDE DEF h, l
<1>2. /\ a \in Seq(S) /\ Len(a) = n + 1 /\ n \in Nat
      /\ \A k \in 1 .. n : a[k] = s[k]
      /\ a[n + 1] = h
  BY <1>1, Appended, AppendProperties
<1> HIDE DEF a
<1>3. /\ a \o l \in Seq(S) /\ Len(a \o l) = n + m
      /\ \A k \in 1 .. n + 1 : (a \o l)[k] = a[k]
      /\ \A k \in 1 .. m - 1 : (a \o l)[n + 1 + k] = l[k]
  <2>1. /\ a \o l \in Seq(S) /\ Len(a \o l) = Len(a) + Len(l)
        /\ \A k \in 1 .. Len(a) : (a \o l)[k] = a[k]
        /\ \A k \in 1 .. Len(l) : (a \o l)[Len(a) + k] = l[k]
    <3>1. a \in Seq(S) /\ l \in Seq(S)
      BY <1>1, <1>2
    <3>2. QED
      BY ONLY <3>1, Concatenated
  <2>2. QED
    BY <1>1, <1>2, <2>1, SMTT(20)
<1>4. /\ s \o t \in Seq(S) /\ Len(s \o t) = n + m
      /\ \A k \in 1 .. n : (s \o t)[k] = s[k]
      /\ \A k \in 1 .. m : (s \o t)[n + k] = t[k]
  BY Concatenated
<1> HIDE DEF n, m
<1>5. ASSUME NEW k \in 1 .. n + m PROVE (a \o l)[k] = (s \o t)[k]
  <2>1. CASE k \in 1 .. n
    <3>1. k \in 1 .. n + 1
      BY <1>2, <2>1
    <3>2. QED
      BY <1>2, <1>3, <1>4, <2>1, <3>1
  <2>2. CASE k = n + 1
    <3>1. n + 1 \in 1 .. n + 1 /\ 1 \in 1 .. m
      BY <1>1, <1>2
    <3>2. (a \o l)[n + 1] = h /\ (s \o t)[n + 1] = t[1]
      BY <1>2, <1>3, <1>4, <3>1
    <3>3. QED
      BY <1>1, <2>2, <3>2
  <2>3. CASE k > n + 1
    <3> DEFINE i == k - n - 1
    <3>1. i \in 1 .. m - 1 /\ i + 1 \in 1 .. m /\ k = n + 1 + i /\ k = n + (i + 1)
      BY <1>1, <1>2, <2>3
    <3> HIDE DEF i
    <3>2. (a \o l)[n + 1 + i] = l[i] /\ (s \o t)[n + (i + 1)] = t[i + 1] /\ l[i] = t[i + 1]
      BY <1>1, <1>3, <1>4, <3>1
    <3>3. QED
      BY <3>1, <3>2
  <2>4. QED
    <3>1. k \in 1 .. n \/ k = n + 1 \/ k > n + 1
      BY <1>1, <1>2
    <3>2. QED
      BY <2>1, <2>2, <2>3, <3>1
<1>6. a \o l = s \o t
  BY <1>3, <1>4, <1>5, SeqEqual
<1>7. QED
  BY <1>6 DEF a, h, l

\* Rewrite starts from a library that was read: once settled, from the same again.
LEMMA RewriteSettles ==
  ASSUME OwnStreamInv, WholeInv, NamesInv, StuckInv, RewrittenInv, Rewrite, round >= 1
  PROVE  Reread(todo', round >= 2) /\ (round >= 3 => todo' = written)
<1> DEFINE name  == LastOf(LIBNAME, 0, <<>>)
           units == SubSeq(LastOf(UNITS, 2, Defaults), 1, 2)
<1>1. /\ phase = "read" /\ status = "ok" /\ whole /\ todo' = Document(name, units)
      /\ got \in Seq(Record) /\ round \in Nat
  BY DEF Rewrite, OwnStreamInv, BytesInv, RewrittenInv
<1>2. CASE round = 1
  <2>1. name \in Seq(Byte) /\ units \in Seq(Double) /\ Len(units) = 2
    <3> DEFINE u == LastOf(UNITS, 2, Defaults)
    <3>1. LIBNAME \in Byte /\ UNITS \in Byte
      BY Bases DEF LIBNAME, UNITS
    <3>2. name \in Seq(Byte)
      <4>1. <<>> \in Seq(Byte) /\ Len(<<>>) >= 0
        OBVIOUS
      <4>2. QED
        BY <1>1, <3>1, <4>1, LastRecord, Types
    <3>3. u \in Seq(Double) /\ Len(u) >= 2
      <4>1. /\ got \in Seq(Record) /\ Defaults \in Seq(Datum(DataType(UNITS)))
            /\ Len(Defaults) >= 2
        BY <1>1, Types, DocumentsAssumption
      <4>2. u \in Seq(Datum(DataType(UNITS))) /\ Len(u) >= 2
        BY <3>1, <4>1, LastRecord
      <4>3. QED
        BY <4>2, Types
    <3> HIDE DEF u
    <3>4. \A k \in 1 .. 2 : u[k] \in Double
      BY <3>3, ElementOfSeq, LenProperties
    <3>5. SubSeq(u, 1, 2) \in Seq(Double) /\ Len(SubSeq(u, 1, 2)) = 2
      BY <3>4, SubSeqProperties
    <3>6. QED
      BY <3>2, <3>5 DEF u
  <2>2. NulFree(name) /\ Len(name) + 4 < Base * Base
    <3>1. CASE name = <<>>
      <4>1. Base * Base > 4
        BY Squares
      <4>2. Len(<<>>) = 0 /\ NulFree(<<>>) /\ Base * Base \in Nat
        BY Bases DEF NulFree
      <4>3. QED
        BY <3>1, <4>1, <4>2
    <3>2. CASE \E k \in 1 .. Len(got) : got[k].rt = LIBNAME /\ name = got[k].data
      BY <1>1, <3>2 DEF NamesInv
    <3>3. QED
      BY <1>1, <3>1, <3>2, LastFound
  <2> HIDE DEF name, units
  <2>3. Reread(Document(name, units), FALSE)
    BY <2>1, <2>2, RereadDocument
  <2>4. (round >= 2) = FALSE /\ ~ (round >= 3)
    BY <1>2
  <2>5. QED
    BY <1>1, <2>3, <2>4
<1>3. CASE round >= 2
  <2> DEFINE n0 == written[3].data
             u0 == written[4].data
             k0 == [k \in 1 .. 2 |-> Kept(u0[k])]
  <2>1. name = n0 /\ units = k0
    BY <1>1, <1>3, RereadRead
  <2>2. /\ n0 \in Seq(Byte) /\ u0 \in Seq(Double) /\ Len(u0) = 2
        /\ written = Document(n0, u0)
        /\ NulFree(n0) /\ Len(n0) + 4 < Base * Base
        /\ round >= 3 => \A k \in 1 .. 2 : Kept(u0[k]) = u0[k]
    BY <1>1, <1>3 DEF RewrittenInv, Reread
  <2> HIDE DEF n0, u0
  <2>3. k0 \in Seq(Double) /\ Len(k0) = 2
    <3>1. \A k \in 1 .. 2 : Kept(u0[k]) \in Double
      <4>1. \A k \in 1 .. 2 : u0[k] \in Double
        BY <2>2, ElementOfSeq
      <4>2. QED
        BY <4>1, KeptDouble
    <3>2. QED
      BY <3>1, IsASeq
  <2>4. \A k \in 1 .. 2 : Kept(k0[k]) = k0[k]
    BY KeptTwice
  <2>5. round >= 3 => k0 = u0
    <3>1. SUFFICES ASSUME round >= 3 PROVE k0 = u0
      OBVIOUS
    <3>2. \A k \in 1 .. 2 : k0[k] = u0[k]
      BY <2>2, <3>1
    <3> HIDE DEF k0
    <3>3. QED
      BY <2>2, <2>3, <3>2, SeqEqual
  <2> HIDE DEF k0
  <2>6. todo' = Document(n0, k0)
    BY <1>1, <2>1
  <2>7. Reread(Document(n0, k0), TRUE)
    BY <2>2, <2>3, <2>4, RereadDocument
  <2>8. (round >= 2) = TRUE
    BY <1>3
  <2>9. round >= 3 => todo' = written
    BY <2>2, <2>5, <2>6
  <2>10. QED
    BY <2>6, <2>7, <2>8, <2>9
<1>4. round = 1 \/ round >= 2
  BY <1>1
<1>5. QED
  BY <1>2, <1>3, <1>4

LEMMA RewrittenStep ==
  ASSUME OwnStreamInv, WholeInv, NamesInv, StuckInv, RewrittenInv, [ByteNext]_byteVars
  PROVE  RewrittenInv'
<1>1. round \in Nat /\ written \in Seq(Record) /\ todo \in Seq(Record)
  BY DEF RewrittenInv, OwnStreamInv, BytesInv
<1>2. CASE WriteRecord
  <2>1. /\ todo # <<>> /\ phase = "write" /\ UNCHANGED <<phase, round>>
        /\ written' = Append(written, Head(todo)) /\ todo' = Tail(todo)
    BY <1>2 DEF WriteRecord, Writing
  <2>2. written' \o todo' = written \o todo
    BY <1>1, <2>1, Moved
  <2>3. QED
    BY <2>1, <2>2 DEF RewrittenInv
<1>3. CASE Open
  <2>1. /\ phase = "write" /\ phase' = "read" /\ todo = <<>> /\ round' = round + 1
        /\ UNCHANGED written
    BY <1>3 DEF Open, writerVars
  <2>2. written \o todo = written
    BY <1>1, <2>1
  <2>3. round' \in Nat /\ (round' >= 2 => round >= 1) /\ (round' >= 3) = (round >= 2)
    BY <1>1, <2>1
  <2>4. round' >= 2 => Reread(written, round >= 2)
    BY <2>1, <2>2, <2>3 DEF RewrittenInv
  <2>5. QED
    BY <2>1, <2>3, <2>4 DEF RewrittenInv
<1>4. CASE Rewrite
  <2>1. phase' = "write" /\ written' = <<>> /\ UNCHANGED round
    BY <1>4 DEF Rewrite
  <2>2. todo' \in Seq(Record)
    BY BytesStep DEF OwnStreamInv, BytesInv
  <2>3. written' \o todo' = todo'
    BY <2>1, <2>2
  <2>4. round >= 1 => Reread(todo', round >= 2)
    BY <1>4, RewriteSettles
  <2>5. QED
    BY <1>1, <2>1, <2>3, <2>4 DEF RewrittenInv
<1>5. CASE UNCHANGED <<phase, todo, written, round>>
  BY <1>5 DEF RewrittenInv
<1>6. QED
  BY <1>2, <1>3, <1>4, <1>5
     DEF ByteNext, WritesOn, ReadsOn, BeginDouble, EncodeDouble, WriteDouble, EndOfFile, BadRecordLength,
         NextRecord, byteVars, writerVars, readerVars

\* Whatever a stream of another program says of its units and its name, and whatever
\* was first written: from the third stream on, what is read whole and written again
\* is what stood there, record by record.
THEOREM SettlingCorrect == ByteSpec => RewritesSettle
<1> DEFINE Inv == OwnStreamInv /\ WholeInv /\ NamesInv /\ StuckInv /\ RewrittenInv
           Settles == phase = "read" /\ phase' = "write" /\ round >= 3 => todo' = written
<1>1. ByteInit => WholeInv /\ NamesInv /\ StuckInv /\ RewrittenInv
  <2>1. SUFFICES ASSUME ByteInit PROVE WholeInv /\ NamesInv /\ StuckInv /\ RewrittenInv
    OBVIOUS
  <2>2. /\ got = <<>> /\ written = <<>>
        /\ \/ phase = "write" /\ round = 0
           \/ phase = "read" /\ round = 1
    BY <2>1 DEF ByteInit
  <2>3. ~ (phase = "read" /\ round >= 2) /\ ~ (phase = "write" /\ round >= 1) /\ round \in Nat
    BY <2>2
  <2>4. \A k \in 1 .. Len(got) : FALSE
    BY <2>2, Sequences
  <2>5. QED
    BY <2>2, <2>3, <2>4 DEF WholeInv, NamesInv, StuckInv, RewrittenInv
<1>2. OwnStreamInv /\ OwnStreamInv' /\ WholeInv /\ NamesInv /\ StuckInv /\ RewrittenInv
        /\ [ByteNext]_byteVars => (WholeInv /\ NamesInv /\ StuckInv /\ RewrittenInv)'
  BY WholeStep, NamesStep, StuckStep, RewrittenStep DEF OwnStreamInv
<1>3. OwnStreamInv /\ WholeInv /\ NamesInv /\ StuckInv /\ RewrittenInv /\ [ByteNext]_byteVars
        => [Settles]_byteVars
  <2>1. SUFFICES ASSUME OwnStreamInv, WholeInv, NamesInv, StuckInv, RewrittenInv,
                        [ByteNext]_byteVars, phase = "read", phase' = "write", round >= 3
                 PROVE  todo' = written
    OBVIOUS
  <2>2. Rewrite
    BY <2>1 DEF ByteNext, WritesOn, ReadsOn, WriteRecord, Writing, BeginDouble, EncodeDouble,
       WriteDouble, Open,
         EndOfFile, BadRecordLength, NextRecord, byteVars, writerVars, readerVars,
         OwnStreamInv, BytesInv
  <2>3. round >= 1
    BY <2>1 DEF RewrittenInv
  <2>4. QED
    BY <2>1, <2>2, <2>3, RewriteSettles
<1> HIDE DEF Settles
<1>4. ByteSpec => [][Settles]_byteVars
  BY <1>1, <1>2, <1>3, OwnStream, PTL DEF ByteSpec
<1>5. QED
  BY <1>4, PTL DEF RewritesSettle, Settles

----------------------------------------------------------------------------
(* Every loop runs out *)

\* The steps that f64_to_real8 has left: passes of the loop that its value needs,
\* told by the greatest bit, and the packing.
TopOf(bits) == CHOOSE p \in bits : \A q \in bits : q <= p

LeftFrom(t) == IF t >= 0 THEN t + 2 ELSE IF t < -4 THEN - t - 3 ELSE 1

EncodeLeft == IF coding = "scale" THEN LeftFrom(TopOf(v)) ELSE 0

LEMMA TopBit ==
  ASSUME NEW bits \in SUBSET Int, bits # {}, FitsDouble(bits)
  PROVE  \E t \in bits : \A q \in bits : q <= t
<1>1. PICK p \in bits : TRUE
  OBVIOUS
<1>2. p + P \in Int /\ \A q \in bits : q <= p + P
  BY <1>1, WidthsAssumption DEF FitsDouble
<1>3. QED
  BY <1>2, Greatest

LEMMA TopIs ==
  ASSUME NEW bits \in SUBSET Int, NEW t \in bits, \A q \in bits : q <= t
  PROVE  TopOf(bits) = t
<1> DEFINE c == CHOOSE p \in bits : \A q \in bits : q <= p
<1>1. c \in bits /\ \A q \in bits : q <= c
  OBVIOUS
<1> HIDE DEF c
<1>2. c \in Int /\ t \in Int /\ c <= t /\ t <= c
  BY <1>1
<1>3. c = t
  BY <1>2
<1>4. QED
  BY <1>3 DEF c, TopOf

LEMMA TopShifts ==
  ASSUME NEW bits \in SUBSET Int, NEW t \in bits, \A q \in bits : q <= t, NEW k \in Int
  PROVE  /\ Shift(bits, k) \in SUBSET Int /\ t + k \in Shift(bits, k)
         /\ \A q \in Shift(bits, k) : q <= t + k
BY DEF Shift

LEMMA EncodeShrinks ==
  ASSUME RealInv
  PROVE  EncodeLeft \in Nat /\ (EncodeStep => EncodeLeft' < EncodeLeft)
<1>1. CASE coding # "scale"
  BY <1>1 DEF EncodeLeft, EncodeStep, ScaleDown, ScaleUp, Pack, Scaled
<1>2. CASE coding = "scale"
  <2>1. v \in SUBSET Int /\ v # {} /\ FitsDouble(v)
    BY <1>2 DEF RealInv, ScalingExact
  <2>2. PICK t \in v : \A q \in v : q <= t
    BY <2>1, TopBit
  <2>3. t \in Int /\ TopOf(v) = t
    BY <2>1, <2>2, TopIs
  <2>4. EncodeLeft = LeftFrom(t)
    BY <1>2, <2>3 DEF EncodeLeft
  <2>5. LeftFrom(t) \in Nat \ {0}
    BY <2>3 DEF LeftFrom
  <2>6. ASSUME NEW k \in {-4, 4}, v' = Shift(v, k), coding' = "scale"
        PROVE  EncodeLeft' = LeftFrom(t + k)
    <3>1. v' \in SUBSET Int /\ t + k \in v' /\ \A q \in v' : q <= t + k
      BY <2>1, <2>2, <2>6, TopShifts
    <3>2. TopOf(v') = t + k
      BY <3>1, TopIs
    <3>3. TopOf(v)' = t + k
      BY <3>2 DEF TopOf
    <3>4. QED
      BY <2>6, <3>3 DEF EncodeLeft
  <2>7. CASE ScaleDown
    <3>1. t >= 0
      <4>1. PICK p \in v : p >= 0
        BY <2>7 DEF ScaleDown
      <4>2. p \in Int /\ p <= t
        BY <2>1, <2>2
      <4>3. QED
        BY <2>3, <4>1, <4>2
    <3>2. v' = Shift(v, -4) /\ coding' = "scale"
      BY <1>2, <2>7 DEF ScaleDown
    <3>3. EncodeLeft' = LeftFrom(t + (-4))
      BY <2>6, <3>2
    <3>4. LeftFrom(t + (-4)) < LeftFrom(t)
      BY <2>3, <3>1 DEF LeftFrom
    <3>5. QED
      BY <2>4, <2>5, <3>3, <3>4
  <2>8. CASE ScaleUp
    <3>1. t < -4
      BY <2>2, <2>8 DEF ScaleUp
    <3>2. v' = Shift(v, 4) /\ coding' = "scale"
      BY <1>2, <2>8 DEF ScaleUp
    <3>3. EncodeLeft' = LeftFrom(t + 4)
      BY <2>6, <3>2
    <3>4. LeftFrom(t + 4) < LeftFrom(t)
      BY <2>3, <3>1 DEF LeftFrom
    <3>5. QED
      BY <2>4, <2>5, <3>3, <3>4
  <2>9. CASE Pack
    <3>1. coding' = "done"
      BY <2>9 DEF Pack
    <3>2. EncodeLeft' = 0
      BY <3>1 DEF EncodeLeft
    <3>3. LeftFrom(t) > 0
      BY <2>5
    <3>4. QED
      BY <2>4, <2>5, <3>2, <3>3
  <2>10. QED
    BY <2>4, <2>5, <2>7, <2>8, <2>9 DEF EncodeStep
<1>3. QED
  BY <1>1, <1>2

\* A writer has fewer records to write, or fewer doubles of one, or the encoding of
\* one begins or comes nearer to its end; or the stream is opened.
WriterAdvances ==
  \/ phase' = "read" /\ round' = round + 1
  \/ /\ phase' = "write" /\ round' = round
     /\ \/ Len(todo') < Len(todo)
        \/ todo' = todo /\ Len(doubles') < Len(doubles)
        \/ /\ UNCHANGED <<todo, doubles>>
           /\ (coding = "idle" /\ coding' # "idle") \/ EncodeLeft' < EncodeLeft

\* A reader goes at least a header further, or answers; an answer may be written again.
ReaderAdvances ==
  /\ round' = round
  /\ \/ status = "reading" /\ phase' = "read" /\ status' # "reading"
     \/ /\ status = "reading" /\ phase' = "read" /\ UNCHANGED file
        /\ pos + 4 <= pos' /\ pos' <= Len(file)
     \/ status # "reading" /\ phase' = "write" /\ round < MaxRounds

StreamAdvances ==
  (phase = "write" => WriterAdvances) /\ (phase = "read" => ReaderAdvances)

LEMMA StreamStep == ASSUME BytesInv, ByteNext PROVE StreamAdvances
<1>1. /\ todo \in Seq(Record) /\ doubles \in Seq(Double) /\ file \in Seq(Byte)
      /\ pos \in Nat /\ Len(file) \in Nat /\ RealInv
      /\ coding # "idle" => phase = "write" /\ doubles # <<>>
      /\ phase \in {"write", "read"}
  BY LenProperties DEF BytesInv
<1>2. CASE WriteRecord
  <2>1. /\ phase = "write" /\ phase' = "write" /\ round' = round /\ todo # <<>>
        /\ todo' = Tail(todo)
    BY <1>2 DEF WriteRecord, Writing
  <2>2. Len(Tail(todo)) = Len(todo) - 1 /\ Len(todo) \in Nat
    BY <1>1, <2>1, HeadAndTail
  <2>3. Len(Tail(todo)) < Len(todo)
    BY <2>2
  <2>4. Len(todo') < Len(todo)
    BY <2>1, <2>3
  <2>5. QED
    BY <2>1, <2>4 DEF StreamAdvances, WriterAdvances
<1>3. CASE BeginDouble
  BY <1>3 DEF BeginDouble, StartEncode, writerVars, StreamAdvances, WriterAdvances
<1>4. CASE EncodeDouble
  <2>1. coding # "idle" /\ EncodeLeft' < EncodeLeft
    BY <1>1, <1>4, EncodeShrinks
       DEF EncodeDouble, EncodeStep, ScaleDown, ScaleUp, Pack, Scaled
  <2>2. QED
    BY <1>1, <1>4, <2>1 DEF EncodeDouble, writerVars, StreamAdvances, WriterAdvances
<1>5. CASE WriteDouble
  <2>1. /\ phase = "write" /\ phase' = "write" /\ round' = round /\ doubles # <<>>
        /\ todo' = todo /\ doubles' = Tail(doubles)
    BY <1>1, <1>5 DEF WriteDouble
  <2>2. Len(Tail(doubles)) = Len(doubles) - 1 /\ Len(doubles) \in Nat
    BY <1>1, <2>1, HeadAndTail
  <2>3. Len(Tail(doubles)) < Len(doubles)
    BY <2>2
  <2>4. Len(doubles') < Len(doubles)
    BY <2>1, <2>3
  <2>5. QED
    BY <2>1, <2>4 DEF StreamAdvances, WriterAdvances
<1>6. CASE Open
  BY <1>6 DEF Open, StreamAdvances, WriterAdvances
<1>7. CASE EndOfFile
  BY <1>7 DEF EndOfFile, Reading, StreamAdvances, ReaderAdvances
<1>8. CASE BadRecordLength
  BY <1>8 DEF BadRecordLength, Reading, StreamAdvances, ReaderAdvances
<1>9. CASE NextRecord
  <2>1. /\ phase = "read" /\ status = "reading" /\ phase' = "read" /\ round' = round
        /\ UNCHANGED file /\ pos' = pos + Length /\ Length \in 4 .. Remaining
        /\ Remaining >= 4
    BY <1>9 DEF NextRecord, Reading
  <2>2. Length \in Int /\ 4 <= Length /\ Length <= Len(file) - pos
    BY <2>1 DEF Remaining
  <2>3. pos + 4 <= pos' /\ pos' <= Len(file)
    BY <1>1, <2>1, <2>2
  <2>4. QED
    BY <2>1, <2>3 DEF StreamAdvances, ReaderAdvances
<1>10. CASE Rewrite
  BY <1>10 DEF Rewrite, StreamAdvances, ReaderAdvances
<1>11. QED
  BY <1>2, <1>3, <1>4, <1>5, <1>6, <1>7, <1>8, <1>9, <1>10 DEF ByteNext, WritesOn, ReadsOn

\* Of every stream, ours or of another program, each step of the writer, of
\* f64_to_real8 and of next_record leaves less to be done: no record stands still, no
\* double is scaled back and forth, whatever its bits and whatever the widths.
THEOREM StreamRunsOut ==
  ByteSpec => [](EncodeLeft \in Nat) /\ [][StreamAdvances]_byteVars
<1>1. BytesInv => EncodeLeft \in Nat
  BY EncodeShrinks DEF BytesInv
<1>2. BytesInv /\ [ByteNext]_byteVars => [StreamAdvances]_byteVars
  BY StreamStep
<1>3. QED
  BY <1>1, <1>2, BytesInitial, BytesStep, PTL DEF ByteSpec

====
