------------------------------- MODULE GdsReal -------------------------------
(***************************************************************************)
(* GDSII's 8-byte reals (crates/api/src/io/gds.rs, real8_to_f64 and        *)
(* f64_to_real8).  The magnitude of a number is the set of the weights of  *)
(* its one-bits, {0, -2} for 1.25: to multiply by 16 is to shift the set   *)
(* by four.  A double has P significant bits (53 in the code), a real a    *)
(* mantissa of Q bits (56) and an exponent of base 16 and excess Bias      *)
(* (64).                                                                   *)
(***************************************************************************)
EXTENDS Integers, Sequences, SequencesExt

CONSTANTS P, Q, Bias

\* The mantissa has a hex digit's worth of room, less one bit, for a double.
ASSUME WidthsAssumption ==
  P \in Nat \ {0} /\ Q \in Nat /\ Bias \in Nat \ {0} /\ Q >= P + 3

Shift(bits, k) == {p + k : p \in bits}

\* Whether a double can hold these bits.
FitsDouble(bits) == \A p, q \in bits : p - q < P

\* 2^p more.
Plus(bits, p) ==
  LET free == CHOOSE q \in p .. p + Q : q \notin bits /\ p .. q - 1 \subseteq bits
  IN  (bits \ (p .. free)) \cup {free}

\* `as f64`: to nearest, ties to even.
ToDouble[bits \in SUBSET Int] ==
  LET top   == CHOOSE p \in bits : \A q \in bits : q <= p
      low   == top - P + 1
      upper == {p \in bits : p >= low}
  IN  IF FitsDouble(bits) THEN bits
      ELSE IF low - 1 \in bits /\ (low \in bits \/ \E p \in bits : p < low - 1)
      THEN Plus(upper, low) ELSE upper

\* f64::round: to an integer, halves away from zero.
RoundToInteger(bits) ==
  LET kept == {p \in bits : p >= 0}
  IN  IF -1 \in bits THEN Plus(kept, 0) ELSE kept

Real8 == [neg : BOOLEAN, biased : 0 .. 2 * Bias - 1, mantissa : SUBSET (0 .. Q - 1)]
Zero8 == [neg |-> FALSE, biased |-> 0, mantissa |-> {}]

Double == [neg : BOOLEAN, bits : {b \in SUBSET Int : FitsDouble(b)}]
Zero   == [neg |-> FALSE, bits |-> {}]

\* The weights of a real's bits.
Weights(r) == Shift(r.mantissa, 4 * (r.biased - Bias) - Q)

\* Mutant: the exponent's excess is one too small.
DecodeOffByOne(r) ==
  IF r.mantissa = {} THEN Zero
  ELSE [neg |-> r.neg, bits |-> ToDouble[Shift(r.mantissa, 4 * (r.biased + 1 - Bias) - Q)]]

\* real8_to_f64: a mantissa of zero is zero, and has no sign.
Decode(r) ==
  IF r.mantissa = {} THEN Zero
  ELSE [neg |-> r.neg, bits |-> ToDouble[Weights(r)]]

----------------------------------------------------------------------------
(* f64_to_real8, one step for each pass of its loops *)

VARIABLES
  coding,     \* "idle", "scale" in the loops, or "done"
  value,      \* the double to be encoded
  v,          \* the bits of v
  exponent,
  real8       \* the answer

realVars == <<coding, value, v, exponent, real8>>

RealInit ==
  coding = "idle" /\ value = Zero /\ v = {} /\ exponent = 0 /\ real8 = Zero8

\* Units are read from a stream or are the defaults, so that they are finite.
StartEncode(d) ==
  /\ coding = "idle"
  /\ coding' = IF d.bits = {} THEN "done" ELSE "scale"
  /\ value' = d /\ v' = d.bits /\ exponent' = 0 /\ real8' = Zero8

\* v >= 1.0
ScaleDown ==
  /\ coding = "scale" /\ \E p \in v : p >= 0
  /\ v' = Shift(v, -4) /\ exponent' = exponent + 1
  /\ UNCHANGED <<coding, value, real8>>

\* v < 1.0 / 16.0
ScaleUp ==
  /\ coding = "scale" /\ \A p \in v : p < -4
  /\ v' = Shift(v, 4) /\ exponent' = exponent - 1
  /\ UNCHANGED <<coding, value, real8>>

Scaled == coding = "scale" /\ (\A p \in v : p < 0) /\ (\E p \in v : p >= -4)

\* Mutant: an exponent out of range is clamped into it.
PackClamped ==
  /\ Scaled
  /\ LET biased == exponent + Bias
     IN  real8' = [ neg |-> value.neg, mantissa |-> RoundToInteger(Shift(v, Q)),
                    biased |-> IF biased < 0 THEN 0
                               ELSE IF biased >= 2 * Bias THEN 2 * Bias - 1 ELSE biased ]
  /\ coding' = "done"
  /\ UNCHANGED <<value, v, exponent>>

\* Round, renormalize a mantissa that reached 1.0, and give up on an exponent
\* that is out of range.
Pack ==
  /\ Scaled
  /\ LET mantissa == RoundToInteger(Shift(v, Q))
         over     == \E p \in mantissa : p >= Q
         biased   == exponent + Bias + (IF over THEN 1 ELSE 0)
         digits   == IF over THEN {p \in Shift(mantissa, -4) : p >= 0} ELSE mantissa
     IN  real8' = IF biased \in 0 .. 2 * Bias - 1
                  THEN [neg |-> value.neg, biased |-> biased, mantissa |-> digits]
                  ELSE Zero8
  /\ coding' = "done"
  /\ UNCHANGED <<value, v, exponent>>

EncodeStep == ScaleDown \/ ScaleUp \/ Pack

----------------------------------------------------------------------------
(* What must hold of the encoder *)

\* While the loops run no bit is lost and 16^exponent makes up for the shifts.
ScalingExact ==
  coding = "scale" => /\ v # {} /\ FitsDouble(v)
                      /\ Shift(v, 4 * exponent) = value.bits

\* Neither the rounding nor the renormalization ever does anything: a double
\* has a real of the same value, whose first hex digit is not zero, unless its
\* exponent is out of range; then it is written as zero.
EncodingExact ==
  coding = "done" /\ value.bits # {} =>
    \/ /\ real8.neg = value.neg /\ Weights(real8) = value.bits
       /\ \E p \in real8.mantissa : p >= Q - 4
    \/ /\ real8 = Zero8
       /\ \/ \E p \in value.bits : p >= 4 * (Bias - 1)
          \/ \A p \in value.bits : p < -4 * (Bias + 1)
=============================================================================
