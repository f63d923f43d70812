---------------------------- MODULE LibraryLemmas ----------------------------
(***************************************************************************)
(* What the proofs need to know of the library's operators: extrema of     *)
(* finite sets, sequences laid end to end, sums, and the place of a number *)
(* among the members of a finite set.  The library states its principles   *)
(* of induction for operators, which no prover here instantiates; each is  *)
(* restated for a set or a function, of which a proof can name one.        *)
(***************************************************************************)
EXTENDS Listing, Integers, SequencesExt, FiniteSetTheorems, SequenceTheorems,
        WellFoundedInduction, TLAPS

----------------------------------------------------------------------------
(* Numbers *)

\* A non-empty set of naturals has a least element, which Min chooses.
LEMMA MinOfNaturals ==
  ASSUME NEW S \in SUBSET Nat, S # {}
  PROVE  Min(S) \in S /\ \A y \in S : Min(S) <= y
<1>1. \E x \in S : \A y \in S : ~ (<<y, x>> \in OpToRel(<, Nat))
  BY NatLessThanWellFounded, WFMin
<1>2. ASSUME NEW x \in Nat, NEW y \in Nat
      PROVE  <<y, x>> \in OpToRel(<, Nat) <=> y < x
  BY DEF OpToRel
<1>3. \E x \in S : \A y \in S : ~ (y < x)
  BY <1>1, <1>2
<1>4. \E x \in S : \A y \in S : x <= y
  BY <1>3
<1>. QED
  BY <1>4 DEF Min

\* Induction: a set of naturals with 0 and with the successor of each member.
LEMMA AllNaturals ==
  ASSUME NEW S, 0 \in S, \A n \in Nat : n \in S => n + 1 \in S
  PROVE  \A n \in Nat : n \in S
<1>. DEFINE Rest == {n \in Nat : n \notin S}
<1>. SUFFICES ASSUME Rest # {} PROVE FALSE
  OBVIOUS
<1>1. Min(Rest) \in Rest /\ \A y \in Rest : Min(Rest) <= y
  BY MinOfNaturals
<1>2. PICK m \in Rest : \A y \in Rest : m <= y
  BY <1>1
<1>3. m \in Nat /\ m # 0 /\ m - 1 \in Nat /\ m - 1 \notin Rest
  BY <1>2
<1>. QED
  BY <1>2, <1>3

\* Up to a bound.
LEMMA AllUpTo ==
  ASSUME NEW N \in Nat, NEW S, 0 \in S,
         \A n \in Nat : n < N /\ n \in S => n + 1 \in S
  PROVE  \A n \in 0 .. N : n \in S
<1>. DEFINE T == {n \in Nat : n <= N => n \in S}
<1>1. 0 \in T /\ \A n \in Nat : n \in T => n + 1 \in T
  OBVIOUS
<1>2. \A n \in Nat : n \in T
  <2>. HIDE DEF T
  <2>. QED
    BY <1>1, AllNaturals
<1>. QED
  BY <1>2

\* Sequences: the empty one, and each with one more element.
LEMMA AllSequences ==
  ASSUME NEW S, NEW T, <<>> \in T,
         \A s \in Seq(S), e \in S : s \in T => Append(s, e) \in T
  PROVE  \A s \in Seq(S) : s \in T
<1>. DEFINE N == {n \in Nat : \A s \in Seq(S) : Len(s) = n => s \in T}
<1>1. 0 \in N
  OBVIOUS
<1>2. ASSUME NEW n \in Nat, n \in N
      PROVE  n + 1 \in N
  <2>1. ASSUME NEW s \in Seq(S), Len(s) = n + 1
        PROVE  s \in T
    <3>. DEFINE front == SubSeq(s, 1, n)
    <3>1. front \in Seq(S) /\ Len(front) = n /\ s[n + 1] \in S
      BY <2>1
    <3>2. s = Append(front, s[n + 1])
      BY <2>1
    <3>3. front \in T
      BY <1>2, <3>1
    <3>. HIDE DEF front
    <3>. QED
      BY <3>1, <3>2, <3>3
  <2>. QED
    BY <2>1
<1>3. \A n \in Nat : n \in N
  <2>. HIDE DEF N
  <2>. QED
    BY <1>1, <1>2, AllNaturals
<1>. QED
  BY <1>3

\* A non-empty set of naturals below a bound has a greatest element, which Max
\* chooses.
LEMMA MaxOfNaturals ==
  ASSUME NEW N \in Nat, NEW S \in SUBSET (0 .. N), S # {}
  PROVE  Max(S) \in S /\ \A y \in S : y <= Max(S)
<1>. DEFINE Flipped == {N - x : x \in S}
<1>1. Flipped \in SUBSET Nat /\ Flipped # {}
  <2>1. \A x \in S : x \in 0 .. N /\ N - x \in Nat
    OBVIOUS
  <2>. QED
    BY <2>1
<1>2. PICK m \in Flipped : \A y \in Flipped : m <= y
  <2>. HIDE DEF Flipped
  <2>. QED
    BY <1>1, MinOfNaturals
<1>3. PICK x \in S : m = N - x
  OBVIOUS
<1>4. \A y \in S : N - x <= N - y
  BY <1>2, <1>3
<1>5. \A y \in S : x >= y
  <2>1. x \in Int /\ \A y \in S : y \in Int
    OBVIOUS
  <2>. HIDE DEF Flipped
  <2>. QED
    BY <1>4, <2>1
<1>6. Max(S) \in S /\ \A y \in S : Max(S) >= y
  BY <1>5 DEF Max
<1>. QED
  BY <1>6

\* The greatest element is the one that is.
LEMMA MaxIs ==
  ASSUME NEW S \in SUBSET Int, NEW m \in S, \A x \in S : x <= m
  PROVE  Max(S) = m
<1>1. \A x \in S : x \in Int /\ m >= x
  OBVIOUS
<1>2. Max(S) \in S /\ \A y \in S : Max(S) >= y
  BY <1>1 DEF Max
<1>3. Max(S) \in Int /\ m \in Int /\ Max(S) >= m /\ m >= Max(S)
  BY <1>1, <1>2
<1>. QED
  BY <1>3

----------------------------------------------------------------------------
(* Sequences laid end to end *)

\* One sequence after another.
LEMMA Joined ==
  ASSUME NEW S, NEW a \in Seq(S), NEW b \in Seq(S)
  PROVE  /\ a \o b \in Seq(S) /\ Len(a \o b) = Len(a) + Len(b)
         /\ \A i \in 1 .. Len(a) : (a \o b)[i] = a[i]
         /\ \A i \in 1 .. Len(b) : (a \o b)[Len(a) + i] = b[i]
OBVIOUS

LEMMA OneAndOne ==
  ASSUME NEW S, NEW x \in S, NEW y \in S
  PROVE  /\ <<x>> \in Seq(S) /\ Len(<<x>>) = 1 /\ <<x>>[1] = x
         /\ <<x>> \o <<y>> \in Seq(S) /\ Len(<<x>> \o <<y>>) = 2
         /\ (<<x>> \o <<y>>)[1] = x /\ (<<x>> \o <<y>>)[2] = y
<1>1. <<x>> \in Seq(S) /\ <<y>> \in Seq(S) /\ Len(<<x>>) = 1 /\ Len(<<y>>) = 1
  OBVIOUS
<1>2. <<x>>[1] = x /\ <<y>>[1] = y
  OBVIOUS
<1>. DEFINE a == <<x>>
            b == <<y>>
<1>. HIDE DEF a, b
<1>3. a \o b \in Seq(S) /\ Len(a \o b) = 2 /\ (a \o b)[1] = a[1] /\ (a \o b)[2] = b[1]
  BY <1>1 DEF a, b
<1>. QED
  BY <1>1, <1>2, <1>3 DEF a, b

\* A sequence between two others.
LEMMA Between ==
  ASSUME NEW S, NEW a \in Seq(S), NEW b \in Seq(S), NEW c \in Seq(S)
  PROVE  /\ a \o b \o c \in Seq(S)
         /\ Len(a) \in Nat /\ Len(b) \in Nat /\ Len(c) \in Nat
         /\ Len(a \o b \o c) = Len(a) + Len(b) + Len(c)
         /\ \A i \in 1 .. Len(a) : (a \o b \o c)[i] = a[i]
         /\ \A i \in 1 .. Len(b) : (a \o b \o c)[Len(a) + i] = b[i]
         /\ \A i \in 1 .. Len(c) : (a \o b \o c)[Len(a) + Len(b) + i] = c[i]
<1>. DEFINE ab == a \o b
<1>1. /\ ab \in Seq(S) /\ Len(ab) = Len(a) + Len(b) /\ Len(a) \in Nat /\ Len(b) \in Nat
      /\ \A i \in 1 .. Len(a) : ab[i] = a[i]
      /\ \A i \in 1 .. Len(b) : ab[Len(a) + i] = b[i]
  OBVIOUS
<1>. HIDE DEF ab
<1>2. /\ ab \o c \in Seq(S) /\ Len(ab \o c) = Len(ab) + Len(c) /\ Len(c) \in Nat
      /\ \A i \in 1 .. Len(ab) : (ab \o c)[i] = ab[i]
      /\ \A i \in 1 .. Len(c) : (ab \o c)[Len(ab) + i] = c[i]
  <2>1. \A s, t \in Seq(S) :
          /\ s \o t \in Seq(S) /\ Len(s \o t) = Len(s) + Len(t) /\ Len(t) \in Nat
          /\ \A i \in 1 .. Len(s) : (s \o t)[i] = s[i]
          /\ \A i \in 1 .. Len(t) : (s \o t)[Len(s) + i] = t[i]
    OBVIOUS
  <2>. QED
    BY <1>1, <2>1
<1>3. \A i \in 1 .. Len(a) : (ab \o c)[i] = a[i]
  BY <1>1, <1>2
<1>4. \A i \in 1 .. Len(b) : (ab \o c)[Len(a) + i] = b[i]
  BY <1>1, <1>2
<1>5. \A i \in 1 .. Len(c) : (ab \o c)[Len(a) + Len(b) + i] = c[i]
  BY <1>1, <1>2
<1>6. Len(ab \o c) = Len(a) + Len(b) + Len(c)
  BY <1>1, <1>2
<1>. QED
  BY <1>1, <1>2, <1>3, <1>4, <1>5, <1>6 DEF ab

\* Laying the first sequences end to end, one more at a time.
LaidEnd(seqs, f, i) == IF i = 1 THEN seqs[i] ELSE f[i - 1] \o seqs[i]

\* The library's recursion has a solution.
LEMMA FlattenSolution ==
  ASSUME NEW S, NEW seqs \in Seq(Seq(S))
  PROVE  \E f \in [1 .. Len(seqs) -> Seq(S)] :
           \A i \in 1 .. Len(seqs) : f[i] = LaidEnd(seqs, f, i)
<1>. DEFINE N == Len(seqs)
            Upto(n) == \E f \in [1 .. n -> Seq(S)] : \A i \in 1 .. n : f[i] = LaidEnd(seqs, f, i)
            T == {n \in 0 .. N : Upto(n)}
<1>1. N \in Nat /\ \A i \in 1 .. N : seqs[i] \in Seq(S)
  OBVIOUS
<1>2. 0 \in T
  <2>1. [i \in 1 .. 0 |-> <<>>] \in [1 .. 0 -> Seq(S)]
    OBVIOUS
  <2>2. \A i \in 1 .. 0 : FALSE
    OBVIOUS
  <2>3. Upto(0)
    BY <2>1, <2>2
  <2>. HIDE DEF Upto
  <2>. QED
    BY <1>1, <2>3
<1>3. ASSUME NEW n \in Nat, n < N, n \in T
      PROVE  n + 1 \in T
  <2>1. PICK f \in [1 .. n -> Seq(S)] : \A i \in 1 .. n : f[i] = LaidEnd(seqs, f, i)
    BY <1>3
  <2>. DEFINE last == LaidEnd(seqs, f, n + 1)
              g == [i \in 1 .. n + 1 |-> IF i <= n THEN f[i] ELSE last]
  <2>2. last \in Seq(S)
    <3>1. CASE n = 0
      BY <1>1, <1>3, <3>1 DEF LaidEnd
    <3>2. CASE n # 0
      <4>1. f[n] \in Seq(S) /\ seqs[n + 1] \in Seq(S)
        BY <1>1, <1>3, <2>1, <3>2
      <4>2. (n + 1) - 1 = n /\ n + 1 # 1
        BY <1>3, <3>2
      <4>3. last = f[n] \o seqs[n + 1]
        BY <4>2 DEF LaidEnd
      <4>. HIDE DEF last
      <4>. QED
        BY <4>1, <4>3
    <3>. QED
      BY <3>1, <3>2
  <2>. HIDE DEF last
  <2>3. g \in [1 .. n + 1 -> Seq(S)]
    BY <1>3, <2>1, <2>2
  <2>4. /\ \A i \in 1 .. n : g[i] = f[i]
        /\ g[n + 1] = last
    BY <1>3
  <2>. HIDE DEF g
  <2>5. \A i \in 1 .. n : g[i] = LaidEnd(seqs, g, i)
    <3>1. TAKE i \in 1 .. n
    <3>2. g[i] = f[i] /\ f[i] = LaidEnd(seqs, f, i)
      BY <2>1, <2>4
    <3>3. i # 1 => g[i - 1] = f[i - 1]
      BY <1>3, <2>4
    <3>. QED
      BY <3>2, <3>3 DEF LaidEnd
  <2>6. g[n + 1] = LaidEnd(seqs, g, n + 1)
    <3>1. n # 0 => g[n] = f[n]
      BY <1>3, <2>4
    <3>. QED
      BY <1>3, <2>4, <3>1 DEF last, LaidEnd
  <2>7. \A i \in 1 .. n + 1 : g[i] = LaidEnd(seqs, g, i)
    <3>. QED
      BY <1>3, <2>5, <2>6
  <2>8. Upto(n + 1)
    BY <2>3, <2>7
  <2>. HIDE DEF Upto
  <2>. QED
    BY <1>1, <1>3, <2>8
<1>4. N \in T
  <2>. HIDE DEF N, T
  <2>1. \A n \in 0 .. N : n \in T
    BY <1>1, <1>2, <1>3, AllUpTo
  <2>. QED
    BY <1>1, <2>1
<1>. QED
  BY <1>4

\* Any solution is what the operator answers.
LEMMA FlattenIs ==
  ASSUME NEW S, NEW seqs \in Seq(Seq(S)), seqs # <<>>,
         NEW f \in [1 .. Len(seqs) -> Seq(S)],
         \A i \in 1 .. Len(seqs) : f[i] = LaidEnd(seqs, f, i)
  PROVE  FlattenSeq(seqs) = f[Len(seqs)]
<1>. DEFINE N == Len(seqs)
            IsSolution(g) == g = [i \in 1 .. N |-> IF i = 1 THEN seqs[i]
                                                   ELSE g[i - 1] \o seqs[i]]
            chosen == CHOOSE g : IsSolution(g)
<1>1. N \in Nat /\ N # 0
  OBVIOUS
<1>2. IsSolution(f)
  BY DEF LaidEnd
<1>3. IsSolution(chosen)
  <2>. HIDE DEF IsSolution
  <2>. QED
    BY <1>2
<1>4. FlattenSeq(seqs) = chosen[N]
  BY <1>1 DEF FlattenSeq
<1>. HIDE DEF chosen
<1>5. \A i \in 1 .. N : chosen[i] = LaidEnd(seqs, chosen, i)
  BY <1>3 DEF LaidEnd
<1>6. \A i \in 1 .. N : chosen[i] = f[i]
  <2>. DEFINE U == {n \in 0 .. N : \A i \in 1 .. n : chosen[i] = f[i]}
  <2>2. 0 \in U
    BY <1>1
  <2>3. ASSUME NEW n \in Nat, n < N, n \in U
        PROVE  n + 1 \in U
    <3>1. chosen[n + 1] = f[n + 1]
      <4>1. n + 1 \in 1 .. N
        BY <1>1, <2>3
      <4>2. n # 0 => chosen[n] = f[n]
        BY <2>3
      <4>3. /\ chosen[n + 1] = LaidEnd(seqs, chosen, n + 1)
            /\ f[n + 1] = LaidEnd(seqs, f, n + 1)
        BY <1>5, <4>1
      <4>4. (n + 1) - 1 = n /\ (n + 1 = 1 <=> n = 0)
        BY <2>3
      <4>. QED
        BY <4>2, <4>3, <4>4 DEF LaidEnd
    <3>. QED
      BY <1>1, <2>3, <3>1
  <2>4. \A n \in 0 .. N : n \in U
    <3>. HIDE DEF U, N
    <3>. QED
      BY <1>1, <2>2, <2>3, AllUpTo
  <2>. QED
    BY <1>1, <2>4
<1>. QED
  BY <1>1, <1>4, <1>6

\* What one more sequence adds.
LEMMA FlattenAppend ==
  ASSUME NEW S, NEW seqs \in Seq(Seq(S)), NEW e \in Seq(S)
  PROVE  /\ FlattenSeq(Append(seqs, e)) = FlattenSeq(seqs) \o e
         /\ FlattenSeq(seqs) \in Seq(S)
<1>. DEFINE N == Len(seqs)
            more == Append(seqs, e)
<1>1. /\ N \in Nat
      /\ more \in Seq(Seq(S)) /\ more # <<>> /\ Len(more) = N + 1
      /\ \A i \in 1 .. N : more[i] = seqs[i]
      /\ more[N + 1] = e
  BY AppendProperties
<1>2. PICK f \in [1 .. N -> Seq(S)] : \A i \in 1 .. N : f[i] = LaidEnd(seqs, f, i)
  BY FlattenSolution
<1>3. FlattenSeq(seqs) \in Seq(S) /\ (N # 0 => FlattenSeq(seqs) = f[N])
  <2>1. CASE N = 0
    BY <2>1 DEF FlattenSeq
  <2>2. CASE N # 0
    <3>1. FlattenSeq(seqs) = f[N]
      BY <1>2, <2>2, FlattenIs
    <3>. QED
      BY <1>1, <1>2, <2>2, <3>1, SMTT(20)
  <2>. QED
    BY <2>1, <2>2
<1>. DEFINE last == IF N = 0 THEN e ELSE f[N] \o e
            g == [i \in 1 .. N + 1 |-> IF i <= N THEN f[i] ELSE last]
<1>4. last \in Seq(S) /\ last = FlattenSeq(seqs) \o e
  <2>1. CASE N = 0
    <3>1. FlattenSeq(seqs) = <<>>
      BY <2>1 DEF FlattenSeq
    <3>. QED
      BY <2>1, <3>1
  <2>2. CASE N # 0
    <3>1. f[N] \in Seq(S) /\ FlattenSeq(seqs) = f[N] /\ last = f[N] \o e
      BY <1>1, <1>2, <1>3, <2>2
    <3>. HIDE DEF last
    <3>. QED
      BY <3>1
  <2>. QED
    BY <2>1, <2>2
<1>5. /\ g \in [1 .. N + 1 -> Seq(S)]
      /\ \A i \in 1 .. N : g[i] = f[i]
      /\ g[N + 1] = last
  <2>. HIDE DEF last
  <2>. QED
    BY <1>1, <1>2, <1>4
<1>. HIDE DEF g, more
<1>6. \A i \in 1 .. N + 1 : g[i] = LaidEnd(more, g, i)
  <2>1. ASSUME NEW i \in 1 .. N
        PROVE  g[i] = LaidEnd(more, g, i)
    <3>1. g[i] = f[i] /\ f[i] = LaidEnd(seqs, f, i) /\ more[i] = seqs[i]
      BY <1>1, <1>2, <1>5, <2>1
    <3>2. i # 1 => g[i - 1] = f[i - 1]
      <4>1. i # 1 => i - 1 \in 1 .. N
        BY <1>1, <2>1
      <4>. QED
        BY <1>5, <4>1
    <3>. QED
      BY <3>1, <3>2 DEF LaidEnd
  <2>2. g[N + 1] = LaidEnd(more, g, N + 1)
    <3>1. (N + 1) - 1 = N /\ (N + 1 = 1 <=> N = 0)
      BY <1>1
    <3>2. N # 0 => g[N] = f[N]
      BY <1>1, <1>5
    <3>. QED
      BY <1>1, <1>5, <3>1, <3>2 DEF LaidEnd
  <2>. QED
    BY <1>1, <2>1, <2>2
<1>7. FlattenSeq(more) = g[N + 1]
  BY <1>1, <1>5, <1>6, FlattenIs, ZenonT(30)
<1>. QED
  BY <1>3, <1>4, <1>5, <1>7 DEF more

\* Nothing laid end to end is nothing.
LEMMA FlattenEmpty == FlattenSeq(<<>>) = <<>>
BY DEF FlattenSeq

\* How many elements come before the k-th of the sequences that are laid end to
\* end, or before what follows the last of them.
Before(seqs, k) == Len(FlattenSeq(SubSeq(seqs, 1, k - 1)))

\* Every element of every sequence keeps its order and has its place.
LEMMA FlattenPlaces ==
  ASSUME NEW S, NEW seqs \in Seq(Seq(S))
  PROVE  /\ Before(seqs, 1) = 0
         /\ Before(seqs, Len(seqs) + 1) = Len(FlattenSeq(seqs))
         /\ \A k \in 1 .. Len(seqs) :
              /\ Before(seqs, k) \in Nat
              /\ Before(seqs, k + 1) = Before(seqs, k) + Len(seqs[k])
              /\ \A i \in 1 .. Len(seqs[k]) :
                   /\ Before(seqs, k) + i \in 1 .. Len(FlattenSeq(seqs))
                   /\ FlattenSeq(seqs)[Before(seqs, k) + i] = seqs[k][i]
<1>. DEFINE N == Len(seqs)
            laid == [k \in 0 .. N |-> FlattenSeq(SubSeq(seqs, 1, k))]
            Fine(n) == \A k \in 1 .. n : \A i \in 1 .. Len(seqs[k]) :
                         /\ Before(seqs, k) + i <= Len(laid[n])
                         /\ laid[n][Before(seqs, k) + i] = seqs[k][i]
            T == {n \in 0 .. N : Fine(n)}
<1>1. N \in Nat /\ \A k \in 1 .. N : seqs[k] \in Seq(S) /\ Len(seqs[k]) \in Nat
  OBVIOUS
<1>2. \A k \in 0 .. N : SubSeq(seqs, 1, k) \in Seq(Seq(S))
  BY <1>1
<1>3. \A k \in 0 .. N : laid[k] \in Seq(S) /\ Len(laid[k]) \in Nat
  <2>1. \A s \in Seq(Seq(S)) : FlattenSeq(s) \in Seq(S)
    <3>1. <<>> \in Seq(S)
      OBVIOUS
    <3>. QED
      BY <3>1, FlattenAppend
  <2>2. \A k \in 0 .. N : laid[k] \in Seq(S)
    <3>. HIDE DEF N
    <3>. QED
      BY <1>2, <2>1, Zenon
  <2>. QED
    BY <2>2
<1>4. laid[0] = <<>> /\ laid[N] = FlattenSeq(seqs)
  <2>1. SubSeq(seqs, 1, 0) = <<>> /\ SubSeq(seqs, 1, N) = seqs
    BY <1>1
  <2>2. 0 \in 0 .. N /\ N \in 0 .. N
    BY <1>1
  <2>. HIDE DEF N
  <2>. QED
    BY <2>1, <2>2, FlattenEmpty
<1>5. ASSUME NEW k \in 1 .. N
      PROVE  laid[k] = laid[k - 1] \o seqs[k] /\ Before(seqs, k) = Len(laid[k - 1])
             /\ Before(seqs, k + 1) = Len(laid[k])
  <2>1. k - 1 \in 0 .. N /\ k \in 0 .. N /\ (k + 1) - 1 = k
    BY <1>1
  <2>2. SubSeq(seqs, 1, k) = Append(SubSeq(seqs, 1, k - 1), seqs[k])
    BY <1>1
  <2>3. SubSeq(seqs, 1, k - 1) \in Seq(Seq(S)) /\ seqs[k] \in Seq(S)
    BY <1>1, <1>2, <2>1
  <2>4. FlattenSeq(Append(SubSeq(seqs, 1, k - 1), seqs[k]))
          = FlattenSeq(SubSeq(seqs, 1, k - 1)) \o seqs[k]
    BY <2>3, FlattenAppend
  <2>. QED
    BY <2>1, <2>2, <2>4 DEF Before
<1>6. Before(seqs, 1) = 0
  <2>1. SubSeq(seqs, 1, 1 - 1) = <<>> /\ Len(<<>>) = 0
    BY <1>1
  <2>. QED
    BY <2>1, FlattenEmpty DEF Before
<1>. HIDE DEF N, laid
<1>7. Before(seqs, N + 1) = Len(FlattenSeq(seqs))
  <2>1. (N + 1) - 1 = N
    BY <1>1
  <2>2. SubSeq(seqs, 1, N) = seqs
    BY <1>1 DEF N
  <2>. QED
    BY <2>1, <2>2 DEF Before
<1>8. ASSUME NEW k \in 1 .. N
      PROVE  /\ Before(seqs, k) \in Nat
             /\ Before(seqs, k + 1) = Before(seqs, k) + Len(seqs[k])
             /\ Len(laid[k]) = Before(seqs, k) + Len(seqs[k])
             /\ \A i \in 1 .. Len(seqs[k]) : laid[k][Before(seqs, k) + i] = seqs[k][i]
             /\ \A i \in 1 .. Before(seqs, k) : laid[k][i] = laid[k - 1][i]
  <2>. DEFINE a == laid[k - 1]
              b == seqs[k]
  <2>1. a \in Seq(S) /\ b \in Seq(S) /\ laid[k] = a \o b /\ Before(seqs, k) = Len(a)
    <3>1. k - 1 \in 0 .. N
      BY <1>1
    <3>. QED
      BY <1>1, <1>3, <1>5, <3>1
  <2>2. Before(seqs, k + 1) = Len(a \o b)
    BY <1>5
  <2>. HIDE DEF a, b
  <2>3. /\ Len(a \o b) = Len(a) + Len(b) /\ Len(a) \in Nat /\ Len(b) \in Nat
        /\ \A i \in 1 .. Len(b) : (a \o b)[Len(a) + i] = b[i]
        /\ \A i \in 1 .. Len(a) : (a \o b)[i] = a[i]
    BY <2>1
  <2>4. \A i \in 1 .. Len(b) : laid[k][Before(seqs, k) + i] = b[i]
    BY <2>1, <2>3
  <2>5. \A i \in 1 .. Before(seqs, k) : laid[k][i] = a[i]
    BY <2>1, <2>3
  <2>. QED
    BY <2>1, <2>2, <2>3, <2>4, <2>5 DEF a, b
<1>9. 0 \in T
  BY <1>1
<1>10. ASSUME NEW n \in Nat, n < N, n \in T
       PROVE  n + 1 \in T
  <2>1. n + 1 \in 1 .. N /\ (n + 1) - 1 = n
    BY <1>1, <1>10
  <2>2. /\ Len(laid[n + 1]) = Before(seqs, n + 1) + Len(seqs[n + 1])
        /\ Before(seqs, n + 1) = Len(laid[n])
        /\ Before(seqs, n + 1) \in Nat /\ Len(seqs[n + 1]) \in Nat
    BY <1>1, <1>5, <1>8, <2>1
  <2>3. ASSUME NEW k \in 1 .. n, NEW i \in 1 .. Len(seqs[k])
        PROVE  /\ Before(seqs, k) + i <= Len(laid[n + 1])
               /\ laid[n + 1][Before(seqs, k) + i] = seqs[k][i]
    <3>1. /\ Before(seqs, k) + i <= Len(laid[n])
          /\ laid[n][Before(seqs, k) + i] = seqs[k][i]
      BY <1>10, <2>3
    <3>2. k \in 1 .. N /\ Before(seqs, k) \in Nat
      BY <1>1, <1>8, <1>10, <2>3
    <3>3. Before(seqs, k) + i \in 1 .. Before(seqs, n + 1)
      <4>. DEFINE d == Before(seqs, k)
                  e == Before(seqs, n + 1)
      <4>1. Len(seqs[k]) \in Nat
        BY <1>1, <3>2
      <4>2. i \in Nat \ {0} /\ d \in Nat /\ e \in Nat /\ d + i <= e
        BY <2>2, <3>1, <3>2, <4>1
      <4>. HIDE DEF d, e
      <4>3. d + i \in 1 .. e
        BY <4>2
      <4>. QED
        BY <4>3 DEF d, e
    <3>4. laid[n + 1][Before(seqs, k) + i] = laid[n][Before(seqs, k) + i]
      BY <1>8, <2>1, <3>3
    <3>5. Before(seqs, k) + i <= Len(laid[n + 1])
      BY <2>2, <3>2, <3>3
    <3>. QED
      BY <3>1, <3>4, <3>5
  <2>4. ASSUME NEW i \in 1 .. Len(seqs[n + 1])
        PROVE  /\ Before(seqs, n + 1) + i <= Len(laid[n + 1])
               /\ laid[n + 1][Before(seqs, n + 1) + i] = seqs[n + 1][i]
    BY <1>8, <2>1, <2>2, <2>4
  <2>5. \A k \in 1 .. n + 1 : k \in 1 .. n \/ k = n + 1
    BY <1>10
  <2>6. Fine(n + 1)
    BY <2>3, <2>4, <2>5
  <2>7. n + 1 \in 0 .. N
    BY <1>1, <2>1
  <2>. HIDE DEF Fine
  <2>. QED
    BY <2>6, <2>7
<1>11. N \in T
  <2>1. \A n \in 0 .. N : n \in T
    <3>. HIDE DEF T
    <3>. QED
      BY <1>1, <1>9, <1>10, AllUpTo
  <2>2. N \in 0 .. N
    BY <1>1
  <2>. HIDE DEF T
  <2>. QED
    BY <2>1, <2>2
<1>12. ASSUME NEW k \in 1 .. N, NEW i \in 1 .. Len(seqs[k])
       PROVE  /\ Before(seqs, k) + i \in 1 .. Len(FlattenSeq(seqs))
              /\ FlattenSeq(seqs)[Before(seqs, k) + i] = seqs[k][i]
  <2>1. /\ Before(seqs, k) + i <= Len(laid[N])
        /\ laid[N][Before(seqs, k) + i] = seqs[k][i]
    BY <1>11, <1>12
  <2>2. Before(seqs, k) \in Nat /\ Len(laid[N]) \in Nat
    BY <1>1, <1>3, <1>8
  <2>3. Before(seqs, k) + i >= 1 /\ Before(seqs, k) + i \in Int
    BY <1>1, <2>2
  <2>. QED
    BY <1>4, <2>1, <2>2, <2>3
<1>. QED
  BY <1>6, <1>7, <1>8, <1>12 DEF N

\* Every place of sequences laid end to end is a place of one of them.
LEMMA FlattenCovers ==
  ASSUME NEW S, NEW seqs \in Seq(Seq(S)), NEW p \in 1 .. Len(FlattenSeq(seqs))
  PROVE  \E k \in 1 .. Len(seqs) : \E i \in 1 .. Len(seqs[k]) : p = Before(seqs, k) + i
<1>. DEFINE N == Len(seqs)
            In(k) == \E i \in 1 .. Len(seqs[k]) : p = Before(seqs, k) + i
            T == {n \in 0 .. N : p <= Before(seqs, n + 1) => \E k \in 1 .. N : In(k)}
<1>1. /\ N \in Nat /\ \A k \in 1 .. N : Len(seqs[k]) \in Nat
      /\ p \in Nat /\ p > 0
  OBVIOUS
<1>2. /\ Before(seqs, 1) = 0 /\ p <= Before(seqs, N + 1)
      /\ \A k \in 1 .. N : /\ Before(seqs, k) \in Nat
                           /\ Before(seqs, k + 1) = Before(seqs, k) + Len(seqs[k])
  <2>1. /\ Before(seqs, 1) = 0 /\ Before(seqs, N + 1) = Len(FlattenSeq(seqs))
        /\ \A k \in 1 .. N : /\ Before(seqs, k) \in Nat
                             /\ Before(seqs, k + 1) = Before(seqs, k) + Len(seqs[k])
    BY FlattenPlaces
  <2>. QED
    BY <2>1
<1>3. 0 \in T
  BY <1>1, <1>2
<1>4. ASSUME NEW n \in Nat, n < N, n \in T
      PROVE  n + 1 \in T
  <2>. SUFFICES ASSUME p <= Before(seqs, (n + 1) + 1) PROVE \E k \in 1 .. N : In(k)
    BY <1>1, <1>4
  <2>1. n + 1 \in 1 .. N
    BY <1>1, <1>4
  <2>2. CASE p <= Before(seqs, n + 1)
    BY <1>4, <2>2
  <2>3. CASE ~ (p <= Before(seqs, n + 1))
    <3>. DEFINE e == Before(seqs, n + 1)
                l == Len(seqs[n + 1])
                i == p - e
    <3>1. p \in Int /\ e \in Nat /\ l \in Nat /\ p > e /\ p <= e + l
      BY <1>1, <1>2, <2>1, <2>3, SMTT(20)
    <3>. HIDE DEF e, l
    <3>2. i \in 1 .. l /\ p = e + i
      BY <3>1
    <3>3. i \in 1 .. Len(seqs[n + 1]) /\ p = Before(seqs, n + 1) + i
      BY <3>2 DEF e, l
    <3>. HIDE DEF i
    <3>. QED
      BY <2>1, <3>3
  <2>. QED
    BY <2>2, <2>3
<1>5. N \in T
  <2>1. \A n \in 0 .. N : n \in T
    <3>. HIDE DEF T, N
    <3>. QED
      BY <1>1, <1>3, <1>4, AllUpTo
  <2>. QED
    BY <1>1, <2>1
<1>. QED
  BY <1>2, <1>5

----------------------------------------------------------------------------
(* Sums over finite sets *)

\* The element that the library takes first.
Taken(s) == CHOOSE x \in s : TRUE

\* One more number is added to what the rest sums up to.
Summed(f, g, s) == IF s = {} THEN 0 ELSE f[Taken(s)] + g[s \ {Taken(s)}]

\* What is left of a finite set after an element is taken from it.
LEMMA OneLess ==
  ASSUME NEW s, IsFiniteSet(s), s # {}, NEW n \in Nat, Cardinality(s) <= n + 1
  PROVE  /\ Taken(s) \in s
         /\ IsFiniteSet(s \ {Taken(s)})
         /\ Cardinality(s \ {Taken(s)}) <= n
<1>1. Taken(s) \in s
  BY DEF Taken
<1>2. PICK x \in s : x = Taken(s)
  BY <1>1
<1>3. IsFiniteSet(s \ {x}) /\ Cardinality(s \ {x}) = Cardinality(s) - 1
  BY <1>2, FS_RemoveElement
<1>4. Cardinality(s) \in Nat
  BY FS_CardinalityType
<1>. QED
  BY <1>1, <1>2, <1>3, <1>4

\* The library's recursion has a solution.
LEMMA SumSolution ==
  ASSUME NEW S, IsFiniteSet(S), NEW f, \A x \in S : f[x] \in Nat
  PROVE  \E g : g = [s \in SUBSET S |-> Summed(f, g, s)]
<1>. DEFINE N == Cardinality(S)
            Small(n) == {s \in SUBSET S : Cardinality(s) <= n}
            Upto(n) == \E g \in [Small(n) -> Nat] : \A s \in Small(n) : g[s] = Summed(f, g, s)
            T == {n \in 0 .. N : Upto(n)}
<1>1. N \in Nat /\ \A s \in SUBSET S : IsFiniteSet(s) /\ Cardinality(s) \in 0 .. N
  BY FS_CardinalityType, FS_Subset
<1>2. 0 \in T
  <2>1. \A s \in Small(0) : s = {}
    BY <1>1, FS_EmptySet
  <2>2. \A s \in Small(0) : [t \in Small(0) |-> 0][s] = Summed(f, [t \in Small(0) |-> 0], s)
    BY <2>1 DEF Summed
  <2>3. [t \in Small(0) |-> 0] \in [Small(0) -> Nat]
    OBVIOUS
  <2>4. Upto(0)
    <3>. HIDE DEF Small
    <3>. QED
      BY <2>2, <2>3
  <2>. QED
    <3>. HIDE DEF Upto
    <3>. QED
      BY <1>1, <2>4
<1>3. ASSUME NEW n \in Nat, n < N, n \in T
      PROVE  n + 1 \in T
  <2>1. PICK g \in [Small(n) -> Nat] : \A s \in Small(n) : g[s] = Summed(f, g, s)
    BY <1>3
  <2>. DEFINE h == [s \in Small(n + 1) |-> Summed(f, g, s)]
  <2>2. \A s \in Small(n) : s \in Small(n + 1) /\ h[s] = g[s]
    BY <1>1, <2>1
  <2>3. ASSUME NEW s \in Small(n + 1)
        PROVE  h[s] \in Nat /\ h[s] = Summed(f, h, s)
    <3>1. CASE s = {}
      BY <3>1 DEF Summed
    <3>2. CASE s # {}
      <4>1. PICK x \in s : x = Taken(s)
        BY <3>2 DEF Taken
      <4>2. s \ {x} \in Small(n)
        BY <1>1, <3>2, <4>1, OneLess
      <4>3. g[s \ {x}] \in Nat /\ h[s \ {x}] = g[s \ {x}] /\ f[x] \in Nat
        BY <2>1, <2>2, <4>2
      <4>4. Summed(f, g, s) = f[x] + g[s \ {x}] /\ Summed(f, h, s) = f[x] + h[s \ {x}]
        BY <3>2, <4>1 DEF Summed
      <4>. QED
        BY <4>3, <4>4
    <3>. QED
      BY <3>1, <3>2
  <2>4. h \in [Small(n + 1) -> Nat] /\ \A s \in Small(n + 1) : h[s] = Summed(f, h, s)
    BY <2>3
  <2>. QED
    <3>. HIDE DEF h, Small
    <3>. QED
      BY <1>1, <1>3, <2>4
<1>4. \A n \in 0 .. N : n \in T
  <2>. HIDE DEF T, N
  <2>. QED
    BY <1>1, <1>2, <1>3, AllUpTo
<1>5. PICK g \in [Small(N) -> Nat] : \A s \in Small(N) : g[s] = Summed(f, g, s)
  BY <1>1, <1>4
<1>6. Small(N) = SUBSET S
  BY <1>1
<1>7. g = [s \in SUBSET S |-> g[s]]
  BY <1>5, <1>6
<1>. QED
  BY <1>5, <1>6, <1>7

\* The sum is what the recursion gives of the whole set.
LEMMA SumSolved ==
  ASSUME NEW S, IsFiniteSet(S), NEW f, \A x \in S : f[x] \in Nat
  PROVE  \E g : /\ \A s \in SUBSET S : g[s] = Summed(f, g, s)
                /\ SumFunctionOnSet(f, S) = g[S]
<1>. DEFINE g == CHOOSE g : g = [s \in SUBSET S |-> Summed(f, g, s)]
<1>1. g = [s \in SUBSET S |-> Summed(f, g, s)]
  BY SumSolution
<1>2. SumFunctionOnSet(f, S) = g[S]
  BY DEF SumFunctionOnSet, FoldFunctionOnSet, MapThenFoldSet, Summed, Taken
<1>. HIDE DEF g
<1>3. \A s \in SUBSET S : g[s] = Summed(f, g, s)
  BY <1>1
<1>. QED
  BY <1>2, <1>3

\* A sum of naturals is a natural, and zero only if each of them is.
LEMMA SumOfNaturals ==
  ASSUME NEW S, IsFiniteSet(S), NEW f, \A x \in S : f[x] \in Nat
  PROVE  /\ SumFunctionOnSet(f, S) \in Nat
         /\ SumFunctionOnSet(f, S) = 0 <=> \A x \in S : f[x] = 0
<1>1. PICK g : /\ \A s \in SUBSET S : g[s] = Summed(f, g, s)
               /\ SumFunctionOnSet(f, S) = g[S]
  BY SumSolved
<1>. DEFINE N == Cardinality(S)
            Fine(s) == g[s] \in Nat /\ (g[s] = 0 <=> \A x \in s : f[x] = 0)
            T == {n \in 0 .. N : \A s \in SUBSET S : Cardinality(s) <= n => Fine(s)}
<1>2. N \in Nat /\ \A s \in SUBSET S : IsFiniteSet(s) /\ Cardinality(s) \in 0 .. N
  BY FS_CardinalityType, FS_Subset
<1>3. Fine({})
  <2>1. g[{}] = 0
    BY <1>1 DEF Summed
  <2>. QED
    BY <2>1
<1>4. 0 \in T
  <2>1. \A s \in SUBSET S : Cardinality(s) <= 0 => s = {}
    BY <1>2, FS_EmptySet
  <2>. QED
    BY <1>2, <1>3, <2>1
<1>5. ASSUME NEW n \in Nat, n < N, n \in T
      PROVE  n + 1 \in T
  <2>1. ASSUME NEW s \in SUBSET S, Cardinality(s) <= n + 1, s # {}
        PROVE  Fine(s)
    <3>1. PICK x \in s : x = Taken(s)
      BY <2>1 DEF Taken
    <3>2. s \ {x} \in SUBSET S /\ Cardinality(s \ {x}) <= n
      BY <1>2, <2>1, <3>1, OneLess
    <3>3. Fine(s \ {x})
      BY <1>5, <3>2
    <3>4. g[s] = f[x] + g[s \ {x}] /\ f[x] \in Nat
      BY <1>1, <2>1, <3>1 DEF Summed
    <3>. QED
      BY <3>3, <3>4
  <2>. HIDE DEF Fine
  <2>. QED
    BY <1>2, <1>3, <1>5, <2>1
<1>6. \A n \in 0 .. N : n \in T
  <2>. HIDE DEF T, N
  <2>. QED
    BY <1>2, <1>4, <1>5, AllUpTo
<1>7. Fine(S)
  BY <1>2, <1>6
<1>. QED
  BY <1>1, <1>7

\* Where two functions agree, so do their sums.
LEMMA SumsAgree ==
  ASSUME NEW S, IsFiniteSet(S), NEW f, NEW h, \A x \in S : f[x] = h[x],
         NEW g, \A s \in SUBSET S : g[s] = Summed(f, g, s),
         NEW k, \A s \in SUBSET S : k[s] = Summed(h, k, s)
  PROVE  \A s \in SUBSET S : g[s] = k[s]
<1>. DEFINE N == Cardinality(S)
            T == {n \in 0 .. N : \A s \in SUBSET S : Cardinality(s) <= n => g[s] = k[s]}
<1>1. N \in Nat /\ \A s \in SUBSET S : IsFiniteSet(s) /\ Cardinality(s) \in 0 .. N
  BY FS_CardinalityType, FS_Subset
<1>2. g[{}] = k[{}]
  BY DEF Summed
<1>3. 0 \in T
  <2>1. \A s \in SUBSET S : Cardinality(s) <= 0 => s = {}
    BY <1>1, FS_EmptySet
  <2>2. \A s \in SUBSET S : Cardinality(s) <= 0 => g[s] = k[s]
    BY <1>2, <2>1
  <2>. QED
    BY <1>1, <2>2
<1>4. ASSUME NEW n \in Nat, n < N, n \in T
      PROVE  n + 1 \in T
  <2>1. ASSUME NEW s \in SUBSET S, Cardinality(s) <= n + 1, s # {}
        PROVE  g[s] = k[s]
    <3>1. PICK x \in s : x = Taken(s)
      BY <2>1 DEF Taken
    <3>2. s \ {x} \in SUBSET S /\ Cardinality(s \ {x}) <= n
      BY <1>1, <2>1, <3>1, OneLess
    <3>3. g[s \ {x}] = k[s \ {x}] /\ f[x] = h[x]
      BY <1>4, <2>1, <3>2
    <3>4. g[s] = f[x] + g[s \ {x}] /\ k[s] = h[x] + k[s \ {x}]
      BY <2>1, <3>1 DEF Summed
    <3>. QED
      BY <3>3, <3>4
  <2>2. \A s \in SUBSET S : Cardinality(s) <= n + 1 => g[s] = k[s]
    BY <1>2, <2>1
  <2>. QED
    BY <1>1, <1>4, <2>2
<1>5. \A n \in 0 .. N : n \in T
  <2>. HIDE DEF T, N
  <2>. QED
    BY <1>1, <1>3, <1>4, AllUpTo
<1>. QED
  BY <1>1, <1>5

LEMMA SumOfEquals ==
  ASSUME NEW S, IsFiniteSet(S), NEW f, NEW h,
         \A x \in S : f[x] \in Nat /\ f[x] = h[x]
  PROVE  SumFunctionOnSet(f, S) = SumFunctionOnSet(h, S)
<1>1. PICK g : /\ \A s \in SUBSET S : g[s] = Summed(f, g, s)
               /\ SumFunctionOnSet(f, S) = g[S]
  BY SumSolved
<1>2. PICK k : /\ \A s \in SUBSET S : k[s] = Summed(h, k, s)
               /\ SumFunctionOnSet(h, S) = k[S]
  BY SumSolved
<1>3. \A s \in SUBSET S : g[s] = k[s]
  BY <1>1, <1>2, SumsAgree
<1>. QED
  BY <1>1, <1>2, <1>3

LEMMA SumOfRest ==
  ASSUME NEW S, IsFiniteSet(S), NEW f, \A x \in S : f[x] \in Nat,
         NEW c \in S, c = Taken(S)
  PROVE  SumFunctionOnSet(f, S) = f[c] + SumFunctionOnSet(f, S \ {c})
<1>. DEFINE R == S \ {c}
<1>1. PICK g : /\ \A s \in SUBSET S : g[s] = Summed(f, g, s)
               /\ SumFunctionOnSet(f, S) = g[S]
  BY SumSolved
<1>2. IsFiniteSet(R) /\ R \in SUBSET S
  BY FS_RemoveElement
<1>3. PICK k : /\ \A s \in SUBSET R : k[s] = Summed(f, k, s)
               /\ SumFunctionOnSet(f, R) = k[R]
  BY <1>2, SumSolved
<1>4. \A s \in SUBSET R : g[s] = Summed(f, g, s)
  BY <1>1, <1>2
<1>5. \A s \in SUBSET R : g[s] = k[s]
  <2>. HIDE DEF R
  <2>. QED
    BY <1>2, <1>3, <1>4, SumsAgree
<1>6. g[S] = f[c] + g[R]
  BY <1>1 DEF Summed
<1>. QED
  BY <1>1, <1>3, <1>5, <1>6

\* Any element may be taken first.
LEMMA SumWithout ==
  ASSUME NEW S, IsFiniteSet(S), NEW f, \A x \in S : f[x] \in Nat, NEW y \in S
  PROVE  SumFunctionOnSet(f, S) = f[y] + SumFunctionOnSet(f, S \ {y})
<1>. DEFINE N == Cardinality(S)
            Sum(s) == SumFunctionOnSet(f, s)
            Fine(s) == \A x \in s : Sum(s) = f[x] + Sum(s \ {x})
            T == {n \in 0 .. N : \A s \in SUBSET S : Cardinality(s) <= n => Fine(s)}
<1>1. N \in Nat /\ \A s \in SUBSET S : IsFiniteSet(s) /\ Cardinality(s) \in 0 .. N
  BY FS_CardinalityType, FS_Subset
<1>2. \A s \in SUBSET S : Sum(s) \in Nat
  BY <1>1, SumOfNaturals
<1>3. 0 \in T
  <2>1. \A s \in SUBSET S : Cardinality(s) <= 0 => s = {}
    BY <1>1, FS_EmptySet
  <2>. QED
    BY <1>1, <2>1
<1>4. ASSUME NEW n \in Nat, n < N, n \in T
      PROVE  n + 1 \in T
  <2>1. ASSUME NEW s \in SUBSET S, Cardinality(s) <= n + 1, NEW x \in s
        PROVE  Sum(s) = f[x] + Sum(s \ {x})
    <3>1. PICK c \in s : c = Taken(s)
      BY <2>1 DEF Taken
    <3>2. IsFiniteSet(s) /\ \A z \in s : f[z] \in Nat
      BY <1>1
    <3>3. Sum(s) = f[c] + Sum(s \ {c})
      BY <3>1, <3>2, SumOfRest, Zenon
    <3>4. CASE x # c
      <4>1. /\ Cardinality(s \ {c}) = Cardinality(s) - 1
            /\ Cardinality(s \ {x}) = Cardinality(s) - 1
        BY <3>2, FS_RemoveElement
      <4>2. Cardinality(s \ {c}) <= n /\ Cardinality(s \ {x}) <= n
        BY <1>1, <2>1, <4>1
      <4>3. Fine(s \ {c}) /\ Fine(s \ {x})
        BY <1>4, <4>2
      <4>4. /\ Sum(s \ {c}) = f[x] + Sum((s \ {c}) \ {x})
            /\ Sum(s \ {x}) = f[c] + Sum((s \ {x}) \ {c})
        BY <3>4, <4>3
      <4>5. (s \ {c}) \ {x} = (s \ {x}) \ {c}
        OBVIOUS
      <4>6. Sum((s \ {c}) \ {x}) \in Nat /\ f[x] \in Nat /\ f[c] \in Nat
        BY <1>2
      <4>. HIDE DEF Sum
      <4>. QED
        BY <3>3, <4>4, <4>5, <4>6
    <3>. QED
      BY <3>3, <3>4
  <2>2. \A s \in SUBSET S : Cardinality(s) <= n + 1 => Fine(s)
    BY <2>1
  <2>. HIDE DEF Fine
  <2>. QED
    BY <1>1, <1>4, <2>2
<1>5. \A n \in 0 .. N : n \in T
  <2>. HIDE DEF T, N
  <2>. QED
    BY <1>1, <1>3, <1>4, AllUpTo
<1>6. Fine(S)
  <2>. HIDE DEF Fine
  <2>. QED
    BY <1>1, <1>5
<1>. QED
  BY <1>6

----------------------------------------------------------------------------
(* The rank of a place *)

\* Ranks count from one, and a later place has a higher one.
LEMMA RankProperties ==
  ASSUME NEW S \in SUBSET Int, IsFiniteSet(S), NEW i \in S
  PROVE  /\ Rank(i, S) \in 1 .. Cardinality(S)
         /\ \A j \in S : i < j => Rank(i, S) < Rank(j, S)
<1>. DEFINE upto(j) == {k \in S : k <= j}
<1>1. /\ IsFiniteSet(upto(i)) /\ Cardinality(upto(i)) <= Cardinality(S)
      /\ Cardinality(S) \in Nat /\ Cardinality(upto(i)) \in Nat
  <2>1. upto(i) \in SUBSET S
    OBVIOUS
  <2>. HIDE DEF upto
  <2>. QED
    BY <2>1, FS_Subset, FS_CardinalityType
<1>2. upto(i) # {}
  OBVIOUS
<1>3. Cardinality(upto(i)) # 0
  <2>. HIDE DEF upto
  <2>. QED
    BY <1>1, <1>2, FS_EmptySet
<1>4. ASSUME NEW j \in S, i < j
      PROVE  Cardinality(upto(i)) < Cardinality(upto(j))
  <2>1. upto(j) \in SUBSET S /\ upto(i) \in SUBSET upto(j) /\ upto(i) # upto(j)
    <3>1. j \in upto(j) /\ j \notin upto(i)
      BY <1>4
    <3>2. \A k \in upto(i) : k \in upto(j)
      <4>1. \A k \in S : k \in Int
        OBVIOUS
      <4>. QED
        BY <1>4, <4>1
    <3>3. upto(j) \in SUBSET S
      OBVIOUS
    <3>. HIDE DEF upto
    <3>. QED
      BY <3>1, <3>2, <3>3
  <2>. HIDE DEF upto
  <2>2. IsFiniteSet(upto(j)) /\ Cardinality(upto(j)) \in Nat
    BY <2>1, FS_Subset, FS_CardinalityType
  <2>3. /\ Cardinality(upto(i)) <= Cardinality(upto(j))
        /\ Cardinality(upto(j)) # Cardinality(upto(i))
    BY <2>1, <2>2, FS_Subset
  <2>. QED
    BY <1>1, <2>2, <2>3
<1>. QED
  BY <1>1, <1>3, <1>4 DEF Rank

\* Each number up to the count is the rank of one place.
LEMMA RankOnto ==
  ASSUME NEW S \in SUBSET Int, IsFiniteSet(S), NEW n \in 1 .. Cardinality(S)
  PROVE  \E i \in S : Rank(i, S) = n
<1>. DEFINE f == [i \in S |-> Rank(i, S)]
            N == Cardinality(S)
<1>1. N \in Nat
  BY FS_CardinalityType
<1>2. f \in [S -> 1 .. N] /\ \A i, j \in S : f[i] = f[j] => i = j
  <2>1. \A i \in S : Rank(i, S) \in 1 .. N /\ \A j \in S : i < j => Rank(i, S) < Rank(j, S)
    BY RankProperties
  <2>2. ASSUME NEW i \in S, NEW j \in S, Rank(i, S) = Rank(j, S)
        PROVE  i = j
    <3>1. i \in Int /\ j \in Int
      OBVIOUS
    <3>2. Rank(i, S) \in Int /\ ~ (Rank(i, S) < Rank(j, S)) /\ ~ (Rank(j, S) < Rank(i, S))
      BY <1>1, <2>1, <2>2
    <3>. QED
      BY <2>1, <3>1, <3>2
  <2>. QED
    BY <2>1, <2>2
<1>3. f \in Injection(S, 1 .. N)
  <2>. HIDE DEF f
  <2>. QED
    BY <1>2 DEF Injection, IsInjective
<1>4. IsFiniteSet(1 .. N) /\ Cardinality(1 .. N) = N
  BY <1>1, FS_Interval
<1>5. f \in Surjection(S, 1 .. N)
  <2>. HIDE DEF f
  <2>. QED
    BY <1>3, <1>4, FS_Injection
<1>6. \A m \in 1 .. N : \E i \in S : f[i] = m
  <2>. HIDE DEF f
  <2>. QED
    BY <1>5 DEF Surjection
<1>. QED
  BY <1>6

\* Nothing is listed of no place.
LEMMA ListsNone ==
  ASSUME NEW f, DOMAIN f = {}
  PROVE  Lists(<<>>, f)
BY FS_EmptySet DEF Lists

\* g tells of the places of f and of one that comes after them.
AddsPlace(f, g, n) ==
  /\ DOMAIN f \in SUBSET Int /\ IsFiniteSet(DOMAIN f)
  /\ n \in Int /\ DOMAIN g = DOMAIN f \cup {n}
  /\ \A i \in DOMAIN f : i < n /\ g[i] = f[i]

\* That place is listed at the end.
LEMMA ListsMore ==
  ASSUME NEW V, NEW seq \in Seq(V), NEW f, NEW g, NEW n,
         Lists(seq, f), AddsPlace(f, g, n), g[n] \in V
  PROVE  Lists(Append(seq, g[n]), g)
<1>0. /\ DOMAIN f \in SUBSET Int /\ IsFiniteSet(DOMAIN f)
      /\ n \in Int /\ DOMAIN g = DOMAIN f \cup {n}
      /\ \A i \in DOMAIN f : i < n /\ g[i] = f[i]
  BY DEF AddsPlace
<1>. DEFINE S == DOMAIN f
            T == S \cup {n}
            v == g[n]
<1>1. n \notin S /\ \A i \in S : i \in Int
  BY <1>0
<1>2. IsFiniteSet(T) /\ Cardinality(T) = Cardinality(S) + 1 /\ Cardinality(S) \in Nat
  BY <1>0, <1>1, FS_AddElement, FS_CardinalityType
<1>3. Len(seq) = Cardinality(S) /\ \A i \in S : seq[Rank(i, S)] = f[i]
  BY DEF Lists
<1>4. Len(Append(seq, v)) = Cardinality(T)
  BY <1>2, <1>3
<1>5. ASSUME NEW i \in S
      PROVE  Append(seq, v)[Rank(i, T)] = g[i]
  <2>1. {j \in T : j <= i} = {j \in S : j <= i}
    BY <1>0, <1>1, <1>5
  <2>2. Rank(i, T) = Rank(i, S)
    BY <2>1 DEF Rank
  <2>3. Rank(i, S) \in 1 .. Len(seq)
    BY <1>0, <1>3, <1>5, RankProperties
  <2>. QED
    BY <1>0, <1>3, <1>5, <2>2, <2>3
<1>6. Append(seq, v)[Rank(n, T)] = g[n]
  <2>1. {j \in T : j <= n} = T
    BY <1>0, <1>1
  <2>2. Rank(n, T) = Len(seq) + 1
    BY <1>2, <1>3, <2>1 DEF Rank
  <2>. QED
    BY <2>2
<1>. QED
  BY <1>0, <1>4, <1>5, <1>6 DEF Lists

\* Every other place from one on: as many as there are, the k-th in the k-th place.
LEMMA EveryOther ==
  ASSUME NEW a \in Int, NEW n \in Nat
  PROVE  LET S == {a + 2 * j - 1 : j \in 1 .. n} IN
         /\ Cardinality(S) = n
         /\ \A j \in 1 .. n : Rank(a + 2 * j - 1, S) = j
<1>1. ASSUME NEW m \in Nat
      PROVE  Cardinality({a + 2 * j - 1 : j \in 1 .. m}) = m
  <2>. DEFINE f == [j \in 1 .. m |-> a + 2 * j - 1]
              S == {a + 2 * j - 1 : j \in 1 .. m}
  <2>1. f \in Bijection(1 .. m, S)
    <3>1. f \in [1 .. m -> S]
      OBVIOUS
    <3>2. \A i, j \in 1 .. m : f[i] = f[j] => i = j
      OBVIOUS
    <3>3. \A x \in S : \E j \in 1 .. m : f[j] = x
      OBVIOUS
    <3>. HIDE DEF f, S
    <3>. QED
      BY <3>1, <3>2, <3>3 DEF Bijection, Injection, Surjection, IsInjective
  <2>2. IsFiniteSet(1 .. m) /\ Cardinality(1 .. m) = m
    BY FS_Interval
  <2>. HIDE DEF f, S
  <2>3. Cardinality(S) = m
    BY <2>1, <2>2, FS_Bijection DEF ExistsBijection
  <2>. QED
    BY <2>3 DEF S
<1>2. ASSUME NEW i \in 1 .. n
      PROVE  {x \in {a + 2 * j - 1 : j \in 1 .. n} : x <= a + 2 * i - 1}
               = {a + 2 * j - 1 : j \in 1 .. i}
  OBVIOUS
<1>. QED
  BY <1>1, <1>2 DEF Rank
=============================================================================
