------------------------ MODULE SpiceRoundTripProofs ------------------------
(***************************************************************************)
(* What TLAPS proves of SpiceRoundTrip, for every set of decks, every list *)
(* of names given to from_devices and any number of promotions.            *)
(***************************************************************************)
EXTENDS SpiceRoundTrip, SpiceReaderProofs

----------------------------------------------------------------------------
(* The words of a kind *)

\* The recursion of Only, and its solution.
OnlyStep(words, K, f, k) ==
  IF k = 0 THEN <<>>
  ELSE IF words[k] \in K THEN Append(f[k - 1], words[k]) ELSE f[k - 1]

Solves(f, words, K, S) ==
  /\ f \in [0 .. Len(words) -> Seq(S)]
  /\ \A k \in 0 .. Len(words) : f[k] = OnlyStep(words, K, f, k)

LEMMA OnlySolution ==
  ASSUME NEW S, NEW words \in Seq(S), NEW K
  PROVE  \E f : Solves(f, words, K, S)
<1>. DEFINE Upto(s) == \E f \in [0 .. Len(s) -> Seq(S)] :
                         \A k \in 0 .. Len(s) : f[k] = OnlyStep(s, K, f, k)
            T == {s \in Seq(S) : Upto(s)}
<1>1. <<>> \in T
  <2>. DEFINE f == [k \in 0 .. 0 |-> <<>>]
  <2>1. f \in [0 .. 0 -> Seq(S)] /\ f[0] = <<>> /\ Len(<<>>) = 0
    OBVIOUS
  <2>. HIDE DEF f
  <2>2. \A k \in 0 .. 0 : f[k] = OnlyStep(<<>>, K, f, k)
    BY <2>1 DEF OnlyStep
  <2>3. Upto(<<>>)
    BY <2>1, <2>2
  <2>. HIDE DEF Upto
  <2>. QED
    BY <2>3
<1>2. ASSUME NEW s \in Seq(S), NEW e \in S, s \in T
      PROVE  Append(s, e) \in T
  <2>1. PICK f \in [0 .. Len(s) -> Seq(S)] :
          \A k \in 0 .. Len(s) : f[k] = OnlyStep(s, K, f, k)
    BY <1>2
  <2>. DEFINE n == Len(s)
              t == Append(s, e)
              last == IF e \in K THEN Append(f[n], e) ELSE f[n]
              g == [k \in 0 .. n + 1 |-> IF k <= n THEN f[k] ELSE last]
  <2>2. /\ n \in Nat /\ t \in Seq(S) /\ Len(t) = n + 1
        /\ \A k \in 1 .. n : t[k] = s[k]
        /\ t[n + 1] = e
    BY AppendProperties
  <2>3. last \in Seq(S)
    <3>1. f[n] \in Seq(S)
      <4>1. n \in 0 .. Len(s)
        BY <2>2
      <4>. QED
        BY <2>1, <4>1, Zenon
    <3>2. e \in S
      OBVIOUS
    <3>. HIDE DEF n
    <3>. QED
      BY <3>1, <3>2
  <2>4. /\ g \in [0 .. n + 1 -> Seq(S)]
        /\ \A k \in 0 .. n : g[k] = f[k]
        /\ g[n + 1] = last
    <3>. HIDE DEF last, t
    <3>. QED
      BY <2>2, <2>3
  <2>5. ASSUME NEW k \in 0 .. n
        PROVE  g[k] = OnlyStep(t, K, g, k)
    <3>1. g[k] = f[k] /\ f[k] = OnlyStep(s, K, f, k)
      BY <2>1, <2>4
    <3>2. k # 0 => g[k - 1] = f[k - 1] /\ t[k] = s[k]
      <4>1. k # 0 => k - 1 \in 0 .. n /\ k \in 1 .. n
        BY <2>2, <2>5
      <4>. QED
        BY <2>2, <2>4, <4>1
    <3>. QED
      BY <3>1, <3>2 DEF OnlyStep
  <2>6. g[n + 1] = OnlyStep(t, K, g, n + 1)
    <3>1. (n + 1) - 1 = n /\ n + 1 # 0 /\ g[n] = f[n]
      BY <2>2, <2>4
    <3>. QED
      BY <2>2, <2>4, <3>1 DEF OnlyStep
  <2>7. \A k \in 0 .. n + 1 : g[k] = OnlyStep(t, K, g, k)
    <3>. HIDE DEF g, t
    <3>. QED
      BY <2>2, <2>5, <2>6
  <2>8. Upto(t)
    <3>. HIDE DEF g, t
    <3>. QED
      BY <2>2, <2>4, <2>7
  <2>. HIDE DEF Upto
  <2>. QED
    BY <2>2, <2>8 DEF t
<1>. HIDE DEF T
<1>3. words \in T
  BY <1>1, <1>2, AllSequences
<1>4. Upto(words)
  BY <1>3 DEF T
<1>. QED
  BY <1>4 DEF Solves

\* Any solution is what the operator answers.
LEMMA OnlyIs ==
  ASSUME NEW S, NEW words \in Seq(S), NEW K, NEW f, Solves(f, words, K, S)
  PROVE  Only(words, K) = f[Len(words)]
<1>. DEFINE N == Len(words)
            IsSolution(g) == g = [k \in 0 .. N |->
                                    IF k = 0 THEN <<>>
                                    ELSE IF words[k] \in K THEN Append(g[k - 1], words[k])
                                                           ELSE g[k - 1]]
            chosen == CHOOSE g : IsSolution(g)
<1>1. N \in Nat
  OBVIOUS
<1>2. IsSolution(f)
  BY DEF OnlyStep, Solves
<1>3. IsSolution(chosen)
  <2>. HIDE DEF IsSolution
  <2>. QED
    BY <1>2
<1>4. Only(words, K) = chosen[N]
  BY DEF Only
<1>. HIDE DEF chosen
<1>5. \A k \in 0 .. N : chosen[k] = OnlyStep(words, K, chosen, k)
  BY <1>3 DEF OnlyStep
<1>. DEFINE U == {n \in 0 .. N : chosen[n] = f[n]}
<1>6. 0 \in U
  BY <1>1, <1>5 DEF OnlyStep, Solves
<1>7. ASSUME NEW n \in Nat, n < N, n \in U
      PROVE  n + 1 \in U
  <2>1. n + 1 \in 0 .. N /\ (n + 1) - 1 = n /\ n + 1 # 0
    BY <1>1, <1>7
  <2>2. chosen[n + 1] = OnlyStep(words, K, chosen, n + 1)
        /\ f[n + 1] = OnlyStep(words, K, f, n + 1)
    BY <1>5, <2>1 DEF Solves
  <2>. QED
    BY <1>7, <2>1, <2>2 DEF OnlyStep
<1>8. \A n \in 0 .. N : n \in U
  <2>. HIDE DEF U, N
  <2>. QED
    BY <1>1, <1>6, <1>7, AllUpTo
<1>. QED
  BY <1>1, <1>4, <1>8

\* One word more.
LEMMA OnlyAppend ==
  ASSUME NEW S, NEW s \in Seq(S), NEW e \in S, NEW K
  PROVE  Only(Append(s, e), K) = IF e \in K THEN Append(Only(s, K), e) ELSE Only(s, K)
<1>. DEFINE n == Len(s)
            t == Append(s, e)
<1>1. /\ n \in Nat /\ t \in Seq(S) /\ Len(t) = n + 1
      /\ \A k \in 1 .. n : t[k] = s[k]
      /\ t[n + 1] = e
  BY AppendProperties
<1>. HIDE DEF t
<1>8. PICK g : Solves(g, t, K, S)
  BY <1>1, OnlySolution
<1>2. /\ g \in [0 .. n + 1 -> Seq(S)]
      /\ \A k \in 0 .. n + 1 : g[k] = OnlyStep(t, K, g, k)
  BY <1>1, <1>8 DEF Solves
<1>3. Only(t, K) = g[n + 1]
  BY <1>1, <1>8, OnlyIs
<1>. DEFINE f == [k \in 0 .. n |-> g[k]]
<1>4. f \in [0 .. n -> Seq(S)] /\ \A k \in 0 .. n : f[k] = g[k]
  BY <1>1, <1>2
<1>. HIDE DEF f
<1>5. \A k \in 0 .. n : f[k] = OnlyStep(s, K, f, k)
  <2>1. TAKE k \in 0 .. n
  <2>2. f[k] = OnlyStep(t, K, g, k)
    BY <1>1, <1>2, <1>4
  <2>3. k # 0 => f[k - 1] = g[k - 1] /\ t[k] = s[k]
    <3>1. k # 0 => k - 1 \in 0 .. n /\ k \in 1 .. n
      BY <1>1
    <3>. QED
      BY <1>1, <1>4, <3>1
  <2>. QED
    BY <2>2, <2>3 DEF OnlyStep
<1>6. Only(s, K) = f[n]
  <2>1. Solves(f, s, K, S)
    BY <1>4, <1>5 DEF Solves
  <2>. QED
    BY <2>1, OnlyIs
<1>7. g[n + 1] = OnlyStep(t, K, g, n + 1) /\ f[n] = g[n] /\ (n + 1) - 1 = n /\ n + 1 # 0
  BY <1>1, <1>2, <1>4
<1>. QED
  BY <1>1, <1>3, <1>6, <1>7 DEF OnlyStep, t

LEMMA OnlyEmpty == ASSUME NEW K PROVE Only(<<>>, K) = <<>>
<1>. DEFINE f == [k \in 0 .. 0 |-> <<>>]
<1>1. f \in [0 .. Len(<<>>) -> Seq({})] /\ <<>> \in Seq({}) /\ f[0] = <<>>
      /\ \A k \in 0 .. Len(<<>>) : k = 0
  OBVIOUS
<1>. HIDE DEF f
<1>2. \A k \in 0 .. Len(<<>>) : f[k] = OnlyStep(<<>>, K, f, k)
  BY <1>1 DEF OnlyStep
<1>3. Solves(f, <<>>, K, {})
  BY <1>1, <1>2 DEF Solves
<1>4. Only(<<>>, K) = f[Len(<<>>)]
  BY <1>1, <1>3, OnlyIs
<1>. QED
  BY <1>1, <1>4

\* What is kept is of the kind.
LEMMA OnlyType ==
  ASSUME NEW S, NEW s \in Seq(S), NEW K
  PROVE  Only(s, K) \in Seq(S \cap K) /\ Only(s, K) \in Seq(S)
<1>. DEFINE T == {t \in Seq(S) : Only(t, K) \in Seq(S \cap K)}
<1>1. <<>> \in T
  <2>1. Only(<<>>, K) = <<>> /\ <<>> \in Seq(S \cap K) /\ <<>> \in Seq(S)
    BY OnlyEmpty
  <2>. QED
    BY <2>1, Zenon
<1>2. ASSUME NEW t \in Seq(S), NEW e \in S, t \in T
      PROVE  Append(t, e) \in T
  <2>1. Only(Append(t, e), K) = IF e \in K THEN Append(Only(t, K), e) ELSE Only(t, K)
    BY OnlyAppend
  <2>2. Only(Append(t, e), K) \in Seq(S \cap K)
    <3>1. Only(t, K) \in Seq(S \cap K)
      BY <1>2
    <3>2. ASSUME NEW u \in Seq(S \cap K), e \in K PROVE Append(u, e) \in Seq(S \cap K)
      BY <3>2
    <3>. QED
      BY <2>1, <3>1, <3>2
  <2>. QED
    BY <2>2
<1>3. s \in T
  <2>. HIDE DEF T
  <2>. QED
    BY <1>1, <1>2, AllSequences
<1>. QED
  BY <1>3

\* Of words that are all of the kind every one is kept, of words none of which
\* is, none.
LEMMA OnlyAll ==
  ASSUME NEW S, NEW s \in Seq(S), NEW K, S \subseteq K
  PROVE  Only(s, K) = s
<1>. DEFINE T == {t \in Seq(S) : Only(t, K) = t}
<1>1. <<>> \in T
  <2>1. Only(<<>>, K) = <<>> /\ <<>> \in Seq(S)
    BY OnlyEmpty
  <2>. QED
    BY <2>1, Zenon
<1>2. ASSUME NEW t \in Seq(S), NEW e \in S, t \in T
      PROVE  Append(t, e) \in T
  <2>1. Only(Append(t, e), K) = Append(Only(t, K), e) /\ Only(t, K) = t
    BY <1>2, OnlyAppend
  <2>2. Append(t, e) \in Seq(S)
    OBVIOUS
  <2>. QED
    BY <2>1, <2>2
<1>3. s \in T
  <2>. HIDE DEF T
  <2>. QED
    BY <1>1, <1>2, AllSequences
<1>. QED
  BY <1>3

LEMMA OnlyNone ==
  ASSUME NEW S, NEW s \in Seq(S), NEW K, S \cap K = {}
  PROVE  Only(s, K) = <<>>
<1>. DEFINE T == {t \in Seq(S) : Only(t, K) = <<>>}
<1>1. <<>> \in T
  <2>1. Only(<<>>, K) = <<>> /\ <<>> \in Seq(S)
    BY OnlyEmpty
  <2>. QED
    BY <2>1, Zenon
<1>2. ASSUME NEW t \in Seq(S), NEW e \in S, t \in T
      PROVE  Append(t, e) \in T
  <2>1. Only(Append(t, e), K) = Only(t, K) /\ Only(t, K) = <<>>
    BY <1>2, OnlyAppend
  <2>2. Append(t, e) \in Seq(S)
    OBVIOUS
  <2>. QED
    BY <2>1, <2>2
<1>3. s \in T
  <2>. HIDE DEF T
  <2>. QED
    BY <1>1, <1>2, AllSequences
<1>. QED
  BY <1>3

\* When none is kept there was none.
LEMMA NoneOnly ==
  ASSUME NEW S, NEW s \in Seq(S), NEW K, Only(s, K) = <<>>
  PROVE  s \in Seq(S \ K)
<1>. DEFINE T == {t \in Seq(S) : Only(t, K) = <<>> => t \in Seq(S \ K)}
<1>1. <<>> \in T
  <2>1. <<>> \in Seq(S \ K) /\ <<>> \in Seq(S)
    OBVIOUS
  <2>. QED
    BY <2>1, Zenon
<1>2. ASSUME NEW t \in Seq(S), NEW e \in S, t \in T
      PROVE  Append(t, e) \in T
  <2>1. Only(Append(t, e), K) = IF e \in K THEN Append(Only(t, K), e) ELSE Only(t, K)
    BY OnlyAppend
  <2>2. Append(Only(t, K), e) # <<>>
    <3>1. Only(t, K) \in Seq(S)
      BY OnlyType
    <3>. QED
      BY <3>1
  <2>3. t \in Seq(S \ K) /\ e \notin K => Append(t, e) \in Seq(S \ K)
    <3>1. ASSUME NEW u \in Seq(S \ K), NEW x \in S \ K PROVE Append(u, x) \in Seq(S \ K)
      OBVIOUS
    <3>. QED
      BY <3>1
  <2>4. Append(t, e) \in Seq(S)
    OBVIOUS
  <2>. QED
    BY <1>2, <2>1, <2>2, <2>3, <2>4
<1>3. s \in T
  <2>. HIDE DEF T
  <2>. QED
    BY <1>1, <1>2, AllSequences
<1>. QED
  BY <1>3

\* Two sequences of words, one after the other.
JoinsAppend(a, b, e) == Append(a \o b, e) = a \o Append(b, e)

LEMMA AppendJoined ==
  ASSUME NEW S, NEW a \in Seq(S), NEW b \in Seq(S), NEW e \in S
  PROVE  JoinsAppend(a, b, e)
BY DEF JoinsAppend

LEMMA OnlyConcat ==
  ASSUME NEW S, NEW a \in Seq(S), NEW b \in Seq(S), NEW K
  PROVE  Only(a \o b, K) = Only(a, K) \o Only(b, K)
<1>. DEFINE T == {t \in Seq(S) : Only(a \o t, K) = Only(a, K) \o Only(t, K)}
<1>0. Only(a, K) \in Seq(S)
  BY OnlyType
<1>1. <<>> \in T
  <2>1. Only(<<>>, K) = <<>> /\ <<>> \in Seq(S) /\ a \o <<>> = a
    BY OnlyEmpty
  <2>2. Only(a, K) \o <<>> = Only(a, K)
    BY <1>0
  <2>. QED
    BY <2>1, <2>2, Zenon
<1>2. ASSUME NEW t \in Seq(S), NEW e \in S, t \in T
      PROVE  Append(t, e) \in T
  <2>1. Only(Append(t, e), K) = IF e \in K THEN Append(Only(t, K), e) ELSE Only(t, K)
    BY OnlyAppend
  <2>2. a \o t \in Seq(S) /\ a \o Append(t, e) = Append(a \o t, e)
        /\ Append(t, e) \in Seq(S)
    OBVIOUS
  <2>3. Only(Append(a \o t, e), K) = IF e \in K THEN Append(Only(a \o t, K), e)
                                               ELSE Only(a \o t, K)
    BY <2>2, OnlyAppend
  <2>4. Only(t, K) \in Seq(S)
    BY OnlyType
  <2>5. Append(Only(a, K) \o Only(t, K), e) = Only(a, K) \o Append(Only(t, K), e)
    <3>1. JoinsAppend(Only(a, K), Only(t, K), e)
      BY <1>0, <2>4, AppendJoined
    <3>. QED
      BY <3>1 DEF JoinsAppend
  <2>6. Only(a \o t, K) = Only(a, K) \o Only(t, K)
    BY <1>2
  <2>7. Only(a \o Append(t, e), K) = Only(a, K) \o Only(Append(t, e), K)
    <3>1. CASE e \in K
      BY <2>1, <2>2, <2>3, <2>5, <2>6, <3>1
    <3>2. CASE e \notin K
      BY <2>1, <2>2, <2>3, <2>6, <3>2
    <3>. QED
      BY <3>1, <3>2
  <2>. QED
    BY <2>2, <2>7
<1>3. b \in T
  <2>. HIDE DEF T
  <2>. QED
    BY <1>1, <1>2, AllSequences
<1>. QED
  BY <1>3

----------------------------------------------------------------------------
(* How often a word occurs *)

Places(s, x) == {i \in DOMAIN s : s[i] = x}
Count(s, x)  == Cardinality(Places(s, x))

LEMMA CountAppend ==
  ASSUME NEW S, NEW s \in Seq(S), NEW e \in S, NEW x
  PROVE  /\ IsFiniteSet(Places(s, x)) /\ Count(s, x) \in Nat
         /\ Count(Append(s, e), x) = Count(s, x) + (IF e = x THEN 1 ELSE 0)
<1>. DEFINE n == Len(s)
            t == Append(s, e)
<1>1. /\ n \in Nat /\ DOMAIN s = 1 .. n /\ DOMAIN t = 1 .. n + 1
      /\ \A k \in 1 .. n : t[k] = s[k]
      /\ t[n + 1] = e
  BY AppendProperties
<1>. HIDE DEF t
<1>2. IsFiniteSet(Places(s, x))
  <2>1. IsFiniteSet(1 .. n) /\ Places(s, x) \subseteq 1 .. n
    BY <1>1, FS_Interval DEF Places
  <2>. QED
    BY <2>1, FS_Subset
<1>3. Count(s, x) \in Nat
  BY <1>2, FS_CardinalityType DEF Count
<1>4. CASE e = x
  <2>1. Places(t, x) = Places(s, x) \cup {n + 1} /\ n + 1 \notin Places(s, x)
    BY <1>1, <1>4 DEF Places
  <2>2. Cardinality(Places(s, x) \cup {n + 1}) = Cardinality(Places(s, x)) + 1
    BY <1>2, <2>1, FS_AddElement
  <2>. QED
    BY <1>2, <1>3, <1>4, <2>1, <2>2 DEF Count, t
<1>5. CASE e # x
  <2>1. Places(t, x) = Places(s, x)
    BY <1>1, <1>5 DEF Places
  <2>. QED
    BY <1>2, <1>3, <1>5, <2>1 DEF Count, t
<1>. QED
  BY <1>4, <1>5

LEMMA CountEmpty == ASSUME NEW x PROVE Count(<<>>, x) = 0
<1>1. Places(<<>>, x) = {}
  BY DEF Places
<1>. QED
  BY <1>1, FS_EmptySet DEF Count

LEMMA CountType ==
  ASSUME NEW S, NEW s \in Seq(S), NEW x
  PROVE  Count(s, x) \in Nat /\ (Count(s, x) = 0 <=> \A i \in DOMAIN s : s[i] # x)
<1>1. IsFiniteSet(Places(s, x))
  <2>1. IsFiniteSet(1 .. Len(s)) /\ Places(s, x) \subseteq 1 .. Len(s)
    BY FS_Interval DEF Places
  <2>. QED
    BY <2>1, FS_Subset
<1>2. Count(s, x) \in Nat /\ (Count(s, x) = 0 <=> Places(s, x) = {})
  BY <1>1, FS_CardinalityType, FS_EmptySet DEF Count
<1>. QED
  BY <1>2 DEF Places

LEMMA CountConcat ==
  ASSUME NEW S, NEW a \in Seq(S), NEW b \in Seq(S), NEW x
  PROVE  Count(a \o b, x) = Count(a, x) + Count(b, x)
<1>. DEFINE T == {t \in Seq(S) : Count(a \o t, x) = Count(a, x) + Count(t, x)}
<1>1. <<>> \in T
  <2>1. Count(<<>>, x) = 0 /\ <<>> \in Seq(S) /\ a \o <<>> = a /\ Count(a, x) \in Nat
    BY CountEmpty, CountType
  <2>2. Count(a \o <<>>, x) = Count(a, x) + Count(<<>>, x)
    BY <2>1
  <2>. QED
    BY <2>1, <2>2
<1>2. ASSUME NEW t \in Seq(S), NEW e \in S, t \in T
      PROVE  Append(t, e) \in T
  <2>1. a \o t \in Seq(S) /\ a \o Append(t, e) = Append(a \o t, e)
        /\ Append(t, e) \in Seq(S)
    OBVIOUS
  <2>2. Count(Append(t, e), x) = Count(t, x) + (IF e = x THEN 1 ELSE 0)
    BY CountAppend
  <2>3. Count(Append(a \o t, e), x) = Count(a \o t, x) + (IF e = x THEN 1 ELSE 0)
    <3>1. \A u \in Seq(S) : Count(Append(u, e), x) = Count(u, x) + (IF e = x THEN 1 ELSE 0)
      BY CountAppend
    <3>. QED
      BY <2>1, <3>1
  <2>4. Count(a, x) \in Nat /\ Count(t, x) \in Nat /\ Count(a \o t, x) = Count(a, x) + Count(t, x)
    BY <1>2, CountType
  <2>5. Count(a \o Append(t, e), x) = Count(a, x) + Count(Append(t, e), x)
    BY <2>1, <2>2, <2>3, <2>4
  <2>. QED
    BY <2>1, <2>5
<1>3. b \in T
  <2>. HIDE DEF T
  <2>. QED
    BY <1>1, <1>2, AllSequences
<1>. QED
  BY <1>3

\* Sorting words into those of a kind and the others loses none.
LEMMA CountOnly ==
  ASSUME NEW S, NEW s \in Seq(S), NEW K, NEW L, S \subseteq K \cup L, K \cap L = {}, NEW x
  PROVE  Count(s, x) = Count(Only(s, K), x) + Count(Only(s, L), x)
<1>. DEFINE T == {t \in Seq(S) : Count(t, x) = Count(Only(t, K), x) + Count(Only(t, L), x)}
<1>1. <<>> \in T
  <2>1. Count(<<>>, x) = 0 /\ <<>> \in Seq(S) /\ Only(<<>>, K) = <<>> /\ Only(<<>>, L) = <<>>
    BY CountEmpty, OnlyEmpty
  <2>2. Count(<<>>, x) = Count(Only(<<>>, K), x) + Count(Only(<<>>, L), x)
    BY <2>1
  <2>. QED
    BY <2>1, <2>2
<1>2. ASSUME NEW t \in Seq(S), NEW e \in S, t \in T
      PROVE  Append(t, e) \in T
  <2>. DEFINE one == IF e = x THEN 1 ELSE 0
  <2>1. /\ Only(Append(t, e), K) = IF e \in K THEN Append(Only(t, K), e) ELSE Only(t, K)
        /\ Only(Append(t, e), L) = IF e \in L THEN Append(Only(t, L), e) ELSE Only(t, L)
    BY OnlyAppend
  <2>2. Only(t, K) \in Seq(S) /\ Only(t, L) \in Seq(S)
    BY OnlyType
  <2>3. /\ Count(Append(t, e), x) = Count(t, x) + one
        /\ Count(Append(Only(t, K), e), x) = Count(Only(t, K), x) + one
        /\ Count(Append(Only(t, L), e), x) = Count(Only(t, L), x) + one
    BY <2>2, CountAppend
  <2>4. /\ Count(Only(t, K), x) \in Nat /\ Count(Only(t, L), x) \in Nat /\ one \in Nat
        /\ Count(t, x) = Count(Only(t, K), x) + Count(Only(t, L), x)
    BY <1>2, <2>2, CountType
  <2>5. Append(t, e) \in Seq(S)
    OBVIOUS
  <2>. HIDE DEF one
  <2>6. Count(Append(t, e), x) = Count(Only(Append(t, e), K), x) + Count(Only(Append(t, e), L), x)
    <3>1. CASE e \in K
      <4>1. e \notin L
        BY <3>1
      <4>. QED
        BY <2>1, <2>3, <2>4, <3>1, <4>1
    <3>2. CASE e \in L
      <4>1. e \notin K
        BY <3>2
      <4>. QED
        BY <2>1, <2>3, <2>4, <3>2, <4>1
    <3>. QED
      BY <3>1, <3>2
  <2>. QED
    BY <2>5, <2>6
<1>3. s \in T
  <2>. HIDE DEF T
  <2>. QED
    BY <1>1, <1>2, AllSequences
<1>. QED
  BY <1>3

\* The bag of a sequence is how often each word occurs.
LEMMA SameBag ==
  ASSUME NEW S, NEW a \in Seq(S), NEW b \in Seq(S),
         \A x \in S : Count(a, x) = Count(b, x)
  PROVE  ToBag(a) = ToBag(b)
<1>1. ASSUME NEW x \in S
      PROVE  x \in Range(a) <=> x \in Range(b)
  <2>1. (Count(a, x) = 0 <=> \A i \in DOMAIN a : a[i] # x)
        /\ (Count(b, x) = 0 <=> \A i \in DOMAIN b : b[i] # x)
    BY CountType
  <2>. QED
    BY <2>1 DEF Range
<1>2. Range(a) \subseteq S /\ Range(b) \subseteq S
  BY DEF Range
<1>3. Range(a) = Range(b)
  BY <1>1, <1>2
<1>4. \A x \in Range(a) :
        Cardinality({i \in DOMAIN a : a[i] = x}) = Cardinality({i \in DOMAIN b : b[i] = x})
  BY <1>2 DEF Count, Places
<1>. QED
  BY <1>3, <1>4 DEF ToBag
----------------------------------------------------------------------------
(* One sequence after another, by a name that the provers leave alone *)

Cat(a, b) == a \o b

LEMMA CatProperties ==
  ASSUME NEW S, NEW a \in Seq(S), NEW b \in Seq(S)
  PROVE  /\ Cat(a, b) \in Seq(S)
         /\ Cat(a, <<>>) = a
         /\ Cat(<<>>, a) = a
         /\ Len(Cat(a, b)) = Len(a) + Len(b)
         /\ \A K : Only(Cat(a, b), K) = Cat(Only(a, K), Only(b, K))
         /\ \A x : Count(Cat(a, b), x) = Count(a, x) + Count(b, x)
<1>1. Cat(a, b) \in Seq(S) /\ Len(Cat(a, b)) = Len(a) + Len(b)
  BY DEF Cat
<1>2. Cat(a, <<>>) = a /\ Cat(<<>>, a) = a
  BY DEF Cat
<1>3. \A K : Only(Cat(a, b), K) = Cat(Only(a, K), Only(b, K))
  BY OnlyConcat DEF Cat
<1>4. \A x : Count(Cat(a, b), x) = Count(a, x) + Count(b, x)
  BY CountConcat DEF Cat
<1>. QED
  BY <1>1, <1>2, <1>3, <1>4

LEMMA CatAssociative ==
  ASSUME NEW S, NEW a \in Seq(S), NEW b \in Seq(S), NEW c \in Seq(S)
  PROVE  Cat(a, Cat(b, c)) = Cat(Cat(a, b), c)
BY ConcatAssociative DEF Cat

LEMMA CatOne ==
  ASSUME NEW S, NEW h \in S, NEW a \in Seq(S)
  PROVE  /\ <<h>> \in Seq(S)
         /\ Cat(<<h>>, a) \in Seq(S) /\ Cat(<<h>>, a) # <<>>
         /\ Head(Cat(<<h>>, a)) = h /\ Tail(Cat(<<h>>, a)) = a
BY DEF Cat

----------------------------------------------------------------------------
(* A card's parts *)

\* The positional words that come first are those before the first parameter.
LEMMA LeadingProperties ==
  ASSUME NEW rest \in Seq(Word)
  PROVE  /\ LeadingPositionals(rest) \in 0 .. Len(rest)
         /\ \A i \in 1 .. LeadingPositionals(rest) : rest[i] \in Positionals
<1>. DEFINE I  == {i \in 1 .. Len(rest) : IsKv(rest[i])}
            kv == IF I # {} THEN Min(I) ELSE 0
<1>1. LeadingPositionals(rest) = IF kv = 0 THEN Len(rest) ELSE kv - 1
  BY DEF LeadingPositionals, SelectInSeq
<1>2. Len(rest) \in Nat /\ \A i \in 1 .. Len(rest) : rest[i] \in Word
  OBVIOUS
<1>3. CASE I = {}
  <2>1. LeadingPositionals(rest) = Len(rest)
    BY <1>1, <1>3
  <2>2. \A i \in 1 .. Len(rest) : rest[i] \in Positionals
    BY <1>2, <1>3 DEF Positionals, KeyValues
  <2>. QED
    BY <1>2, <2>1, <2>2
<1>4. CASE I # {}
  <2>1. Min(I) \in I /\ \A y \in I : Min(I) <= y
    <3>1. I \in SUBSET Nat
      BY <1>2
    <3>. HIDE DEF I
    <3>. QED
      BY <1>4, <3>1, MinOfNaturals
  <2>2. PICK m \in I : m = Min(I)
    BY <2>1
  <2>3. kv = m /\ m \in 1 .. Len(rest)
    BY <1>4, <2>2
  <2>4. LeadingPositionals(rest) = m - 1
    <3>. HIDE DEF kv
    <3>. QED
      BY <1>1, <1>2, <2>3
  <2>5. ASSUME NEW i \in 1 .. m - 1 PROVE rest[i] \in Positionals
    <3>1. i \in 1 .. Len(rest) /\ i \notin I
      BY <1>2, <2>1, <2>2, <2>3, <2>5
    <3>. QED
      BY <1>2, <3>1 DEF Positionals, KeyValues
  <2>. QED
    BY <1>2, <2>3, <2>4, <2>5
<1>. QED
  BY <1>3, <1>4

LEMMA NodeCountBounds ==
  ASSUME NEW lead, NEW p \in Nat
  PROVE  NodeCount(lead, p) \in 0 .. p
<1>1. FixedNodes["M"] = 4 /\ FixedNodes["Q"] = 3 /\ FixedNodes["D"] = 2
      /\ FixedNodes["J"] = 3 /\ FixedNodes["R"] = 2
  BY DEF FixedNodes
<1>2. CASE lead \in FixedFamilies
  <2>1. FixedNodes[lead] \in Nat
    BY <1>1, <1>2 DEF FixedFamilies
  <2>. QED
    <3>. DEFINE m == FixedNodes[lead]
    <3>2. NodeCount(lead, p) = IF lead = "Q" /\ p >= m + 2 THEN m + 1 ELSE IF p < m THEN p ELSE m
      BY <1>2 DEF NodeCount
    <3>3. m \in Nat
      BY <2>1
    <3>. DEFINE c == NodeCount(lead, p)
    <3>4. \/ p >= m + 2 /\ c = m + 1
          \/ p < m /\ c = p
          \/ ~ (p < m) /\ c = m
      BY <3>2, Zenon
    <3>. HIDE DEF m, c
    <3>5. c \in 0 .. p
      BY <3>3, <3>4
    <3>. QED
      BY <3>5 DEF c
<1>3. CASE lead \notin FixedFamilies
  <2>1. (NodeCount(lead, p) = p - 1 /\ p > 0) \/ NodeCount(lead, p) = p
    BY <1>3, Zenon DEF NodeCount
  <2>. DEFINE c == NodeCount(lead, p)
  <2>. HIDE DEF c
  <2>2. c \in 0 .. p
    BY <2>1 DEF c
  <2>. QED
    BY <2>2 DEF c
<1>. QED
  BY <1>2, <1>3

\* The words of a card after its name: how many of them become nodes for their
\* place, the model, if there is one, and what is left.
NodesTaken(card) == NodeCount(Head(card).lead, LeadingPositionals(Tail(card)))
ModelTaken(card) ==
  IF HasModel(Head(card).lead) /\ LeadingPositionals(Tail(card)) > NodesTaken(card)
  THEN <<Tail(card)[NodesTaken(card) + 1]>> ELSE <<>>
LeftOver(card) ==
  SubSeq(Tail(card), NodesTaken(card) + Len(ModelTaken(card)) + 1, Len(Tail(card)))

LEMMA DeviceFields ==
  ASSUME NEW card
  PROVE  WriteDevice(ParseDevice(card)) =
           Cat(Cat(Cat(<<Head(card)>>,
                       Cat(SubSeq(Tail(card), 1, NodesTaken(card)),
                           Only(LeftOver(card), Positionals))),
                   ModelTaken(card)),
               Only(LeftOver(card), KeyValues))
BY DEF Cat, WriteDevice, ParseDevice, NodesTaken, ModelTaken, LeftOver

\* What lies between two places, cut behind a third.
Cut(s, m, k, n, S) ==
  /\ SubSeq(s, m, k) \in Seq(S) /\ SubSeq(s, k + 1, n) \in Seq(S)
  /\ SubSeq(s, m, n) = Cat(SubSeq(s, m, k), SubSeq(s, k + 1, n))

LEMMA CutInTwo ==
  ASSUME NEW S, NEW s \in Seq(S), NEW m \in 1 .. Len(s) + 1,
         NEW k \in m - 1 .. Len(s), NEW n \in k .. Len(s)
  PROVE  Cut(s, m, k, n, S)
<1>1. Len(s) \in Nat /\ m \in Nat /\ k \in Nat /\ n \in Nat
  OBVIOUS
<1>2. SubSeq(s, m, k) \in Seq(S) /\ SubSeq(s, k + 1, n) \in Seq(S)
  BY <1>1
<1>3. SubSeq(s, m, n) = SubSeq(s, m, k) \o SubSeq(s, k + 1, n)
  BY <1>1, ConcatAdjacentSubSeq
<1>. QED
  BY <1>2, <1>3 DEF Cut, Cat

LEMMA CutOne ==
  ASSUME NEW S, NEW s \in Seq(S), NEW i \in 1 .. Len(s)
  PROVE  SubSeq(s, i, i) = <<s[i]>> /\ s[i] \in S
<1>. DEFINE t == SubSeq(s, i, i)
<1>1. t \in Seq(S) /\ Len(t) = 1 /\ t[1] = s[i] /\ s[i] \in S
  BY SubSeqProperties
<1>. HIDE DEF t
<1>2. t = <<s[i]>>
  BY <1>1
<1>. QED
  BY <1>1, <1>2 DEF t

\* A card's parts are its words, and nothing is between them.
Behind(card) == SubSeq(Tail(card), NodesTaken(card) + 1, Len(Tail(card)))

LEMMA CardParts ==
  ASSUME NEW S \in SUBSET Word, NEW card \in Seq(S), card # <<>>
  PROVE  /\ Head(card) \in S /\ Tail(card) \in Seq(S)
         /\ NodesTaken(card) \in 0 .. LeadingPositionals(Tail(card))
         /\ NodesTaken(card) + Len(ModelTaken(card)) <= LeadingPositionals(Tail(card))
         /\ SubSeq(Tail(card), 1, NodesTaken(card)) \in Seq(S)
         /\ ModelTaken(card) \in Seq(S) /\ LeftOver(card) \in Seq(S) /\ Behind(card) \in Seq(S)
         /\ card = Cat(<<Head(card)>>, Tail(card))
         /\ Tail(card) = Cat(SubSeq(Tail(card), 1, NodesTaken(card)), Behind(card))
         /\ Behind(card) = Cat(ModelTaken(card), LeftOver(card))
<1>. DEFINE rest == Tail(card)
            p    == LeadingPositionals(rest)
            n    == NodesTaken(card)
            m    == ModelTaken(card)
<1>1. Head(card) \in S /\ rest \in Seq(S) /\ card = Cat(<<Head(card)>>, rest)
  BY DEF Cat
<1>2. rest \in Seq(Word) /\ Len(rest) \in Nat
  BY <1>1
<1>3. p \in 0 .. Len(rest)
  BY <1>2, LeadingProperties
<1>4. n \in 0 .. p
  BY <1>3, NodeCountBounds DEF NodesTaken
<1>5. m = <<>> \/ (p > n /\ m = <<rest[n + 1]>>)
  BY DEF ModelTaken
<1>6. LeftOver(card) = SubSeq(rest, n + Len(m) + 1, Len(rest))
      /\ Behind(card) = SubSeq(rest, n + 1, Len(rest))
  BY DEF LeftOver, Behind
<1>. HIDE DEF rest, p, n, m
<1>7. /\ SubSeq(rest, 1, n) \in Seq(S) /\ Behind(card) \in Seq(S)
      /\ rest = Cat(SubSeq(rest, 1, n), Behind(card))
  <2>1. 1 \in 1 .. Len(rest) + 1 /\ n \in 1 - 1 .. Len(rest) /\ Len(rest) \in n .. Len(rest)
    BY <1>2, <1>3, <1>4
  <2>2. Cut(rest, 1, n, Len(rest), S)
    BY <1>1, <2>1, CutInTwo
  <2>3. SubSeq(rest, 1, Len(rest)) = rest
    BY <1>1, SubSeqFull
  <2>. QED
    BY <1>6, <2>2, <2>3 DEF Cut
<1>8. /\ m \in Seq(S) /\ n + Len(m) <= p /\ LeftOver(card) \in Seq(S)
      /\ Behind(card) = Cat(m, LeftOver(card))
  <2>1. CASE m = <<>>
    <3>1. Len(m) = 0 /\ m \in Seq(S) /\ n + 0 + 1 = n + 1
      BY <1>2, <1>3, <1>4, <2>1
    <3>2. LeftOver(card) = Behind(card)
      BY <1>6, <3>1
    <3>3. Cat(m, Behind(card)) = Behind(card)
      BY <1>7, <2>1, CatProperties
    <3>. QED
      BY <1>3, <1>4, <1>7, <3>1, <3>2, <3>3
  <2>2. CASE p > n /\ m = <<rest[n + 1]>>
    <3>1. /\ n + 1 \in 1 .. Len(rest) /\ n + 1 \in 1 .. Len(rest) + 1
          /\ n + 1 \in (n + 1) - 1 .. Len(rest) /\ Len(rest) \in n + 1 .. Len(rest)
          /\ n + 1 + 1 = (n + 1) + 1 /\ n \in Nat
      BY <1>2, <1>3, <1>4, <2>2
    <3>2. Cut(rest, n + 1, n + 1, Len(rest), S)
      BY <1>1, <3>1, CutInTwo
    <3>3. SubSeq(rest, n + 1, n + 1) = <<rest[n + 1]>> /\ rest[n + 1] \in S
      BY <1>1, <3>1, CutOne
    <3>4. Len(m) = 1 /\ m \in Seq(S)
      BY <2>2, <3>3
    <3>5. LeftOver(card) = SubSeq(rest, (n + 1) + 1, Len(rest))
      BY <1>6, <3>1, <3>4
    <3>6. LeftOver(card) \in Seq(S) /\ Behind(card) = Cat(m, LeftOver(card))
      BY <1>6, <2>2, <3>2, <3>3, <3>5 DEF Cut
    <3>. QED
      BY <1>3, <1>4, <2>2, <3>4, <3>6
  <2>. QED
    BY <1>5, <2>1, <2>2
<1>. QED
  BY <1>1, <1>4, <1>7, <1>8 DEF rest, p, n, m
\* What is written of a card: its words, with its name at the head.
LEMMA DeviceWords ==
  ASSUME NEW S \in SUBSET Word, NEW card \in Seq(S), card # <<>>
  PROVE  /\ WriteDevice(ParseDevice(card)) \in Seq(S)
         /\ WriteDevice(ParseDevice(card)) # <<>>
         /\ Head(WriteDevice(ParseDevice(card))) = Head(card)
<1>. DEFINE h == Head(card)
            a == SubSeq(Tail(card), 1, NodesTaken(card))
            b == Only(LeftOver(card), Positionals)
            m == ModelTaken(card)
            k == Only(LeftOver(card), KeyValues)
<1>1. h \in S /\ a \in Seq(S) /\ m \in Seq(S) /\ LeftOver(card) \in Seq(S)
  BY CardParts
<1>2. b \in Seq(S) /\ k \in Seq(S)
  BY <1>1, OnlyType
<1>3. WriteDevice(ParseDevice(card)) = Cat(Cat(Cat(<<h>>, Cat(a, b)), m), k)
  BY DeviceFields
<1>. HIDE DEF h, a, b, m, k
<1>4. Cat(a, b) \in Seq(S) /\ <<h>> \in Seq(S)
  BY <1>1, <1>2, CatProperties
<1>5. Cat(Cat(Cat(<<h>>, Cat(a, b)), m), k) = Cat(<<h>>, Cat(Cat(a, b), Cat(m, k)))
      /\ Cat(Cat(a, b), Cat(m, k)) \in Seq(S)
  <2>. DEFINE hh == <<h>>
              ab == Cat(a, b)
              mk == Cat(m, k)
  <2>1. hh \in Seq(S) /\ ab \in Seq(S)
    BY <1>4
  <2>2. mk \in Seq(S)
    BY <1>1, <1>2, CatProperties
  <2>. HIDE DEF hh, ab
  <2>3. Cat(hh, ab) \in Seq(S)
    BY <2>1, CatProperties
  <2>4. Cat(Cat(hh, ab), mk) = Cat(Cat(Cat(hh, ab), m), k)
    BY <1>1, <1>2, <2>3, CatAssociative
  <2>. HIDE DEF mk
  <2>5. Cat(hh, Cat(ab, mk)) = Cat(Cat(hh, ab), mk)
    BY <2>1, <2>2, CatAssociative
  <2>6. Cat(ab, mk) \in Seq(S)
    BY <2>1, <2>2, CatProperties
  <2>. QED
    BY <2>4, <2>5, <2>6 DEF hh, ab, mk
<1>6. /\ Cat(<<h>>, Cat(Cat(a, b), Cat(m, k))) \in Seq(S)
      /\ Cat(<<h>>, Cat(Cat(a, b), Cat(m, k))) # <<>>
      /\ Head(Cat(<<h>>, Cat(Cat(a, b), Cat(m, k)))) = h
  BY <1>1, <1>5, CatOne
<1>. QED
  BY <1>3, <1>5, <1>6 DEF h

\* parse_device puts every word of a card somewhere, and once.
LEMMA DeviceBag ==
  ASSUME NEW card \in Card
  PROVE  ToBag(WriteDevice(ParseDevice(card))) = ToBag(card)
<1>. DEFINE h == Head(card)
            rest == Tail(card)
            a == SubSeq(rest, 1, NodesTaken(card))
            l == LeftOver(card)
            b == Only(l, Positionals)
            m == ModelTaken(card)
            k == Only(l, KeyValues)
<1>1. card \in Seq(Word) /\ card # <<>> /\ Word \in SUBSET Word
  BY DEF Card
<1>2. /\ h \in Word /\ rest \in Seq(Word) /\ a \in Seq(Word) /\ m \in Seq(Word) /\ l \in Seq(Word)
      /\ Behind(card) \in Seq(Word)
      /\ card = Cat(<<h>>, rest) /\ rest = Cat(a, Behind(card)) /\ Behind(card) = Cat(m, l)
  BY <1>1, CardParts
<1>3. b \in Seq(Word) /\ k \in Seq(Word)
  BY <1>2, OnlyType
<1>4. WriteDevice(ParseDevice(card)) = Cat(Cat(Cat(<<h>>, Cat(a, b)), m), k)
  BY DeviceFields
<1>5. WriteDevice(ParseDevice(card)) \in Seq(Word)
  BY <1>1, DeviceWords
<1>6. Word \subseteq Positionals \cup KeyValues /\ Positionals \cap KeyValues = {}
  BY DEF Positionals, KeyValues
<1>9. \A x : Count(l, x) = Count(b, x) + Count(k, x)
  <2>1. ASSUME NEW s \in Seq(Word), NEW x
        PROVE  Count(s, x) = Count(Only(s, Positionals), x) + Count(Only(s, KeyValues), x)
    BY <1>6, CountOnly
  <2>. QED
    BY <1>2, <2>1
<1>. HIDE DEF h, rest, a, l, b, m, k
<1>. DEFINE hh == <<h>>
<1>7. hh \in Seq(Word)
  BY <1>2, CatOne
<1>10. card = Cat(hh, rest) /\ WriteDevice(ParseDevice(card)) = Cat(Cat(Cat(hh, Cat(a, b)), m), k)
  BY <1>2, <1>4
<1>. HIDE DEF hh
<1>8. ASSUME NEW x \in Word
      PROVE  Count(WriteDevice(ParseDevice(card)), x) = Count(card, x)
  <2>1. /\ Count(card, x) = Count(hh, x) + Count(rest, x)
        /\ Count(rest, x) = Count(a, x) + Count(Behind(card), x)
        /\ Count(Behind(card), x) = Count(m, x) + Count(l, x)
    <3>1. Count(Cat(hh, rest), x) = Count(hh, x) + Count(rest, x)
      BY <1>2, <1>7, CatProperties
    <3>2. Count(Cat(a, Behind(card)), x) = Count(a, x) + Count(Behind(card), x)
      BY <1>2, CatProperties
    <3>3. Count(Cat(m, l), x) = Count(m, x) + Count(l, x)
      BY <1>2, CatProperties
    <3>. QED
      BY <1>2, <1>10, <3>1, <3>2, <3>3
  <2>2. Cat(a, b) \in Seq(Word) /\ Count(Cat(a, b), x) = Count(a, x) + Count(b, x)
    BY <1>2, <1>3, CatProperties
  <2>3. /\ Cat(hh, Cat(a, b)) \in Seq(Word)
        /\ Count(Cat(hh, Cat(a, b)), x) = Count(hh, x) + Count(Cat(a, b), x)
    BY <1>7, <2>2, CatProperties
  <2>4. /\ Cat(Cat(hh, Cat(a, b)), m) \in Seq(Word)
        /\ Count(Cat(Cat(hh, Cat(a, b)), m), x) = Count(Cat(hh, Cat(a, b)), x) + Count(m, x)
    BY <1>2, <2>3, CatProperties
  <2>5. Count(Cat(Cat(Cat(hh, Cat(a, b)), m), k), x) =
          Count(Cat(Cat(hh, Cat(a, b)), m), x) + Count(k, x)
    BY <1>3, <2>4, CatProperties
  <2>6. /\ Count(hh, x) \in Nat /\ Count(a, x) \in Nat /\ Count(b, x) \in Nat
        /\ Count(m, x) \in Nat /\ Count(k, x) \in Nat
    BY <1>2, <1>3, <1>7, CountType
  <2>7. Count(Cat(Cat(Cat(hh, Cat(a, b)), m), k), x) = Count(card, x)
    BY <1>9, <2>1, <2>2, <2>3, <2>4, <2>5, <2>6
  <2>. QED
    BY <1>10, <2>7
<1>. QED
  BY <1>1, <1>5, <1>8, SameBag

\* A card whose words stand where its family expects them is written as it was
\* read.
LEMMA WellPlacedKept ==
  ASSUME NEW card \in Card, WellPlaced(card)
  PROVE  WriteDevice(ParseDevice(card)) = card
<1>. DEFINE h == Head(card)
            rest == Tail(card)
            p == LeadingPositionals(rest)
            n == NodesTaken(card)
            a == SubSeq(rest, 1, n)
            l == LeftOver(card)
            m == ModelTaken(card)
<1>1. card \in Seq(Word) /\ card # <<>> /\ Word \in SUBSET Word
  BY DEF Card
<1>2. /\ h \in Word /\ rest \in Seq(Word) /\ a \in Seq(Word) /\ m \in Seq(Word) /\ l \in Seq(Word)
      /\ Behind(card) \in Seq(Word)
      /\ card = Cat(<<h>>, rest) /\ rest = Cat(a, Behind(card)) /\ Behind(card) = Cat(m, l)
      /\ n \in 0 .. p /\ n + Len(m) <= p
  BY <1>1, CardParts
<1>3. p \in 0 .. Len(rest) /\ \A i \in 1 .. p : rest[i] \in Positionals
  BY <1>2, LeadingProperties
<1>4. /\ p = Len(Only(rest, Positionals))
      /\ h.lead \in FixedFamilies =>
           p <= FixedNodes[h.lead] + (IF HasModel(h.lead) THEN 1 ELSE 0)
                  + (IF h.lead = "Q" THEN 1 ELSE 0)
  BY DEF WellPlaced
\* Whatever the family, the nodes and the model take all positional words.
<1>5. n + Len(m) = p
  <2>1. n = NodeCount(h.lead, p)
        /\ m = IF HasModel(h.lead) /\ p > n THEN <<rest[n + 1]>> ELSE <<>>
    BY DEF NodesTaken, ModelTaken
  <2>2. FixedNodes["M"] = 4 /\ FixedNodes["Q"] = 3 /\ FixedNodes["D"] = 2
        /\ FixedNodes["J"] = 3 /\ FixedNodes["R"] = 2
    BY DEF FixedNodes
  <2>3. p \in Nat /\ Len(<<rest[n + 1]>>) = 1 /\ Len(<<>>) = 0
    BY <1>3
  <2>. DEFINE f == h.lead
  <2>4. n = NodeCount(f, p) /\ Len(m) = IF HasModel(f) /\ p > n THEN 1 ELSE 0
    BY <2>1, <2>3
  <2>5. f \in FixedFamilies =>
          p <= FixedNodes[f] + (IF HasModel(f) THEN 1 ELSE 0) + (IF f = "Q" THEN 1 ELSE 0)
    BY <1>4
  <2>. HIDE DEF h, rest, p, n, m, f
  <2>6. CASE f \in FixedFamilies
    <3>1. CASE f = "Q"
      BY <2>2, <2>3, <2>4, <2>5, <2>6, <3>1 DEF NodeCount, HasModel
    <3>2. CASE f = "R"
      BY <2>2, <2>3, <2>4, <2>5, <2>6, <3>2 DEF NodeCount, HasModel
    <3>3. CASE f \in {"M", "D", "J"}
      BY <2>2, <2>3, <2>4, <2>5, <2>6, <3>3 DEF NodeCount, HasModel
    <3>. QED
      BY <2>6, <3>1, <3>2, <3>3 DEF FixedFamilies
  <2>7. CASE f \notin FixedFamilies
    BY <2>3, <2>4, <2>7 DEF NodeCount, HasModel, FixedFamilies
  <2>. QED
    BY <2>6, <2>7
<1>6. l = SubSeq(rest, p + 1, Len(rest))
  BY <1>5 DEF LeftOver
<1>. HIDE DEF h, rest, p, n, a, l, m
\* So what is left are parameters.
<1>7. l \in Seq(KeyValues)
  <2>. DEFINE front == SubSeq(rest, 1, p)
  <2>1. 1 \in 1 .. Len(rest) + 1 /\ p \in 1 - 1 .. Len(rest) /\ Len(rest) \in p .. Len(rest)
    BY <1>2, <1>3
  <2>2. Cut(rest, 1, p, Len(rest), Word) /\ SubSeq(rest, 1, Len(rest)) = rest
    BY <1>2, <2>1, CutInTwo, SubSeqFull
  <2>3. rest = Cat(front, l) /\ front \in Seq(Word)
    BY <1>6, <2>2 DEF Cut
  <2>4. Len(front) = p /\ front \in Seq(Positionals)
    <3>1. Len(front) = p /\ \A i \in 1 .. p : front[i] = rest[i]
      BY <1>2, <1>3
    <3>. HIDE DEF front
    <3>. QED
      BY <1>3, <2>3, <3>1
  <2>. HIDE DEF front
  <2>5. Only(front, Positionals) = front
    BY <2>4, OnlyAll
  <2>6. Only(rest, Positionals) = Cat(front, Only(l, Positionals))
    <3>1. Only(Cat(front, l), Positionals) = Cat(Only(front, Positionals), Only(l, Positionals))
      BY <1>2, <2>3, CatProperties
    <3>. QED
      BY <2>3, <2>5, <3>1
  <2>7. Only(l, Positionals) \in Seq(Word)
    BY <1>2, OnlyType
  <2>8. Len(Cat(front, Only(l, Positionals))) = Len(front) + Len(Only(l, Positionals))
    BY <2>3, <2>7, CatProperties
  <2>9. Len(Only(l, Positionals)) = 0
    BY <1>3, <1>4, <2>4, <2>6, <2>7, <2>8
  <2>10. Only(l, Positionals) = <<>>
    BY <2>7, <2>9
  <2>11. l \in Seq(Word \ Positionals)
    BY <1>2, <2>10, NoneOnly
  <2>12. Word \ Positionals = KeyValues
    BY DEF Positionals, KeyValues
  <2>. QED
    BY <2>11, <2>12
<1>8. Only(l, KeyValues) = l /\ Only(l, Positionals) = <<>>
  <2>1. KeyValues \cap Positionals = {}
    BY DEF Positionals
  <2>. QED
    BY <1>7, <2>1, OnlyAll, OnlyNone
<1>9. WriteDevice(ParseDevice(card)) =
        Cat(Cat(Cat(<<h>>, Cat(a, Only(l, Positionals))), m), Only(l, KeyValues))
  BY DeviceFields DEF h, a, l, m, n, rest
<1>10. Cat(a, <<>>) = a /\ <<h>> \in Seq(Word)
  BY <1>2, CatProperties, CatOne
<1>11. WriteDevice(ParseDevice(card)) = Cat(Cat(Cat(<<h>>, a), m), l)
  BY <1>8, <1>9, <1>10
<1>12. card = Cat(<<h>>, Cat(a, Cat(m, l)))
  BY <1>2
<1>13. Cat(Cat(Cat(<<h>>, a), m), l) = Cat(<<h>>, Cat(a, Cat(m, l)))
  <2>. DEFINE hh == <<h>>
              ml == Cat(m, l)
  <2>1. hh \in Seq(Word)
    BY <1>10
  <2>2. ml \in Seq(Word)
    BY <1>2, CatProperties
  <2>. HIDE DEF hh
  <2>3. Cat(hh, a) \in Seq(Word)
    BY <1>2, <2>1, CatProperties
  <2>4. Cat(Cat(hh, a), ml) = Cat(Cat(Cat(hh, a), m), l)
    BY <1>2, <2>3, CatAssociative
  <2>. HIDE DEF ml
  <2>5. Cat(hh, Cat(a, ml)) = Cat(Cat(hh, a), ml)
    BY <1>2, <2>1, <2>2, CatAssociative
  <2>. QED
    BY <2>4, <2>5 DEF hh, ml
<1>. QED
  BY <1>11, <1>12, <1>13
\* What is written of a header: its words but for the separators, with its name
\* at the head; parsed again it is the same.
LEMMA HeaderWords ==
  ASSUME NEW S \in SUBSET Word, NEW header \in Seq(S), header # <<>>
  PROVE  /\ WriteHeader(ParseHeader(header)) \in Seq(S)
         /\ WriteHeader(ParseHeader(header)) # <<>>
         /\ Head(WriteHeader(ParseHeader(header))) = Head(header)
         /\ ParseHeader(WriteHeader(ParseHeader(header))) = ParseHeader(header)
<1>. DEFINE NoSeparator == {w \in Word : w.lead # "params"}
            name   == Head(header)
            kept   == Only(Tail(header), NoSeparator)
            ports  == Only(kept, Positionals)
            params == Only(kept, KeyValues)
            again  == Cat(ports, params)
            hdr    == WriteHeader(ParseHeader(header))
<1>1. name \in S /\ Tail(header) \in Seq(S)
  OBVIOUS
<1>2. kept \in Seq(S \cap NoSeparator)
  BY <1>1, OnlyType
<1>3. /\ ports \in Seq((S \cap NoSeparator) \cap Positionals)
      /\ params \in Seq((S \cap NoSeparator) \cap KeyValues)
  BY <1>2, OnlyType
<1>4. ports \in Seq(S) /\ params \in Seq(S)
  <2>1. S \cap NoSeparator \subseteq S
    OBVIOUS
  <2>2. ports \in Seq(S \cap NoSeparator) /\ params \in Seq(S \cap NoSeparator)
    BY <1>2, OnlyType
  <2>. HIDE DEF NoSeparator, ports, params
  <2>. QED
    BY <2>2
<1>5. ParseHeader(header) = [name |-> name, ports |-> ports, params |-> params, body |-> <<>>]
  BY DEF ParseHeader
<1>6. hdr = Cat(Cat(<<name>>, ports), params)
  BY <1>5 DEF WriteHeader, Cat
<1>. HIDE DEF NoSeparator, name, kept, ports, params, hdr
<1>7. again \in Seq(S)
  BY <1>4, CatProperties
<1>8. hdr = Cat(<<name>>, again)
  <2>. DEFINE hh == <<name>>
  <2>1. hh \in Seq(S)
    BY <1>1
  <2>. HIDE DEF hh
  <2>2. Cat(hh, Cat(ports, params)) = Cat(Cat(hh, ports), params)
    BY <1>4, <2>1, CatAssociative
  <2>. QED
    BY <1>6, <2>2 DEF hh
<1>. HIDE DEF again
<1>9. hdr \in Seq(S) /\ hdr # <<>> /\ Head(hdr) = name /\ Tail(hdr) = again
  BY <1>1, <1>7, <1>8, CatOne
<1>10. Only(again, NoSeparator) = again
  <2>1. Only(again, NoSeparator) = Cat(Only(ports, NoSeparator), Only(params, NoSeparator))
    BY <1>4, CatProperties DEF again
  <2>2. Only(ports, NoSeparator) = ports
    <3>1. (S \cap NoSeparator) \cap Positionals \subseteq NoSeparator
      OBVIOUS
    <3>. QED
      BY <1>3, <3>1, OnlyAll
  <2>3. Only(params, NoSeparator) = params
    <3>1. (S \cap NoSeparator) \cap KeyValues \subseteq NoSeparator
      OBVIOUS
    <3>. QED
      BY <1>3, <3>1, OnlyAll
  <2>. QED
    BY <2>1, <2>2, <2>3 DEF again
<1>11. Only(again, Positionals) = ports
  <2>1. Only(again, Positionals) = Cat(Only(ports, Positionals), Only(params, Positionals))
    BY <1>4, CatProperties DEF again
  <2>2. Only(ports, Positionals) = ports
    <3>1. (S \cap NoSeparator) \cap Positionals \subseteq Positionals
      OBVIOUS
    <3>. QED
      BY <1>3, <3>1, OnlyAll
  <2>3. Only(params, Positionals) = <<>>
    <3>1. ((S \cap NoSeparator) \cap KeyValues) \cap Positionals = {}
      BY DEF Positionals
    <3>. QED
      BY <1>3, <3>1, OnlyNone
  <2>4. Cat(ports, <<>>) = ports
    BY <1>4, CatProperties
  <2>. QED
    BY <2>1, <2>2, <2>3, <2>4
<1>12. Only(again, KeyValues) = params
  <2>1. Only(again, KeyValues) = Cat(Only(ports, KeyValues), Only(params, KeyValues))
    BY <1>4, CatProperties DEF again
  <2>2. Only(params, KeyValues) = params
    <3>1. (S \cap NoSeparator) \cap KeyValues \subseteq KeyValues
      OBVIOUS
    <3>. QED
      BY <1>3, <3>1, OnlyAll
  <2>3. Only(ports, KeyValues) = <<>>
    <3>1. ((S \cap NoSeparator) \cap Positionals) \cap KeyValues = {}
      BY DEF Positionals
    <3>. QED
      BY <1>3, <3>1, OnlyNone
  <2>4. Cat(<<>>, params) = params
    BY <1>4, CatProperties
  <2>. QED
    BY <2>1, <2>2, <2>3, <2>4
<1>13. ParseHeader(hdr) = [name |-> name, ports |-> ports, params |-> params, body |-> <<>>]
  <2>1. ParseHeader(hdr) =
          [name   |-> Head(hdr),
           ports  |-> Only(Only(Tail(hdr), NoSeparator), Positionals),
           params |-> Only(Only(Tail(hdr), NoSeparator), KeyValues),
           body   |-> <<>>]
    BY DEF ParseHeader, NoSeparator
  <2>. QED
    BY <1>9, <1>10, <1>11, <1>12, <2>1
<1>. QED
  BY <1>5, <1>9, <1>13 DEF hdr, name
----------------------------------------------------------------------------
(* The text that is written *)

Placed(a, b, S) ==
  /\ Cat(a, b) \in Seq(S) /\ Len(a) \in Nat /\ Len(b) \in Nat
  /\ Len(Cat(a, b)) = Len(a) + Len(b)
  /\ \A i \in 1 .. Len(a) : Cat(a, b)[i] = a[i]
  /\ \A i \in 1 .. Len(b) : Cat(a, b)[Len(a) + i] = b[i]

LEMMA CatPlaces ==
  ASSUME NEW S, NEW a \in Seq(S), NEW b \in Seq(S)
  PROVE  Placed(a, b, S)
BY DEF Cat, Placed

\* The lines of a subckt: its header, its cards, its end.
LEMMA SubcktLines ==
  ASSUME NEW sub \in Subckt
  PROVE  /\ WriteSubckt(sub) \in Seq(Seq(Word))
         /\ Len(sub.body) \in Nat
         /\ Len(WriteSubckt(sub)) = Len(sub.body) + 2
         /\ WriteSubckt(sub)[1] =
              Cat(<<Keyword("subckt")>>, WriteHeader(ParseHeader(sub.header)))
         /\ \A i \in 1 .. Len(sub.body) :
              WriteSubckt(sub)[i + 1] = WriteDevice(ParseDevice(sub.body[i]))
         /\ WriteSubckt(sub)[Len(sub.body) + 2] =
              <<Keyword("ends"), Head(sub.header)>>
<1>. DEFINE first == Cat(<<Keyword("subckt")>>, WriteHeader(ParseHeader(sub.header)))
            cards == WriteCards(sub.body)
            last  == <<Keyword("ends"), Head(sub.header)>>
            a == <<first>>
            b == <<last>>
<1>1. /\ sub.header \in Seq(Word) /\ sub.header # <<>> /\ sub.body \in Seq(Card)
      /\ Len(sub.body) \in Nat
  BY DEF Subckt, Card
<1>2. ParseHeader(sub.header).name = Head(sub.header)
  BY DEF ParseHeader
<1>3. WriteSubckt(sub) = Cat(Cat(a, cards), b)
  BY <1>2 DEF WriteSubckt, Cat
<1>4. first \in Seq(Word) /\ last \in Seq(Word)
  <2>1. Keyword("subckt") \in Word /\ Keyword("ends") \in Word
    BY PlainAssumption DEF Keyword, Word, Leads
  <2>2. WriteHeader(ParseHeader(sub.header)) \in Seq(Word)
    BY <1>1, HeaderWords
  <2>3. Head(sub.header) \in Word
    BY <1>1
  <2>. HIDE DEF cards
  <2>. QED
    BY <2>1, <2>2, <2>3, CatOne
<1>5. /\ cards \in Seq(Seq(Word)) /\ Len(cards) = Len(sub.body)
      /\ \A i \in 1 .. Len(sub.body) : cards[i] = WriteDevice(ParseDevice(sub.body[i]))
  <2>1. \A i \in 1 .. Len(sub.body) : WriteDevice(ParseDevice(sub.body[i])) \in Seq(Word)
    <3>1. \A c \in Card : WriteDevice(ParseDevice(c)) \in Seq(Word)
      BY DeviceWords DEF Card
    <3>. QED
      BY <1>1, <3>1
  <2>. QED
    BY <1>1, <2>1 DEF WriteCards
<1>6. a \in Seq(Seq(Word)) /\ Len(a) = 1 /\ a[1] = first
      /\ b \in Seq(Seq(Word)) /\ Len(b) = 1 /\ b[1] = last
  BY <1>4
<1>. HIDE DEF a, b, cards
<1>7. /\ Cat(a, cards) \in Seq(Seq(Word)) /\ Len(Cat(a, cards)) = 1 + Len(sub.body)
      /\ \A i \in 1 .. 1 : Cat(a, cards)[i] = a[i]
      /\ \A i \in 1 .. Len(sub.body) : Cat(a, cards)[1 + i] = cards[i]
  <2>1. Placed(a, cards, Seq(Word))
    BY <1>5, <1>6, CatPlaces
  <2>. QED
    BY <1>5, <1>6, <2>1 DEF Placed
<1>8. /\ Cat(Cat(a, cards), b) \in Seq(Seq(Word))
      /\ Len(Cat(Cat(a, cards), b)) = (1 + Len(sub.body)) + 1
      /\ \A i \in 1 .. 1 + Len(sub.body) : Cat(Cat(a, cards), b)[i] = Cat(a, cards)[i]
      /\ \A i \in 1 .. 1 : Cat(Cat(a, cards), b)[(1 + Len(sub.body)) + i] = b[i]
  <2>1. Placed(Cat(a, cards), b, Seq(Word))
    BY <1>6, <1>7, CatPlaces
  <2>. QED
    BY <1>6, <1>7, <2>1 DEF Placed
<1>. DEFINE w == WriteSubckt(sub)
            n == Len(sub.body)
<1>9. /\ w \in Seq(Seq(Word)) /\ Len(w) = (1 + n) + 1 /\ n \in Nat
      /\ w[1] = first /\ w[(1 + n) + 1] = last
      /\ \A i \in 1 .. n : w[1 + i] = WriteDevice(ParseDevice(sub.body[i]))
  <2>1. 1 \in 1 .. 1 /\ 1 \in 1 .. 1 + n /\ \A i \in 1 .. n : 1 + i \in 1 .. 1 + n
    BY <1>1
  <2>. HIDE DEF first, last
  <2>. QED
    BY <1>1, <1>3, <1>5, <1>6, <1>7, <1>8, <2>1
<1>. HIDE DEF w, first, last
<1>10. (1 + n) + 1 = n + 2 /\ \A i \in 1 .. n : 1 + i = i + 1
  BY <1>1
<1>. QED
  BY <1>9, <1>10 DEF w, first, last

Blocks(nl) == [i \in DOMAIN nl.order |-> WriteSubckt(nl.defs[nl.order[i]])]

\* Where the lines of the k-th definition begin, and those of the top level; the
\* first line is a comment.
BlockRow(nl, k) == Len(nl.directives) + Before(Blocks(nl), k)
TopRow(nl)      == BlockRow(nl, Len(nl.order) + 1)

LEMMA NetlistParts ==
  ASSUME NEW nl, IsNetlist(nl)
  PROVE  /\ Len(nl.order) \in Nat /\ DOMAIN nl.order = 1 .. Len(nl.order)
         /\ \A k \in 1 .. Len(nl.order) :
              /\ nl.order[k] \in DOMAIN nl.defs /\ nl.order[k] \in Word
              /\ nl.defs[nl.order[k]] \in Subckt
              /\ Blocks(nl)[k] = WriteSubckt(nl.defs[nl.order[k]])
         /\ Blocks(nl) \in Seq(Seq(Seq(Word))) /\ Len(Blocks(nl)) = Len(nl.order)
<1>1. Len(nl.order) \in Nat /\ DOMAIN nl.order = 1 .. Len(nl.order)
  BY DEF IsNetlist
<1>2. ASSUME NEW k \in 1 .. Len(nl.order)
      PROVE  /\ nl.order[k] \in DOMAIN nl.defs /\ nl.order[k] \in Word
             /\ nl.defs[nl.order[k]] \in Subckt
             /\ Blocks(nl)[k] = WriteSubckt(nl.defs[nl.order[k]])
  <2>1. nl.order[k] \in ToSet(nl.order)
    BY <1>1, <1>2 DEF ToSet
  <2>2. nl.order[k] \in DOMAIN nl.defs
    BY <2>1 DEF IsNetlist
  <2>3. nl.defs[nl.order[k]] \in Subckt
    BY <2>2 DEF IsNetlist, IsDefs
  <2>. QED
    BY <1>1, <1>2, <2>2, <2>3 DEF Blocks, IsNetlist, IsDefs
<1>3. \A k \in 1 .. Len(nl.order) : Blocks(nl)[k] \in Seq(Seq(Word))
  BY <1>2, SubcktLines
<1>4. Blocks(nl) \in Seq(Seq(Seq(Word))) /\ Len(Blocks(nl)) = Len(nl.order)
  <2>1. Blocks(nl) = [k \in 1 .. Len(nl.order) |-> Blocks(nl)[k]]
    BY <1>1 DEF Blocks
  <2>. QED
    BY <1>1, <1>3, <2>1
<1>. QED
  BY <1>1, <1>2, <1>4

BodyLen(nl, k) == Len(nl.defs[nl.order[k]].body)

\* The definitions' lines lie one behind the other, behind the directives.
LEMMA BlockRows ==
  ASSUME NEW nl, IsNetlist(nl)
  PROVE  /\ Len(nl.directives) \in Nat
         /\ BlockRow(nl, 1) = Len(nl.directives)
         /\ TopRow(nl) = Len(nl.directives) + Len(FlattenSeq(Blocks(nl)))
         /\ TopRow(nl) \in Nat
         /\ \A k \in 1 .. Len(nl.order) :
              /\ BlockRow(nl, k) \in Nat /\ BodyLen(nl, k) \in Nat
              /\ BlockRow(nl, k + 1) = BlockRow(nl, k) + BodyLen(nl, k) + 2
<1>. DEFINE B == Blocks(nl)
            nd == Len(nl.directives)
<1>1. /\ B \in Seq(Seq(Seq(Word))) /\ Len(B) = Len(nl.order) /\ Len(nl.order) \in Nat
      /\ \A k \in 1 .. Len(nl.order) : nl.defs[nl.order[k]] \in Subckt
                                       /\ B[k] = WriteSubckt(nl.defs[nl.order[k]])
  BY NetlistParts
<1>2. nd \in Nat
  BY DEF IsNetlist
<1>3. FlattenSeq(B) \in Seq(Seq(Word)) /\ Len(FlattenSeq(B)) \in Nat
  <2>1. FlattenSeq(B) \in Seq(Seq(Word))
    <3>1. <<>> \in Seq(Seq(Word))
      OBVIOUS
    <3>. QED
      BY <1>1, <3>1, FlattenAppend
  <2>. QED
    BY <2>1
<1>4. /\ Before(B, 1) = 0 /\ Before(B, Len(B) + 1) = Len(FlattenSeq(B))
      /\ \A k \in 1 .. Len(B) : Before(B, k) \in Nat
                                /\ Before(B, k + 1) = Before(B, k) + Len(B[k])
  BY <1>1, FlattenPlaces
<1>5. \A k \in 1 .. Len(nl.order) : BodyLen(nl, k) \in Nat /\ Len(B[k]) = BodyLen(nl, k) + 2
  BY <1>1, SubcktLines DEF BodyLen
<1>. HIDE DEF B, nd
<1>6. ASSUME NEW k \in 1 .. Len(nl.order)
      PROVE  /\ BlockRow(nl, k) \in Nat /\ BodyLen(nl, k) \in Nat
             /\ BlockRow(nl, k + 1) = BlockRow(nl, k) + BodyLen(nl, k) + 2
  <2>1. /\ Before(B, k) \in Nat /\ Before(B, k + 1) = Before(B, k) + Len(B[k])
        /\ Len(B[k]) = BodyLen(nl, k) + 2 /\ BodyLen(nl, k) \in Nat
    BY <1>1, <1>4, <1>5, <1>6
  <2>2. BlockRow(nl, k) = nd + Before(B, k) /\ BlockRow(nl, k + 1) = nd + Before(B, k + 1)
    BY DEF BlockRow, B, nd
  <2>. QED
    BY <1>2, <2>1, <2>2
<1>7. BlockRow(nl, 1) = nd + 0 /\ TopRow(nl) = nd + Len(FlattenSeq(B))
  BY <1>1, <1>4 DEF BlockRow, TopRow, B, nd
<1>8. BlockRow(nl, 1) = nd /\ TopRow(nl) \in Nat
  BY <1>2, <1>3, <1>7
<1>. QED
  BY <1>2, <1>6, <1>7, <1>8 DEF nd, B

\* Where the k-th of the sequences that are laid end to end stands.
Stands(seqs, k) ==
  \A i \in 1 .. Len(seqs[k]) :
    /\ Before(seqs, k) + i \in 1 .. Len(FlattenSeq(seqs))
    /\ FlattenSeq(seqs)[Before(seqs, k) + i] = seqs[k][i]

LEMMA FlattenStands ==
  ASSUME NEW S, NEW seqs \in Seq(Seq(S)), NEW k \in 1 .. Len(seqs)
  PROVE  Stands(seqs, k)
BY FlattenPlaces DEF Stands

\* What the text's lines are.
Written(t, nl) ==
  /\ t \in Seq(Seq(Word))
  /\ Len(t) = TopRow(nl) + Len(nl.top) + 2
  /\ t[1] = <<Keyword("star")>>
  /\ \A i \in 1 .. Len(nl.directives) : t[i + 1] = nl.directives[i]
  /\ \A k \in 1 .. Len(nl.order) : \A i \in 1 .. BodyLen(nl, k) + 2 :
       t[BlockRow(nl, k) + i + 1] = Blocks(nl)[k][i]
  /\ \A i \in 1 .. Len(nl.top) : t[TopRow(nl) + i + 1] = WriteDevice(ParseDevice(nl.top[i]))
  /\ t[TopRow(nl) + Len(nl.top) + 2] = <<Keyword("end")>>

LEMMA TextIsWritten ==
  ASSUME NEW nl, IsNetlist(nl)
  PROVE  Written(ToSpice(nl), nl)
<1>. DEFINE s == << <<Keyword("star")>> >>
            D == nl.directives
            F == FlattenSeq(Blocks(nl))
            T == WriteCards(nl.top)
            e == << <<Keyword("end")>> >>
            sd == Cat(s, D)
            sdf == Cat(sd, F)
            sdft == Cat(sdf, T)
            t == Cat(sdft, e)
            nd == Len(D)
            nf == Len(F)
            nt == Len(nl.top)
<1>1. ToSpice(nl) = t
  BY DEF ToSpice, Cat, Blocks
<1>2. /\ s \in Seq(Seq(Word)) /\ Len(s) = 1 /\ s[1] = <<Keyword("star")>>
      /\ e \in Seq(Seq(Word)) /\ Len(e) = 1 /\ e[1] = <<Keyword("end")>>
  <2>1. Keyword("star") \in Word /\ Keyword("end") \in Word
    BY PlainAssumption DEF Keyword, Word, Leads
  <2>2. <<Keyword("star")>> \in Seq(Word) /\ <<Keyword("end")>> \in Seq(Word)
    BY <2>1
  <2>. QED
    BY <2>2
<1>3. D \in Seq(Seq(Word)) /\ nd \in Nat
  <2>1. \A c \in Card : c \in Seq(Word)
    BY DEF Card
  <2>. QED
    BY <2>1 DEF IsNetlist
<1>4. /\ F \in Seq(Seq(Word)) /\ nf \in Nat
  <2>1. Blocks(nl) \in Seq(Seq(Seq(Word))) /\ <<>> \in Seq(Seq(Word))
    BY NetlistParts
  <2>2. F \in Seq(Seq(Word))
    BY <2>1, FlattenAppend
  <2>. QED
    BY <2>2
<1>5. /\ T \in Seq(Seq(Word)) /\ Len(T) = nt /\ nt \in Nat
      /\ \A i \in 1 .. nt : T[i] = WriteDevice(ParseDevice(nl.top[i]))
  <2>1. nl.top \in Seq(Card)
    BY DEF IsNetlist
  <2>2. \A i \in 1 .. nt : WriteDevice(ParseDevice(nl.top[i])) \in Seq(Word)
    <3>1. \A c \in Card : WriteDevice(ParseDevice(c)) \in Seq(Word)
      BY DeviceWords DEF Card
    <3>. QED
      BY <2>1, <3>1
  <2>. QED
    BY <2>1, <2>2 DEF WriteCards
<1>6. /\ nd \in Nat /\ TopRow(nl) = nd + nf /\ TopRow(nl) \in Nat
      /\ \A k \in 1 .. Len(nl.order) : BlockRow(nl, k) \in Nat /\ BodyLen(nl, k) \in Nat
  BY BlockRows
<1>7. \A k \in 1 .. Len(nl.order) : \A i \in 1 .. BodyLen(nl, k) + 2 :
        Before(Blocks(nl), k) + i \in 1 .. nf
        /\ F[Before(Blocks(nl), k) + i] = Blocks(nl)[k][i]
  <2>1. TAKE k \in 1 .. Len(nl.order)
  <2>2. /\ Blocks(nl) \in Seq(Seq(Seq(Word))) /\ Len(Blocks(nl)) = Len(nl.order)
        /\ nl.defs[nl.order[k]] \in Subckt
        /\ Blocks(nl)[k] = WriteSubckt(nl.defs[nl.order[k]])
    BY NetlistParts
  <2>3. Len(Blocks(nl)[k]) = BodyLen(nl, k) + 2
    BY <2>2, SubcktLines DEF BodyLen
  <2>4. \A i \in 1 .. Len(Blocks(nl)[k]) :
          Before(Blocks(nl), k) + i \in 1 .. Len(FlattenSeq(Blocks(nl)))
          /\ FlattenSeq(Blocks(nl))[Before(Blocks(nl), k) + i] = Blocks(nl)[k][i]
    <3>1. Stands(Blocks(nl), k)
      BY <2>2, FlattenStands
    <3>. QED
      BY <3>1 DEF Stands
  <2>. QED
    BY <2>3, <2>4
<1>. HIDE DEF s, D, F, T, e
<1>8. /\ sd \in Seq(Seq(Word)) /\ Len(sd) = 1 + nd
      /\ sd[1] = s[1] /\ \A i \in 1 .. nd : sd[1 + i] = D[i]
  <2>1. Placed(s, D, Seq(Word))
    BY <1>2, <1>3, CatPlaces
  <2>. QED
    BY <1>2, <2>1 DEF Placed
<1>. HIDE DEF sd
<1>9. /\ sdf \in Seq(Seq(Word)) /\ Len(sdf) = (1 + nd) + nf
      /\ \A i \in 1 .. 1 + nd : sdf[i] = sd[i]
      /\ \A i \in 1 .. nf : sdf[(1 + nd) + i] = F[i]
  <2>1. Placed(sd, F, Seq(Word))
    BY <1>4, <1>8, CatPlaces
  <2>. QED
    BY <1>8, <2>1 DEF Placed
<1>. HIDE DEF sdf
<1>10. /\ sdft \in Seq(Seq(Word)) /\ Len(sdft) = ((1 + nd) + nf) + nt
       /\ \A i \in 1 .. (1 + nd) + nf : sdft[i] = sdf[i]
       /\ \A i \in 1 .. nt : sdft[((1 + nd) + nf) + i] = T[i]
  <2>1. Placed(sdf, T, Seq(Word))
    BY <1>5, <1>9, CatPlaces
  <2>. QED
    BY <1>5, <1>9, <2>1 DEF Placed
<1>. HIDE DEF sdft
<1>11. /\ t \in Seq(Seq(Word)) /\ Len(t) = (((1 + nd) + nf) + nt) + 1
       /\ \A i \in 1 .. ((1 + nd) + nf) + nt : t[i] = sdft[i]
       /\ \A i \in 1 .. 1 : t[(((1 + nd) + nf) + nt) + i] = e[i]
  <2>1. Placed(sdft, e, Seq(Word))
    BY <1>2, <1>10, CatPlaces
  <2>. QED
    BY <1>2, <1>10, <2>1 DEF Placed
<1>. HIDE DEF t, nd, nf, nt
<1>12. Len(t) = TopRow(nl) + nt + 2 /\ t[TopRow(nl) + nt + 2] = e[1]
  <2>1. (((1 + nd) + nf) + nt) + 1 = TopRow(nl) + nt + 2 /\ 1 \in 1 .. 1
    BY <1>3, <1>4, <1>5, <1>6
  <2>. QED
    BY <1>11, <2>1
<1>13. t[1] = s[1] /\ \A i \in 1 .. nd : t[i + 1] = D[i]
  <2>1. \A i \in 1 .. nd : /\ i + 1 = 1 + i /\ i + 1 \in 1 .. 1 + nd
                           /\ i + 1 \in 1 .. (1 + nd) + nf
                           /\ i + 1 \in 1 .. ((1 + nd) + nf) + nt
    BY <1>3, <1>4, <1>5
  <2>2. 1 \in 1 .. 1 + nd /\ 1 \in 1 .. (1 + nd) + nf /\ 1 \in 1 .. ((1 + nd) + nf) + nt
    BY <1>3, <1>4, <1>5
  <2>. QED
    BY <1>8, <1>9, <1>10, <1>11, <2>1, <2>2
<1>14. ASSUME NEW k \in 1 .. Len(nl.order), NEW i \in 1 .. BodyLen(nl, k) + 2
       PROVE  t[BlockRow(nl, k) + i + 1] = Blocks(nl)[k][i]
  <2>. DEFINE j == Before(Blocks(nl), k) + i
  <2>1. j \in 1 .. nf /\ F[j] = Blocks(nl)[k][i]
    BY <1>7
  <2>2. BlockRow(nl, k) = nd + Before(Blocks(nl), k) /\ BlockRow(nl, k) \in Nat
    BY <1>6 DEF BlockRow, nd, D
  <2>3. i \in Nat
    BY <1>6
  <2>5. nd \in Nat /\ nf \in Nat /\ nt \in Nat
    BY <1>3, <1>4, <1>5
  <2>4. BlockRow(nl, k) + i + 1 = (1 + nd) + j /\ (1 + nd) + j \in 1 .. (1 + nd) + nf
        /\ (1 + nd) + j \in 1 .. ((1 + nd) + nf) + nt
    <3>1. Before(Blocks(nl), k) \in Nat
      <4>1. Blocks(nl) \in Seq(Seq(Seq(Word))) /\ Len(Blocks(nl)) = Len(nl.order)
        BY NetlistParts
      <4>. QED
        BY <4>1, FlattenPlaces
    <3>. DEFINE b == Before(Blocks(nl), k)
                r == BlockRow(nl, k)
    <3>2. b \in Nat /\ b + i \in 1 .. nf /\ r = nd + b
      BY <2>1, <2>2, <3>1
    <3>. HIDE DEF b, r
    <3>3. r + i + 1 = (1 + nd) + (b + i) /\ (1 + nd) + (b + i) \in 1 .. (1 + nd) + nf
          /\ (1 + nd) + (b + i) \in 1 .. ((1 + nd) + nf) + nt
      BY <2>3, <2>5, <3>2
    <3>. QED
      BY <3>3 DEF b, r
  <2>. HIDE DEF j
  <2>. QED
    BY <1>9, <1>10, <1>11, <2>1, <2>4
<1>15. ASSUME NEW i \in 1 .. nt
       PROVE  t[TopRow(nl) + i + 1] = WriteDevice(ParseDevice(nl.top[i]))
  <2>2. nd \in Nat /\ nf \in Nat /\ nt \in Nat /\ TopRow(nl) = nd + nf
    BY <1>3, <1>4, <1>5, <1>6
  <2>1. TopRow(nl) + i + 1 = ((1 + nd) + nf) + i
        /\ ((1 + nd) + nf) + i \in 1 .. ((1 + nd) + nf) + nt
    BY <2>2
  <2>. QED
    BY <1>5, <1>10, <1>11, <2>1
<1>16. Written(t, nl)
  BY <1>2, <1>11, <1>12, <1>13, <1>14, <1>15 DEF Written, nd, nt, D
<1>. QED
  BY <1>1, <1>16
----------------------------------------------------------------------------
(* The invariant.  What is held at any time can be written: its words have *)
(* no comment mark, except perhaps a name that a builder gave, and its     *)
(* directives are directives.                                              *)

Clean == {w \in Word : w.lead # "mark"}

Legible(nl) ==
  /\ \A card \in CardsOf(nl) : Tail(card) \in Seq(Clean)
  /\ \A n \in DOMAIN nl.defs : nl.defs[n].header \in Seq(Clean) /\ Head(nl.defs[n].header) = n
  /\ \A d \in ToSet(nl.directives) : d \in Seq(Clean) /\ Head(d).lead = "directive"

\* The second pass has not begun.
NotBegun ==
  /\ pos = 0 /\ open = NoSubckt
  /\ top = <<>> /\ DOMAIN defs = {} /\ order = <<>> /\ directives = <<>>

MadeInv ==
  /\ round \in {1, 2}
  /\ Legible(netlist)
  /\ status = "lex" => NotBegun
  /\ round = 2 => IsNetlist(written) /\ Legible(written)

(* Reading back, each position in the text determines what has been made.  *)

\* The k-th definition as it is read back, with the first n of its cards.
Copy(k, n) ==
  [ header |-> WriteHeader(ParseHeader(written.defs[written.order[k]].header)),
    body   |-> SubSeq(WriteCards(written.defs[written.order[k]].body), 1, n) ]

Made(k, n) == defs[written.order[k]] = Copy(k, n)

\* All directives and k headers are read, and the first m definitions are whole.
HeadersRead(k, m) ==
  /\ directives = written.directives
  /\ order = SubSeq(written.order, 1, k)
  /\ \A i \in 1 .. m : Made(i, BodyLen(written, i))

AtDirective ==
  /\ pos \in 0 .. Len(written.directives) - 1
  /\ directives = SubSeq(written.directives, 1, pos)
  /\ order = <<>> /\ top = <<>> /\ open = NoSubckt

AtBlock(k) ==
  /\ pos = BlockRow(written, k)
  /\ HeadersRead(k - 1, k - 1) /\ top = <<>> /\ open = NoSubckt

InBlock(k, n) ==
  /\ pos = BlockRow(written, k) + n + 1
  /\ HeadersRead(k, k - 1) /\ Made(k, n) /\ top = <<>> /\ open = written.order[k]

AtCard(n) ==
  /\ pos = TopRow(written) + n
  /\ HeadersRead(Len(written.order), Len(written.order))
  /\ top = SubSeq(WriteCards(written.top), 1, n) /\ open = NoSubckt

Somewhere ==
  \/ AtDirective
  \/ \E k \in 1 .. Len(written.order) : AtBlock(k)
  \/ \E k \in 1 .. Len(written.order) : \E n \in 0 .. BodyLen(written, k) : InBlock(k, n)
  \/ \E n \in 0 .. Len(written.top) : AtCard(n)

AllRead ==
  /\ HeadersRead(Len(written.order), Len(written.order))
  /\ top = WriteCards(written.top) /\ open = NoSubckt

RereadInv ==
  round = 2 /\ NamedAsDevices(written) =>
    /\ text = ToSpice(written)
    /\ status \in {"lex", "parse", "ended", "ok"}
    /\ Len(logical) = IF row = 0 THEN 0 ELSE row - 1
    /\ \A i \in DOMAIN logical : logical[i].words = text[i + 1]
    /\ status # "lex" => row = Len(text)
    /\ status = "parse" => Somewhere
    /\ status \in {"ended", "ok"} => AllRead

RTInv == IInv /\ MadeInv /\ RereadInv

----------------------------------------------------------------------------
(* What is written can be read *)

\* A row that stays one line and that the first pass takes whole for a line of
\* its own.
Row == {r \in Seq(Clean) : r # <<>> /\ Head(r).lead \notin {"star", "plus", "text"}}

LEMMA CleanWords ==
  /\ Clean \in SUBSET Word
  /\ \A lead \in Leads \ {"mark"} : Keyword(lead) \in Clean
BY PlainAssumption DEF Clean, Keyword, Word

LEMMA CardReadable ==
  ASSUME NEW nl, IsNetlist(nl), Legible(nl), NamedAsDevices(nl), NEW card \in CardsOf(nl)
  PROVE  /\ card \in Card
         /\ WriteDevice(ParseDevice(card)) \in Row
         /\ Head(WriteDevice(ParseDevice(card))) = Head(card)
<1>1. card \in Card
  <2>1. nl.top \in Seq(Card) /\ \A n \in DOMAIN nl.defs : nl.defs[n].body \in Seq(Card)
    BY DEF IsNetlist, IsDefs, Subckt
  <2>. QED
    BY <2>1 DEF CardsOf, ToSet
<1>2. card \in Seq(Word) /\ card # <<>> /\ Head(card) \in Word
  BY <1>1 DEF Card
<1>3. Head(card).lead \notin {"star", "plus", "mark", "subckt", "ends", "end", "directive"}
  BY DEF NamedAsDevices
<1>7. Head(card).lead # "text"
  BY DEF NamedAsDevices
<1>4. Head(card) \in Clean /\ Tail(card) \in Seq(Clean)
  BY <1>2, <1>3 DEF Clean, Legible
<1>5. card \in Seq(Clean)
  <2>1. card = Cat(<<Head(card)>>, Tail(card))
    BY <1>2 DEF Cat
  <2>. QED
    BY <1>4, <2>1, CatOne
<1>6. /\ WriteDevice(ParseDevice(card)) \in Seq(Clean)
      /\ WriteDevice(ParseDevice(card)) # <<>>
      /\ Head(WriteDevice(ParseDevice(card))) = Head(card)
  BY <1>2, <1>5, CleanWords, DeviceWords
<1>. QED
  BY <1>1, <1>3, <1>6, <1>7 DEF Row

LEMMA SeqOfMembers ==
  ASSUME NEW X, NEW Y, NEW s \in Seq(X), \A i \in 1 .. Len(s) : s[i] \in Y
  PROVE  s \in Seq(Y)
OBVIOUS

LEMMA CardsReadable ==
  ASSUME NEW nl, IsNetlist(nl), Legible(nl), NamedAsDevices(nl),
         NEW cards \in Seq(Card), ToSet(cards) \subseteq CardsOf(nl)
  PROVE  WriteCards(cards) \in Seq(Row)
<1>1. \A i \in 1 .. Len(cards) : cards[i] \in CardsOf(nl)
  BY DEF ToSet
<1>2. \A i \in 1 .. Len(cards) : WriteDevice(ParseDevice(cards[i])) \in Row
  BY <1>1, CardReadable
<1>. QED
  BY <1>2 DEF WriteCards

LEMMA SubcktReadable ==
  ASSUME NEW nl, IsNetlist(nl), Legible(nl), NamedAsDevices(nl), NEW n \in DOMAIN nl.defs
  PROVE  WriteSubckt(nl.defs[n]) \in Seq(Row)
<1>. DEFINE sub == nl.defs[n]
            first == Cat(<<Keyword("subckt")>>, WriteHeader(ParseHeader(sub.header)))
            cards == WriteCards(sub.body)
            last  == <<Keyword("ends"), Head(sub.header)>>
            a == <<first>>
            b == <<last>>
<1>1. sub.header \in Seq(Clean) /\ sub.header # <<>> /\ sub.body \in Seq(Card)
  <2>1. sub \in Subckt
    BY DEF IsNetlist, IsDefs
  <2>. QED
    BY <2>1 DEF Legible, Subckt, Card
<1>2. ParseHeader(sub.header).name = Head(sub.header)
  BY DEF ParseHeader
<1>3. WriteSubckt(sub) = Cat(Cat(a, cards), b)
  BY <1>2 DEF WriteSubckt, Cat
<1>4. cards \in Seq(Row)
  <2>1. ToSet(sub.body) \subseteq CardsOf(nl)
    BY DEF CardsOf
  <2>. QED
    BY <1>1, <2>1, CardsReadable
<1>5. first \in Row
  <2>1. WriteHeader(ParseHeader(sub.header)) \in Seq(Clean)
    BY <1>1, CleanWords, HeaderWords
  <2>2. Keyword("subckt") \in Clean
    BY CleanWords DEF Leads
  <2>3. first \in Seq(Clean) /\ first # <<>> /\ Head(first) = Keyword("subckt")
    BY <2>1, <2>2, CatOne
  <2>. HIDE DEF first
  <2>. QED
    BY <2>3 DEF Row, Keyword
<1>6. last \in Row
  <2>1. Keyword("ends") \in Clean /\ Head(sub.header) \in Clean
    BY <1>1, CleanWords DEF Leads
  <2>2. last \in Seq(Clean) /\ last # <<>> /\ Head(last) = Keyword("ends")
    BY <2>1
  <2>. HIDE DEF last
  <2>. QED
    BY <2>2 DEF Row, Keyword
<1>7. a \in Seq(Row) /\ b \in Seq(Row)
  <2>. HIDE DEF first, last
  <2>. QED
    BY <1>5, <1>6
<1>. HIDE DEF a, b, cards
<1>8. Cat(a, cards) \in Seq(Row)
  BY <1>4, <1>7, CatProperties
<1>9. Cat(Cat(a, cards), b) \in Seq(Row)
  BY <1>7, <1>8, CatProperties
<1>. QED
  BY <1>3, <1>9

\* Behind the comment, every row of the text is a line of its own.
LEMMA TextReadable ==
  ASSUME NEW nl, IsNetlist(nl), Legible(nl), NamedAsDevices(nl)
  PROVE  \A r \in 2 .. Len(ToSpice(nl)) : ToSpice(nl)[r] \in Row
<1>. DEFINE s == << <<Keyword("star")>> >>
            D == nl.directives
            F == FlattenSeq(Blocks(nl))
            T == WriteCards(nl.top)
            e == << <<Keyword("end")>> >>
            df == Cat(D, F)
            dft == Cat(df, T)
            rest == Cat(dft, e)
<1>1. ToSpice(nl) = Cat(Cat(Cat(Cat(s, D), F), T), e)
  BY DEF ToSpice, Cat, Blocks
<1>2. s \in Seq(Seq(Word)) /\ Len(s) = 1 /\ e \in Seq(Row)
  <2>1. Keyword("star") \in Word /\ Keyword("end") \in Clean
    BY CleanWords DEF Leads
  <2>2. <<Keyword("star")>> \in Seq(Word) /\ <<Keyword("end")>> \in Seq(Clean)
        /\ <<Keyword("end")>> # <<>> /\ Head(<<Keyword("end")>>) = Keyword("end")
    BY <2>1
  <2>3. <<Keyword("end")>> \in Row
    BY <2>2 DEF Row, Keyword
  <2>. QED
    BY <2>2, <2>3
<1>3. D \in Seq(Row)
  <2>1. D \in Seq(Card)
    BY DEF IsNetlist
  <2>2. \A i \in 1 .. Len(D) : D[i] \in Card /\ D[i] \in ToSet(D)
    BY <2>1 DEF ToSet
  <2>3. \A i \in 1 .. Len(D) : D[i] \in Row
    BY <2>2 DEF Legible, Card, Row
  <2>. HIDE DEF D
  <2>. QED
    BY <2>1, <2>3
<1>4. F \in Seq(Row)
  <2>1. /\ Blocks(nl) \in Seq(Seq(Seq(Word))) /\ Len(Blocks(nl)) = Len(nl.order)
        /\ \A k \in 1 .. Len(nl.order) :
             nl.order[k] \in DOMAIN nl.defs /\ Blocks(nl)[k] = WriteSubckt(nl.defs[nl.order[k]])
    BY NetlistParts
  <2>. DEFINE B == Blocks(nl)
  <2>2. ASSUME NEW k \in 1 .. Len(B) PROVE B[k] \in Seq(Row)
    <3>1. nl.order[k] \in DOMAIN nl.defs /\ B[k] = WriteSubckt(nl.defs[nl.order[k]])
      BY <2>1
    <3>2. WriteSubckt(nl.defs[nl.order[k]]) \in Seq(Row)
      BY <3>1, SubcktReadable
    <3>. QED
      BY <3>1, <3>2
  <2>3. B \in Seq(Seq(Row))
    <3>1. B \in Seq(Seq(Seq(Word)))
      BY <2>1
    <3>. HIDE DEF B
    <3>. QED
      BY <2>2, <3>1, SeqOfMembers
  <2>4. \A b \in Seq(Seq(Row)) : FlattenSeq(b) \in Seq(Row)
    <3>1. <<>> \in Seq(Row)
      OBVIOUS
    <3>. QED
      BY <3>1, FlattenAppend
  <2>. QED
    BY <2>3, <2>4
<1>5. T \in Seq(Row)
  <2>1. nl.top \in Seq(Card) /\ ToSet(nl.top) \subseteq CardsOf(nl)
    BY DEF IsNetlist, CardsOf
  <2>. QED
    BY <2>1, CardsReadable
<1>. HIDE DEF s, D, F, T, e
<1>6. Row \subseteq Seq(Word)
  BY CleanWords DEF Row
<1>7. /\ D \in Seq(Seq(Word)) /\ F \in Seq(Seq(Word)) /\ T \in Seq(Seq(Word)) /\ e \in Seq(Seq(Word))
  BY <1>2, <1>3, <1>4, <1>5, <1>6
<1>8. df \in Seq(Row) /\ dft \in Seq(Row) /\ rest \in Seq(Row)
  <2>1. df \in Seq(Row)
    BY <1>3, <1>4, CatProperties
  <2>. HIDE DEF df
  <2>2. dft \in Seq(Row)
    BY <1>5, <2>1, CatProperties
  <2>. HIDE DEF dft
  <2>3. rest \in Seq(Row)
    BY <1>2, <2>2, CatProperties
  <2>. QED
    BY <2>1, <2>2, <2>3
<1>9. df \in Seq(Seq(Word)) /\ dft \in Seq(Seq(Word)) /\ rest \in Seq(Seq(Word))
  <2>. HIDE DEF df, dft, rest
  <2>. QED
    BY <1>6, <1>8
<1>10. ToSpice(nl) = Cat(s, rest)
  <2>1. Cat(Cat(s, D), F) = Cat(s, df)
    BY <1>2, <1>7, CatAssociative
  <2>. HIDE DEF df
  <2>2. Cat(Cat(s, df), T) = Cat(s, dft)
    BY <1>2, <1>7, <1>9, CatAssociative
  <2>. HIDE DEF dft
  <2>3. Cat(Cat(s, dft), e) = Cat(s, rest)
    BY <1>2, <1>7, <1>9, CatAssociative
  <2>. QED
    BY <1>1, <2>1, <2>2, <2>3
<1>. HIDE DEF rest
<1>11. /\ Len(ToSpice(nl)) = 1 + Len(rest) /\ Len(rest) \in Nat
       /\ \A i \in 1 .. Len(rest) : ToSpice(nl)[1 + i] = rest[i]
  <2>1. Placed(s, rest, Seq(Word))
    BY <1>2, <1>9, CatPlaces
  <2>. QED
    BY <1>2, <1>10, <2>1 DEF Placed
<1>12. \A i \in 1 .. Len(rest) : rest[i] \in Row
  BY <1>8
<1>13. ASSUME NEW r \in 2 .. Len(ToSpice(nl))
       PROVE  ToSpice(nl)[r] \in Row
  <2>1. r - 1 \in 1 .. Len(rest) /\ 1 + (r - 1) = r
    BY <1>11
  <2>. QED
    BY <1>11, <1>12, <2>1
<1>. QED
  BY <1>13

----------------------------------------------------------------------------
(* The lines of what is written *)

Singles(s) == [i \in DOMAIN s |-> <<s[i]>>]

LEMMA FlattenSingles ==
  ASSUME NEW S, NEW rows \in Seq(S)
  PROVE  FlattenSeq(Singles(rows)) = rows
<1>. DEFINE T == {s \in Seq(S) : FlattenSeq(Singles(s)) = s}
<1>1. <<>> \in T
  <2>1. Singles(<<>>) = <<>> /\ <<>> \in Seq(S)
    BY DEF Singles
  <2>. QED
    BY <2>1, FlattenEmpty
<1>2. ASSUME NEW s \in Seq(S), NEW e \in S, s \in T
      PROVE  Append(s, e) \in T
  <2>1. Singles(s) \in Seq(Seq(S)) /\ <<e>> \in Seq(S)
    <3>1. \A x \in S : <<x>> \in Seq(S)
      OBVIOUS
    <3>. DEFINE single == [i \in 1 .. Len(s) |-> <<s[i]>>]
    <3>2. single \in [1 .. Len(s) -> Seq(S)] /\ Len(s) \in Nat
      BY <3>1
    <3>3. Singles(s) = single
      BY DEF Singles
    <3>. HIDE DEF single
    <3>4. single \in Seq(Seq(S))
      BY <3>2
    <3>. QED
      BY <3>1, <3>3, <3>4
  <2>2. Singles(Append(s, e)) = Append(Singles(s), <<e>>)
    BY DEF Singles
  <2>3. FlattenSeq(Append(Singles(s), <<e>>)) = FlattenSeq(Singles(s)) \o <<e>>
    BY <2>1, FlattenAppend
  <2>4. s \o <<e>> = Append(s, e) /\ Append(s, e) \in Seq(S)
    OBVIOUS
  <2>. QED
    BY <1>2, <2>2, <2>3, <2>4
<1>. HIDE DEF T
<1>3. rows \in T
  BY <1>1, <1>2, AllSequences
<1>. QED
  BY <1>3 DEF T

\* Rows none of which is a name that is not one word are the lines that are read.
LEMMA LinesKept ==
  ASSUME NEW rows \in Seq(Seq(Word)),
         \A i \in 1 .. Len(rows) : rows[i] # <<>> => Head(rows[i]).lead # "text"
  PROVE  Lines(rows) = rows
<1>1. \A i \in DOMAIN rows : LinesOf(rows[i]) = <<rows[i]>>
  BY DEF LinesOf
<1>2. [i \in DOMAIN rows |-> LinesOf(rows[i])] = Singles(rows)
  BY <1>1 DEF Singles
<1>. QED
  BY <1>2, FlattenSingles DEF Lines

\* Whatever the names, lines of words are read.
LEMMA LinesType ==
  ASSUME NEW rows \in Seq(Seq(Word))
  PROVE  Lines(rows) \in Seq(Seq(Word))
<1>1. ASSUME NEW r \in Seq(Word)
      PROVE  LinesOf(r) \in Seq(Seq(Word))
  <2>1. CASE r # <<>> /\ Head(r).lead = "text"
    <3>1. Head(r).id \in Id
      <4>1. Head(r) \in Word
        BY <2>1
      <4>. QED
        BY <4>1 DEF Word
    <3>2. Spelt[Head(r).id] \in Seq(Seq(LineWord))
      BY <3>1, SpeltAssumption
    <3>3. LineWord \in SUBSET Word
      BY DEF LineWord
    <3>4. \A t \in Seq(LineWord) : t \in Seq(Word)
      BY <3>3
    <3>5. Spelt[Head(r).id] \in Seq(Seq(Word))
      BY <3>2, <3>4
    <3>. QED
      BY <2>1, <3>5 DEF LinesOf
  <2>2. CASE ~ (r # <<>> /\ Head(r).lead = "text")
    BY <2>2 DEF LinesOf
  <2>. QED
    BY <2>1, <2>2
<1>. DEFINE lines == [i \in DOMAIN rows |-> LinesOf(rows[i])]
<1>2. lines \in Seq(Seq(Seq(Word)))
  <2>1. \A i \in 1 .. Len(rows) : LinesOf(rows[i]) \in Seq(Seq(Word))
    BY <1>1
  <2>. QED
    BY <2>1
<1>3. <<>> \in Seq(Seq(Word))
  OBVIOUS
<1>. HIDE DEF lines
<1>4. FlattenSeq(lines) \in Seq(Seq(Word))
  BY <1>2, <1>3, FlattenAppend
<1>. QED
  BY <1>4 DEF Lines, lines

\* A netlist whose devices are named as devices is read in the rows it is
\* written in.
LEMMA WrittenIsRead ==
  ASSUME NEW nl, IsNetlist(nl), Legible(nl), NamedAsDevices(nl)
  PROVE  Lines(ToSpice(nl)) = ToSpice(nl)
<1>. DEFINE t == ToSpice(nl)
<1>1. t \in Seq(Seq(Word)) /\ t[1] = <<Keyword("star")>>
  BY TextIsWritten DEF Written
<1>2. \A r \in 2 .. Len(t) : t[r] \in Row
  BY TextReadable
<1>. HIDE DEF t
<1>3. ASSUME NEW i \in 1 .. Len(t)
      PROVE  Head(t[i]).lead # "text"
  <2>1. CASE i = 1
    BY <1>1, <2>1 DEF Keyword
  <2>2. CASE i # 1
    <3>1. i \in 2 .. Len(t)
      BY <1>1, <2>2
    <3>2. t[i] \in Row
      BY <1>2, <3>1
    <3>. QED
      BY <3>2 DEF Row
  <2>. QED
    BY <2>1, <2>2
<1>4. Lines(t) = t
  BY <1>1, <1>3, LinesKept
<1>. QED
  BY <1>4 DEF t

----------------------------------------------------------------------------
(* Making a netlist *)

LEMMA LineClean ==
  ASSUME IInv, pos < Len(logical)
  PROVE  Line.words \in Seq(Clean) /\ Tail(Line.words) \in Seq(Clean) /\ Line.words # <<>>
<1>1. Line.words \in Card /\ pos + 1 \in DOMAIN logical
  BY LineProperties DEF IInv, TypeOK
<1>2. \A k \in DOMAIN Line.words : Line.words[k].lead # "mark"
  BY <1>1 DEF IInv, LogicalLinesClean, Line
<1>. DEFINE w == Line.words
<1>3. w \in Seq(Word) /\ w # <<>> /\ \A k \in DOMAIN w : w[k] \in Clean
  BY <1>1, <1>2 DEF Card, Clean
<1>. HIDE DEF w
<1>4. w \in Seq(Clean)
  BY <1>3
<1>5. Tail(w) \in Seq(Clean)
  BY <1>3, <1>4
<1>. QED
  BY <1>3, <1>4, <1>5 DEF w

\* What Legible says of the parts.
LegibleCards(cards) == \A i \in DOMAIN cards : Tail(cards[i]) \in Seq(Clean)
LegibleDefs(d) ==
  \A n \in DOMAIN d : /\ d[n].header \in Seq(Clean) /\ Head(d[n].header) = n
                      /\ LegibleCards(d[n].body)
LegibleLines(lines) == \A i \in DOMAIN lines : lines[i] \in Seq(Clean) /\ Head(lines[i]).lead = "directive"

LEMMA LegibleParts ==
  ASSUME NEW nl
  PROVE  Legible(nl) <=> LegibleCards(nl.top) /\ LegibleDefs(nl.defs) /\ LegibleLines(nl.directives)
<1>1. (\A card \in CardsOf(nl) : Tail(card) \in Seq(Clean)) <=>
        /\ \A i \in DOMAIN nl.top : Tail(nl.top[i]) \in Seq(Clean)
        /\ \A n \in DOMAIN nl.defs : \A i \in DOMAIN nl.defs[n].body :
             Tail(nl.defs[n].body[i]) \in Seq(Clean)
  BY DEF CardsOf, ToSet
<1>2. (\A d \in ToSet(nl.directives) : d \in Seq(Clean) /\ Head(d).lead = "directive")
        <=> LegibleLines(nl.directives)
  BY DEF ToSet, LegibleLines
<1>. QED
  BY <1>1, <1>2 DEF Legible, LegibleCards, LegibleDefs

LEMMA LegibleNow ==
  Legible(netlist) <=> LegibleCards(top) /\ LegibleDefs(defs) /\ LegibleLines(directives)
BY LegibleParts DEF netlist

LEMMA LegibleEmpty ==
  top = <<>> /\ DOMAIN defs = {} /\ directives = <<>> => Legible(netlist)
BY LegibleNow DEF LegibleCards, LegibleDefs, LegibleLines

LEMMA LegibleAppend ==
  ASSUME NEW cards \in Seq(Card), NEW card, LegibleCards(cards), Tail(card) \in Seq(Clean)
  PROVE  LegibleCards(Append(cards, card))
BY DEF LegibleCards

LEMMA MadeInit == RTInit => MadeInv /\ RereadInv /\ IInv
<1>. SUFFICES ASSUME RTInit PROVE MadeInv /\ RereadInv /\ IInv
  OBVIOUS
<1>1. round = 1
  BY DEF RTInit
<1>2. RereadInv
  BY <1>1 DEF RereadInv
<1>3. CASE Init
  <2>1. IInv
    BY <1>3, InitIInv
  <2>2. NotBegun
    BY <1>3 DEF Init, NotBegun, EmptyDefs
  <2>3. MadeInv
    BY <1>1, <2>2, LegibleEmpty DEF MadeInv, NotBegun
  <2>. QED
    BY <1>2, <2>1, <2>3
<1>4. CASE BuiltInit
  <2>1. PICK names \in Built : top = FromDevices(names).top
    BY <1>4 DEF BuiltInit
  <2>2. names \in Seq(Word)
    BY BuiltAssumption
  <2>3. top = [i \in DOMAIN names |-> <<names[i]>>]
    BY <2>1 DEF FromDevices, EmptyNetlist
  <2>4. \A i \in DOMAIN names : <<names[i]>> \in Card /\ Tail(<<names[i]>>) = <<>>
    BY <2>2 DEF Card
  <2>5. top \in Seq(Card) /\ LegibleCards(top)
    <3>1. top \in Seq(Card)
      BY <2>2, <2>3, <2>4
    <3>2. \A i \in DOMAIN top : Tail(top[i]) = <<>>
      BY <2>2, <2>3, <2>4
    <3>3. <<>> \in Seq(Clean)
      OBVIOUS
    <3>. QED
      BY <3>1, <3>2, <3>3 DEF LegibleCards
  <2>6. IsDefs(EmptyDefs) /\ DOMAIN EmptyDefs = {}
    BY DEF IsDefs, EmptyDefs
  <2>7. IInv
    BY <1>4, <2>5, <2>6 DEF BuiltInit, IInv, TypeOK, OrderListsDefs, OpenIsDefined,
       LogicalLinesClean, IsInjective, ToSet
  <2>8. MadeInv
    BY <1>1, <1>4, <2>5, <2>6, LegibleNow DEF BuiltInit, MadeInv, LegibleDefs, LegibleLines
  <2>. QED
    BY <1>2, <2>7, <2>8
<1>. QED
  BY <1>3, <1>4 DEF RTInit

LEMMA MadeParse ==
  ASSUME IInv, MadeInv, ParseLine, UNCHANGED <<round, promotions, written>>
  PROVE  MadeInv'
<1>1. status = "parse" /\ pos < Len(logical)
  BY DEF ParseLine, OpenSubckt, MissingSubcktName, CloseSubckt, UnexpectedEnds, StopAtEnd,
     RecordDirective, AddToBody, AddToTop, ReadLine
<1>2. Line.words \in Seq(Clean) /\ Tail(Line.words) \in Seq(Clean) /\ Line.words # <<>>
  BY <1>1, LineClean
<1>3. LegibleCards(top) /\ LegibleDefs(defs) /\ LegibleLines(directives)
  BY LegibleNow DEF MadeInv
<1>4. top \in Seq(Card) /\ IsDefs(defs) /\ directives \in Seq(Card)
  BY DEF IInv, TypeOK
<1>5. status' # "lex"
  BY <1>1 DEF ParseLine, OpenSubckt, MissingSubcktName, CloseSubckt, UnexpectedEnds, StopAtEnd,
     RecordDirective, AddToBody, AddToTop
<1>6. LegibleCards(top)' /\ LegibleDefs(defs)' /\ LegibleLines(directives)'
  <2>1. CASE OpenSubckt
    <3>. DEFINE name == Head(Tail(Line.words))
                sub  == [header |-> Tail(Line.words), body |-> <<>>]
    <3>1. defs' = Insert(defs, name, sub) /\ top' = top /\ directives' = directives
      BY <2>1 DEF OpenSubckt
    <3>2. DOMAIN defs' = DOMAIN defs \cup {name}
          /\ \A n \in DOMAIN defs' : defs'[n] = IF n = name THEN sub ELSE defs[n]
      BY <3>1 DEF Insert
    <3>3. sub.header \in Seq(Clean) /\ Head(sub.header) = name /\ LegibleCards(sub.body)
      BY <1>2 DEF LegibleCards
    <3>. HIDE DEF sub, name
    <3>4. LegibleDefs(defs)'
      BY <1>3, <3>2, <3>3 DEF LegibleDefs, LegibleCards
    <3>. QED
      BY <1>3, <3>1, <3>4
  <2>2. CASE MissingSubcktName \/ CloseSubckt \/ UnexpectedEnds \/ StopAtEnd
    BY <1>3, <2>2 DEF MissingSubcktName, CloseSubckt, UnexpectedEnds, StopAtEnd, netVars
  <2>3. CASE RecordDirective
    <3>1. directives' = Append(directives, Line.words) /\ top' = top /\ defs' = defs
          /\ Head(Line.words).lead = "directive"
      BY <2>3 DEF RecordDirective, LineLead
    <3>2. LegibleLines(directives)'
      BY <1>2, <1>3, <1>4, <3>1 DEF LegibleLines
    <3>. QED
      BY <1>3, <3>1, <3>2
  <2>4. CASE AddToBody
    <3>1. /\ top' = top /\ directives' = directives /\ open \in DOMAIN defs
          /\ defs' = [defs EXCEPT ![open].body = Append(@, Line.words)]
      BY <2>4 DEF AddToBody, IInv, OpenIsDefined
    <3>2. DOMAIN defs' = DOMAIN defs
          /\ \A n \in DOMAIN defs : /\ defs'[n].header = defs[n].header
                                    /\ n # open => defs'[n].body = defs[n].body
                                    /\ n = open => defs'[n].body = Append(defs[n].body, Line.words)
      BY <1>4, <3>1 DEF IsDefs, Subckt
    <3>3. \A n \in DOMAIN defs : defs[n].body \in Seq(Card) /\ LegibleCards(defs[n].body)
      BY <1>3, <1>4 DEF IsDefs, Subckt, LegibleDefs
    <3>4. \A n \in DOMAIN defs : LegibleCards(defs'[n].body)
      <4>1. TAKE n \in DOMAIN defs
      <4>2. CASE n = open
        BY <1>2, <3>2, <3>3, <4>2, LegibleAppend
      <4>3. CASE n # open
        BY <3>2, <3>3, <4>3
      <4>. QED
        BY <4>2, <4>3
    <3>5. LegibleDefs(defs)'
      BY <1>3, <3>2, <3>4 DEF LegibleDefs, LegibleCards
    <3>. QED
      BY <1>3, <3>1, <3>5
  <2>5. CASE AddToTop
    <3>1. top' = Append(top, Line.words) /\ defs' = defs /\ directives' = directives
      BY <2>5 DEF AddToTop
    <3>2. LegibleCards(Append(top, Line.words))
      BY <1>2, <1>3, <1>4, LegibleAppend
    <3>. QED
      BY <1>3, <3>1, <3>2 DEF LegibleCards
  <2>. QED
    BY <2>1, <2>2, <2>3, <2>4, <2>5 DEF ParseLine
<1>7. Legible(netlist)'
  <2>1. (Legible(netlist) <=> LegibleCards(top) /\ LegibleDefs(defs) /\ LegibleLines(directives))'
    BY LegibleNow, PTL
  <2>. QED
    BY <1>6, <2>1
<1>. QED
  BY <1>5, <1>7 DEF MadeInv

\* The netlist's part of the state and the written one decide what MadeInv says.
LEMMA MadeStays ==
  ASSUME MadeInv, top' = top, defs' = defs, order' = order, directives' = directives,
         round' = round, written' = written,
         status' = "lex" => status = "lex" /\ pos' = pos /\ open' = open
  PROVE  MadeInv'
<1>1. netlist' = netlist
  BY DEF netlist
<1>2. (Legible(netlist))' <=> Legible(netlist)
  BY <1>1 DEF Legible, CardsOf
<1>3. status' = "lex" => NotBegun'
  BY DEF MadeInv, NotBegun
<1>4. round' = 2 => (IsNetlist(written) /\ Legible(written))'
  BY DEF MadeInv, Legible, CardsOf, IsNetlist, IsDefs
<1>. QED
  BY <1>2, <1>3, <1>4 DEF MadeInv

LEMMA MadeOther ==
  ASSUME MadeInv, Reassemble \/ Finish, UNCHANGED <<round, promotions, written>>
  PROVE  MadeInv'
<1>1. /\ top' = top /\ defs' = defs /\ order' = order /\ directives' = directives
      /\ status' = "lex" => status = "lex" /\ pos' = pos /\ open' = open
  BY DEF Reassemble, SkipBlank, StartLogical, Continue, DanglingContinuation, EndOfText,
     ReadRow, Finish, LoopLeft, netVars, lexVars
<1>. QED
  BY <1>1, MadeStays

LEMMA LegibleJoined ==
  ASSUME NEW a \in Seq(Card), NEW b \in Seq(Card), LegibleCards(a), LegibleCards(b)
  PROVE  Cat(a, b) \in Seq(Card) /\ LegibleCards(Cat(a, b))
<1>1. Placed(a, b, Card)
  BY CatPlaces
<1>. DEFINE c == Cat(a, b)
            m == Len(a)
            n == Len(b)
<1>2. /\ c \in Seq(Card) /\ m \in Nat /\ n \in Nat /\ Len(c) = m + n
      /\ \A i \in 1 .. m : c[i] = a[i]
      /\ \A i \in 1 .. n : c[m + i] = b[i]
  BY <1>1 DEF Placed
<1>3. /\ \A i \in 1 .. m : Tail(a[i]) \in Seq(Clean)
      /\ \A i \in 1 .. n : Tail(b[i]) \in Seq(Clean)
  BY DEF LegibleCards
<1>. HIDE DEF c, m, n
<1>4. ASSUME NEW i \in 1 .. m + n
      PROVE  Tail(c[i]) \in Seq(Clean)
  <2>1. CASE i \in 1 .. m
    BY <1>2, <1>3, <2>1
  <2>2. CASE i \notin 1 .. m
    <3>1. i - m \in 1 .. n /\ m + (i - m) = i
      BY <1>2, <2>2
    <3>2. c[i] = b[i - m]
      BY <1>2, <3>1
    <3>. QED
      BY <1>3, <3>1, <3>2
  <2>. QED
    BY <2>1, <2>2
<1>5. LegibleCards(c)
  BY <1>2, <1>4 DEF LegibleCards
<1>. QED
  BY <1>2, <1>5 DEF c

LEMMA Promoted ==
  ASSUME IInv, MadeInv, Select \/ PromoteFirst
  PROVE  /\ top' \in Seq(Card) /\ LegibleCards(top')
         /\ round = 1 /\ status = "ok"
         /\ UNCHANGED <<lexVars, pos, open, defs, order, directives, status, errorRow,
                        round, written>>
<1>1. LegibleCards(top) /\ LegibleDefs(defs) /\ top \in Seq(Card) /\ IsDefs(defs)
  BY LegibleNow DEF MadeInv, IInv, TypeOK
<1>2. PICK nl : PromoteWith(nl) /\ (nl.top = top \/ \E n \in DOMAIN defs : nl.top = Cat(top, defs[n].body))
  <2>1. ASSUME NEW name PROVE
          LET nl == SelectSubckt(netlist, name) IN
          nl.top = top \/ \E n \in DOMAIN defs : nl.top = Cat(top, defs[n].body)
    <3>1. CASE name \in DOMAIN defs
      <4>1. SelectSubckt(netlist, name).top = top \o defs[name].body
        BY <3>1 DEF SelectSubckt, netlist
      <4>. QED
        BY <3>1, <4>1 DEF Cat
    <3>2. CASE name \notin DOMAIN defs
      BY <3>2 DEF SelectSubckt, netlist
    <3>. QED
      BY <3>1, <3>2
  <2>2. CASE Select
    BY <2>1, <2>2 DEF Select
  <2>3. CASE PromoteFirst
    <3>1. CASE netlist.top = <<>> /\ netlist.order # <<>>
      BY <2>1, <2>3, <3>1 DEF PromoteFirst, PromoteFirstSubckt
    <3>2. CASE ~ (netlist.top = <<>> /\ netlist.order # <<>>)
      <4>1. PromoteFirstSubckt(netlist) = netlist /\ netlist.top = top
        BY <3>2 DEF PromoteFirstSubckt, netlist
      <4>. QED
        BY <2>3, <4>1 DEF PromoteFirst
    <3>. QED
      BY <3>1, <3>2
  <2>. QED
    BY <2>2, <2>3
<1>3. top' \in Seq(Card) /\ LegibleCards(top')
  <2>1. top' = nl.top
    BY <1>2 DEF PromoteWith
  <2>2. ASSUME NEW n \in DOMAIN defs
        PROVE  Cat(top, defs[n].body) \in Seq(Card) /\ LegibleCards(Cat(top, defs[n].body))
    <3>1. defs[n].body \in Seq(Card) /\ LegibleCards(defs[n].body)
      BY <1>1 DEF IsDefs, Subckt, LegibleDefs
    <3>. QED
      BY <1>1, <3>1, LegibleJoined
  <2>. QED
    BY <1>1, <1>2, <2>1, <2>2
<1>4. /\ round = 1 /\ status = "ok"
      /\ UNCHANGED <<lexVars, pos, open, defs, order, directives, status, errorRow,
                     round, written>>
  BY <1>2 DEF PromoteWith, Ready
<1>. QED
  BY <1>3, <1>4

LEMMA PromotedMade ==
  ASSUME IInv, MadeInv, Select \/ PromoteFirst
  PROVE  IInv' /\ MadeInv' /\ RereadInv'
<1>. /\ top' \in Seq(Card) /\ LegibleCards(top')
     /\ round = 1 /\ status = "ok"
     /\ UNCHANGED <<lexVars, pos, open, defs, order, directives, status, errorRow,
                    round, written>>
  BY Promoted
<1>1. IInv'
  BY DEF IInv, TypeOK, OrderListsDefs, OpenIsDefined, LogicalLinesClean, lexVars, IsDefs
<1>2. LegibleDefs(defs)' /\ LegibleLines(directives)' /\ LegibleCards(top)'
  BY LegibleNow DEF MadeInv, LegibleDefs, LegibleLines, LegibleCards
<1>3. (Legible(netlist) <=> LegibleCards(top) /\ LegibleDefs(defs) /\ LegibleLines(directives))'
  BY LegibleNow, PTL
<1>. QED
  BY <1>1, <1>2, <1>3 DEF MadeInv, RereadInv

LEMMA Begun ==
  ASSUME IInv, MadeInv, WriteAndReread
  PROVE  IInv' /\ MadeInv' /\ RereadInv'
<1>1. IsNetlist(netlist)
  BY DEF IInv, TypeOK, OrderListsDefs, IsNetlist, netlist
<1>2. Legible(netlist)
  BY DEF MadeInv
<1>3. Lines(ToSpice(netlist)) \in Seq(Seq(Word))
  <2>1. ToSpice(netlist) \in Seq(Seq(Word))
    BY <1>1, TextIsWritten DEF Written
  <2>. QED
    BY <2>1, LinesType
<1>4. text' \in Seq(Seq(Word)) /\ text' = Lines(ToSpice(netlist)) /\ written' = netlist
      /\ round' = 2 /\ row' = 0 /\ logical' = <<>> /\ pos' = 0 /\ open' = NoSubckt
      /\ top' = <<>> /\ defs' = EmptyDefs /\ order' = <<>> /\ directives' = <<>>
      /\ status' = "lex" /\ errorRow' = 0
  BY <1>3 DEF WriteAndReread
<1>5. IInv'
  <2>1. IsDefs(EmptyDefs) /\ DOMAIN EmptyDefs = {}
    BY DEF IsDefs, EmptyDefs
  <2>2. Len(text') \in Nat
    BY <1>4
  <2>. QED
    BY <1>4, <2>1, <2>2 DEF IInv, TypeOK, OrderListsDefs, OpenIsDefined, LogicalLinesClean,
       IsInjective, ToSet
<1>6. MadeInv'
  <2>1. NotBegun'
    BY <1>4 DEF NotBegun, EmptyDefs
  <2>2. (top = <<>> /\ DOMAIN defs = {} /\ directives = <<>> => Legible(netlist))'
    BY LegibleEmpty, PTL
  <2>3. Legible(netlist)'
    BY <2>1, <2>2 DEF NotBegun
  <2>4. (IsNetlist(written) /\ Legible(written))'
    BY <1>1, <1>2, <1>4
  <2>. QED
    BY <1>4, <2>1, <2>3, <2>4 DEF MadeInv
<1>7. RereadInv'
  <2>1. NamedAsDevices(written)' => text' = ToSpice(written)'
    <3>1. NamedAsDevices(written)' <=> NamedAsDevices(netlist)
      BY <1>4 DEF NamedAsDevices, CardsOf
    <3>2. NamedAsDevices(netlist) => text' = ToSpice(netlist)
      BY <1>1, <1>2, <1>4, WrittenIsRead
    <3>3. ToSpice(written)' = ToSpice(netlist)
      BY <1>4
    <3>. QED
      BY <3>1, <3>2, <3>3
  <2>. QED
    BY <1>4, <2>1 DEF RereadInv
<1>. QED
  BY <1>5, <1>6, <1>7

----------------------------------------------------------------------------
(* Reading the lines back: the first pass *)

LEMMA StripRow ==
  ASSUME NEW r \in Row
  PROVE  StripComment(r) = r
<1>. DEFINE Marks == {i \in 1 .. Len(r) : r[i].lead = "mark"}
<1>1. r \in Seq(Clean) /\ r # <<>> /\ Head(r).lead # "star"
  BY DEF Row
<1>2. Marks = {}
  BY <1>1 DEF Clean
<1>3. SelectInSeq(r, LAMBDA w : w.lead = "mark") = IF Marks # {} THEN Min(Marks) ELSE 0
  BY DEF SelectInSeq
<1>. QED
  BY <1>1, <1>2, <1>3 DEF StripComment

LEMMA StripFirst == StripComment(<<Keyword("star")>>) = <<>>
BY DEF StripComment, Keyword

\* Behind the k-th definition come the next one or the top level's cards.
LEMMA AfterBlock ==
  ASSUME IsNetlist(written), NEW k \in 0 .. Len(written.order),
         pos = BlockRow(written, k + 1), HeadersRead(k, k), top = <<>>, open = NoSubckt
  PROVE  Somewhere
<1>1. Len(written.order) \in Nat
  BY NetlistParts
<1>2. CASE k < Len(written.order)
  <2>1. k + 1 \in 1 .. Len(written.order) /\ (k + 1) - 1 = k
    BY <1>1, <1>2
  <2>2. AtBlock(k + 1)
    BY <2>1 DEF AtBlock
  <2>. QED
    BY <2>1, <2>2 DEF Somewhere
<1>3. CASE k = Len(written.order)
  <2>1. TopRow(written) \in Nat /\ pos = TopRow(written)
    BY <1>3, BlockRows DEF TopRow
  <2>2. top = SubSeq(WriteCards(written.top), 1, 0)
    OBVIOUS
  <2>3. AtCard(0)
    BY <1>3, <2>1, <2>2 DEF AtCard
  <2>4. 0 \in 0 .. Len(written.top)
    BY DEF IsNetlist
  <2>. QED
    BY <2>3, <2>4 DEF Somewhere
<1>. QED
  BY <1>1, <1>2, <1>3

LEMMA AfterDirectives ==
  ASSUME IsNetlist(written), pos = Len(written.directives), directives = written.directives,
         order = <<>>, top = <<>>, open = NoSubckt
  PROVE  Somewhere
<1>1. Len(written.order) \in Nat /\ pos = BlockRow(written, 0 + 1)
  BY NetlistParts, BlockRows
<1>2. order = SubSeq(written.order, 1, 0)
  OBVIOUS
<1>3. HeadersRead(0, 0)
  BY <1>2 DEF HeadersRead
<1>4. 0 \in 0 .. Len(written.order)
  BY <1>1
<1>. QED
  BY <1>1, <1>3, <1>4, AfterBlock

LEMMA AtFirst ==
  ASSUME IsNetlist(written), NotBegun
  PROVE  Somewhere
<1>1. Len(written.directives) \in Nat
  BY BlockRows
<1>2. CASE Len(written.directives) = 0
  <2>1. directives = written.directives
    BY <1>2 DEF NotBegun, IsNetlist
  <2>. QED
    BY <1>2, <2>1, AfterDirectives DEF NotBegun
<1>3. CASE Len(written.directives) # 0
  <2>1. 0 \in 0 .. Len(written.directives) - 1
    BY <1>1, <1>3
  <2>2. directives = SubSeq(written.directives, 1, 0)
    BY DEF NotBegun
  <2>. QED
    BY <2>1, <2>2 DEF NotBegun, AtDirective, Somewhere
<1>. QED
  BY <1>2, <1>3

LEMMA Rereading ==
  ASSUME IInv, MadeInv, RereadInv, round = 2, NamedAsDevices(written)
  PROVE  /\ IsNetlist(written) /\ Legible(written) /\ Written(text, written)
         /\ \A r \in 2 .. Len(text) : text[r] \in Row
         /\ Len(text) \in Nat /\ Len(text) >= 2 /\ text[1] = <<Keyword("star")>>
<1>1. IsNetlist(written) /\ Legible(written) /\ text = ToSpice(written)
  BY DEF MadeInv, RereadInv
<1>2. Written(text, written) /\ \A r \in 2 .. Len(text) : text[r] \in Row
  BY <1>1, TextIsWritten, TextReadable
<1>3. TopRow(written) \in Nat /\ Len(written.top) \in Nat
  BY <1>1, BlockRows DEF IsNetlist
<1>. QED
  BY <1>1, <1>2, <1>3 DEF Written

\* What the steps of parse leave alone.
LEMMA WrittenStays ==
  ASSUME UNCHANGED <<round, promotions, written>>
  PROVE  /\ NamedAsDevices(written)' <=> NamedAsDevices(written)
         /\ written' = written /\ round' = round
BY DEF NamedAsDevices, CardsOf

LEMMA RereadReassemble ==
  ASSUME IInv, MadeInv, RereadInv, Reassemble, UNCHANGED <<round, promotions, written>>
  PROVE  RereadInv'
<1>. SUFFICES ASSUME round = 2, NamedAsDevices(written)
              PROVE  /\ text' = ToSpice(written)
                     /\ status' \in {"lex", "parse", "ended", "ok"}
                     /\ Len(logical') = IF row' = 0 THEN 0 ELSE row' - 1
                     /\ \A i \in DOMAIN logical' : logical'[i].words = text'[i + 1]
                     /\ status' # "lex" => row' = Len(text')
                     /\ status' = "parse" => Somewhere'
                     /\ status' \in {"ended", "ok"} => AllRead'
  BY WrittenStays DEF RereadInv
<1>1. /\ IsNetlist(written) /\ \A r \in 2 .. Len(text) : text[r] \in Row
      /\ Len(text) \in Nat /\ Len(text) >= 2 /\ text[1] = <<Keyword("star")>>
  BY Rereading
<1>2. /\ text = ToSpice(written) /\ Len(logical) = IF row = 0 THEN 0 ELSE row - 1
      /\ \A i \in DOMAIN logical : logical[i].words = text[i + 1]
      /\ row \in Nat /\ logical \in Seq(LogicalLine)
  BY DEF RereadInv, IInv, TypeOK
<1>3. CASE EndOfText
  <2>1. NotBegun' /\ IsNetlist(written)'
    BY <1>1, <1>3 DEF EndOfText, MadeInv, NotBegun, netVars, lexVars
  <2>2. (IsNetlist(written) /\ NotBegun => Somewhere)'
    BY AtFirst, PTL
  <2>3. Somewhere'
    BY <2>1, <2>2
  <2>. QED
    BY <1>2, <1>3, <2>3 DEF EndOfText, lexVars
<1>4. CASE ReadRow /\ row = 0
  <2>1. Cleaned = <<>>
    BY <1>1, <1>4, StripFirst DEF Cleaned
  <2>2. SkipBlank
    BY <1>4, <2>1 DEF Reassemble, StartLogical, Continue, DanglingContinuation, EndOfText,
       ReadRow
  <2>. QED
    BY <1>2, <1>4, <2>2 DEF SkipBlank, ReadRow
<1>5. CASE ReadRow /\ row # 0
  <2>1. row + 1 \in 2 .. Len(text)
    BY <1>1, <1>2, <1>5 DEF ReadRow
  <2>2. text[row + 1] \in Row /\ Cleaned = text[row + 1]
    BY <1>1, <2>1, StripRow DEF Cleaned
  <2>3. Cleaned # <<>> /\ Head(Cleaned).lead # "plus"
    BY <2>2 DEF Row
  <2>4. StartLogical
    BY <1>1, <1>2, <1>5, <2>3 DEF Reassemble, SkipBlank, Continue, DanglingContinuation,
       EndOfText, ReadRow
  <2>5. /\ logical' = Append(logical, [words |-> text[row + 1], row |-> row + 1])
        /\ text' = text /\ row' = row + 1 /\ status' = "lex"
    BY <2>2, <2>4 DEF StartLogical, ReadRow
  <2>6. Len(logical) = row - 1 /\ Len(logical') = row
    BY <1>2, <1>5, <2>5
  <2>7. ASSUME NEW i \in DOMAIN logical'
        PROVE  logical'[i].words = text'[i + 1]
    <3>1. CASE i = row
      BY <1>2, <2>5, <2>6, <3>1
    <3>2. CASE i # row
      BY <1>2, <2>5, <2>6, <3>2
    <3>. QED
      BY <3>1, <3>2
  <2>8. row + 1 # 0 /\ (row + 1) - 1 = row
    BY <1>2
  <2>. QED
    BY <1>2, <2>5, <2>6, <2>7, <2>8
<1>. QED
  BY <1>3, <1>4, <1>5 DEF Reassemble, SkipBlank, StartLogical, Continue, DanglingContinuation

----------------------------------------------------------------------------
(* Reading the lines back: the second pass *)

\* What the line holds that stands at each place.
LEMMA LineIs ==
  ASSUME IInv, MadeInv, RereadInv, round = 2, NamedAsDevices(written), status = "parse"
  PROVE  /\ Len(logical) = TopRow(written) + Len(written.top) + 1
         /\ pos < Len(logical) => Line.words = text[pos + 2]
<1>1. /\ IsNetlist(written) /\ Len(text) \in Nat /\ Len(text) >= 2
      /\ Len(text) = TopRow(written) + Len(written.top) + 2
  BY Rereading DEF Written
<1>2. TopRow(written) \in Nat /\ Len(written.top) \in Nat
  BY <1>1, BlockRows DEF IsNetlist
<1>3. /\ row = Len(text) /\ Len(logical) = IF row = 0 THEN 0 ELSE row - 1
      /\ \A i \in DOMAIN logical : logical[i].words = text[i + 1]
      /\ logical \in Seq(LogicalLine) /\ pos \in 0 .. Len(logical)
  BY DEF RereadInv, IInv, TypeOK
<1>4. Len(logical) = TopRow(written) + Len(written.top) + 1
  BY <1>1, <1>2, <1>3
<1>5. ASSUME pos < Len(logical) PROVE Line.words = text[pos + 2]
  <2>1. pos + 1 \in DOMAIN logical /\ (pos + 1) + 1 = pos + 2
    BY <1>3, <1>5
  <2>. QED
    BY <1>3, <2>1 DEF Line
<1>. QED
  BY <1>4, <1>5

\* The lines of a definition lie before the top level's.
LEMMA BlockBounds ==
  ASSUME NEW nl, IsNetlist(nl), NEW k \in 1 .. Len(nl.order), NEW i \in 1 .. BodyLen(nl, k) + 2
  PROVE  BlockRow(nl, k) + i <= TopRow(nl)
<1>1. /\ Blocks(nl) \in Seq(Seq(Seq(Word))) /\ Len(Blocks(nl)) = Len(nl.order)
      /\ nl.defs[nl.order[k]] \in Subckt /\ Blocks(nl)[k] = WriteSubckt(nl.defs[nl.order[k]])
  BY NetlistParts
<1>2. Len(Blocks(nl)[k]) = BodyLen(nl, k) + 2
  BY <1>1, SubcktLines DEF BodyLen
<1>3. Stands(Blocks(nl), k)
  BY <1>1, FlattenStands
<1>. DEFINE b == Before(Blocks(nl), k)
            f == Len(FlattenSeq(Blocks(nl)))
            nd == Len(nl.directives)
<1>4. b + i \in 1 .. f
  BY <1>2, <1>3 DEF Stands
<1>5. nd \in Nat /\ BlockRow(nl, k) = nd + b /\ TopRow(nl) = nd + f /\ nd + b \in Nat
      /\ nd + f \in Nat
  BY BlockRows DEF BlockRow
<1>6. b \in Nat
  BY <1>1, FlattenPlaces
<1>7. i \in Nat
  BY BlockRows
<1>. HIDE DEF b, f, nd
<1>8. nd + b + i <= nd + f
  <2>1. f \in Int
    BY <1>4, <1>6, <1>7, BlockRows DEF f
  <2>. QED
    BY <1>4, <1>5, <1>6, <1>7, <2>1
<1>. QED
  BY <1>5, <1>6, <1>7, <1>8

LEMMA LineAtDirective ==
  ASSUME IInv, MadeInv, RereadInv, round = 2, NamedAsDevices(written), status = "parse",
         AtDirective
  PROVE  /\ pos < Len(logical) /\ pos + 1 \in 1 .. Len(written.directives)
         /\ Line.words = written.directives[pos + 1] /\ LineLead = "directive"
<1>1. IsNetlist(written) /\ Legible(written) /\ Written(text, written)
  BY Rereading
<1>2. /\ Len(written.directives) \in Nat /\ TopRow(written) \in Nat /\ Len(written.top) \in Nat
      /\ Len(written.directives) <= TopRow(written)
  <2>1. Len(FlattenSeq(Blocks(written))) \in Nat
    <3>1. <<>> \in Seq(Seq(Word)) /\ Blocks(written) \in Seq(Seq(Seq(Word)))
      BY <1>1, NetlistParts
    <3>2. FlattenSeq(Blocks(written)) \in Seq(Seq(Word))
      BY <3>1, FlattenAppend
    <3>. QED
      BY <3>2
  <2>2. /\ Len(written.directives) \in Nat
        /\ TopRow(written) = Len(written.directives) + Len(FlattenSeq(Blocks(written)))
    BY <1>1, BlockRows
  <2>3. Len(written.top) \in Nat
    BY <1>1 DEF IsNetlist
  <2>. QED
    BY <2>1, <2>2, <2>3
<1>3. pos \in Nat /\ pos + 1 \in 1 .. Len(written.directives) /\ (pos + 1) + 1 = pos + 2
  BY <1>2 DEF AtDirective
<1>4. pos < Len(logical) /\ Line.words = text[pos + 2]
  BY <1>2, <1>3, LineIs
<1>5. Line.words = written.directives[pos + 1]
  BY <1>1, <1>3, <1>4 DEF Written
<1>6. written.directives[pos + 1] \in ToSet(written.directives)
  BY <1>3 DEF ToSet
<1>. QED
  BY <1>1, <1>3, <1>4, <1>5, <1>6 DEF Legible, LineLead

LEMMA LineAtBlock ==
  ASSUME IInv, MadeInv, RereadInv, round = 2, NamedAsDevices(written), status = "parse",
         NEW k \in 1 .. Len(written.order), AtBlock(k)
  PROVE  /\ pos < Len(logical) /\ LineLead = "subckt"
         /\ Tail(Line.words) = Copy(k, 0).header /\ Tail(Line.words) # <<>>
         /\ Head(Tail(Line.words)) = written.order[k]
<1>1. IsNetlist(written) /\ Legible(written) /\ Written(text, written)
  BY Rereading
<1>. DEFINE sub == written.defs[written.order[k]]
            hdr == WriteHeader(ParseHeader(sub.header))
<1>2. /\ sub \in Subckt /\ Blocks(written)[k] = WriteSubckt(sub)
      /\ written.order[k] \in DOMAIN written.defs
  BY <1>1, NetlistParts
<1>3. BodyLen(written, k) \in Nat /\ BlockRow(written, k) \in Nat /\ pos = BlockRow(written, k)
      /\ Len(written.top) \in Nat /\ TopRow(written) \in Nat
  BY <1>1, BlockRows DEF AtBlock, IsNetlist
<1>4. 1 \in 1 .. BodyLen(written, k) + 2
  BY <1>3
<1>5. pos < Len(logical) /\ Line.words = text[pos + 2]
  <2>1. pos + 1 <= TopRow(written)
    BY <1>1, <1>3, <1>4, BlockBounds
  <2>. QED
    BY <1>3, <2>1, LineIs
<1>6. Line.words = Cat(<<Keyword("subckt")>>, hdr)
  <2>1. text[BlockRow(written, k) + 1 + 1] = Blocks(written)[k][1]
    BY <1>1, <1>4 DEF Written
  <2>2. BlockRow(written, k) + 1 + 1 = pos + 2
    BY <1>3
  <2>3. WriteSubckt(sub)[1] = Cat(<<Keyword("subckt")>>, hdr)
    BY <1>2, SubcktLines
  <2>. QED
    BY <1>2, <1>5, <2>1, <2>2, <2>3
<1>7. hdr \in Seq(Word) /\ hdr # <<>> /\ Head(hdr) = written.order[k]
  <2>1. sub.header \in Seq(Word) /\ sub.header # <<>> /\ Head(sub.header) = written.order[k]
    BY <1>1, <1>2 DEF Legible, Subckt, Card
  <2>2. ASSUME NEW header \in Seq(Word), header # <<>>
        PROVE  /\ WriteHeader(ParseHeader(header)) \in Seq(Word)
               /\ WriteHeader(ParseHeader(header)) # <<>>
               /\ Head(WriteHeader(ParseHeader(header))) = Head(header)
    BY <2>2, HeaderWords
  <2>. QED
    BY <2>1, <2>2
<1>8. Keyword("subckt") \in Word /\ Keyword("subckt").lead = "subckt"
  BY CleanWords DEF Keyword, Leads
<1>. HIDE DEF hdr
<1>9. Head(Line.words) = Keyword("subckt") /\ Tail(Line.words) = hdr
  <2>1. ASSUME NEW h \in Word, Line.words = Cat(<<h>>, hdr)
        PROVE  Head(Line.words) = h /\ Tail(Line.words) = hdr
    BY <1>7, <2>1, CatOne, ZenonT(40)
  <2>. QED
    BY <1>6, <1>8, <2>1
<1>10. Copy(k, 0).header = hdr
  BY DEF Copy, hdr
<1>. QED
  BY <1>5, <1>7, <1>8, <1>9, <1>10 DEF LineLead

LEMMA LineInBlock ==
  ASSUME IInv, MadeInv, RereadInv, round = 2, NamedAsDevices(written), status = "parse",
         NEW k \in 1 .. Len(written.order), NEW n \in 0 .. BodyLen(written, k), InBlock(k, n)
  PROVE  /\ pos < Len(logical)
         /\ n < BodyLen(written, k) =>
              /\ IsDevice
              /\ Line.words = WriteCards(written.defs[written.order[k]].body)[n + 1]
         /\ n = BodyLen(written, k) => LineLead = "ends"
<1>1. /\ IsNetlist(written) /\ Legible(written) /\ Written(text, written)
  BY Rereading
<1>. DEFINE sub == written.defs[written.order[k]]
<1>2. /\ sub \in Subckt /\ Blocks(written)[k] = WriteSubckt(sub)
      /\ written.order[k] \in DOMAIN written.defs
  BY <1>1, NetlistParts
<1>3. /\ BodyLen(written, k) \in Nat /\ BlockRow(written, k) \in Nat /\ n \in Nat
      /\ pos = BlockRow(written, k) + n + 1
      /\ Len(written.top) \in Nat /\ TopRow(written) \in Nat
  <2>1. /\ BodyLen(written, k) \in Nat /\ BlockRow(written, k) \in Nat
        /\ TopRow(written) \in Nat
    BY <1>1, BlockRows
  <2>2. Len(written.top) \in Nat
    BY <1>1 DEF IsNetlist
  <2>3. pos = BlockRow(written, k) + n + 1
    BY DEF InBlock
  <2>. QED
    BY <2>1, <2>2, <2>3
<1>4. n + 2 \in 1 .. BodyLen(written, k) + 2 /\ n + 1 \in 1 .. BodyLen(written, k) + 2
  BY <1>3
<1>5. pos < Len(logical) /\ Line.words = text[pos + 2]
  <2>1. BlockRow(written, k) + (n + 2) <= TopRow(written)
    BY <1>1, <1>4, BlockBounds
  <2>2. Len(logical) = TopRow(written) + Len(written.top) + 1
        /\ (pos < Len(logical) => Line.words = text[pos + 2])
    BY LineIs
  <2>3. pos < Len(logical)
    BY <1>3, <2>1, <2>2
  <2>. QED
    BY <2>2, <2>3
<1>6. Line.words = WriteSubckt(sub)[n + 2]
  <2>1. text[BlockRow(written, k) + (n + 2) + 1] = Blocks(written)[k][n + 2]
    BY <1>1, <1>4 DEF Written
  <2>2. BlockRow(written, k) + (n + 2) + 1 = pos + 2
    BY <1>3
  <2>. QED
    BY <1>2, <1>5, <2>1, <2>2
<1>7. ASSUME n < BodyLen(written, k)
      PROVE  IsDevice /\ Line.words = WriteCards(sub.body)[n + 1]
  <2>1. n + 1 \in 1 .. Len(sub.body) /\ (n + 1) + 1 = n + 2
    <3>1. n + 1 \in 1 .. BodyLen(written, k) /\ (n + 1) + 1 = n + 2
      <4>. DEFINE m == BodyLen(written, k)
      <4>1. n < m /\ n \in Nat /\ m \in Nat
        BY <1>3, <1>7
      <4>. HIDE DEF m
      <4>2. n + 1 \in 1 .. m /\ (n + 1) + 1 = n + 2
        BY <4>1
      <4>. QED
        BY <4>2 DEF m
    <3>. QED
      BY <3>1 DEF BodyLen
  <2>2. Line.words = WriteDevice(ParseDevice(sub.body[n + 1]))
    BY <1>2, <1>6, <2>1, SubcktLines
  <2>3. sub.body[n + 1] \in CardsOf(written) /\ n + 1 \in DOMAIN sub.body
    <3>1. n + 1 \in DOMAIN sub.body
      BY <1>2, <2>1 DEF Subckt
    <3>2. sub.body[n + 1] \in ToSet(sub.body)
      BY <3>1 DEF ToSet
    <3>3. ToSet(sub.body) \subseteq CardsOf(written)
      BY ONLY <1>2 DEF CardsOf
    <3>. QED
      BY <3>1, <3>2, <3>3
  <2>4. Head(Line.words) = Head(sub.body[n + 1])
    BY <1>1, <2>2, <2>3, CardReadable
  <2>5. IsDevice
    BY <2>3, <2>4 DEF NamedAsDevices, IsDevice, LineLead
  <2>6. WriteCards(sub.body)[n + 1] = WriteDevice(ParseDevice(sub.body[n + 1]))
    BY <2>3 DEF WriteCards
  <2>. QED
    BY <2>2, <2>5, <2>6
<1>8. ASSUME n = BodyLen(written, k) PROVE LineLead = "ends"
  <2>1. Line.words = <<Keyword("ends"), Head(sub.header)>>
    <3>1. Line.words = WriteSubckt(sub)[Len(sub.body) + 2]
      BY <1>6, <1>8 DEF BodyLen
    <3>2. WriteSubckt(sub)[Len(sub.body) + 2] = <<Keyword("ends"), Head(sub.header)>>
      BY <1>2, SubcktLines, Zenon
    <3>. QED
      BY <3>1, <3>2, Zenon
  <2>. QED
    BY <2>1 DEF LineLead, Keyword
<1>. QED
  BY <1>5, <1>7, <1>8

LEMMA LineAtCard ==
  ASSUME IInv, MadeInv, RereadInv, round = 2, NamedAsDevices(written), status = "parse",
         NEW n \in 0 .. Len(written.top), AtCard(n)
  PROVE  /\ pos < Len(logical)
         /\ n < Len(written.top) => IsDevice /\ Line.words = WriteCards(written.top)[n + 1]
         /\ n = Len(written.top) => LineLead = "end"
<1>1. /\ IsNetlist(written) /\ Legible(written) /\ Written(text, written)
  BY Rereading
<1>2. /\ TopRow(written) \in Nat /\ Len(written.top) \in Nat /\ n \in Nat
      /\ pos = TopRow(written) + n
  <2>1. TopRow(written) \in Nat
    BY <1>1, BlockRows
  <2>2. Len(written.top) \in Nat
    BY <1>1 DEF IsNetlist
  <2>3. pos = TopRow(written) + n
    BY DEF AtCard
  <2>. QED
    BY <2>1, <2>2, <2>3
<1>3. pos < Len(logical) /\ Line.words = text[pos + 2]
  BY <1>2, LineIs
<1>4. ASSUME n < Len(written.top)
      PROVE  IsDevice /\ Line.words = WriteCards(written.top)[n + 1]
  <2>1. n + 1 \in 1 .. Len(written.top) /\ TopRow(written) + (n + 1) + 1 = pos + 2
    BY <1>2, <1>4
  <2>2. Line.words = WriteDevice(ParseDevice(written.top[n + 1]))
    BY <1>1, <1>3, <2>1 DEF Written
  <2>3. written.top[n + 1] \in CardsOf(written) /\ n + 1 \in DOMAIN written.top
    BY <1>1, <2>1 DEF CardsOf, ToSet, IsNetlist
  <2>4. Head(Line.words) = Head(written.top[n + 1])
    BY <1>1, <2>2, <2>3, CardReadable
  <2>5. IsDevice
    BY <2>3, <2>4 DEF NamedAsDevices, IsDevice, LineLead
  <2>6. WriteCards(written.top)[n + 1] = WriteDevice(ParseDevice(written.top[n + 1]))
    BY <2>3 DEF WriteCards
  <2>. QED
    BY <2>2, <2>5, <2>6
<1>5. ASSUME n = Len(written.top) PROVE LineLead = "end"
  <2>1. text[TopRow(written) + Len(written.top) + 2] = <<Keyword("end")>>
    BY <1>1 DEF Written
  <2>2. Line.words = <<Keyword("end")>>
    BY <1>2, <1>3, <1>5, <2>1
  <2>. QED
    BY <2>2 DEF LineLead, Keyword
<1>. QED
  BY <1>3, <1>4, <1>5

LEMMA PrefixGrows ==
  ASSUME NEW S, NEW s \in Seq(S), NEW n \in 0 .. Len(s)
  PROVE  /\ n < Len(s) => Append(SubSeq(s, 1, n), s[n + 1]) = SubSeq(s, 1, n + 1)
         /\ SubSeq(s, 1, Len(s)) = s /\ SubSeq(s, 1, 0) = <<>>
<1>1. ASSUME n < Len(s)
      PROVE  Append(SubSeq(s, 1, n), s[n + 1]) = SubSeq(s, 1, n + 1)
  BY <1>1
<1>2. SubSeq(s, 1, Len(s)) = s /\ SubSeq(s, 1, 0) = <<>>
  OBVIOUS
<1>. QED
  BY <1>1, <1>2

LEMMA WrittenCards ==
  ASSUME IsNetlist(written)
  PROVE  /\ WriteCards(written.top) \in Seq(Seq(Word))
         /\ Len(WriteCards(written.top)) = Len(written.top)
         /\ \A k \in 1 .. Len(written.order) :
              LET cards == written.defs[written.order[k]].body IN
              /\ WriteCards(cards) \in Seq(Seq(Word))
              /\ Len(WriteCards(cards)) = BodyLen(written, k)
<1>1. ASSUME NEW cards \in Seq(Card)
      PROVE  WriteCards(cards) \in Seq(Seq(Word)) /\ Len(WriteCards(cards)) = Len(cards)
  <2>1. \A i \in DOMAIN cards : WriteDevice(ParseDevice(cards[i])) \in Seq(Word)
    <3>1. \A i \in DOMAIN cards : cards[i] \in Seq(Word) /\ cards[i] # <<>>
      BY <1>1 DEF Card
    <3>. QED
      BY <3>1, DeviceWords
  <2>. QED
    BY <1>1, <2>1 DEF WriteCards
<1>2. written.top \in Seq(Card)
  BY DEF IsNetlist
<1>3. \A k \in 1 .. Len(written.order) : written.defs[written.order[k]].body \in Seq(Card)
  BY NetlistParts DEF Subckt
<1>. QED
  BY <1>1, <1>2, <1>3 DEF BodyLen

\* Which step of the second pass a line takes: each line has one.
LEMMA LineTaken ==
  ASSUME ParseLine
  PROVE  /\ LineLead = "directive" => RecordDirective
         /\ LineLead = "end" => StopAtEnd
         /\ LineLead = "subckt" /\ Tail(Line.words) # <<>> => OpenSubckt
         /\ LineLead = "ends" /\ open # NoSubckt => CloseSubckt
         /\ IsDevice /\ open # NoSubckt => AddToBody
         /\ IsDevice /\ open = NoSubckt => AddToTop
<1>1. /\ OpenSubckt => LineLead = "subckt"
      /\ MissingSubcktName => LineLead = "subckt" /\ Tail(Line.words) = <<>>
      /\ CloseSubckt => LineLead = "ends"
      /\ UnexpectedEnds => LineLead = "ends" /\ open = NoSubckt
      /\ StopAtEnd => LineLead = "end"
      /\ RecordDirective => LineLead = "directive"
      /\ AddToBody => IsDevice /\ open # NoSubckt
      /\ AddToTop => IsDevice /\ open = NoSubckt
  BY DEF OpenSubckt, MissingSubcktName, CloseSubckt, UnexpectedEnds, StopAtEnd,
     RecordDirective, AddToBody, AddToTop
<1>2. IsDevice <=> LineLead \notin {"subckt", "ends", "end", "directive"}
  BY DEF IsDevice
<1>. QED
  BY <1>1, <1>2 DEF ParseLine

\* The second pass goes on to the next line, or is at the end.
GoesOn == \/ status' = "parse" /\ Somewhere'
          \/ status' = "ended" /\ AllRead'

LEMMA StepAtDirective ==
  ASSUME IInv, MadeInv, RereadInv, round = 2, NamedAsDevices(written), status = "parse",
         ParseLine, UNCHANGED <<round, promotions, written>>, AtDirective
  PROVE  GoesOn
<1>1. IsNetlist(written) /\ written.directives \in Seq(Card)
  BY Rereading DEF IsNetlist
<1>2. /\ pos + 1 \in 1 .. Len(written.directives)
      /\ Line.words = written.directives[pos + 1] /\ LineLead = "directive"
      /\ pos \in Nat
  BY LineAtDirective DEF AtDirective
<1>3. RecordDirective
  BY <1>2, LineTaken
<1>4. /\ directives' = Append(SubSeq(written.directives, 1, pos), written.directives[pos + 1])
      /\ pos' = pos + 1 /\ order' = <<>> /\ top' = <<>> /\ open' = NoSubckt
      /\ status' = "parse" /\ written' = written
  BY <1>2, <1>3 DEF RecordDirective, ReadLine, AtDirective
<1>5. directives' = SubSeq(written.directives, 1, pos + 1)
  <2>1. pos \in 0 .. Len(written.directives) /\ pos < Len(written.directives)
    BY <1>1, <1>2
  <2>. QED
    BY <1>1, <1>4, <2>1, PrefixGrows
<1>6. CASE pos + 1 < Len(written.directives)
  <2>1. pos' \in 0 .. Len(written'.directives) - 1
    BY <1>1, <1>2, <1>4, <1>6
  <2>2. AtDirective'
    BY <1>4, <1>5, <2>1 DEF AtDirective
  <2>3. Somewhere'
    BY <2>2 DEF Somewhere
  <2>. QED
    BY <1>4, <2>3 DEF GoesOn
<1>7. CASE pos + 1 = Len(written.directives)
  <2>1. directives' = written.directives
    BY <1>1, <1>5, <1>7
  <2>2. (IsNetlist(written) /\ pos = Len(written.directives)
           /\ directives = written.directives /\ order = <<>> /\ top = <<>>
           /\ open = NoSubckt => Somewhere)'
    BY AfterDirectives, PTL
  <2>. QED
    BY <1>1, <1>4, <1>7, <2>1, <2>2 DEF GoesOn
<1>. QED
  BY <1>2, <1>6, <1>7

\* The names of definitions that have been begun are those of the first k.
LEMMA NamesRead ==
  ASSUME IInv, IsNetlist(written), NEW k \in 0 .. Len(written.order),
         order = SubSeq(written.order, 1, k)
  PROVE  /\ DOMAIN defs = {written.order[i] : i \in 1 .. k}
         /\ \A i, j \in 1 .. Len(written.order) :
              written.order[i] = written.order[j] => i = j
         /\ \A i \in 1 .. Len(written.order) :
              written.order[i] \in Word /\ written.order[i] # NoSubckt
<1>1. written.order \in Seq(Word) /\ IsInjective(written.order)
  BY DEF IsNetlist
<1>2. \A i \in 1 .. Len(written.order) : written.order[i] \in Word
  BY <1>1
<1>3. DOMAIN order = 1 .. k /\ \A i \in 1 .. k : order[i] = written.order[i]
  BY <1>1, PrefixProperties
<1>4. DOMAIN defs = ToSet(order)
  BY DEF IInv, OrderListsDefs
<1>5. DOMAIN defs = {written.order[i] : i \in 1 .. k}
  BY <1>3, <1>4 DEF ToSet
<1>. QED
  BY <1>1, <1>2, <1>5, NoSubcktAssumption DEF IsInjective

LEMMA StepAtBlock ==
  ASSUME IInv, MadeInv, RereadInv, round = 2, NamedAsDevices(written), status = "parse",
         ParseLine, UNCHANGED <<round, promotions, written>>,
         NEW k \in 1 .. Len(written.order), AtBlock(k)
  PROVE  GoesOn
<1>. DEFINE wo == written.order
            name == wo[k]
<1>1. IsNetlist(written) /\ wo \in Seq(Word)
  BY Rereading DEF IsNetlist
<1>2. /\ LineLead = "subckt" /\ Tail(Line.words) = Copy(k, 0).header
      /\ Tail(Line.words) # <<>> /\ Head(Tail(Line.words)) = name
  BY LineAtBlock
<1>3. OpenSubckt
  BY <1>2, LineTaken
<1>4. /\ pos = BlockRow(written, k) /\ directives = written.directives
      /\ order = SubSeq(wo, 1, k - 1)
      /\ \A i \in 1 .. k - 1 : Made(i, BodyLen(written, i))
      /\ top = <<>>
  BY DEF AtBlock, HeadersRead
<1>5. /\ k \in Nat /\ k - 1 \in 0 .. Len(wo) /\ k - 1 < Len(wo) /\ (k - 1) + 1 = k
      /\ Len(wo) \in Nat
  BY <1>1
<1>6. /\ DOMAIN defs = {wo[i] : i \in 1 .. k - 1}
      /\ \A i, j \in 1 .. Len(wo) : wo[i] = wo[j] => i = j
  BY <1>1, <1>4, <1>5, NamesRead
<1>7. name \notin DOMAIN defs
  BY <1>5, <1>6
<1>8. /\ pos' = pos + 1 /\ open' = name /\ order' = Append(order, name)
      /\ defs' = Insert(defs, name, [header |-> Copy(k, 0).header, body |-> <<>>])
      /\ top' = <<>> /\ directives' = directives /\ status' = "parse" /\ written' = written
  BY <1>2, <1>3, <1>4, <1>7 DEF OpenSubckt, ReadLine
<1>9. order' = SubSeq(wo, 1, k)
  BY <1>1, <1>4, <1>5, <1>8, PrefixGrows
<1>10. Copy(k, 0) = [header |-> Copy(k, 0).header, body |-> <<>>]
  <2>1. Copy(k, 0).body = <<>>
    BY DEF Copy
  <2>. QED
    BY <2>1 DEF Copy
<1>11. /\ defs'[name] = Copy(k, 0)
       /\ \A n \in DOMAIN defs : defs'[n] = defs[n]
  BY <1>7, <1>8, <1>10 DEF Insert
<1>12. \A i \in 1 .. k - 1 : defs'[wo[i]] = Copy(i, BodyLen(written, i))
  BY <1>4, <1>6, <1>11 DEF Made
<1>13. \A i, n : Copy(i, n)' = Copy(i, n) /\ BodyLen(written, i)' = BodyLen(written, i)
  BY <1>8 DEF Copy, BodyLen
<1>14. HeadersRead(k, k - 1)' /\ Made(k, 0)'
  BY <1>4, <1>8, <1>9, <1>11, <1>12, <1>13 DEF HeadersRead, Made
<1>15. pos' = BlockRow(written, k) + 0 + 1
  <2>1. BlockRow(written, k) \in Nat
    BY <1>1, BlockRows
  <2>. QED
    BY <1>4, <1>8, <2>1
<1>16. InBlock(k, 0)'
  BY <1>8, <1>14, <1>15 DEF InBlock
<1>17. k \in 1 .. Len(written'.order) /\ 0 \in 0 .. BodyLen(written', k)
  BY <1>1, <1>8, BlockRows
<1>18. Somewhere'
  BY <1>16, <1>17 DEF Somewhere
<1>. QED
  BY <1>8, <1>18 DEF GoesOn

\* A definition's block is closed, and the next one not begun.
BetweenBlocks ==
  \E k \in 0 .. Len(written.order) :
    /\ IsNetlist(written) /\ pos = BlockRow(written, k + 1) /\ HeadersRead(k, k)
    /\ top = <<>> /\ open = NoSubckt

LEMMA AfterBlocks == BetweenBlocks => Somewhere
BY AfterBlock DEF BetweenBlocks

LEMMA StepInBlock ==
  ASSUME IInv, MadeInv, RereadInv, round = 2, NamedAsDevices(written), status = "parse",
         ParseLine, UNCHANGED <<round, promotions, written>>,
         NEW k \in 1 .. Len(written.order), NEW n \in 0 .. BodyLen(written, k), InBlock(k, n)
  PROVE  GoesOn
<1>. DEFINE wo == written.order
            name == wo[k]
            cards == WriteCards(written.defs[name].body)
<1>1. IsNetlist(written) /\ wo \in Seq(Word)
  BY Rereading DEF IsNetlist
<1>2. /\ pos = BlockRow(written, k) + n + 1 /\ directives = written.directives
      /\ order = SubSeq(wo, 1, k) /\ open = name /\ top = <<>>
      /\ \A i \in 1 .. k - 1 : Made(i, BodyLen(written, i))
      /\ defs[name] = Copy(k, n)
  BY DEF InBlock, HeadersRead, Made
<1>3. k \in 0 .. Len(wo) /\ Len(wo) \in Nat
  BY <1>1
<1>4. /\ DOMAIN defs = {wo[i] : i \in 1 .. k}
      /\ \A i, j \in 1 .. Len(wo) : wo[i] = wo[j] => i = j
      /\ name \in Word /\ name # NoSubckt
  BY <1>1, <1>2, <1>3, NamesRead
<1>5. name \in DOMAIN defs
  BY <1>3, <1>4
<1>6. /\ BlockRow(written, k) \in Nat /\ BodyLen(written, k) \in Nat
      /\ BlockRow(written, k + 1) = BlockRow(written, k) + BodyLen(written, k) + 2
  BY <1>1, BlockRows
<1>7. cards \in Seq(Seq(Word)) /\ Len(cards) = BodyLen(written, k)
  BY <1>1, WrittenCards
<1>8. CASE n < BodyLen(written, k)
  <2>1. IsDevice /\ Line.words = cards[n + 1]
    BY <1>8, LineInBlock, ZenonT(40)
  <2>2. AddToBody
    <3>1. open # NoSubckt
      BY <1>2, <1>4
    <3>. QED
      BY <2>1, <3>1, LineTaken, Zenon
  <2>3. /\ pos' = pos + 1 /\ open' = name /\ order' = order
        /\ defs' = [defs EXCEPT ![name].body = Append(@, Line.words)]
        /\ top' = <<>> /\ directives' = directives /\ status' = "parse" /\ written' = written
    BY <1>2, <1>5, <2>2 DEF AddToBody, ReadLine
  <2>4. Copy(k, n).body = SubSeq(cards, 1, n) /\ Copy(k, n + 1).body = SubSeq(cards, 1, n + 1)
        /\ Copy(k, n).header = Copy(k, n + 1).header
    BY DEF Copy
  <2>5. Append(SubSeq(cards, 1, n), cards[n + 1]) = SubSeq(cards, 1, n + 1)
    BY <1>7, <1>8, PrefixGrows
  <2>6. defs'[name] = Copy(k, n + 1) /\ \A i \in DOMAIN defs : i # name => defs'[i] = defs[i]
    <3>1. defs \in [DOMAIN defs -> Subckt]
      BY DEF IInv, TypeOK, IsDefs
    <3>2. defs'[name] = [defs[name] EXCEPT !.body = Append(@, Line.words)]
          /\ \A i \in DOMAIN defs : i # name => defs'[i] = defs[i]
      BY <1>5, <2>3, <3>1
    <3>. DEFINE h == WriteHeader(ParseHeader(written.defs[name].header))
    <3>3. /\ defs[name] = [header |-> h, body |-> SubSeq(cards, 1, n)]
          /\ Copy(k, n + 1) = [header |-> h, body |-> SubSeq(cards, 1, n + 1)]
      BY <1>2 DEF Copy
    <3>4. ASSUME NEW b, NEW c, defs[name] = [header |-> h, body |-> b], Append(b, Line.words) = c
          PROVE  defs'[name] = [header |-> h, body |-> c]
      <4>. HIDE DEF h, cards
      <4>1. defs[name] \in Subckt
        BY <1>5, <3>1
      <4>2. /\ defs[name].header = h /\ defs[name].body = b
        BY <3>4
      <4>3. defs'[name] \in [header : {h}, body : {c}]
        <5>1. \A r \in Subckt : \A s : [r EXCEPT !.body = s] \in [header : {r.header}, body : {s}]
          BY DEF Subckt
        <5>2. defs'[name] = [defs[name] EXCEPT !.body = c]
          BY <3>2, <3>4, <4>2
        <5>. QED
          BY <4>1, <4>2, <5>1, <5>2
      <4>. QED
        BY <4>3
    <3>. HIDE DEF h, cards
    <3>5. defs'[name] = Copy(k, n + 1)
      BY <2>1, <2>5, <3>3, <3>4
    <3>. QED
      BY <3>2, <3>5
  <2>7. \A i \in 1 .. k - 1 : defs'[wo[i]] = Copy(i, BodyLen(written, i))
    <3>1. \A i \in 1 .. k - 1 : wo[i] \in DOMAIN defs /\ wo[i] # name
      BY <1>3, <1>4
    <3>. QED
      BY <1>2, <2>6, <3>1 DEF Made
  <2>8. \A i, m : Copy(i, m)' = Copy(i, m) /\ BodyLen(written, i)' = BodyLen(written, i)
    BY <2>3 DEF Copy, BodyLen
  <2>9. HeadersRead(k, k - 1)' /\ Made(k, n + 1)'
    BY <1>2, <2>3, <2>6, <2>7, <2>8 DEF HeadersRead, Made
  <2>10. pos' = BlockRow(written, k) + (n + 1) + 1
    BY <1>2, <1>6, <2>3
  <2>11. InBlock(k, n + 1)'
    BY <2>3, <2>9, <2>10 DEF InBlock
  <2>12. k \in 1 .. Len(written'.order) /\ n + 1 \in 0 .. BodyLen(written', k)
    BY <1>6, <1>8, <2>3
  <2>13. Somewhere'
    BY <2>11, <2>12 DEF Somewhere
  <2>. QED
    BY <2>3, <2>13 DEF GoesOn
<1>9. CASE n = BodyLen(written, k)
  <2>1. LineLead = "ends"
    BY <1>9, LineInBlock
  <2>2. CloseSubckt
    BY <1>2, <1>4, <2>1, LineTaken
  <2>3. /\ pos' = pos + 1 /\ open' = NoSubckt /\ order' = order /\ defs' = defs
        /\ top' = <<>> /\ directives' = directives /\ status' = "parse" /\ written' = written
    BY <1>2, <2>2 DEF CloseSubckt, ReadLine, netVars
  <2>4. pos' = BlockRow(written, k + 1)
    BY <1>2, <1>6, <1>9, <2>3
  <2>5. \A i \in 1 .. k : defs[wo[i]] = Copy(i, BodyLen(written, i))
    <3>1. ASSUME NEW i \in 1 .. k PROVE i \in 1 .. k - 1 \/ i = k
      BY <1>3, <3>1
    <3>. QED
      BY <1>2, <1>9, <3>1 DEF Made
  <2>6. \A i, m : Copy(i, m)' = Copy(i, m) /\ BodyLen(written, i)' = BodyLen(written, i)
    BY <2>3 DEF Copy, BodyLen
  <2>7. HeadersRead(k, k)'
    BY <1>2, <2>3, <2>5, <2>6 DEF HeadersRead, Made
  <2>8. BetweenBlocks'
    BY <1>1, <1>3, <2>3, <2>4, <2>7 DEF BetweenBlocks
  <2>9. (BetweenBlocks => Somewhere)'
    BY AfterBlocks, PTL
  <2>. QED
    BY <2>3, <2>8, <2>9 DEF GoesOn
<1>. QED
  BY <1>6, <1>8, <1>9

LEMMA StepAtCard ==
  ASSUME IInv, MadeInv, RereadInv, round = 2, NamedAsDevices(written), status = "parse",
         ParseLine, UNCHANGED <<round, promotions, written>>,
         NEW n \in 0 .. Len(written.top), AtCard(n)
  PROVE  GoesOn
<1>. DEFINE cards == WriteCards(written.top)
            no == Len(written.order)
<1>1. IsNetlist(written) /\ TopRow(written) \in Nat /\ Len(written.top) \in Nat
  BY Rereading, BlockRows DEF IsNetlist
<1>2. /\ pos = TopRow(written) + n /\ HeadersRead(no, no)
      /\ top = SubSeq(cards, 1, n) /\ open = NoSubckt
  BY DEF AtCard
<1>3. cards \in Seq(Seq(Word)) /\ Len(cards) = Len(written.top)
  BY <1>1, WrittenCards
<1>4. CASE n < Len(written.top)
  <2>1. IsDevice /\ Line.words = cards[n + 1]
    BY <1>4, LineAtCard
  <2>2. AddToTop
    BY <1>2, <2>1, LineTaken
  <2>3. /\ pos' = pos + 1 /\ open' = NoSubckt /\ order' = order /\ defs' = defs
        /\ top' = Append(SubSeq(cards, 1, n), cards[n + 1])
        /\ directives' = directives /\ status' = "parse" /\ written' = written
    BY <1>2, <2>1, <2>2 DEF AddToTop, ReadLine
  <2>4. top' = SubSeq(cards, 1, n + 1)
    BY <1>3, <1>4, <2>3, PrefixGrows
  <2>5. HeadersRead(no, no)'
    BY <1>2, <2>3 DEF HeadersRead, Made, Copy, BodyLen
  <2>6. pos' = TopRow(written) + (n + 1) /\ n + 1 \in 0 .. Len(written'.top)
    <3>. DEFINE t == TopRow(written)
                m == Len(written.top)
    <3>1. pos' = t + n + 1 /\ n \in 0 .. m /\ n < m /\ t \in Nat /\ m \in Nat
      BY <1>1, <1>2, <1>4, <2>3
    <3>2. written' = written
      BY <2>3
    <3>. HIDE DEF t, m
    <3>3. pos' = t + (n + 1) /\ n + 1 \in 0 .. m
      BY <3>1
    <3>. QED
      BY <3>2, <3>3 DEF t, m
  <2>7. AtCard(n + 1)'
    BY <2>3, <2>4, <2>5, <2>6 DEF AtCard
  <2>8. Somewhere'
    BY <2>6, <2>7 DEF Somewhere
  <2>. QED
    BY <2>3, <2>8 DEF GoesOn
<1>5. CASE n = Len(written.top)
  <2>1. LineLead = "end"
    BY <1>5, LineAtCard
  <2>2. StopAtEnd
    BY <2>1, LineTaken
  <2>3. /\ open' = NoSubckt /\ order' = order /\ defs' = defs /\ top' = top
        /\ directives' = directives /\ status' = "ended" /\ written' = written
    BY <1>2, <2>2 DEF StopAtEnd, ReadLine, netVars
  <2>4. top' = cards
    BY <1>2, <1>3, <1>5, <2>3, PrefixGrows
  <2>5. HeadersRead(no, no)'
    BY <1>2, <2>3 DEF HeadersRead, Made, Copy, BodyLen
  <2>6. AllRead'
    BY <2>3, <2>4, <2>5 DEF AllRead
  <2>. QED
    BY <2>3, <2>6 DEF GoesOn
<1>. QED
  BY <1>1, <1>4, <1>5

LEMMA RereadParse ==
  ASSUME IInv, MadeInv, RereadInv, ParseLine, UNCHANGED <<round, promotions, written>>
  PROVE  RereadInv'
<1>. SUFFICES ASSUME round = 2, NamedAsDevices(written)
              PROVE  /\ text' = ToSpice(written)
                     /\ status' \in {"lex", "parse", "ended", "ok"}
                     /\ Len(logical') = IF row' = 0 THEN 0 ELSE row' - 1
                     /\ \A i \in DOMAIN logical' : logical'[i].words = text'[i + 1]
                     /\ status' # "lex" => row' = Len(text')
                     /\ status' = "parse" => Somewhere'
                     /\ status' \in {"ended", "ok"} => AllRead'
  BY WrittenStays DEF RereadInv
<1>1. status = "parse" /\ UNCHANGED lexVars
  BY DEF ParseLine, OpenSubckt, MissingSubcktName, CloseSubckt, UnexpectedEnds, StopAtEnd,
     RecordDirective, AddToBody, AddToTop, ReadLine
<1>2. Somewhere
  BY <1>1 DEF RereadInv
<1>3. GoesOn
  BY <1>1, <1>2, StepAtDirective, StepAtBlock, StepInBlock, StepAtCard DEF Somewhere
<1>. QED
  BY <1>1, <1>3 DEF RereadInv, GoesOn, lexVars

\* The loop is left where the written text has its `.end`.
LEMMA RereadFinish ==
  ASSUME IInv, MadeInv, RereadInv, Finish, UNCHANGED <<round, promotions, written>>
  PROVE  RereadInv'
<1>. SUFFICES ASSUME round = 2, NamedAsDevices(written)
              PROVE  /\ text' = ToSpice(written)
                     /\ status' \in {"lex", "parse", "ended", "ok"}
                     /\ Len(logical') = IF row' = 0 THEN 0 ELSE row' - 1
                     /\ \A i \in DOMAIN logical' : logical'[i].words = text'[i + 1]
                     /\ status' # "lex" => row' = Len(text')
                     /\ status' = "parse" => Somewhere'
                     /\ status' \in {"ended", "ok"} => AllRead'
  BY WrittenStays DEF RereadInv
<1>1. status = "ended"
  <2>1. ASSUME status = "parse" PROVE pos < Len(logical)
    <3>1. Somewhere
      BY <2>1 DEF RereadInv
    <3>. QED
      BY <2>1, <3>1, LineAtDirective, LineAtBlock, LineInBlock, LineAtCard DEF Somewhere
  <2>2. pos < Len(logical) => pos # Len(logical)
    BY DEF IInv, TypeOK
  <2>. QED
    BY <2>1, <2>2 DEF Finish, LoopLeft
<1>2. AllRead /\ open = NoSubckt
  BY <1>1 DEF RereadInv, AllRead
<1>3. status' = "ok" /\ UNCHANGED <<lexVars, netVars, open>>
  BY <1>2 DEF Finish
<1>4. AllRead'
  BY <1>2, <1>3 DEF AllRead, HeadersRead, Made, Copy, BodyLen, netVars
<1>. QED
  BY <1>1, <1>3, <1>4 DEF RereadInv, lexVars

LEMMA RTStep == RTInv /\ [RTNext]_rtVars => RTInv'
<1>. SUFFICES ASSUME RTInv, [RTNext]_rtVars PROVE RTInv'
  OBVIOUS
<1>. IInv /\ MadeInv /\ RereadInv
  BY DEF RTInv
<1>1. CASE Read
  <2>1. Next /\ UNCHANGED <<round, promotions, written>>
    BY <1>1 DEF Read
  <2>2. IInv'
    BY <2>1, NextStep
  <2>3. CASE Reassemble
    BY <2>1, <2>2, <2>3, MadeOther, RereadReassemble DEF RTInv
  <2>4. CASE ParseLine
    BY <2>1, <2>2, <2>4, MadeParse, RereadParse DEF RTInv
  <2>5. CASE Finish
    BY <2>1, <2>2, <2>5, MadeOther, RereadFinish DEF RTInv
  <2>. QED
    BY <2>1, <2>3, <2>4, <2>5 DEF Next
<1>2. CASE Select \/ PromoteFirst
  BY <1>2, PromotedMade DEF RTInv
<1>3. CASE WriteAndReread
  BY <1>3, Begun DEF RTInv
<1>4. CASE UNCHANGED rtVars
  <2>1. IInv'
    BY <1>4, NextStep DEF rtVars
  <2>2. MadeInv'
    BY <1>4, MadeStays DEF rtVars, vars, netVars
  <2>3. /\ text' = text /\ row' = row /\ logical' = logical /\ pos' = pos /\ open' = open
        /\ top' = top /\ defs' = defs /\ order' = order /\ directives' = directives
        /\ status' = status /\ UNCHANGED <<round, promotions, written>>
    BY <1>4 DEF rtVars, vars, netVars
  <2>4. AllRead => AllRead'
    <3>1. \A k, m : HeadersRead(k, m) => HeadersRead(k, m)'
      BY <2>3 DEF HeadersRead, Made, Copy, BodyLen
    <3>. QED
      BY <2>3, <3>1 DEF AllRead
  <2>5. Somewhere => Somewhere'
    <3>1. AtDirective => AtDirective'
      BY <2>3 DEF AtDirective
    <3>2. \A k, m : HeadersRead(k, m) => HeadersRead(k, m)'
      BY <2>3 DEF HeadersRead, Made, Copy, BodyLen
    <3>3. \A k : AtBlock(k) => AtBlock(k)'
      BY <2>3, <3>2 DEF AtBlock
    <3>4. \A k, n : Made(k, n) => Made(k, n)'
      BY <2>3 DEF Made, Copy
    <3>5. \A k, n : InBlock(k, n) => InBlock(k, n)'
      BY <2>3, <3>2, <3>4 DEF InBlock
    <3>6. \A n : AtCard(n) => AtCard(n)'
      BY <2>3, <3>2 DEF AtCard
    <3>. QED
      BY <2>3, <3>1, <3>3, <3>5, <3>6 DEF Somewhere, BodyLen
  <2>6. RereadInv'
    BY <2>3, <2>4, <2>5, WrittenStays DEF RereadInv
  <2>. QED
    BY <2>1, <2>2, <2>6 DEF RTInv
<1>. QED
  BY <1>1, <1>2, <1>3, <1>4 DEF RTNext

\* What is held when the text has been read back.
LEMMA ReadBack ==
  ASSUME RTInv, Reread
  PROVE  /\ IsNetlist(written) /\ IsNetlist(netlist) /\ AllRead
         /\ order = written.order /\ directives = written.directives
         /\ DOMAIN defs = DOMAIN written.defs
         /\ \A n \in DOMAIN defs :
              /\ defs[n].header = WriteHeader(ParseHeader(written.defs[n].header))
              /\ defs[n].body = WriteCards(written.defs[n].body)
<1>. /\ IInv /\ MadeInv /\ RereadInv /\ round = 2 /\ status = "ok" /\ NamedAsDevices(written)
  BY DEF RTInv, Reread
<1>1. IsNetlist(written) /\ AllRead
  BY Rereading DEF RereadInv
<1>2. IsNetlist(netlist)
  BY DEF IInv, TypeOK, OrderListsDefs, IsNetlist, netlist
<1>. DEFINE wo == written.order
<1>3. wo \in Seq(Word) /\ Len(wo) \in Nat /\ ToSet(wo) = DOMAIN written.defs
  BY <1>1 DEF IsNetlist
<1>4. order = wo /\ directives = written.directives
  <2>1. order = SubSeq(wo, 1, Len(wo)) /\ directives = written.directives
    BY <1>1 DEF AllRead, HeadersRead
  <2>2. SubSeq(wo, 1, Len(wo)) = wo
    BY <1>3
  <2>. QED
    BY <2>1, <2>2
<1>5. DOMAIN defs = DOMAIN written.defs
  BY <1>3, <1>4 DEF IInv, OrderListsDefs
<1>6. ASSUME NEW n \in DOMAIN defs
      PROVE  /\ defs[n].header = WriteHeader(ParseHeader(written.defs[n].header))
             /\ defs[n].body = WriteCards(written.defs[n].body)
  <2>1. PICK i \in 1 .. Len(wo) : wo[i] = n
    BY <1>3, <1>5, <1>6 DEF ToSet
  <2>2. defs[n] = Copy(i, BodyLen(written, i))
    BY <1>1, <2>1 DEF AllRead, HeadersRead, Made
  <2>. DEFINE cards == WriteCards(written.defs[n].body)
  <2>3. cards \in Seq(Seq(Word)) /\ Len(cards) = BodyLen(written, i)
    BY <1>1, <2>1, WrittenCards
  <2>4. SubSeq(cards, 1, BodyLen(written, i)) = cards
    BY <2>3, PrefixGrows
  <2>. QED
    BY <2>1, <2>2, <2>4 DEF Copy
<1>. QED
  BY <1>1, <1>2, <1>4, <1>5, <1>6

----------------------------------------------------------------------------

(* The invariant of the round trip. *)
THEOREM RTInductive == RTSpec => []RTInv
<1>1. RTInit => RTInv
  BY MadeInit DEF RTInv
<1>. QED
  BY <1>1, RTStep, PTL DEF RTSpec

(* parse_device neither loses a word of a card nor invents one, wherever    *)
(* the parameters and the stray words stand: what write_device writes of it *)
(* is the card's words, each as often as the card has it.                   *)
THEOREM CardWordsCorrect == RTSpec => []CardWordsKept
<1>1. RTInv => CardWordsKept
  <2>. SUFFICES ASSUME RTInv, NEW card \in CardsOf(netlist)
                PROVE  ToBag(WriteDevice(ParseDevice(card))) = ToBag(card)
    BY DEF CardWordsKept
  <2>1. top \in Seq(Card) /\ \A n \in DOMAIN defs : defs[n].body \in Seq(Card)
    BY DEF RTInv, IInv, TypeOK, IsDefs, Subckt
  <2>2. card \in Card
    BY <2>1 DEF CardsOf, ToSet, netlist
  <2>. QED
    BY <2>2, DeviceBag
<1>. QED
  BY <1>1, RTInductive, PTL

(* What the writer writes the reader takes, of any netlist whose devices    *)
(* are not called what a comment or a directive begins with.                *)
THEOREM AcceptedBack == RTSpec => []RereadAccepted
<1>1. RTInv => RereadAccepted
  BY DEF RTInv, RereadInv, RereadAccepted, Errors
<1>. QED
  BY <1>1, RTInductive, PTL

(* "Re-parsing the output yields the same device_count and the same set of  *)
(* subckt names" (to_spice): each block comes back with as many cards as    *)
(* were written, whatever was promoted and however odd the cards.           *)
THEOREM CountsCorrect == RTSpec => []RereadKeepsCounts
<1>1. RTInv /\ Reread =>
        /\ DeviceCount(netlist) = DeviceCount(written)
        /\ Len(top) = Len(written.top)
        /\ order = written.order
  <2>. SUFFICES ASSUME RTInv, Reread
                PROVE  /\ DeviceCount(netlist) = DeviceCount(written)
                       /\ Len(top) = Len(written.top)
                       /\ order = written.order
    OBVIOUS
  <2>1. /\ IsNetlist(written) /\ AllRead /\ order = written.order
        /\ DOMAIN defs = DOMAIN written.defs
        /\ \A n \in DOMAIN defs : defs[n].body = WriteCards(written.defs[n].body)
    BY ReadBack
  <2>2. Len(top) = Len(written.top)
    BY <2>1, WrittenCards DEF AllRead
  <2>3. ASSUME NEW n \in DOMAIN defs
        PROVE  Len(defs[n].body) = Len(written.defs[n].body)
    <3>1. PICK i \in 1 .. Len(written.order) : written.order[i] = n
      BY <2>1 DEF IsNetlist, ToSet
    <3>. QED
      BY <2>1, <3>1, WrittenCards DEF BodyLen
  <2>4. BodySize(defs) = BodySize(written.defs)
    <3>1. [n \in DOMAIN defs |-> Len(defs[n].body)]
            = [n \in DOMAIN written.defs |-> Len(written.defs[n].body)]
      BY <2>1, <2>3
    <3>. QED
      BY <3>1 DEF BodySize
  <2>5. DeviceCount(netlist) = DeviceCount(written)
    BY <2>2, <2>4 DEF DeviceCount, netlist
  <2>. QED
    BY <2>1, <2>2, <2>5
<1>2. RTInv /\ RereadAccepted => RereadKeepsCounts
  BY <1>1 DEF RereadKeepsCounts
<1>. QED
  BY <1>2, RTInductive, AcceptedBack, PTL

\* Cards that are all well placed are written as they were read.
LEMMA CardsKeptWhole ==
  ASSUME NEW cards \in Seq(Card), \A i \in DOMAIN cards : WellPlaced(cards[i])
  PROVE  WriteCards(cards) = cards
<1>1. \A i \in DOMAIN cards : WriteDevice(ParseDevice(cards[i])) = cards[i]
  BY WellPlacedKept
<1>2. cards = [i \in DOMAIN cards |-> cards[i]]
  OBVIOUS
<1>. QED
  BY <1>1, <1>2 DEF WriteCards

(* A netlist whose cards are well placed comes back whole: the same devices *)
(* with the same nodes, models and parameters, the same subckts with the    *)
(* same ports and defaults, in the same order, the same directives.         *)
THEOREM NetlistCorrect == RTSpec => []RereadKeepsNetlist
<1>1. RTInv => RereadKeepsNetlist
  <2>. SUFFICES ASSUME RTInv, Reread, \A card \in CardsOf(written) : WellPlaced(card)
                PROVE  View(netlist) = View(written)
    BY DEF RereadKeepsNetlist
  <2>1. /\ IsNetlist(written) /\ AllRead /\ order = written.order
        /\ directives = written.directives /\ DOMAIN defs = DOMAIN written.defs
        /\ \A n \in DOMAIN defs :
             /\ defs[n].header = WriteHeader(ParseHeader(written.defs[n].header))
             /\ defs[n].body = WriteCards(written.defs[n].body)
    BY ReadBack
  <2>2. top = written.top
    <3>1. written.top \in Seq(Card) /\ \A i \in DOMAIN written.top : WellPlaced(written.top[i])
      BY <2>1 DEF IsNetlist, CardsOf, ToSet
    <3>. QED
      BY <2>1, <3>1, CardsKeptWhole DEF AllRead
  <2>3. ASSUME NEW n \in DOMAIN defs
        PROVE  /\ defs[n].body = written.defs[n].body
               /\ ParseHeader(defs[n].header) = ParseHeader(written.defs[n].header)
    <3>1. written.defs[n] \in Subckt
      BY <2>1 DEF IsNetlist, IsDefs
    <3>2. /\ written.defs[n].body \in Seq(Card)
          /\ \A i \in DOMAIN written.defs[n].body : WellPlaced(written.defs[n].body[i])
      BY <2>1, <3>1 DEF Subckt, CardsOf, ToSet
    <3>3. written.defs[n].header \in Seq(Word) /\ written.defs[n].header # <<>>
      BY <3>1 DEF Subckt, Card
    <3>4. ParseHeader(WriteHeader(ParseHeader(written.defs[n].header)))
            = ParseHeader(written.defs[n].header)
      BY <3>3, HeaderWords
    <3>5. /\ defs[n].header = WriteHeader(ParseHeader(written.defs[n].header))
          /\ defs[n].body = WriteCards(written.defs[n].body)
      BY <2>1
    <3>6. WriteCards(written.defs[n].body) = written.defs[n].body
      BY <3>2, CardsKeptWhole
    <3>. QED
      BY <3>4, <3>5, <3>6
  <2>4. [n \in DOMAIN defs |-> ParseHeader(defs[n].header)]
          = [n \in DOMAIN written.defs |-> ParseHeader(written.defs[n].header)]
    BY <2>1, <2>3
  <2>5. [n \in DOMAIN defs |-> Devices(defs[n].body)]
          = [n \in DOMAIN written.defs |-> Devices(written.defs[n].body)]
    BY <2>1, <2>3
  <2>. QED
    BY <2>1, <2>2, <2>4, <2>5 DEF View, netlist
<1>. QED
  BY <1>1, RTInductive, PTL
=============================================================================
