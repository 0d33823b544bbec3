--------------------------- MODULE CountingLemmas ---------------------------
(***************************************************************************)
(* Lemmas that several proofs use: induction over numbers, by a least      *)
(* counterexample, since the induction theorems of the library cannot be   *)
(* instantiated; and what FlattenSeq of the community modules computes,    *)
(* through the texts F[i] of the first i pieces.                           *)
(***************************************************************************)
EXTENDS Naturals, Sequences, SequencesExt, WellFoundedInduction, TLAPS

(***************************************************************************)
(* Numbers.                                                                *)
(***************************************************************************)
LEMMA LeastNumber ==
    ASSUME NEW T \in SUBSET Nat, T # {}
    PROVE  \E x \in T : \A y \in T : x <= y
<1> DEFINE R == OpToRel(<, Nat)
<1>1. IsWellFoundedOn(R, Nat)
    BY NatLessThanWellFounded
<1>2. \A y, z \in Nat : y < z => <<y, z>> \in R
    BY DEF OpToRel
<1> HIDE DEF R
<1>3. PICK x \in T : \A y \in T : <<y, x>> \notin R
    BY <1>1, WFMin
<1>4. \A y \in T : x <= y
  <2> TAKE y \in T
  <2>1. ~(y < x)
      BY <1>2, <1>3
  <2> QED BY <2>1
<1> QED BY <1>3, <1>4

LEMMA Counted ==
    ASSUME NEW S \in SUBSET Nat, 0 \in S, \A i \in S : i + 1 \in S
    PROVE  S = Nat
<1> DEFINE T == Nat \ S
<1> SUFFICES ASSUME T # {} PROVE FALSE
    OBVIOUS
<1>1. PICK x \in T : \A y \in T : x <= y
    BY LeastNumber
<1> QED BY <1>1

\* A nonempty set has an element to which a measure gives the least number.
LEMMA LeastMeasure ==
    ASSUME NEW B, B # {}, NEW m \in [B -> Nat]
    PROVE  \E x \in B : \A y \in B : m[x] <= m[y]
<1> DEFINE T == {m[x] : x \in B}
<1>1. T \in SUBSET Nat /\ T # {}
    OBVIOUS
<1>2. PICK v \in T : \A y \in T : v <= y
    BY <1>1, LeastNumber
<1> QED BY <1>2

\* What holds first, and from each number to the next below n, holds up to n.
LEMMA CountedTo ==
    ASSUME NEW n \in Nat, NEW S \in SUBSET Nat, 0 \in S, \A i \in S : i < n => i + 1 \in S
    PROVE  0..n \subseteq S
<1> DEFINE T == {i \in Nat : i > n \/ i \in S}
<1>1. T \in SUBSET Nat /\ 0 \in T /\ \A i \in T : i + 1 \in T
    OBVIOUS
<1> HIDE DEF T
<1>2. T = Nat
    BY <1>1, Counted
<1> QED BY <1>2 DEF T

(***************************************************************************)
(* Sequences of pieces.                                                    *)
(***************************************************************************)
Pieces(T, F) ==
    /\ F[0] = <<>>
    /\ \A i \in 1..Len(T) : F[i] = F[i - 1] \o T[i]

LEMMA PiecesExist ==
    ASSUME NEW S, NEW T \in Seq(Seq(S))
    PROVE  \E F \in [0..Len(T) -> Seq(S)] : Pieces(T, F)
<1> DEFINE n == Len(T)
           Upto(m, F) == F[0] = <<>> /\ \A i \in 1..m : F[i] = F[i - 1] \o T[i]
           A == {m \in Nat : m <= n => \E F \in [0..m -> Seq(S)] : Upto(m, F)}
<1>1. n \in Nat /\ \A i \in 1..n : T[i] \in Seq(S)
    OBVIOUS
<1>2. 0 \in A
  <2>1. [i \in 0..0 |-> <<>>] \in [0..0 -> Seq(S)] /\ Upto(0, [i \in 0..0 |-> <<>>])
      OBVIOUS
  <2> QED BY <2>1
<1>3. ASSUME NEW m \in A, m < n PROVE m + 1 \in A
  <2> HIDE DEF Upto
  <2>0. m \in Nat /\ m <= n
      BY <1>1, <1>3
  <2>1. PICK F \in [0..m -> Seq(S)] : Upto(m, F)
      BY <1>3, <2>0
  <2> USE DEF Upto
  <2> DEFINE G == [i \in 0..(m + 1) |-> IF i = m + 1 THEN F[m] \o T[m + 1] ELSE F[i]]
  <2>2. m \in Nat /\ m + 1 \in 1..n /\ F[m] \in Seq(S) /\ T[m + 1] \in Seq(S)
      BY <1>1, <1>3
  <2>3. G \in [0..(m + 1) -> Seq(S)]
    <3>1. F[m] \o T[m + 1] \in Seq(S)
        BY <2>2
    <3>2. \A i \in 0..(m + 1) : i # m + 1 => i \in 0..m
        BY <2>2
    <3> QED BY <3>1, <3>2
  <2>4. Upto(m + 1, G)
    <3>1. G[0] = <<>>
        BY <2>1, <2>2
    <3>2. ASSUME NEW i \in 1..(m + 1) PROVE G[i] = G[i - 1] \o T[i]
      <4>1. CASE i = m + 1
        <5>1. G[i] = F[m] \o T[m + 1] /\ G[i - 1] = F[m]
            BY <2>2, <4>1
        <5> QED BY <4>1, <5>1
      <4>2. CASE i # m + 1
        <5>1. i \in 1..m /\ i - 1 \in 0..m /\ i \in 0..m /\ i - 1 # m + 1
            BY <2>2, <4>2
        <5>2. G[i] = F[i] /\ G[i - 1] = F[i - 1]
            BY <4>2, <5>1
        <5> QED BY <2>1, <5>1, <5>2
      <4> QED BY <4>1, <4>2
    <3> HIDE DEF G
    <3> QED BY <3>1, <3>2
  <2> HIDE DEF G, Upto
  <2>5. \E H \in [0..(m + 1) -> Seq(S)] : Upto(m + 1, H)
      BY <2>3, <2>4
  <2> QED BY <2>2, <2>5
<1> HIDE DEF A
<1>4. 0..n \subseteq A
  <2>1. A \in SUBSET Nat
      BY DEF A
  <2> QED BY <1>1, <1>2, <1>3, <2>1, CountedTo
<1>5. n \in A
    BY <1>1, <1>4
<1>6. \A F : Upto(n, F) => Pieces(T, F)
    BY DEF Pieces
<1> HIDE DEF Upto
<1>7. \E F \in [0..n -> Seq(S)] : Upto(n, F)
    BY <1>1, <1>5 DEF A
<1> QED BY <1>6, <1>7

\* Pieces that are the same so far give the same texts.
SameUpTo(T, U, m) ==
    /\ m \in Nat /\ m <= Len(T) /\ m <= Len(U) /\ Len(T) \in Nat /\ Len(U) \in Nat
    /\ \A i \in 1..m : T[i] = U[i]

SameTexts(F, G, m) == \A i \in 0..m : F[i] = G[i]

LEMMA PiecesAgree ==
    ASSUME NEW T, NEW U, NEW m, SameUpTo(T, U, m),
           NEW F, NEW G, Pieces(T, F), Pieces(U, G)
    PROVE  SameTexts(F, G, m)
<1> DEFINE A == {i \in Nat : i <= m => F[i] = G[i]}
<1>1. 0 \in A
    BY DEF Pieces
<1>2. ASSUME NEW i \in A, i < m PROVE i + 1 \in A
  <2>1. i \in Nat /\ F[i] = G[i] /\ i + 1 \in 1..Len(T) /\ i + 1 \in 1..Len(U) /\ i + 1 \in 1..m
      BY <1>2 DEF SameUpTo
  <2>2. F[i + 1] = F[(i + 1) - 1] \o T[i + 1] /\ G[i + 1] = G[(i + 1) - 1] \o U[i + 1]
      BY <2>1 DEF Pieces
  <2>3. (i + 1) - 1 = i
      BY <2>1
  <2>4. F[i + 1] = G[i + 1]
      BY <2>1, <2>2, <2>3 DEF SameUpTo
  <2> QED BY <2>1, <2>4
<1>3. A \in SUBSET Nat
    OBVIOUS
<1>4. m \in Nat
    BY DEF SameUpTo
<1> HIDE DEF A
<1>5. 0..m \subseteq A
    BY <1>1, <1>2, <1>3, <1>4, CountedTo
<1> QED BY <1>4, <1>5 DEF A, SameTexts

LEMMA FlattenPieces ==
    ASSUME NEW S, NEW T \in Seq(Seq(S)), NEW F, F \in [0..Len(T) -> Seq(S)], Pieces(T, F)
    PROVE  FlattenSeq(T) = F[Len(T)]
<1> DEFINE n == Len(T)
           Solves(f) == f = [i \in 1..n |-> IF i = 1 THEN T[i] ELSE f[i - 1] \o T[i]]
           flat == CHOOSE f : Solves(f)
           D == [i \in 1..n |-> F[i]]
<1>1. n \in Nat /\ \A i \in 1..n : T[i] \in Seq(S)
    OBVIOUS
<1>2. CASE n = 0
  <2>1. T = <<>>
      BY <1>2
  <2> QED BY <1>2, <2>1 DEF FlattenSeq, Pieces
<1>3. CASE n # 0
  <2>1. FlattenSeq(T) = flat[n]
      BY <1>3 DEF FlattenSeq
  <2>2. \A i \in 1..n : D[i] = IF i = 1 THEN T[i] ELSE D[i - 1] \o T[i]
    <3> TAKE i \in 1..n
    <3>1. F[i] = F[i - 1] \o T[i] /\ D[i] = F[i]
        BY DEF Pieces
    <3>2. CASE i = 1
      <4>1. F[i - 1] = <<>> /\ T[i] \in Seq(S)
          BY <1>1, <3>2 DEF Pieces
      <4> QED BY <3>1, <3>2, <4>1
    <3>3. CASE i # 1
      <4>1. i - 1 \in 1..n
          BY <1>1, <3>3
      <4>2. D[i - 1] = F[i - 1]
          BY <4>1
      <4> QED BY <3>1, <3>3, <4>2
    <3> QED BY <3>2, <3>3
  <2>3. Solves(D)
    <3>1. D = [i \in 1..n |-> D[i]]
        OBVIOUS
    <3> HIDE DEF D
    <3> QED BY <2>2, <3>1
  <2>4. Solves(flat)
      BY <2>3
  <2> HIDE DEF flat, D
  <2> DEFINE G == [i \in 0..n |-> IF i = 0 THEN <<>> ELSE flat[i]]
  <2>5. Pieces(T, G)
    <3>1. G[0] = <<>>
        BY <1>1
    <3>2. ASSUME NEW i \in 1..n PROVE G[i] = G[i - 1] \o T[i]
      <4>1. flat[i] = IF i = 1 THEN T[i] ELSE flat[i - 1] \o T[i]
          BY <2>4
      <4>2. G[i] = flat[i]
          BY <1>1
      <4>3. CASE i = 1
        <5>1. G[i - 1] = <<>> /\ T[i] \in Seq(S)
            BY <1>1, <4>3
        <5>2. <<>> \o T[i] = T[i]
            BY <5>1
        <5> HIDE DEF G
        <5> QED BY <4>1, <4>2, <4>3, <5>1, <5>2
      <4>4. CASE i # 1
        <5>1. i - 1 \in 0..n /\ i - 1 # 0
            BY <1>1, <4>4
        <5>2. G[i - 1] = flat[i - 1]
            BY <5>1
        <5> QED BY <4>1, <4>2, <4>4, <5>2
      <4> QED BY <4>3, <4>4
    <3> HIDE DEF G
    <3> QED BY <3>1, <3>2 DEF Pieces
  <2>6. G[n] = flat[n]
      BY <1>1, <1>3
  <2> HIDE DEF G
  <2>7. \A i \in 0..n : F[i] = G[i]
    <3>1. SameUpTo(T, T, n)
        BY <1>1 DEF SameUpTo
    <3> QED BY <2>5, <3>1, PiecesAgree DEF SameTexts
  <2> QED BY <1>1, <2>1, <2>6, <2>7
<1> QED BY <1>2, <1>3

LEMMA ConcatReads ==
    ASSUME NEW S, NEW s \in Seq(S), NEW t \in Seq(S)
    PROVE  /\ s \o t \in Seq(S) /\ Len(s \o t) = Len(s) + Len(t)
           /\ Len(s) \in Nat /\ Len(t) \in Nat
           /\ \A i \in 1..Len(s) : (s \o t)[i] = s[i]
           /\ \A i \in 1..Len(t) : (s \o t)[Len(s) + i] = t[i]
OBVIOUS

\* The text of one piece, and of one more.
LEMMA FlattenGrows ==
    ASSUME NEW S, NEW t \in Seq(S)
    PROVE  /\ FlattenSeq(<<>>) = <<>>
           /\ FlattenSeq(<<t>>) = t
           /\ \A T \in Seq(Seq(S)) : FlattenSeq(T) \in Seq(S)
           /\ \A T \in Seq(Seq(S)) : FlattenSeq(Append(T, t)) = FlattenSeq(T) \o t
<1>1. FlattenSeq(<<>>) = <<>>
    BY DEF FlattenSeq
<1>2. \A T \in Seq(Seq(S)) : FlattenSeq(T) \in Seq(S)
  <2> TAKE T \in Seq(Seq(S))
  <2>1. PICK F \in [0..Len(T) -> Seq(S)] : Pieces(T, F)
      BY PiecesExist
  <2>2. FlattenSeq(T) = F[Len(T)]
      BY <2>1, FlattenPieces
  <2> QED BY <2>1, <2>2
<1>3. \A T \in Seq(Seq(S)) : FlattenSeq(Append(T, t)) = FlattenSeq(T) \o t
  <2> TAKE T \in Seq(Seq(S))
  <2> DEFINE U == Append(T, t)
             n == Len(T)
  <2>1. U \in Seq(Seq(S)) /\ Len(U) = n + 1 /\ n \in Nat /\ U[n + 1] = t
        /\ \A i \in 1..n : U[i] = T[i]
      OBVIOUS
  <2>2. PICK F \in [0..n -> Seq(S)] : Pieces(T, F)
      BY PiecesExist
  <2> HIDE DEF U
  <2>3. PICK G \in [0..Len(U) -> Seq(S)] : Pieces(U, G)
      BY <2>1, PiecesExist
  <2>4. FlattenSeq(T) = F[n] /\ FlattenSeq(U) = G[n + 1]
      BY <2>1, <2>2, <2>3, FlattenPieces
  <2> HIDE DEF n
  <2>5. \A i \in 0..n : F[i] = G[i]
    <3>1. n \in Nat /\ Len(T) \in Nat /\ Len(U) \in Nat /\ n <= Len(T) /\ n <= Len(U)
        BY <2>1 DEF n
    <3>2. SameUpTo(T, U, n)
        BY <2>1, <3>1 DEF SameUpTo
    <3>3. SameTexts(F, G, n)
        BY <2>2, <2>3, <3>2, PiecesAgree
    <3> QED BY <3>3 DEF SameTexts
  <2>6. G[n + 1] = G[(n + 1) - 1] \o U[n + 1] /\ (n + 1) - 1 = n
    <3>1. n + 1 \in 1..Len(U) /\ (n + 1) - 1 = n
        BY <2>1
    <3> QED BY <2>3, <3>1 DEF Pieces
  <2>7. F[n] = G[n]
      BY <2>1, <2>5
  <2> QED BY <2>1, <2>4, <2>6, <2>7 DEF U
<1>4. FlattenSeq(<<t>>) = t
  <2>1. <<>> \in Seq(Seq(S)) /\ Append(<<>>, t) = <<t>> /\ <<>> \o t = t
      OBVIOUS
  <2>2. FlattenSeq(Append(<<>>, t)) = FlattenSeq(<<>>) \o t
      BY <1>3, <2>1
  <2> QED BY <1>1, <2>1, <2>2
<1> QED BY <1>1, <1>2, <1>3, <1>4

\* Where each piece is found in the whole, u adding up the lengths.
Lengths(T, u) ==
    /\ u[0] = 0
    /\ \A i \in 1..Len(T) : u[i] = u[i - 1] + Len(T[i])

Reads(T, F, u, m) ==
    /\ Len(F[m]) = u[m] /\ u[m] \in Nat
    /\ \A i \in 1..m : /\ u[i - 1] \in Nat /\ u[i] \in Nat /\ u[i] <= u[m]
                       /\ \A k \in 1..Len(T[i]) : F[m][u[i - 1] + k] = T[i][k]

LEMMA PiecesRead ==
    ASSUME NEW S, NEW T \in Seq(Seq(S)), NEW F, F \in [0..Len(T) -> Seq(S)], Pieces(T, F),
           NEW u, Lengths(T, u)
    PROVE  \A m \in 0..Len(T) : Reads(T, F, u, m)
<1> DEFINE n == Len(T)
           A == {m \in Nat : m <= n => Reads(T, F, u, m)}
<1>1. n \in Nat /\ \A i \in 1..n : T[i] \in Seq(S) /\ Len(T[i]) \in Nat
    OBVIOUS
<1>2. 0 \in A
    BY DEF Reads, Pieces, Lengths
<1>3. ASSUME NEW m \in A, m < n PROVE m + 1 \in A
  <2> DEFINE t == T[m + 1]
  <2>1. m \in Nat /\ m + 1 \in 1..n /\ m \in 0..n /\ (m + 1) - 1 = m /\ Reads(T, F, u, m)
      BY <1>1, <1>3
  <2>2. F[m] \in Seq(S) /\ t \in Seq(S) /\ Len(t) \in Nat
      BY <1>1, <2>1
  <2>3. F[m + 1] = F[m] \o t /\ u[m + 1] = u[m] + Len(t)
      BY <2>1 DEF Pieces, Lengths
  <2>4. Len(F[m]) = u[m] /\ u[m] \in Nat
      BY <2>1 DEF Reads
  <2> HIDE DEF t
  <2>5. /\ Len(F[m + 1]) = u[m + 1] /\ u[m + 1] \in Nat /\ u[m] <= u[m + 1]
        /\ \A j \in 1..u[m] : F[m + 1][j] = F[m][j]
        /\ \A k \in 1..Len(t) : F[m + 1][u[m] + k] = t[k]
    <3> DEFINE s == F[m]
    <3>1. /\ s \o t \in Seq(S) /\ Len(s \o t) = Len(s) + Len(t)
          /\ \A i \in 1..Len(s) : (s \o t)[i] = s[i]
          /\ \A i \in 1..Len(t) : (s \o t)[Len(s) + i] = t[i]
        BY <2>2, ConcatReads
    <3> HIDE DEF s
    <3>2. F[m + 1] = s \o t /\ F[m] = s /\ Len(s) = u[m]
        BY <2>3, <2>4 DEF s
    <3> DEFINE v == s \o t
               l == Len(t)
               a == u[m]
               b == u[m + 1]
    <3>3. F[m + 1] = v /\ F[m] = s /\ Len(v) = a + l
        BY <3>1, <3>2
    <3>4. /\ \A i \in 1..a : v[i] = s[i]
          /\ \A i \in 1..l : v[a + i] = t[i]
        BY <3>1, <3>2
    <3>5. a \in Nat /\ l \in Nat /\ b = a + l
        BY <2>2, <2>3, <2>4
    <3> HIDE DEF v, l, a, b
    <3>6. b \in Nat /\ a <= b /\ Len(v) = b
        BY <3>3, <3>5
    <3>7. /\ Len(F[m + 1]) = b
          /\ \A j \in 1..a : F[m + 1][j] = F[m][j]
          /\ \A k \in 1..l : F[m + 1][a + k] = t[k]
        BY <3>3, <3>4, <3>6, Zenon
    <3> QED BY <3>6, <3>7 DEF a, b, l
  <2>6. ASSUME NEW i \in 1..(m + 1)
        PROVE  /\ u[i - 1] \in Nat /\ u[i] \in Nat /\ u[i] <= u[m + 1]
               /\ \A k \in 1..Len(T[i]) : F[m + 1][u[i - 1] + k] = T[i][k]
    <3>1. CASE i = m + 1
      <4>1. i - 1 = m /\ T[i] = t
          BY <2>1, <3>1 DEF t
      <4> QED BY <2>4, <2>5, <3>1, <4>1
    <3>2. CASE i # m + 1
      <4>1. i \in 1..m /\ i \in 1..n
          BY <2>1, <3>2
      <4>2. /\ u[i - 1] \in Nat /\ u[i] \in Nat /\ u[i] <= u[m]
            /\ \A k \in 1..Len(T[i]) : F[m][u[i - 1] + k] = T[i][k]
          BY <2>1, <4>1 DEF Reads
      <4>3. u[i] = u[i - 1] + Len(T[i]) /\ Len(T[i]) \in Nat
          BY <1>1, <4>1 DEF Lengths
      <4>4. ASSUME NEW k \in 1..Len(T[i]) PROVE F[m + 1][u[i - 1] + k] = T[i][k]
        <5>1. u[i - 1] + k \in 1..u[m]
          <6> DEFINE a == u[i - 1]
                     b == u[m]
                     l == Len(T[i])
          <6>1. a \in Nat /\ b \in Nat /\ l \in Nat /\ a + l <= b /\ k \in 1..l
              BY <2>4, <4>2, <4>3
          <6> HIDE DEF a, b, l
          <6>2. a + k \in 1..b
              BY <6>1
          <6> QED BY <6>2 DEF a, b
        <5> QED BY <2>5, <4>2, <5>1
      <4> QED BY <2>4, <2>5, <4>2, <4>4
    <3> QED BY <3>1, <3>2
  <2>7. Reads(T, F, u, m + 1)
      BY <2>5, <2>6 DEF Reads
  <2> QED BY <2>1, <2>7
<1>4. A \in SUBSET Nat
    OBVIOUS
<1> HIDE DEF A
<1>5. 0..n \subseteq A
    BY <1>1, <1>2, <1>3, <1>4, CountedTo
<1> QED BY <1>1, <1>5 DEF A
=============================================================================
