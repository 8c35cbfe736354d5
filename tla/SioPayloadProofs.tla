-------------------------- MODULE SioPayloadProofs --------------------------
(***************************************************************************)
(* Theorems about SioPayload, for any messages with any payloads.          *)
(*                                                                         *)
(* Induction over numbers is by the least counterexample (Least), for      *)
(* which the library has a theorem without operator parameters.            *)
(***************************************************************************)
EXTENDS SioPayload, FiniteSetTheorems, SequenceTheorems, WellFoundedInduction, TLAPS

-----------------------------------------------------------------------------
(* Numbers and positions *)

LEMMA Least ==
    ASSUME NEW T, T \subseteq Nat, T # {}
    PROVE  \E x \in T : \A y \in T : x <= y
<1>1. PICK x \in T : \A y \in T : ~(<<y, x>> \in OpToRel(<, Nat))
    BY WFMin, NatLessThanWellFounded
<1>2. \A y \in T : ~(y < x)
    BY <1>1 DEF OpToRel
<1> QED BY <1>2

\* How many of the positions K are among the first k.
Rank(K, k) == Cardinality(K \cap 1..k)

LEMMA RankStep ==
    ASSUME NEW K, NEW k \in Nat
    PROVE  /\ Rank(K, k) \in Nat /\ Rank(K, 0) = 0
           /\ Rank(K, k + 1) = IF k + 1 \in K THEN Rank(K, k) + 1 ELSE Rank(K, k)
<1>0. IsFiniteSet(1..k)
    BY FS_Interval
<1>1. IsFiniteSet(K \cap 1..k)
    BY <1>0, FS_Subset
<1>2. Rank(K, k) \in Nat
    BY <1>1, FS_CardinalityType DEF Rank
<1>3. K \cap 1..0 = {}
    OBVIOUS
<1>4. Rank(K, 0) = 0
    BY <1>3, FS_EmptySet DEF Rank
<1>5. CASE k + 1 \in K
  <2>1. K \cap 1..(k + 1) = (K \cap 1..k) \cup {k + 1} /\ k + 1 \notin K \cap 1..k
      BY <1>5
  <2>2. Cardinality((K \cap 1..k) \cup {k + 1}) = Cardinality(K \cap 1..k) + 1
      BY <1>1, <2>1, FS_AddElement
  <2> QED BY <1>2, <1>4, <1>5, <2>1, <2>2 DEF Rank
<1>6. CASE k + 1 \notin K
  <2>1. K \cap 1..(k + 1) = K \cap 1..k
      BY <1>6
  <2> QED BY <1>2, <1>4, <1>6, <2>1 DEF Rank
<1> QED BY <1>5, <1>6

\* Ranks grow, by one at each position of K.
LEMMA RankGrows ==
    ASSUME NEW K, NEW i \in Nat, NEW k \in Nat, i <= k
    PROVE  /\ Rank(K, i) <= Rank(K, k)
           /\ k \in K /\ i < k => Rank(K, i) < Rank(K, k)
<1> DEFINE T == {j \in Nat : i <= j /\ Rank(K, i) > Rank(K, j)}
<1>1. T = {}
  <2> SUFFICES ASSUME T # {} PROVE FALSE
      OBVIOUS
  <2>1. PICK j \in T : \A y \in T : j <= y
      BY Least
  <2>2. Rank(K, i) \in Nat /\ Rank(K, j) \in Nat
      BY <2>1, RankStep
  <2>3. j # i /\ j - 1 \in Nat /\ i <= j - 1 /\ j - 1 \notin T
      BY <2>1, <2>2
  <2>4. Rank(K, i) <= Rank(K, j - 1) /\ Rank(K, j - 1) \in Nat
      BY <2>2, <2>3, RankStep
  <2>5. Rank(K, (j - 1) + 1) >= Rank(K, j - 1)
      BY <2>3, <2>4, RankStep
  <2> QED BY <2>1, <2>2, <2>3, <2>4, <2>5
<1>2. \A j \in Nat : i <= j => Rank(K, i) <= Rank(K, j)
    BY <1>1, RankStep
<1>3. ASSUME k \in K, i < k PROVE Rank(K, i) < Rank(K, k)
  <2>1. k - 1 \in Nat /\ i <= k - 1 /\ (k - 1) + 1 = k
      BY <1>3
  <2>2. Rank(K, k) = Rank(K, k - 1) + 1
      BY <1>3, <2>1, RankStep
  <2> QED BY <1>2, <2>1, <2>2, RankStep
<1> QED BY <1>2, <1>3

\* Every number up to the rank of n is the rank of a position.
LEMMA RankReached ==
    ASSUME NEW K, NEW n \in Nat, NEW j \in 1..Rank(K, n)
    PROVE  \E k \in K \cap 1..n : Rank(K, k) = j
<1> DEFINE T == {k \in Nat : Rank(K, k) >= j}
<1>0. Rank(K, n) \in Nat /\ j \in Nat /\ j >= 1
    BY RankStep
<1>1. n \in T
    BY <1>0
<1>2. PICK k \in T : \A y \in T : k <= y
  <2>1. T \subseteq Nat /\ T # {}
      BY <1>1
  <2> HIDE DEF T
  <2> QED BY <2>1, Least
<1>3. k <= n /\ k # 0
    BY <1>0, <1>1, <1>2, RankStep
<1>4. k - 1 \in Nat /\ k - 1 \notin T /\ (k - 1) + 1 = k
    BY <1>2, <1>3
<1>5. Rank(K, k - 1) < j /\ Rank(K, k - 1) \in Nat
    BY <1>0, <1>4, RankStep
<1>6. Rank(K, k) = IF k \in K THEN Rank(K, k - 1) + 1 ELSE Rank(K, k - 1)
    BY <1>4, RankStep
<1> QED BY <1>0, <1>2, <1>3, <1>5, <1>6
-----------------------------------------------------------------------------
(* Selected: the elements at some positions, in their order *)

\* The recursive function of Selected, as far as m elements.
Halved(s, K, f, n) ==
    [a \in 1..Len(s) |-> IF n = 0 THEN <<>>
                         ELSE IF n = 1 THEN IF a \in K THEN <<s[a]>> ELSE <<>>
                         ELSE f[n \div 2][a] \o f[n - n \div 2][a + n \div 2]]
IsPart(s, K, m, f) == f = [n \in 0..m |-> Halved(s, K, f, n)]

LEMMA Half ==
    ASSUME NEW n \in Nat, n >= 2
    PROVE  /\ n \div 2 \in 1..(n - 1) /\ n - n \div 2 \in 1..(n - 1)
OBVIOUS

LEMMA PartAt ==
    ASSUME NEW s, NEW K, NEW m \in Nat, NEW f, IsPart(s, K, m, f), NEW n \in 0..m
    PROVE  f[n] = Halved(s, K, f, n)
<1> DEFINE g == [i \in 0..m |-> Halved(s, K, f, i)]
<1>1. f = g
    BY DEF IsPart
<1>2. g[n] = Halved(s, K, f, n)
    OBVIOUS
<1> QED BY <1>1, <1>2

LEMMA PartExists ==
    ASSUME NEW s, NEW K, NEW m \in Nat
    PROVE  \E f : IsPart(s, K, m, f)
<1> DEFINE T == {n \in Nat : ~\E f : IsPart(s, K, n, f)}
<1> SUFFICES ASSUME T # {} PROVE FALSE
    OBVIOUS
<1>1. PICK n \in T : \A y \in T : n <= y
  <2>1. T \subseteq Nat
      OBVIOUS
  <2> HIDE DEF T
  <2> QED BY <2>1, Least
<1>2. CASE n = 0
  <2> DEFINE g == [i \in 0..0 |-> Halved(s, K, <<>>, i)]
  <2>1. \A i \in 0..0 : Halved(s, K, g, i) = Halved(s, K, <<>>, i)
      BY DEF Halved
  <2>2. IsPart(s, K, 0, g)
      BY <2>1 DEF IsPart
  <2> QED BY <1>1, <1>2, <2>2
<1>3. CASE n # 0
  <2>0. n \in Nat /\ n - 1 \in Nat /\ n - 1 \notin T
      BY <1>1, <1>3
  <2>1. PICK f : IsPart(s, K, n - 1, f)
      BY <2>0
  <2> DEFINE g == [i \in 0..n |-> IF i = n THEN Halved(s, K, f, n) ELSE f[i]]
  <2>2. \A i \in 0..(n - 1) : g[i] = f[i] /\ f[i] = Halved(s, K, f, i)
      BY <2>0, <2>1, PartAt
  <2>3. \A i \in 0..n : Halved(s, K, g, i) = Halved(s, K, f, i)
    <3> SUFFICES ASSUME NEW i \in 0..n PROVE Halved(s, K, g, i) = Halved(s, K, f, i)
        OBVIOUS
    <3>1. CASE i < 2
      <4>1. i = 0 \/ i = 1
          BY <2>0, <3>1
      <4> HIDE DEF g
      <4> QED BY <4>1 DEF Halved
    <3>2. CASE i >= 2
      <4>1. i \div 2 \in 0..(n - 1) /\ i - i \div 2 \in 0..(n - 1)
          BY <2>0, <3>2, Half
      <4>2. g[i \div 2] = f[i \div 2] /\ g[i - i \div 2] = f[i - i \div 2]
          BY <2>2, <4>1
      <4> HIDE DEF g
      <4> QED BY <4>2 DEF Halved
    <3> QED BY <2>0, <3>1, <3>2
  <2>4. g = [i \in 0..n |-> Halved(s, K, f, i)]
    <3>1. g[n] = Halved(s, K, f, n)
        BY <2>0
    <3>2. \A i \in 0..n : i = n \/ i \in 0..(n - 1)
        BY <2>0
    <3>3. \A i \in 0..n : g[i] = Halved(s, K, f, i)
      <4> HIDE DEF g
      <4> QED BY <2>2, <3>1, <3>2
    <3> QED BY <3>3
  <2>5. IsPart(s, K, n, g)
    <3> HIDE DEF g
    <3> QED BY <2>3, <2>4 DEF IsPart
  <2> QED BY <1>1, <2>5
<1> QED BY <1>2, <1>3

LEMMA SelectedIsPart ==
    ASSUME NEW s, Len(s) \in Nat, s # <<>>, NEW K
    PROVE  \E f : IsPart(s, K, Len(s), f) /\ Selected(s, K) = f[Len(s)][1]
<1> DEFINE f == CHOOSE Part : IsPart(s, K, Len(s), Part)
<1>1. \E Part : IsPart(s, K, Len(s), Part)
    BY PartExists
<1>2. IsPart(s, K, Len(s), f)
    BY <1>1
<1>3. Selected(s, K) = f[Len(s)][1]
    BY DEF Selected, IsPart, Halved
<1> QED BY <1>2, <1>3

\* What a part holds: the elements at the positions of K among n elements from a on, each
\* as many places after the first as there are others before it.
Picks(s, K, a, n, q) ==
    /\ q \in Seq({s[k] : k \in K \cap DOMAIN s})
    /\ Len(q) = Rank(K, a + n - 1) - Rank(K, a - 1)
    /\ \A k \in K : a <= k /\ k < a + n => q[Rank(K, k) - Rank(K, a - 1)] = s[k]

LEMMA PicksJoin ==
    ASSUME NEW S, NEW s \in Seq(S), NEW K \in SUBSET Nat, NEW a \in Nat \ {0},
           NEW n1 \in Nat, NEW n2 \in Nat, NEW q1, NEW q2,
           Picks(s, K, a, n1, q1), Picks(s, K, a + n1, n2, q2)
    PROVE  Picks(s, K, a, n1 + n2, q1 \o q2)
<1> DEFINE E == {s[k] : k \in K \cap DOMAIN s}
           r0 == Rank(K, a - 1)
           r1 == Rank(K, a + n1 - 1)
           r2 == Rank(K, a + n1 + n2 - 1)
<1>1. /\ r0 \in Nat /\ r1 \in Nat /\ r2 \in Nat
      /\ r0 <= r1 /\ r1 <= r2
  <2>1. a - 1 \in Nat /\ a + n1 - 1 \in Nat /\ a + n1 + n2 - 1 \in Nat
        /\ a - 1 <= a + n1 - 1 /\ a + n1 - 1 <= a + n1 + n2 - 1
      OBVIOUS
  <2>2. r0 \in Nat /\ r1 \in Nat /\ r2 \in Nat
      BY <2>1, RankStep
  <2>3. r0 <= r1
      BY <2>1, RankGrows
  <2>4. r1 <= r2
      BY <2>1, RankGrows
  <2> QED BY <2>2, <2>3, <2>4
<1>2. /\ q1 \in Seq(E) /\ Len(q1) = r1 - r0
      /\ \A k \in K : a <= k /\ k < a + n1 => q1[Rank(K, k) - r0] = s[k]
    BY DEF Picks
<1>3. /\ q2 \in Seq(E) /\ Len(q2) = r2 - r1
      /\ \A k \in K : a + n1 <= k /\ k < a + n1 + n2 => q2[Rank(K, k) - r1] = s[k]
  <2>1. (a + n1) + n2 - 1 = a + n1 + n2 - 1 /\ (a + n1) - 1 = a + n1 - 1
      OBVIOUS
  <2> QED BY <2>1 DEF Picks
<1>4. ASSUME NEW k \in K, a <= k, k < a + n1 + n2
      PROVE  (q1 \o q2)[Rank(K, k) - r0] = s[k]
  <2>0. k \in Nat /\ Rank(K, k) \in Nat
      BY RankStep
  <2>1. CASE k < a + n1
    <3>1. Rank(K, k) <= r1
        BY <2>0, <2>1, RankGrows
    <3>2. r0 < Rank(K, k)
        BY <1>4, <2>0, RankGrows
    <3> DEFINE r == Rank(K, k)
    <3> HIDE DEF E, r0, r1, r2, r
    <3>3. Rank(K, k) - r0 \in 1..Len(q1)
      <4>1. r \in Nat /\ r <= r1 /\ r0 < r
          BY <2>0, <3>1, <3>2 DEF r
      <4>2. Len(q1) = r1 - r0
          BY <1>2
      <4>3. r - r0 \in 1..Len(q1)
          BY <1>1, <4>1, <4>2
      <4> QED BY <4>3 DEF r
    <3>4. (q1 \o q2)[Rank(K, k) - r0] = q1[Rank(K, k) - r0]
        BY <1>2, <1>3, <3>3
    <3> QED BY <1>2, <1>4, <2>1, <3>4
  <2>2. CASE k >= a + n1
    <3>1. Rank(K, k) <= r2
        BY <1>4, <2>0, RankGrows
    <3>2. r1 < Rank(K, k)
        BY <2>0, <2>2, RankGrows
    <3> DEFINE r == Rank(K, k)
    <3> HIDE DEF E, r0, r1, r2, r
    <3>3. r - r0 \in (Len(q1) + 1)..(Len(q1) + Len(q2)) /\ (r - r0) - Len(q1) = r - r1
      <4>1. r \in Nat /\ r <= r2 /\ r1 < r
          BY <2>0, <3>1, <3>2 DEF r
      <4>2. Len(q1) = r1 - r0 /\ Len(q2) = r2 - r1
          BY <1>2, <1>3
      <4> QED BY <1>1, <4>1, <4>2
    <3> USE DEF r
    <3>4. (q1 \o q2)[Rank(K, k) - r0] = q2[(Rank(K, k) - r0) - Len(q1)]
        BY <1>2, <1>3, <3>3
    <3> QED BY <1>3, <1>4, <2>2, <3>3, <3>4
  <2>3. k < a + n1 \/ k >= a + n1
      BY <2>0
  <2> QED BY <2>1, <2>2, <2>3
<1>5. q1 \o q2 \in Seq(E) /\ Len(q1 \o q2) = r2 - r0
  <2> HIDE DEF E, r0, r1, r2
  <2> QED BY <1>1, <1>2, <1>3
<1>6. a + (n1 + n2) - 1 = a + n1 + n2 - 1 /\ a + (n1 + n2) = a + n1 + n2
    OBVIOUS
<1> QED BY <1>4, <1>5, <1>6 DEF Picks

LEMMA PartPicks ==
    ASSUME NEW S, NEW s \in Seq(S), NEW K \in SUBSET Nat, NEW f,
           IsPart(s, K, Len(s), f), NEW n0 \in 0..Len(s), NEW a0 \in 1..Len(s),
           a0 + n0 <= Len(s) + 1
    PROVE  Picks(s, K, a0, n0, f[n0][a0])
<1> DEFINE Good(n) == \A a \in 1..Len(s) : a + n <= Len(s) + 1 => Picks(s, K, a, n, f[n][a])
           T == {n \in 0..Len(s) : ~Good(n)}
<1> SUFFICES ASSUME T # {} PROVE FALSE
    OBVIOUS
<1>0. Len(s) \in Nat
    OBVIOUS
<1>1. PICK n \in T : \A y \in T : n <= y
  <2>1. T \subseteq Nat
      OBVIOUS
  <2> HIDE DEF T
  <2> QED BY <2>1, Least
<1>2. PICK a \in 1..Len(s) : a + n <= Len(s) + 1 /\ ~Picks(s, K, a, n, f[n][a])
    BY <1>1
<1>3. n \in 0..Len(s) /\ \A i \in 0..(n - 1) : Good(i)
  <2>1. n \in 0..Len(s) /\ \A i \in 0..(n - 1) : i \in 0..Len(s) /\ i \notin T
    <3>1. n \in 0..Len(s)
        BY <1>1
    <3> HIDE DEF T
    <3> QED BY <1>0, <1>1, <3>1
  <2>2. ASSUME NEW i \in 0..(n - 1) PROVE Good(i)
    <3>1. i \in 0..Len(s) /\ i \notin T
        BY <2>1
    <3> HIDE DEF Good
    <3> QED BY <3>1
  <2> HIDE DEF T, Good
  <2> QED BY <2>1, <2>2
<1>4. f[n] = Halved(s, K, f, n)
    BY <1>0, <1>3, PartAt
<1>5. CASE n = 0
  <2>1. f[n][a] = <<>>
      BY <1>4, <1>5 DEF Halved
  <2>2. Rank(K, a - 1) \in Nat /\ a + 0 - 1 = a - 1
      BY <1>0, RankStep
  <2>3. Picks(s, K, a, 0, <<>>)
      BY <1>0, <2>2 DEF Picks
  <2> QED BY <1>2, <1>5, <2>1, <2>3
<1>6. CASE n = 1
  <2>1. f[n][a] = IF a \in K THEN <<s[a]>> ELSE <<>>
      BY <1>4, <1>6 DEF Halved
  <2>2. /\ Rank(K, a - 1) \in Nat /\ a + 1 - 1 = (a - 1) + 1 /\ (a - 1) + 1 = a
        /\ Rank(K, a) = IF a \in K THEN Rank(K, a - 1) + 1 ELSE Rank(K, a - 1)
    <3>1. a - 1 \in Nat /\ (a - 1) + 1 = a /\ a + 1 - 1 = a
        BY <1>0
    <3> QED BY <3>1, RankStep
  <2>3. \A k \in K : a <= k /\ k < a + 1 => k = a
      BY <1>0
  <2>4. CASE a \in K
    <3>1. <<s[a]>> \in Seq({s[k] : k \in K \cap DOMAIN s}) /\ Len(<<s[a]>>) = 1
        BY <1>0, <2>4
    <3>2. Rank(K, a) - Rank(K, a - 1) = 1
        BY <2>2, <2>4
    <3>3. \A k \in K : a <= k /\ k < a + 1 => <<s[a]>>[Rank(K, k) - Rank(K, a - 1)] = s[k]
      <4>1. <<s[a]>>[Rank(K, a) - Rank(K, a - 1)] = s[a]
          BY <3>2
      <4> QED BY ONLY <2>3, <4>1
    <3>4. Len(<<s[a]>>) = Rank(K, a + 1 - 1) - Rank(K, a - 1)
        BY <2>2, <3>1, <3>2
    <3>5. Picks(s, K, a, 1, <<s[a]>>)
        BY <3>1, <3>3, <3>4 DEF Picks
    <3> QED BY <1>2, <1>6, <2>1, <2>4, <3>5
  <2>5. CASE a \notin K
    <3>1. Len(<<>>) = Rank(K, a + 1 - 1) - Rank(K, a - 1)
        BY <2>2, <2>5
    <3>2. Picks(s, K, a, 1, <<>>)
        BY <2>3, <2>5, <3>1 DEF Picks
    <3> QED BY <1>2, <1>6, <2>1, <2>5, <3>2
  <2> QED BY <2>4, <2>5
<1>7. CASE n >= 2
  <2> DEFINE n1 == n \div 2
             n2 == n - n \div 2
  <2>1. n1 \in 1..(n - 1) /\ n2 \in 1..(n - 1) /\ n1 + n2 = n
      BY <1>3, <1>7, Half
  <2>2. f[n][a] = f[n1][a] \o f[n2][a + n1]
    <3>1. n # 0 /\ n # 1
        BY <1>3, <1>7
    <3> QED BY <1>4, <3>1 DEF Halved
  <2> HIDE DEF n1, n2
  <2>3. a + n1 \in 1..Len(s) /\ a + n1 <= Len(s) + 1 /\ (a + n1) + n2 <= Len(s) + 1
      BY <1>0, <1>2, <1>3, <2>1
  <2>4. Picks(s, K, a, n1, f[n1][a]) /\ Picks(s, K, a + n1, n2, f[n2][a + n1])
    <3>1. n1 \in 0..(n - 1) /\ n2 \in 0..(n - 1)
        BY <1>3, <2>1
    <3>2. Good(n1) /\ Good(n2)
      <4> HIDE DEF Good
      <4> QED BY <1>3, <3>1
    <3>3. a \in 1..Len(s) /\ a + n1 <= Len(s) + 1
        BY <2>3
    <3>4. Picks(s, K, a, n1, f[n1][a])
        BY ONLY <3>2, <3>3
    <3>5. Picks(s, K, a + n1, n2, f[n2][a + n1])
        BY ONLY <2>3, <3>2
    <3> QED BY <3>4, <3>5
  <2>5. Picks(s, K, a, n1 + n2, f[n1][a] \o f[n2][a + n1])
    <3>1. a \in Nat \ {0} /\ n1 \in Nat /\ n2 \in Nat
        BY <1>0, <2>1
    <3>2. s \in Seq(S) /\ K \in SUBSET Nat
        OBVIOUS
    <3> QED BY ONLY <2>4, <3>1, <3>2, PicksJoin
  <2> QED BY <1>2, <2>1, <2>2, <2>5
<1> QED BY <1>0, <1>3, <1>5, <1>6, <1>7

\* The elements of Selected, their number, and where each of them is.
LEMMA SelectedSpec ==
    ASSUME NEW S, NEW s \in Seq(S), NEW K \in SUBSET Nat
    PROVE  /\ Selected(s, K) \in Seq({s[k] : k \in K \cap DOMAIN s})
           /\ Len(Selected(s, K)) = Rank(K, Len(s)) /\ Rank(K, Len(s)) \in Nat
           /\ \A k \in K \cap DOMAIN s : /\ Selected(s, K)[Rank(K, k)] = s[k]
                                         /\ Rank(K, k) \in 1..Rank(K, Len(s))
<1>0. Len(s) \in Nat /\ DOMAIN s = 1..Len(s) /\ Rank(K, Len(s)) \in Nat /\ Rank(K, 0) = 0
    BY RankStep
<1>1. ASSUME NEW k \in K \cap DOMAIN s PROVE Rank(K, k) \in 1..Rank(K, Len(s))
  <2>1. Rank(K, 0) < Rank(K, k) /\ Rank(K, k) <= Rank(K, Len(s)) /\ Rank(K, k) \in Nat
      BY <1>0, RankStep, RankGrows
  <2> QED BY <1>0, <2>1
<1>2. CASE s = <<>>
    BY <1>0, <1>2 DEF Selected
<1>3. CASE s # <<>>
  <2>1. PICK f : IsPart(s, K, Len(s), f) /\ Selected(s, K) = f[Len(s)][1]
      BY <1>0, <1>3, SelectedIsPart
  <2>2. Len(s) >= 1
      BY <1>0, <1>3, EmptySeq
  <2>3. Picks(s, K, 1, Len(s), Selected(s, K))
    <3>1. Len(s) \in 0..Len(s) /\ 1 \in 1..Len(s) /\ 1 + Len(s) <= Len(s) + 1
        BY <1>0, <2>2
    <3> QED BY <2>1, <3>1, PartPicks
  <2>4. 1 + Len(s) - 1 = Len(s) /\ 1 - 1 = 0
      BY <1>0
  <2>5. \A k \in K \cap DOMAIN s : Rank(K, k) - Rank(K, 0) = Rank(K, k) /\ k < 1 + Len(s) /\ 1 <= k
      BY <1>0, <1>1
  <2>6. Rank(K, Len(s)) - Rank(K, 0) = Rank(K, Len(s))
      BY <1>0
  <2> QED BY <1>0, <1>1, <2>3, <2>4, <2>5, <2>6 DEF Picks
<1> QED BY <1>2, <1>3

\* Appending to s leaves what was selected before in its place.
LEMMA SelectedAppend ==
    ASSUME NEW S, NEW s \in Seq(S), NEW x \in S, NEW K \in SUBSET Nat, NEW L \in SUBSET Nat,
           \A k \in 1..Len(s) : k \in L <=> k \in K
    PROVE  /\ \A d \in 0..Len(s) : Rank(L, d) = Rank(K, d)
           /\ Len(Selected(s, K)) <= Len(Selected(Append(s, x), L))
           /\ \A j \in 1..Len(Selected(s, K)) : Selected(Append(s, x), L)[j] = Selected(s, K)[j]
<1>0. /\ Len(s) \in Nat /\ DOMAIN s = 1..Len(s) /\ Append(s, x) \in Seq(S)
      /\ Len(Append(s, x)) = Len(s) + 1 /\ DOMAIN Append(s, x) = 1..(Len(s) + 1)
    OBVIOUS
<1>1. ASSUME NEW d \in 0..Len(s) PROVE Rank(L, d) = Rank(K, d)
  <2>1. L \cap 1..d = K \cap 1..d
      BY <1>0
  <2> QED BY <2>1 DEF Rank
<1>2. Len(Selected(s, K)) = Rank(K, Len(s)) /\ Rank(K, Len(s)) \in Nat
    BY SelectedSpec
<1>3. Len(Selected(Append(s, x), L)) = Rank(L, Len(s) + 1)
    BY <1>0, SelectedSpec
<1>4. Rank(L, Len(s)) <= Rank(L, Len(s) + 1)
    BY <1>0, RankGrows
<1>5. Rank(L, Len(s)) = Rank(K, Len(s))
    BY <1>0, <1>1
<1>6. ASSUME NEW j \in 1..Rank(K, Len(s))
      PROVE  Selected(Append(s, x), L)[j] = Selected(s, K)[j]
  <2>1. PICK k \in K \cap 1..Len(s) : Rank(K, k) = j
      BY <1>0, RankReached
  <2>2. Selected(s, K)[Rank(K, k)] = s[k]
      BY <1>0, SelectedSpec
  <2>3. k \in L \cap DOMAIN Append(s, x) /\ Append(s, x)[k] = s[k]
      BY <1>0
  <2>4. Selected(Append(s, x), L)[Rank(L, k)] = Append(s, x)[k]
      BY <1>0, <2>3, SelectedSpec
  <2>5. Rank(L, k) = Rank(K, k)
      BY <1>0, <1>1
  <2> QED BY <2>1, <2>2, <2>3, <2>4, <2>5
<1>7. Len(Selected(s, K)) <= Len(Selected(Append(s, x), L))
    BY <1>2, <1>3, <1>4, <1>5
<1> QED BY <1>1, <1>2, <1>6, <1>7

-----------------------------------------------------------------------------
(* A packet and its attachments carry a message *)

Item == UNION {{m.payload.items[k] : k \in DOMAIN m.payload.items} : m \in Message}

LEMMA Messages ==
    ASSUME NEW m \in Message
    PROVE  /\ m.payload.items \in Seq(Item) /\ m.ack \in BOOLEAN
           /\ \A k \in DOMAIN m.payload.items : m.payload.items[k].kind \in {"json", "bin"}
<1> DEFINE q == m.payload.items
           R == {q[k] : k \in DOMAIN q}
<1>1. /\ q \in Seq(R) /\ m.ack \in BOOLEAN
      /\ \A k \in DOMAIN q : q[k].kind \in {"json", "bin"}
    BY MessageAssumption DEF IsPayload
<1>2. R \subseteq Item
    BY DEF Item
<1>3. q \in Seq(Item)
  <2> HIDE DEF R, q
  <2> QED BY <1>1, <1>2
<1> QED BY <1>1, <1>3

\* Each placeholder's number is the place of its binary among the attachments.
LEMMA Attached ==
    ASSUME NEW I, NEW items \in Seq(I)
    PROVE  /\ Binaries(items) \in Seq({items[k] : k \in BinaryAt(items)})
           /\ Len(Binaries(items)) = Cardinality(BinaryAt(items))
           /\ \A k \in BinaryAt(items) :
                /\ Number(items, k) \in Nat /\ Number(items, k) < Len(Binaries(items))
                /\ Binaries(items)[Number(items, k) + 1] = items[k]
<1> DEFINE K == BinaryAt(items)
<1>0. Len(items) \in Nat /\ DOMAIN items = 1..Len(items)
    OBVIOUS
<1>1. K \subseteq 1..Len(items) /\ K \cap DOMAIN items = K /\ K \cap 1..Len(items) = K
      /\ K \in SUBSET Nat
    BY <1>0 DEF BinaryAt
<1>2. Binaries(items) = Selected(items, K)
    BY DEF Binaries
<1>3. \A k \in K : Number(items, k) = Rank(K, k - 1)
    BY DEF Number, Rank
<1> HIDE DEF K
<1>4. /\ Binaries(items) \in Seq({items[k] : k \in K})
      /\ Len(Binaries(items)) = Rank(K, Len(items)) /\ Rank(K, Len(items)) \in Nat
      /\ \A k \in K : /\ Binaries(items)[Rank(K, k)] = items[k]
                      /\ Rank(K, k) \in 1..Rank(K, Len(items))
    BY <1>1, <1>2, SelectedSpec
<1>5. Rank(K, Len(items)) = Cardinality(K)
    BY <1>1 DEF Rank
<1>6. ASSUME NEW k \in K
      PROVE  /\ Rank(K, k - 1) \in Nat /\ Rank(K, k - 1) < Len(Binaries(items))
             /\ Binaries(items)[Rank(K, k - 1) + 1] = items[k]
  <2>1. k - 1 \in Nat /\ (k - 1) + 1 = k
      BY <1>0, <1>1
  <2>2. Rank(K, k - 1) \in Nat /\ Rank(K, k) = Rank(K, k - 1) + 1
      BY <2>1, RankStep
  <2> QED BY <1>4, <2>2
<1> QED BY <1>3, <1>4, <1>5, <1>6 DEF K

PacketOf(m) == Decode(Encode(BuildPacket(m)))
HeadOf(m)   == [kind |-> "head", val |-> Encode(BuildPacket(m))]
Atts(m)     == Binaries(m.payload.items)

LEMMA Payloads ==
    ASSUME NEW m \in Message
    PROVE  /\ Atts(m) \in Seq(Item) /\ Len(Atts(m)) \in Nat
           /\ \A j \in 1..Len(Atts(m)) : Atts(m)[j] \in Item /\ Atts(m)[j].kind = "bin"
           /\ PacketOf(m).count \in Nat
<1> DEFINE items == m.payload.items
           B == {items[k] : k \in BinaryAt(items)}
<1>1. items \in Seq(Item)
    BY Messages
<1>2. Atts(m) \in Seq(B)
    BY <1>1, Attached DEF Atts
<1>3. B \subseteq Item /\ \A x \in B : x.kind = "bin"
  <2>1. \A k \in BinaryAt(items) : k \in DOMAIN items /\ items[k].kind = "bin"
      BY DEF BinaryAt
  <2> HIDE DEF items
  <2> QED BY <1>1, <2>1
<1>4. /\ Atts(m) \in Seq(Item) /\ Len(Atts(m)) \in Nat
      /\ \A j \in 1..Len(Atts(m)) : Atts(m)[j] \in B
  <2> HIDE DEF B
  <2> QED BY <1>2, <1>3
<1>5. PacketOf(m).count \in Nat
  <2>1. Count(Atts(m)) \in Nat
      BY <1>4, CountAssumption DEF Count
  <2>2. BuildPacket(m).count = Count(Atts(m))
      BY DEF BuildPacket, Atts
  <2>3. PacketOf(m).count \in {0, BuildPacket(m).count}
      BY DEF PacketOf, Decode, Encode, Present, Absent
  <2> QED BY <2>1, <2>2, <2>3
<1> QED BY <1>3, <1>4, <1>5

\* The fields of the packet that is read back.
LEMMA PacketFields ==
    ASSUME NEW m \in Message, Fit(m)
    PROVE  /\ PacketOf(m).ptype = PacketType(m.ack, Atts(m) # <<>>)
           /\ PacketOf(m).count = Len(Atts(m))
           /\ PacketOf(m).nsp = m.nsp /\ PacketOf(m).id = m.id
           /\ PacketOf(m).data = (IF m.ack THEN <<>> ELSE <<Json(Event(m.name))>>)
                                   \o Encoded(m.payload.items)
<1> DEFINE p == BuildPacket(m)
<1>1. /\ p.ptype = PacketType(m.ack, Atts(m) # <<>>) /\ p.nsp = m.nsp /\ p.id = m.id
      /\ p.count = Count(Atts(m))
      /\ p.data = (IF m.ack THEN <<>> ELSE <<Json(Event(m.name))>>) \o Encoded(m.payload.items)
    BY DEF BuildPacket, Atts
<1>2. Count(Atts(m)) = Len(Atts(m)) /\ Len(Atts(m)) \in Nat
  <2>1. Len(Atts(m)) = Cardinality(BinaryAt(m.payload.items)) /\ Len(Atts(m)) \in Nat
      BY Messages, Attached, Payloads DEF Atts
  <2>2. Len(Atts(m)) < U8
      BY <2>1 DEF Fit
  <2> QED BY <2>1, <2>2, CountAssumption DEF Count
<1> HIDE DEF p
<1>3. /\ PacketOf(m).ptype = p.ptype /\ PacketOf(m).id = p.id /\ PacketOf(m).data = p.data
      /\ PacketOf(m).count = IF HasCount(p.ptype) THEN p.count ELSE 0
      /\ PacketOf(m).nsp = p.nsp
    BY DEF p, PacketOf, Decode, Encode, Present, Absent
<1>4. HasCount(p.ptype) <=> Atts(m) # <<>>
    BY <1>1 DEF HasCount, PacketType
<1>5. Atts(m) = <<>> => Len(Atts(m)) = 0
    OBVIOUS
<1> QED BY <1>1, <1>2, <1>3, <1>4, <1>5

\* Encoding keeps the number of items, JSON values and, without attachments, everything.
LEMMA EncodedItems ==
    ASSUME NEW m \in Message
    PROVE  LET items == m.payload.items
               e == Encoded(items)
           IN  /\ \E V : e \in Seq(V)
               /\ Len(e) = Len(items) /\ Len(items) \in Nat
               /\ \A k \in 1..Len(items) :
                    /\ items[k].kind = "json" => e[k] = items[k]
                    /\ items[k].kind = "bin" =>
                         e[k].kind = "placeholder" /\ e[k].val = Number(items, k)
               /\ Atts(m) = <<>> => e = items
               /\ Atts(m) # <<>> => items # <<>>
<1> DEFINE items == m.payload.items
           e == Encoded(items)
           V == {e[k] : k \in 1..Len(items)}
<1>0. /\ items \in Seq(Item) /\ Len(items) \in Nat /\ DOMAIN items = 1..Len(items)
      /\ \A k \in 1..Len(items) : items[k].kind \in {"json", "bin"}
  <2>1. items \in Seq(Item) /\ \A k \in DOMAIN items : items[k].kind \in {"json", "bin"}
      BY Messages
  <2> HIDE DEF items
  <2> QED BY <2>1
<1>1. e = [k \in 1..Len(items) |-> IF items[k].kind = "json" THEN items[k]
                                   ELSE [kind |-> "placeholder", val |-> Number(items, k)]]
    BY <1>0 DEF Encoded
<1> HIDE DEF items, e
<1>2. e \in Seq(V) /\ Len(e) = Len(items)
    BY <1>0, <1>1
<1>3. ASSUME Atts(m) = <<>> PROVE e = items
  <2>1. Len(Binaries(items)) = 0
      BY <1>3 DEF Atts, items
  <2>2. BinaryAt(items) = {}
    <3>1. ASSUME NEW k \in BinaryAt(items) PROVE FALSE
      <4>1. Number(items, k) \in Nat /\ Number(items, k) < Len(Binaries(items))
          BY <1>0, Attached
      <4> QED BY <2>1, <4>1
    <3> QED BY <3>1
  <2>3. \A k \in 1..Len(items) : items[k].kind = "json"
      BY <1>0, <2>2 DEF BinaryAt
  <2>4. e = [k \in 1..Len(items) |-> items[k]]
      BY <1>1, <2>3
  <2> QED BY <1>0, <2>4
<1>4. ASSUME items = <<>> PROVE Atts(m) = <<>>
  <2>1. BinaryAt(items) = {}
      BY <1>4 DEF BinaryAt
  <2>2. Len(Atts(m)) = 0 /\ Atts(m) \in Seq(Item)
      BY <1>0, <2>1, Attached, FS_EmptySet, Payloads DEF Atts, items
  <2> QED BY <2>2, EmptySeq
<1>5. \A k \in 1..Len(items) :
        /\ items[k].kind = "json" => e[k] = items[k]
        /\ items[k].kind = "bin" => e[k].kind = "placeholder" /\ e[k].val = Number(items, k)
    BY <1>1
<1> QED BY <1>0, <1>2, <1>3, <1>4, <1>5 DEF items, e

\* With the event before them, and without it.
LEMMA EventFirst ==
    ASSUME NEW V, NEW e \in Seq(V), NEW ev
    PROVE  /\ Len(<<ev>> \o e) = 1 + Len(e) /\ (<<ev>> \o e)[1] = ev
           /\ Tail(<<ev>> \o e) = e /\ <<>> \o e = e /\ <<ev>> \o e # <<>>
           /\ e # <<>> => (<<ev>> \o e)[2] = e[1]
<1> DEFINE W == V \cup {ev}
<1>1. e \in Seq(W) /\ <<ev>> \in Seq(W) /\ <<>> \o e = e
    OBVIOUS
<1>2. /\ <<ev>> \o e \in Seq(W) /\ Len(<<ev>> \o e) = 1 + Len(e) /\ (<<ev>> \o e)[1] = ev
      /\ \A k \in 1..Len(e) : (<<ev>> \o e)[k + 1] = e[k]
    BY <1>1
<1>3. Tail(<<ev>> \o e) = e
    BY <1>1, <1>2
<1> QED BY <1>1, <1>2, <1>3

\* The decoders undo process_payload: what the callback gets for the packet that was read
\* back and all its attachments is what was emitted.
THEOREM RoundTrip ==
    ASSUME NEW m \in Message, Fit(m)
    PROVE  Delivery(PacketOf(m), Atts(m)) = Promise(m)
<1> DEFINE items == m.payload.items
           e == Encoded(items)
           ev == Json(Event(m.name))
           p == PacketOf(m)
           b == Atts(m)
           pay == IF items = <<>> THEN None
                  ELSE IF Len(items) = 1 THEN One(items[1]) ELSE Multi(items)
<1>1. /\ p.ptype = PacketType(m.ack, b # <<>>) /\ p.id = m.id
      /\ p.data = (IF m.ack THEN <<>> ELSE <<ev>>) \o e
    BY PacketFields
<1>2. PICK V : e \in Seq(V)
    BY EncodedItems
<1>3. /\ Len(e) = Len(items) /\ Len(items) \in Nat
      /\ b = <<>> => e = items
      /\ b # <<>> => items # <<>>
    BY EncodedItems
<1>4. /\ Len(<<ev>> \o e) = 1 + Len(e) /\ (<<ev>> \o e)[1] = ev
      /\ Tail(<<ev>> \o e) = e /\ <<>> \o e = e /\ <<ev>> \o e # <<>>
      /\ e # <<>> => (<<ev>> \o e)[2] = e[1]
    BY <1>2, EventFirst
<1>5. /\ m.ack \in BOOLEAN /\ items \in Seq(Item) /\ DOMAIN items = 1..Len(items)
      /\ (m.ack \/ items # <<>>)
    BY Messages DEF Fit
<1>6. items # <<>> <=> Len(items) >= 1
  <2> HIDE DEF items
  <2> QED BY <1>3, <1>5, EmptySeq
<1>7. Promise(m) = [name |-> IF m.ack THEN None ELSE Event(m.name), id |-> m.id, payload |-> pay]
    BY DEF Promise
<1> HIDE DEF items, e, p, b
<1>8. ASSUME ~m.ack PROVE EventName(p) = Event(m.name)
  <2>1. p.data = <<ev>> \o e
      BY <1>1, <1>8
  <2>2. p.data[1].val = Event(m.name) /\ Len(p.data) # 1
      BY <1>3, <1>4, <1>5, <1>6, <1>8, <2>1 DEF Json
  <2> QED BY <2>2 DEF EventName, Event
<1>9. (p.ptype \in {"Ack", "BinaryAck"}) <=> m.ack
    BY <1>1, <1>5 DEF PacketType
<1>10. HasCount(p.ptype) <=> b # <<>>
    BY <1>1 DEF HasCount, PacketType
<1>11. CASE b = <<>>
  <2>1. e = items
      BY <1>3, <1>11
  <2>2. CASE m.ack
    <3>1. p.data = items
        BY <1>1, <1>4, <2>1, <2>2
    <3>2. DecodePlain(p.data, FALSE) = pay
        BY <3>1 DEF DecodePlain
    <3>3. Delivery(p, b) = [name |-> None, id |-> m.id, payload |-> DecodePlain(p.data, FALSE)]
        BY <1>1, <1>9, <1>10, <1>11, <2>2 DEF Delivery
    <3> QED BY <1>7, <2>2, <3>2, <3>3 DEF p, b
  <2>3. CASE ~m.ack
    <3>1. p.data = <<ev>> \o items /\ items # <<>> /\ Len(items) >= 1
        BY <1>1, <1>5, <1>6, <2>1, <2>3
    <3>2. /\ Len(p.data) = 1 + Len(items) /\ Tail(p.data) = items /\ p.data # <<>>
          /\ p.data[2] = items[1]
        BY <1>4, <2>1, <3>1
    <3>3. DecodePlain(p.data, TRUE) = pay
      <4> DEFINE d == p.data
      <4>1. /\ d # <<>> /\ Len(d) # 1 /\ Tail(d) = items /\ d[2] = items[1]
            /\ Len(d) = 2 <=> Len(items) = 1
          BY <1>3, <3>1, <3>2
      <4> HIDE DEF d
      <4>2. DecodePlain(d, TRUE) = IF Len(d) = 2 THEN One(d[2]) ELSE Multi(Tail(d))
          BY <4>1 DEF DecodePlain
      <4>3. pay = IF Len(items) = 1 THEN One(items[1]) ELSE Multi(items)
          BY <3>1
      <4> QED BY <4>1, <4>2, <4>3 DEF d
    <3>4. Delivery(p, b) = [name |-> EventName(p), id |-> m.id,
                            payload |-> DecodePlain(p.data, TRUE)]
        BY <1>1, <1>9, <1>10, <1>11, <2>3 DEF Delivery
    <3> QED BY <1>7, <1>8, <2>3, <3>3, <3>4 DEF p, b
  <2> QED BY <2>2, <2>3
<1>12. CASE b # <<>>
  <2>0. items # <<>> /\ Len(items) >= 1
      BY <1>3, <1>6, <1>12
  <2>1. (IF ~m.ack THEN Tail(p.data) ELSE p.data) = e
      BY <1>1, <1>4
  <2>2. \A k \in 1..Len(items) :
          \/ /\ items[k].kind = "json" /\ e[k] = items[k]
          \/ /\ items[k].kind = "bin" /\ e[k].kind = "placeholder"
             /\ e[k].val = Number(items, k)
    <3>1. \A k \in 1..Len(items) :
            /\ items[k].kind = "json" => e[k] = items[k]
            /\ items[k].kind = "bin" => e[k].kind = "placeholder" /\ e[k].val = Number(items, k)
        BY EncodedItems DEF items, e
    <3>2. \A k \in 1..Len(items) : items[k].kind \in {"json", "bin"}
        BY <1>5, Messages DEF items
    <3> QED BY <3>1, <3>2
  <2>3. \A k \in 1..Len(items) : items[k].kind = "bin" =>
          /\ Number(items, k) \in Nat /\ Number(items, k) < Len(b)
          /\ b[Number(items, k) + 1] = items[k]
    <3>1. \A k \in 1..Len(items) : items[k].kind = "bin" => k \in BinaryAt(items)
        BY <1>5 DEF BinaryAt
    <3>2. b = Binaries(items)
        BY DEF b, items, Atts
    <3> QED BY <1>5, <3>1, <3>2, Attached
  <2>4. Len(b) \in Nat /\ DOMAIN e = 1..Len(items)
      BY <1>2, <1>3, Payloads DEF b
  <2>5. \A k \in DOMAIN e : ~(e[k].kind = "placeholder" /\ e[k].val >= Len(b))
      BY <2>2, <2>3, <2>4
  <2>6. [k \in DOMAIN e |-> IF e[k].kind = "placeholder" THEN b[e[k].val + 1] ELSE e[k]] = items
    <3>1. \A k \in 1..Len(items) :
            (IF e[k].kind = "placeholder" THEN b[e[k].val + 1] ELSE e[k]) = items[k]
        BY <2>2, <2>3
    <3> QED BY <1>5, <2>4, <3>1
  <2>7. DecodeBinary(p.data, b, ~m.ack)
          = IF Len(items) = 1 THEN One(items[1]) ELSE Multi(items)
    <3> DEFINE vals == IF ~m.ack THEN Tail(p.data) ELSE p.data
               full == [k \in DOMAIN vals |-> IF vals[k].kind = "placeholder"
                                              THEN b[vals[k].val + 1] ELSE vals[k]]
               lacks == \E k \in DOMAIN vals : vals[k].kind = "placeholder" /\ vals[k].val >= Len(b)
    <3>1. DecodeBinary(p.data, b, ~m.ack)
            = IF lacks THEN None ELSE IF Len(vals) = 1 THEN One(full[1]) ELSE Multi(full)
        BY DEF DecodeBinary
    <3>2. vals = e
        BY <2>1
    <3> HIDE DEF vals
    <3>3. full = items /\ ~lacks
        BY <2>5, <2>6, <3>2
    <3> HIDE DEF full, lacks
    <3> QED BY <1>3, <3>1, <3>2, <3>3
  <2>8. DecodeBinary(p.data, b, ~m.ack) = pay
      BY <2>0, <2>7
  <2>9. Delivery(p, b) = [name |-> IF m.ack THEN None ELSE EventName(p), id |-> m.id,
                          payload |-> DecodeBinary(p.data, b, ~m.ack)]
      BY <1>1, <1>5, <1>9, <1>10, <1>12 DEF Delivery
  <2>10. (IF m.ack THEN None ELSE EventName(p)) = IF m.ack THEN None ELSE Event(m.name)
      BY <1>5, <1>8
  <2> QED BY <1>7, <2>8, <2>9, <2>10 DEF p, b
<1> QED BY <1>11, <1>12

-----------------------------------------------------------------------------
(* The line: attachments under way, then whole messages, then whatever there is *)

Bin   == {x \in Item : x.kind = "bin"}
Other == [kind |-> "other", val |-> None]
Wire  == Bin \cup {HeadOf(m) : m \in Message} \cup {Other}

\* In the first z packets of w, after the attachments b, the packet of each message from
\* number n + 1 to l, at h[i], with its attachments behind it; what is in no message is an
\* engine packet of another kind.
Ends(ms, h, i) == h[i] + Len(Atts(ms[i]))
InFrame(ms, n, l, h, k) == \E i \in (n + 1)..l : h[i] <= k /\ k <= Ends(ms, h, i)
Frames(w, b, ms, n, l, z, h) ==
    /\ w \in Seq(Wire) /\ b \in Seq(Bin) /\ ms \in Seq(Message)
    /\ n \in Nat /\ l \in n..Len(ms) /\ z \in 0..Len(w)
    /\ Len(b) <= z /\ \A j \in 1..Len(b) : w[j] = b[j]
    /\ \A i \in (n + 1)..l :
         /\ h[i] \in Nat /\ Len(b) < h[i] /\ Ends(ms, h, i) <= z
         /\ w[h[i]] = HeadOf(ms[i])
         /\ \A j \in 1..Len(Atts(ms[i])) : w[h[i] + j] = Atts(ms[i])[j]
    /\ \A i, j \in (n + 1)..l : i < j => Ends(ms, h, i) < h[j]
    /\ \A k \in (Len(b) + 1)..z : w[k].kind = "other" \/ InFrame(ms, n, l, h, k)

LEMMA AttsAreBin ==
    ASSUME NEW m \in Message
    PROVE  Atts(m) \in Seq(Bin) /\ Len(Atts(m)) \in Nat
<1>1. /\ Atts(m) \in Seq(Item) /\ Len(Atts(m)) \in Nat
      /\ \A j \in 1..Len(Atts(m)) : Atts(m)[j] \in Item /\ Atts(m)[j].kind = "bin"
    BY Payloads
<1>2. \A j \in 1..Len(Atts(m)) : Atts(m)[j] \in Bin
    BY <1>1 DEF Bin
<1> QED BY <1>1, <1>2

LEMMA WireKinds ==
    /\ \A x \in Bin : x.kind = "bin"
    /\ \A m \in Message : HeadOf(m).kind = "head" /\ HeadOf(m) \in Wire
    /\ Other.kind = "other" /\ Other \in Wire
    /\ \A x \in Wire : x.kind = "head" => \E m \in Message : x = HeadOf(m)
BY DEF Bin, Other, Wire, HeadOf

LEMMA FramesNat ==
    ASSUME NEW w, NEW b, NEW ms, NEW n, NEW l, NEW z, NEW h, Frames(w, b, ms, n, l, z, h)
    PROVE  /\ Len(w) \in Nat /\ Len(b) \in Nat /\ Len(ms) \in Nat /\ n \in Nat /\ l \in Nat
           /\ n <= l /\ l <= Len(ms) /\ z \in Nat /\ z <= Len(w) /\ Len(b) <= z
           /\ w \in Seq(Wire) /\ b \in Seq(Bin) /\ ms \in Seq(Message)
           /\ \A i \in (n + 1)..l :
                /\ i \in 1..Len(ms) /\ ms[i] \in Message /\ Len(Atts(ms[i])) \in Nat
                /\ Atts(ms[i]) \in Seq(Bin) /\ h[i] \in Nat /\ h[i] >= 1
                /\ Ends(ms, h, i) = h[i] + Len(Atts(ms[i])) /\ Ends(ms, h, i) \in Nat
<1>1. /\ w \in Seq(Wire) /\ b \in Seq(Bin) /\ ms \in Seq(Message)
      /\ n \in Nat /\ l \in n..Len(ms) /\ z \in 0..Len(w) /\ Len(b) <= z
      /\ \A i \in (n + 1)..l : h[i] \in Nat /\ Len(b) < h[i]
    BY DEF Frames
<1>2. Len(w) \in Nat /\ Len(b) \in Nat /\ Len(ms) \in Nat /\ l \in Nat /\ n <= l /\ l <= Len(ms)
      /\ z \in Nat /\ z <= Len(w)
    BY <1>1
<1>3. ASSUME NEW i \in (n + 1)..l
      PROVE  /\ i \in 1..Len(ms) /\ ms[i] \in Message /\ Len(Atts(ms[i])) \in Nat
             /\ Atts(ms[i]) \in Seq(Bin) /\ h[i] \in Nat /\ h[i] >= 1
             /\ Ends(ms, h, i) = h[i] + Len(Atts(ms[i])) /\ Ends(ms, h, i) \in Nat
  <2>1. i \in 1..Len(ms)
      BY <1>1, <1>2
  <2>2. ms[i] \in Message
      BY <1>1, <2>1
  <2>3. h[i] \in Nat /\ h[i] >= 1
      BY <1>1, <1>2
  <2>4. Len(Atts(ms[i])) \in Nat /\ Atts(ms[i]) \in Seq(Bin)
      BY <2>2, AttsAreBin
  <2> QED BY <2>1, <2>2, <2>3, <2>4 DEF Ends
<1> QED BY <1>1, <1>2, <1>3

\* One packet is taken off the line.
LEMMA FramesTail ==
    ASSUME NEW w, NEW b, NEW ms, NEW n, NEW l, NEW z, NEW h, Frames(w, b, ms, n, l, z, h),
           NEW c \in Seq(Bin), NEW q \in n..l, Len(c) < z,
           \A j \in 1..Len(c) : w[j + 1] = c[j],
           \A i \in (q + 1)..l : Len(c) + 1 < h[i],
           \A k \in (Len(c) + 2)..z : w[k].kind = "other" \/ InFrame(ms, q, l, h, k)
    PROVE  Frames(Tail(w), c, ms, q, l, z - 1, [i \in (q + 1)..l |-> h[i] - 1])
<1> DEFINE g == [i \in (q + 1)..l |-> h[i] - 1]
           u == Tail(w)
<1>0. /\ w \in Seq(Wire) /\ ms \in Seq(Message) /\ n \in Nat /\ n <= l /\ Len(ms) \in Nat
      /\ Len(w) \in Nat /\ Len(c) \in Nat /\ q \in Nat /\ l \in Nat /\ l <= Len(ms)
      /\ z \in Nat /\ z <= Len(w) /\ z >= 1 /\ n <= q /\ q <= l
  <2>1. /\ w \in Seq(Wire) /\ ms \in Seq(Message) /\ n \in Nat /\ n <= l /\ Len(ms) \in Nat
        /\ Len(w) \in Nat /\ l \in Nat /\ l <= Len(ms) /\ z \in Nat /\ z <= Len(w)
      BY FramesNat
  <2>2. Len(c) \in Nat
      OBVIOUS
  <2> QED BY <2>1, <2>2
<1>1. /\ u \in Seq(Wire) /\ Len(u) = Len(w) - 1 /\ \A k \in 1..Len(u) : u[k] = w[k + 1]
  <2>1. w # <<>>
      BY <1>0
  <2> QED BY <1>0, <2>1
<1>2. ASSUME NEW i \in (q + 1)..l
      PROVE  /\ h[i] \in Nat /\ g[i] = h[i] - 1 /\ Len(Atts(ms[i])) \in Nat
             /\ Ends(ms, h, i) = h[i] + Len(Atts(ms[i])) /\ Ends(ms, h, i) \in Nat
             /\ Ends(ms, h, i) <= z /\ Ends(ms, g, i) = Ends(ms, h, i) - 1
             /\ w[h[i]] = HeadOf(ms[i])
             /\ \A j \in 1..Len(Atts(ms[i])) : w[h[i] + j] = Atts(ms[i])[j]
  <2>1. i \in (n + 1)..l
      BY <1>0
  <2>2. Len(Atts(ms[i])) \in Nat
      BY <2>1, FramesNat
  <2>3. /\ h[i] \in Nat /\ Ends(ms, h, i) <= z /\ w[h[i]] = HeadOf(ms[i])
        /\ \A j \in 1..Len(Atts(ms[i])) : w[h[i] + j] = Atts(ms[i])[j]
      BY <2>1 DEF Frames
  <2> QED BY <2>2, <2>3 DEF Ends
<1> HIDE DEF g, u
<1>3. Len(c) <= z - 1 /\ \A j \in 1..Len(c) : u[j] = c[j]
  <2>1. Len(c) <= z - 1 /\ \A j \in 1..Len(c) : j \in 1..Len(u)
      BY <1>0, <1>1
  <2> QED BY <1>1, <2>1
<1>4. ASSUME NEW i \in (q + 1)..l
      PROVE  /\ g[i] \in Nat /\ Len(c) < g[i] /\ Ends(ms, g, i) <= z - 1
             /\ u[g[i]] = HeadOf(ms[i])
             /\ \A j \in 1..Len(Atts(ms[i])) : u[g[i] + j] = Atts(ms[i])[j]
  <2> DEFINE t == Len(Atts(ms[i]))
             p == h[i]
  <2>0. /\ p \in Nat /\ g[i] = p - 1 /\ t \in Nat /\ Ends(ms, h, i) = p + t
        /\ Ends(ms, h, i) <= z /\ Ends(ms, g, i) = Ends(ms, h, i) - 1
      BY <1>2
  <2>1. /\ p \in Nat /\ g[i] = p - 1 /\ t \in Nat /\ p + t <= z
        /\ Ends(ms, g, i) = p + t - 1
    <3> HIDE DEF p, t
    <3> QED BY <2>0
  <2>2. Len(c) + 1 < p
      OBVIOUS
  <2>3. w[p] = HeadOf(ms[i]) /\ \A j \in 1..t : w[p + j] = Atts(ms[i])[j]
      BY <1>2
  <2>4. Len(c) \in Nat /\ Len(w) \in Nat /\ Len(u) = Len(w) - 1 /\ z \in Nat /\ z <= Len(w)
      BY <1>0, <1>1
  <2> HIDE DEF t, p
  <2>5. g[i] \in 1..Len(u) /\ g[i] + 1 = p /\ Len(c) < g[i] /\ Ends(ms, g, i) <= z - 1
      BY <2>1, <2>2, <2>4
  <2>6. u[g[i]] = HeadOf(ms[i])
      BY <1>1, <2>3, <2>5
  <2>7. ASSUME NEW j \in 1..t PROVE u[g[i] + j] = Atts(ms[i])[j]
    <3>1. g[i] + j \in 1..Len(u) /\ (g[i] + j) + 1 = p + j
        BY <2>1, <2>2, <2>4
    <3> QED BY <1>1, <2>3, <3>1
  <2> QED BY <2>5, <2>6, <2>7 DEF t
<1>5. ASSUME NEW i \in (q + 1)..l, NEW j \in (q + 1)..l, i < j
      PROVE  Ends(ms, g, i) < g[j]
  <2>1. i \in (n + 1)..l /\ j \in (n + 1)..l
      BY <1>0
  <2>2. Ends(ms, h, i) < h[j]
      BY <1>5, <2>1 DEF Frames
  <2> QED BY <1>2, <2>2
<1>6. ASSUME NEW k \in (Len(c) + 1)..(z - 1)
      PROVE  u[k].kind = "other" \/ InFrame(ms, q, l, g, k)
  <2>1. k + 1 \in (Len(c) + 2)..z /\ u[k] = w[k + 1] /\ k \in Nat
      BY <1>0, <1>1
  <2>2. CASE w[k + 1].kind = "other"
      BY <2>1, <2>2
  <2>3. ASSUME NEW i \in (q + 1)..l, h[i] <= k + 1, k + 1 <= Ends(ms, h, i)
        PROVE  g[i] <= k /\ k <= Ends(ms, g, i)
    <3>1. /\ h[i] \in Nat /\ Ends(ms, h, i) \in Nat /\ g[i] = h[i] - 1
          /\ Ends(ms, g, i) = Ends(ms, h, i) - 1
        BY <1>2
    <3>2. k \in Nat
        BY <2>1
    <3> QED BY ONLY <2>3, <3>1, <3>2
  <2> QED BY <2>1, <2>2, <2>3 DEF InFrame
<1>7. l \in q..Len(ms) /\ z - 1 \in 0..Len(u)
    BY <1>0, <1>1
<1>8. Frames(u, c, ms, q, l, z - 1, g)
    BY <1>0, <1>1, <1>3, <1>4, <1>5, <1>6, <1>7 DEF Frames
<1> QED BY <1>8 DEF u, g

\* An attachment under way is the next packet.
LEMMA FramesAttachment ==
    ASSUME NEW w, NEW b, NEW ms, NEW n, NEW l, NEW z, NEW h, Frames(w, b, ms, n, l, z, h),
           b # <<>>
    PROVE  z >= 1 /\ Head(w) = Head(b) /\ \E g : Frames(Tail(w), Tail(b), ms, n, l, z - 1, g)
<1>0. /\ Len(w) \in Nat /\ Len(b) \in Nat /\ n \in Nat /\ n <= l /\ l \in Nat
      /\ z \in Nat /\ z <= Len(w) /\ w \in Seq(Wire) /\ b \in Seq(Bin) /\ Len(b) <= z
      /\ \A j \in 1..Len(b) : w[j] = b[j]
  <2>1. \A j \in 1..Len(b) : w[j] = b[j]
      BY DEF Frames
  <2> QED BY <2>1, FramesNat
<1>1. Len(b) >= 1 /\ z >= 1 /\ Head(w) = w[1] /\ Head(b) = b[1]
  <2>1. Len(b) >= 1
      BY <1>0, EmptySeq
  <2>2. w # <<>> /\ z >= 1
      BY <1>0, <2>1
  <2> QED BY <1>0, <2>1, <2>2
<1>2. w[1] = b[1]
    BY <1>0, <1>1
<1> DEFINE c == Tail(b)
<1>3. c \in Seq(Bin) /\ Len(c) = Len(b) - 1 /\ \A j \in 1..Len(c) : c[j] = b[j + 1]
    BY <1>0, <1>1
<1> HIDE DEF c
<1>4. Len(c) < z /\ n \in n..l
    BY <1>0, <1>1, <1>3
<1>5. ASSUME NEW j \in 1..Len(c) PROVE w[j + 1] = c[j]
  <2>1. j + 1 \in 1..Len(b)
      BY <1>0, <1>3
  <2> QED BY <1>0, <1>3, <2>1
<1>6. \A i \in (n + 1)..l : Len(c) + 1 < h[i]
  <2>1. \A i \in (n + 1)..l : Len(b) < h[i]
      BY DEF Frames
  <2>2. Len(c) + 1 = Len(b)
      BY <1>0, <1>3
  <2> QED BY <2>1, <2>2
<1>7. \A k \in (Len(c) + 2)..z : w[k].kind = "other" \/ InFrame(ms, n, l, h, k)
  <2>1. Len(c) + 2 = Len(b) + 1
      BY <1>0, <1>3
  <2> QED BY <2>1 DEF Frames
<1>8. Frames(Tail(w), c, ms, n, l, z - 1, [i \in (n + 1)..l |-> h[i] - 1])
    BY <1>3, <1>4, <1>5, <1>6, <1>7, FramesTail
<1> QED BY <1>1, <1>2, <1>8 DEF c

\* With none under way, it is a packet of another kind or the next message.
LEMMA FramesOtherNext ==
    ASSUME NEW w, NEW c, c = <<>>, NEW ms, NEW n, NEW l, NEW z, NEW h,
           Frames(w, c, ms, n, l, z, h), z >= 1, Head(w).kind = "other"
    PROVE  \E g : Frames(Tail(w), c, ms, n, l, z - 1, g)
<1>0. /\ Len(w) \in Nat /\ n \in Nat /\ n <= l /\ l \in Nat /\ z \in Nat /\ z <= Len(w)
      /\ w \in Seq(Wire) /\ c \in Seq(Bin) /\ Len(c) = 0
    BY FramesNat
<1>1. Head(w) = w[1]
  <2>1. w # <<>>
      BY <1>0
  <2> QED BY <1>0, <2>1
<1>2. ASSUME NEW i \in (n + 1)..l PROVE Len(c) + 1 < h[i]
  <2>1. ms[i] \in Message /\ h[i] \in Nat /\ h[i] >= 1
      BY FramesNat
  <2>2. w[h[i]] = HeadOf(ms[i])
      BY DEF Frames
  <2>3. HeadOf(ms[i]).kind = "head"
      BY <2>1, WireKinds
  <2>4. h[i] # 1
      BY <1>1, <2>2, <2>3
  <2> QED BY <1>0, <2>1, <2>4
<1>3. \A k \in (Len(c) + 2)..z : w[k].kind = "other" \/ InFrame(ms, n, l, h, k)
  <2>1. \A k \in (Len(c) + 2)..z : k \in (Len(c) + 1)..z
      BY <1>0
  <2> QED BY <2>1 DEF Frames
<1>4. n \in n..l /\ Len(c) < z /\ \A j \in 1..Len(c) : w[j + 1] = c[j]
    BY <1>0
<1>5. Frames(w, c, ms, n, l, z, h) /\ c \in Seq(Bin)
    BY <1>0
<1>6. \A i \in (n + 1)..l : Len(c) + 1 < h[i]
    BY <1>2
<1>7. Frames(Tail(w), c, ms, n, l, z - 1, [i \in (n + 1)..l |-> h[i] - 1])
    BY ONLY <1>3, <1>4, <1>5, <1>6, FramesTail
<1> QED BY <1>7

LEMMA FramesMessageNext ==
    ASSUME NEW w, NEW e, e = <<>>, NEW ms, NEW n, NEW l, NEW z, NEW h,
           Frames(w, e, ms, n, l, z, h), z >= 1, Head(w).kind # "other"
    PROVE  /\ n + 1 \in 1..Len(ms) /\ n + 1 <= l /\ Head(w) = HeadOf(ms[n + 1])
           /\ \E g : Frames(Tail(w), Atts(ms[n + 1]), ms, n + 1, l, z - 1, g)
<1>0. /\ Len(w) \in Nat /\ Len(ms) \in Nat /\ n \in Nat /\ n <= l /\ l \in Nat /\ l <= Len(ms)
      /\ z \in Nat /\ z <= Len(w) /\ w \in Seq(Wire) /\ Len(e) = 0
    BY FramesNat
<1>1. Head(w) = w[1]
  <2>1. w # <<>>
      BY <1>0
  <2> QED BY <1>0, <2>1
<1>2. PICK i \in (n + 1)..l : h[i] <= 1 /\ 1 <= Ends(ms, h, i)
  <2>1. 1 \in (Len(e) + 1)..z
      BY <1>0
  <2> QED BY <1>1, <2>1 DEF Frames, InFrame
<1>3. h[i] = 1
  <2>1. h[i] >= 1 /\ h[i] \in Nat
      BY FramesNat
  <2> QED BY <1>2, <2>1
<1>4. n + 1 \in (n + 1)..l
    BY <1>0, <1>2
<1>5. i = n + 1
  <2> SUFFICES ASSUME n + 1 < i PROVE FALSE
      BY <1>0, <1>2
  <2>1. Ends(ms, h, n + 1) < h[i]
      BY <1>4 DEF Frames
  <2>2. Frames(w, e, ms, n, l, z, h)
      OBVIOUS
  <2>3. /\ h[n + 1] >= 1 /\ h[n + 1] \in Nat /\ Len(Atts(ms[n + 1])) \in Nat
        /\ Ends(ms, h, n + 1) = h[n + 1] + Len(Atts(ms[n + 1]))
      BY ONLY <1>4, <2>2, FramesNat
  <2> QED BY <1>3, <2>1, <2>3
<1> DEFINE m == ms[n + 1]
           c == Atts(m)
<1>6. m \in Message /\ c \in Seq(Bin) /\ Len(c) \in Nat
    BY <1>4, FramesNat
<1>7. /\ h[n + 1] = 1 /\ w[1] = HeadOf(m) /\ Ends(ms, h, n + 1) = 1 + Len(c)
      /\ 1 + Len(c) <= z /\ \A j \in 1..Len(c) : w[1 + j] = c[j]
  <2>1. h[n + 1] = 1 /\ Ends(ms, h, n + 1) = 1 + Len(c)
      BY <1>3, <1>4, <1>5, FramesNat
  <2>2. /\ w[h[n + 1]] = HeadOf(m) /\ Ends(ms, h, n + 1) <= z
        /\ \A j \in 1..Len(c) : w[h[n + 1] + j] = c[j]
      BY <1>4 DEF Frames
  <2> QED BY <2>1, <2>2
<1>8. ASSUME NEW j \in ((n + 1) + 1)..l PROVE Len(c) + 1 < h[j]
  <2>1. j \in (n + 1)..l /\ n + 1 < j
      BY <1>0
  <2>2. Ends(ms, h, n + 1) < h[j]
      BY <1>4, <2>1 DEF Frames
  <2>3. h[j] \in Nat
      BY <2>1, FramesNat
  <2> HIDE DEF c
  <2> QED BY <1>6, <1>7, <2>2, <2>3
<1>9. ASSUME NEW k \in (Len(c) + 2)..z
      PROVE  w[k].kind = "other" \/ InFrame(ms, n + 1, l, h, k)
  <2>1. k \in (Len(e) + 1)..z /\ k > Len(c) + 1 /\ k \in Nat
    <3> HIDE DEF c
    <3> QED BY <1>0, <1>6
  <2>2. \/ w[k].kind = "other"
        \/ \E j \in (n + 1)..l : h[j] <= k /\ k <= Ends(ms, h, j)
      BY <2>1 DEF Frames, InFrame
  <2>3. ASSUME NEW j \in (n + 1)..l, k <= Ends(ms, h, j)
        PROVE  j \in ((n + 1) + 1)..l
    <3>1. j # n + 1
      <4> HIDE DEF c
      <4> QED BY <1>6, <1>7, <2>1, <2>3
    <3> QED BY <1>0, <3>1
  <2> QED BY <2>2, <2>3 DEF InFrame
<1> HIDE DEF c
<1>10. Len(c) < z /\ n + 1 \in n..l /\ n + 1 \in 1..Len(ms) /\ n + 1 <= l
    BY <1>0, <1>4, <1>6, <1>7
<1>11. \A j \in 1..Len(c) : w[j + 1] = c[j]
  <2>1. \A j \in 1..Len(c) : j + 1 = 1 + j
      OBVIOUS
  <2> QED BY <1>7, <2>1
<1>12. Frames(Tail(w), c, ms, n + 1, l, z - 1, [j \in ((n + 1) + 1)..l |-> h[j] - 1])
    BY <1>6, <1>8, <1>9, <1>10, <1>11, FramesTail
<1> QED BY <1>1, <1>7, <1>10, <1>12 DEF c

\* What is behind the first z packets, and the messages behind number l, do not matter.
LEMMA FramesAgree ==
    ASSUME NEW w, NEW b, NEW ms, NEW n, NEW l, NEW z, NEW h, Frames(w, b, ms, n, l, z, h),
           NEW u \in Seq(Wire), z <= Len(u), \A k \in 1..z : u[k] = w[k],
           NEW ns \in Seq(Message), l <= Len(ns), \A i \in 1..l : ns[i] = ms[i]
    PROVE  Frames(u, b, ns, n, l, z, h)
<1>0. /\ Len(b) \in Nat /\ n \in Nat /\ l \in Nat /\ n <= l /\ z \in Nat /\ Len(b) <= z
      /\ b \in Seq(Bin) /\ Len(u) \in Nat /\ Len(ns) \in Nat
    BY FramesNat
<1>1. \A j \in 1..Len(b) : u[j] = b[j]
  <2>1. \A j \in 1..Len(b) : j \in 1..z
      BY <1>0
  <2> QED BY <2>1 DEF Frames
<1>2. \A i \in (n + 1)..l : i \in 1..l
    BY <1>0
<1>3. \A i \in (n + 1)..l : ns[i] = ms[i] /\ Ends(ns, h, i) = Ends(ms, h, i)
    BY <1>2 DEF Ends
<1>4. ASSUME NEW i \in (n + 1)..l
      PROVE  /\ h[i] \in Nat /\ Len(b) < h[i] /\ Ends(ns, h, i) <= z
             /\ u[h[i]] = HeadOf(ns[i])
             /\ \A j \in 1..Len(Atts(ns[i])) : u[h[i] + j] = Atts(ns[i])[j]
  <2> DEFINE t == Len(Atts(ms[i]))
             p == h[i]
  <2>1. /\ p \in Nat /\ p >= 1 /\ t \in Nat /\ Ends(ms, h, i) = p + t
      BY FramesNat
  <2>2. Len(b) < p /\ Ends(ms, h, i) <= z /\ w[p] = HeadOf(ms[i])
        /\ \A j \in 1..t : w[p + j] = Atts(ms[i])[j]
      BY DEF Frames
  <2> HIDE DEF t, p
  <2>3. p \in 1..z /\ \A j \in 1..t : p + j \in 1..z
      BY <1>0, <2>1, <2>2
  <2>4. u[p] = HeadOf(ms[i]) /\ \A j \in 1..t : u[p + j] = Atts(ms[i])[j]
      BY <2>2, <2>3
  <2> QED BY <1>3, <2>1, <2>2, <2>4 DEF t, p
<1>5. \A i, j \in (n + 1)..l : i < j => Ends(ns, h, i) < h[j]
    BY <1>3 DEF Frames
<1>6. ASSUME NEW k \in (Len(b) + 1)..z
      PROVE  u[k].kind = "other" \/ InFrame(ns, n, l, h, k)
  <2>1. k \in 1..z
      BY <1>0
  <2>2. w[k].kind = "other" \/ InFrame(ms, n, l, h, k)
      BY DEF Frames
  <2> QED BY <1>3, <2>1, <2>2 DEF InFrame
<1>7. l \in n..Len(ns) /\ z \in 0..Len(u)
    BY <1>0
<1> QED BY <1>0, <1>1, <1>4, <1>5, <1>6, <1>7 DEF Frames

\* A packet of another kind, and a message, behind them belong to them too.
LEMMA FramesEngine ==
    ASSUME NEW w, NEW b, NEW ms, NEW n, NEW l, NEW z, NEW h, Frames(w, b, ms, n, l, z, h),
           z < Len(w), w[z + 1].kind = "other"
    PROVE  Frames(w, b, ms, n, l, z + 1, h)
<1>0. /\ Len(w) \in Nat /\ Len(b) \in Nat /\ n \in Nat /\ l \in Nat /\ z \in Nat /\ Len(b) <= z
    BY FramesNat
<1>1. z + 1 \in 0..Len(w) /\ Len(b) <= z + 1
    BY <1>0
<1>2. \A i \in (n + 1)..l : Ends(ms, h, i) <= z + 1
  <2>0. \A i \in (n + 1)..l : Ends(ms, h, i) \in Nat
      BY FramesNat
  <2>1. \A i \in (n + 1)..l : Ends(ms, h, i) <= z /\ Ends(ms, h, i) \in Nat
      BY <2>0 DEF Frames
  <2> QED BY <1>0, <2>1
<1>3. \A k \in (Len(b) + 1)..(z + 1) : w[k].kind = "other" \/ InFrame(ms, n, l, h, k)
  <2>1. \A k \in (Len(b) + 1)..(z + 1) : k = z + 1 \/ k \in (Len(b) + 1)..z
      BY <1>0
  <2> QED BY <2>1 DEF Frames
<1> QED BY <1>1, <1>2, <1>3 DEF Frames

LEMMA FramesMessage ==
    ASSUME NEW w, NEW b, NEW ms, NEW n, NEW l, NEW z, NEW h, Frames(w, b, ms, n, l, z, h),
           l + 1 <= Len(ms), NEW y, y = z + 1 + Len(Atts(ms[l + 1])), y <= Len(w),
           w[z + 1] = HeadOf(ms[l + 1]),
           \A j \in 1..Len(Atts(ms[l + 1])) : w[(z + 1) + j] = Atts(ms[l + 1])[j]
    PROVE  \E g : Frames(w, b, ms, n, l + 1, y, g)
<1> DEFINE g == [i \in (n + 1)..(l + 1) |-> IF i = l + 1 THEN z + 1 ELSE h[i]]
           a == Atts(ms[l + 1])
<1>0. /\ Len(w) \in Nat /\ Len(b) \in Nat /\ n \in Nat /\ l \in Nat /\ n <= l /\ z \in Nat
      /\ Len(b) <= z /\ w \in Seq(Wire) /\ b \in Seq(Bin) /\ ms \in Seq(Message)
      /\ Len(ms) \in Nat
    BY FramesNat
<1>1. Len(a) \in Nat
  <2>1. ms[l + 1] \in Message
      BY <1>0
  <2> QED BY <2>1, AttsAreBin
<1>2. g[l + 1] = z + 1 /\ \A i \in (n + 1)..l : g[i] = h[i]
  <2>1. l + 1 \in (n + 1)..(l + 1)
        /\ \A i \in (n + 1)..l : i \in (n + 1)..(l + 1) /\ i # l + 1
      BY <1>0
  <2> QED BY <2>1
<1>3. \A i \in (n + 1)..(l + 1) : i = l + 1 \/ (i \in (n + 1)..l /\ i < l + 1)
    BY <1>0
<1>4. y = z + 1 + Len(a) /\ y \in Nat /\ z < y /\ y <= Len(w)
  <2> HIDE DEF a
  <2>1. y = z + 1 + Len(a)
      BY DEF a
  <2> QED BY <1>0, <1>1, <2>1
<1> HIDE DEF g
<1>5. Ends(ms, g, l + 1) = y
    BY <1>2 DEF Ends
<1>6. \A i \in (n + 1)..l :
        /\ Ends(ms, g, i) = Ends(ms, h, i) /\ Ends(ms, h, i) <= z /\ Ends(ms, h, i) \in Nat
  <2>0. \A i \in (n + 1)..l : Ends(ms, h, i) \in Nat
      BY FramesNat
  <2>1. \A i \in (n + 1)..l : Ends(ms, h, i) <= z /\ Ends(ms, h, i) \in Nat
      BY <2>0 DEF Frames
  <2> QED BY <1>2, <2>1 DEF Ends
<1>7. ASSUME NEW i \in (n + 1)..(l + 1)
      PROVE  /\ g[i] \in Nat /\ Len(b) < g[i] /\ Ends(ms, g, i) <= y
             /\ w[g[i]] = HeadOf(ms[i])
             /\ \A j \in 1..Len(Atts(ms[i])) : w[g[i] + j] = Atts(ms[i])[j]
  <2>1. CASE i = l + 1
    <3>1. g[i] \in Nat /\ Len(b) < g[i] /\ Ends(ms, g, i) <= y
        BY <1>0, <1>2, <1>4, <1>5, <2>1
    <3> QED BY <1>2, <2>1, <3>1
  <2>2. CASE i \in (n + 1)..l
    <3>1. /\ h[i] \in Nat /\ Len(b) < h[i] /\ w[h[i]] = HeadOf(ms[i])
          /\ \A j \in 1..Len(Atts(ms[i])) : w[h[i] + j] = Atts(ms[i])[j]
        BY <2>2 DEF Frames
    <3>2. Ends(ms, g, i) <= y
        BY <1>0, <1>4, <1>6, <2>2
    <3> QED BY <1>2, <2>2, <3>1, <3>2
  <2> QED BY <1>3, <2>1, <2>2
<1>8. ASSUME NEW i \in (n + 1)..(l + 1), NEW j \in (n + 1)..(l + 1), i < j
      PROVE  Ends(ms, g, i) < g[j]
  <2>1. i \in (n + 1)..l
      BY <1>0, <1>3, <1>8
  <2>2. CASE j = l + 1
    <3>1. Ends(ms, g, i) <= z /\ Ends(ms, g, i) \in Nat /\ g[j] = z + 1
        BY <1>2, <1>6, <2>1, <2>2
    <3> QED BY <1>0, <3>1
  <2>3. CASE j \in (n + 1)..l
    <3>1. Ends(ms, h, i) < h[j]
        BY <1>8, <2>1, <2>3 DEF Frames
    <3> QED BY <1>2, <1>6, <2>1, <2>3, <3>1
  <2> QED BY <1>3, <2>2, <2>3
<1>9. ASSUME NEW k \in (Len(b) + 1)..y
      PROVE  w[k].kind = "other" \/ InFrame(ms, n, l + 1, g, k)
  <2>1. k \in Nat /\ k <= y /\ (k >= z + 1 \/ k \in (Len(b) + 1)..z)
      BY <1>0, <1>4
  <2>2. CASE k >= z + 1
    <3>1. g[l + 1] <= k /\ k <= Ends(ms, g, l + 1) /\ l + 1 \in (n + 1)..(l + 1)
        BY <1>0, <1>2, <1>5, <2>1, <2>2
    <3> QED BY <3>1 DEF InFrame
  <2>3. CASE k \in (Len(b) + 1)..z
    <3>1. w[k].kind = "other" \/ \E i \in (n + 1)..l : h[i] <= k /\ k <= Ends(ms, h, i)
        BY <2>3 DEF Frames, InFrame
    <3>2. \A i \in (n + 1)..l : i \in (n + 1)..(l + 1)
        BY <1>0
    <3> QED BY <1>2, <1>6, <3>1, <3>2 DEF InFrame
  <2> QED BY <2>1, <2>2, <2>3
<1>10. l + 1 \in n..Len(ms) /\ y \in 0..Len(w) /\ Len(b) <= y
    BY <1>0, <1>4
<1>11. \A j \in 1..Len(b) : w[j] = b[j]
    BY DEF Frames
<1>12. Frames(w, b, ms, n, l + 1, y, g)
    BY <1>0, <1>7, <1>8, <1>9, <1>10, <1>11 DEF Frames
<1> QED BY <1>12

\* The last message is given up: the packets before it are left.
LEMMA FramesTear ==
    ASSUME NEW w, NEW b, NEW ms, NEW n, NEW l, NEW z, NEW h, Frames(w, b, ms, n, l, z, h),
           n < l
    PROVE  h[l] \in Nat /\ h[l] + Len(Atts(ms[l])) <= z /\ Frames(w, b, ms, n, l - 1, h[l] - 1, h)
<1>0. /\ Len(w) \in Nat /\ Len(b) \in Nat /\ n \in Nat /\ l \in Nat /\ l <= Len(ms) /\ z \in Nat
      /\ Len(ms) \in Nat /\ z <= Len(w)
    BY FramesNat
<1>1. l \in (n + 1)..l /\ l - 1 \in n..Len(ms) /\ \A i \in (n + 1)..(l - 1) : i \in (n + 1)..l /\ i < l
    BY <1>0
<1>2. /\ h[l] \in Nat /\ h[l] >= 1 /\ Len(Atts(ms[l])) \in Nat
      /\ Ends(ms, h, l) = h[l] + Len(Atts(ms[l]))
    BY <1>1, FramesNat
<1>3. Ends(ms, h, l) <= z /\ Len(b) < h[l]
    BY <1>1 DEF Frames
<1>4. h[l] - 1 \in 0..Len(w) /\ Len(b) <= h[l] - 1 /\ h[l] - 1 <= z
    BY <1>0, <1>2, <1>3
<1>5. \A i \in (n + 1)..(l - 1) : Ends(ms, h, i) <= h[l] - 1
  <2>0. \A i \in (n + 1)..(l - 1) : Ends(ms, h, i) \in Nat
      BY <1>1, FramesNat
  <2>1. \A i \in (n + 1)..(l - 1) : Ends(ms, h, i) < h[l] /\ Ends(ms, h, i) \in Nat
      BY <1>1, <2>0 DEF Frames
  <2> QED BY <1>2, <2>1
<1>6. ASSUME NEW k \in (Len(b) + 1)..(h[l] - 1)
      PROVE  w[k].kind = "other" \/ InFrame(ms, n, l - 1, h, k)
  <2>1. k \in (Len(b) + 1)..z /\ k < h[l]
      BY <1>0, <1>2, <1>4
  <2>2. w[k].kind = "other" \/ \E i \in (n + 1)..l : h[i] <= k /\ k <= Ends(ms, h, i)
      BY <2>1 DEF Frames, InFrame
  <2>3. ASSUME NEW i \in (n + 1)..l, h[i] <= k PROVE i \in (n + 1)..(l - 1)
    <3>1. i # l
        BY <1>2, <2>1, <2>3
    <3> QED BY <1>0, <3>1
  <2> QED BY <2>2, <2>3 DEF InFrame
<1>7. Frames(w, b, ms, n, l - 1, h[l] - 1, h)
    BY <1>1, <1>4, <1>5, <1>6 DEF Frames
<1> QED BY <1>2, <1>3, <1>7

-----------------------------------------------------------------------------
(* What was handed over *)

\* The messages for this socket among the first d have been handed over.
Received(g, ms, d) ==
    /\ g \in Seq({Promise(m) : m \in Message}) /\ Len(g) = Rank(MineAt(ms), d)
    /\ \A j \in 1..Len(g) : g[j] = Promise(Selected(ms, MineAt(ms))[j])

LEMMA MineIsNat ==
    ASSUME NEW ms \in Seq(Message)
    PROVE  MineAt(ms) \in SUBSET Nat /\ MineAt(ms) \cap DOMAIN ms = MineAt(ms)
BY DEF MineAt

LEMMA ReceivedSend ==
    ASSUME NEW ms \in Seq(Message), NEW m \in Message, NEW d \in 0..Len(ms), NEW g,
           Received(g, ms, d)
    PROVE  Received(g, Append(ms, m), d)
<1> DEFINE ns == Append(ms, m)
           K == MineAt(ms)
           L == MineAt(ns)
<1>0. /\ Len(ms) \in Nat /\ DOMAIN ms = 1..Len(ms) /\ ns \in Seq(Message)
      /\ DOMAIN ns = 1..(Len(ms) + 1) /\ \A k \in 1..Len(ms) : ns[k] = ms[k]
    OBVIOUS
<1>1. \A k \in 1..Len(ms) : k \in L <=> k \in K
  <2> HIDE DEF ns
  <2>1. \A k \in 1..Len(ms) : k \in DOMAIN ns /\ k \in DOMAIN ms
      BY <1>0
  <2> QED BY <1>0, <2>1 DEF MineAt
<1>2. K \in SUBSET Nat /\ L \in SUBSET Nat
    BY <1>0, MineIsNat
<1> HIDE DEF K, L
<1>3. /\ \A x \in 0..Len(ms) : Rank(L, x) = Rank(K, x)
      /\ \A j \in 1..Len(Selected(ms, K)) : Selected(ns, L)[j] = Selected(ms, K)[j]
    BY <1>1, <1>2, SelectedAppend
<1>4. /\ g \in Seq({Promise(x) : x \in Message}) /\ Len(g) = Rank(K, d)
      /\ \A j \in 1..Len(g) : g[j] = Promise(Selected(ms, K)[j])
    BY DEF Received, K
<1>5. Len(g) <= Len(Selected(ms, K)) /\ Len(g) \in Nat /\ Len(Selected(ms, K)) \in Nat
  <2>1. Rank(K, d) <= Rank(K, Len(ms)) /\ Rank(K, d) \in Nat
      BY <1>0, RankGrows, RankStep
  <2>2. Len(Selected(ms, K)) = Rank(K, Len(ms)) /\ Rank(K, Len(ms)) \in Nat
      BY <1>2, SelectedSpec
  <2> QED BY <1>4, <2>1, <2>2
<1>6. \A j \in 1..Len(g) : j \in 1..Len(Selected(ms, K))
    BY <1>5
<1>7. /\ Len(g) = Rank(L, d) /\ \A j \in 1..Len(g) : g[j] = Promise(Selected(ns, L)[j])
    BY <1>3, <1>4, <1>6
<1> QED BY <1>4, <1>7 DEF Received, L

LEMMA ReceivedNext ==
    ASSUME NEW ms \in Seq(Message), NEW d \in Nat, d + 1 <= Len(ms), NEW g, Received(g, ms, d)
    PROVE  Received(IF ms[d + 1].nsp = Nsp THEN Append(g, Promise(ms[d + 1])) ELSE g,
                    ms, d + 1)
<1> DEFINE K == MineAt(ms)
           P == {Promise(m) : m \in Message}
           m1 == ms[d + 1]
<1>0. Len(ms) \in Nat /\ d + 1 \in 1..Len(ms) /\ d + 1 \in DOMAIN ms /\ m1 \in Message
    OBVIOUS
<1>1. K \in SUBSET Nat /\ (d + 1 \in K <=> m1.nsp = Nsp)
  <2>1. K \in SUBSET Nat
      BY MineIsNat
  <2>2. d + 1 \in K <=> m1.nsp = Nsp
      BY <1>0 DEF MineAt
  <2> QED BY <2>1, <2>2
<1>2. /\ g \in Seq(P) /\ Len(g) = Rank(K, d)
      /\ \A j \in 1..Len(g) : g[j] = Promise(Selected(ms, K)[j])
    BY DEF Received
<1>3. /\ Rank(K, d) \in Nat
      /\ Rank(K, d + 1) = IF d + 1 \in K THEN Rank(K, d) + 1 ELSE Rank(K, d)
    BY RankStep
<1>4. Promise(m1) \in P
    BY <1>0
<1> HIDE DEF K, P
<1>5. CASE m1.nsp = Nsp
  <2> DEFINE g2 == Append(g, Promise(m1))
  <2>1. d + 1 \in K \cap DOMAIN ms /\ Rank(K, d + 1) = Len(g) + 1
      BY <1>0, <1>1, <1>2, <1>3, <1>5
  <2>2. Selected(ms, K)[Rank(K, d + 1)] = m1
      BY <1>1, <2>1, SelectedSpec
  <2> HIDE DEF m1
  <2>3. /\ g2 \in Seq(P) /\ Len(g2) = Len(g) + 1 /\ g2[Len(g) + 1] = Promise(m1)
        /\ \A j \in 1..Len(g) : g2[j] = g[j]
      BY <1>2, <1>4
  <2> HIDE DEF g2
  <2>4. \A j \in 1..Len(g2) : j = Len(g) + 1 \/ j \in 1..Len(g)
      BY <1>2, <1>3, <2>3
  <2>5. \A j \in 1..Len(g2) : g2[j] = Promise(Selected(ms, K)[j])
      BY <1>2, <2>1, <2>2, <2>3, <2>4
  <2>6. Received(g2, ms, d + 1)
      BY <2>1, <2>3, <2>5 DEF Received, K, P
  <2> QED BY <1>5, <2>6 DEF g2, m1
<1>6. CASE m1.nsp # Nsp
  <2>1. Rank(K, d + 1) = Len(g)
      BY <1>1, <1>2, <1>3, <1>6
  <2>2. Received(g, ms, d + 1)
      BY <1>2, <2>1 DEF Received, K, P
  <2> QED BY <1>6, <2>2
<1> QED BY <1>5, <1>6

\* What is selected among the first l elements is what is selected first.
LEMMA SelectedPrefix ==
    ASSUME NEW S, NEW s \in Seq(S), NEW K \in SUBSET Nat, NEW l \in 0..Len(s)
    PROVE  /\ Len(Selected(s, K \cap 1..l)) = Rank(K, l) /\ Rank(K, l) \in Nat
           /\ Selected(s, K \cap 1..l) \in Seq(S)
           /\ \A j \in 1..Rank(K, l) : Selected(s, K \cap 1..l)[j] = Selected(s, K)[j]
<1> DEFINE L == K \cap 1..l
<1>0. Len(s) \in Nat /\ DOMAIN s = 1..Len(s) /\ l \in Nat /\ l <= Len(s) /\ L \in SUBSET Nat
    OBVIOUS
<1>1. /\ Selected(s, L) \in Seq({s[k] : k \in L \cap DOMAIN s})
      /\ Len(Selected(s, L)) = Rank(L, Len(s))
      /\ \A k \in L \cap DOMAIN s : Selected(s, L)[Rank(L, k)] = s[k]
  <2>1. L \in SUBSET Nat /\ s \in Seq(S)
      BY <1>0
  <2> HIDE DEF L
  <2> QED BY ONLY <2>1, SelectedSpec
<1>2. Rank(L, Len(s)) = Rank(K, l)
  <2>1. L \cap 1..Len(s) = K \cap 1..l
      BY <1>0
  <2> QED BY <2>1 DEF Rank
<1>3. ASSUME NEW j \in 1..Rank(K, l) PROVE Selected(s, L)[j] = Selected(s, K)[j]
  <2>1. PICK k \in K \cap 1..l : Rank(K, k) = j
      BY <1>0, RankReached
  <2>2. L \cap 1..k = K \cap 1..k /\ k \in L \cap DOMAIN s /\ k \in K \cap DOMAIN s
      BY <1>0
  <2>3. Rank(L, k) = Rank(K, k)
      BY <2>2 DEF Rank
  <2>4. Selected(s, K)[Rank(K, k)] = s[k]
      BY <2>2, SelectedSpec
  <2>5. Selected(s, L)[Rank(L, k)] = s[k]
      BY <1>1, <2>2
  <2> QED BY <2>1, <2>3, <2>4, <2>5
<1>4. Selected(s, L) \in Seq(S)
  <2>1. {s[k] : k \in L \cap DOMAIN s} \subseteq S
      BY <1>0
  <2> QED BY <1>1, <2>1
<1>5. Rank(K, l) \in Nat
    BY <1>0, RankStep
<1> QED BY <1>1, <1>2, <1>3, <1>4, <1>5

-----------------------------------------------------------------------------
(* The inductive invariant *)

\* What every message leaves on the wire and in the receiver, also one that is not intact.
Waits(q) == \/ q = Absent
            \/ \E p, a : /\ q = Present([packet |-> p, atts |-> a])
                         /\ p.count \in Nat /\ a \in Seq(Wire) /\ Len(a) < p.count
Calls(g, c) == (\E S : g \in Seq(S)) /\ c \subseteq 1..Len(g)
InEmit(d, ms) == d \in Seq(Bin) /\ (d # <<>> => ms # <<>> /\ Len(d) <= Len(Atts(ms[Len(ms)])))
Shape ==
    /\ wire \in Seq(Wire) /\ pings \in 0..MaxPing /\ ended \in BOOLEAN
    /\ rx \in {"live", "deaf", "over", "ended", "panicked"} /\ sent \in Seq(Message)
    /\ heads \in Nat /\ broken \subseteq Nat
    /\ Waits(partial) /\ Calls(got, called) /\ InEmit(sending, sent)

\* The messages for this socket among the first x have been handed over, and perhaps more.
Handed(g, ms, x) ==
    /\ Rank(MineAt(ms), x) <= Len(g)
    /\ \A j \in 1..Rank(MineAt(ms), x) : g[j] = Promise(Selected(ms, MineAt(ms))[j])

\* Behind the first message that is not intact, all before it having been handed over.
Past == \E x \in Nat : x < Len(sent) /\ Intact \subseteq 1..x /\ Handed(got, sent, x)

\* The receiver has taken the packets of n messages, and lacks the attachments b of the last.
Reading(n, b) ==
    /\ n \in 0..Len(sent) /\ heads = n /\ b \in Seq(Bin)
    /\ \/ b = <<>> /\ partial = Absent /\ Received(got, sent, n)
       \/ /\ b # <<>> /\ n # 0 /\ Received(got, sent, n - 1)
          /\ \E a \in Seq(Bin) :
               /\ Atts(sent[n]) = a \o b
               /\ partial = Present([packet |-> PacketOf(sent[n]), atts |-> a])

\* What is on the wire w and still to be sent: the attachments b and whole messages, either
\* up to the end or up to a message that is not intact.
Clean(w, n, b) ==
    \E l, z, h :
        /\ Frames(w \o sending, b, sent, n, l, z, h)
        /\ Intact \subseteq 1..l /\ \A i \in 1..l : Fit(sent[i])
        /\ IF l = Len(sent) THEN z = Len(w \o sending) ELSE z <= Len(w)

\* What comes next is what the receiver expects, until it is past a message that is not
\* intact.
InOrder == \/ Past
           \/ \E n, b : /\ Reading(n, b)
                        /\ IF ended THEN wire = <<>>
                           ELSE rx \in {"live", "deaf"} /\ Clean(wire, n, b)

IInv == Shape /\ InOrder

LEMMA ShapeInit == Init => Shape
<1> SUFFICES ASSUME Init PROVE Shape
    OBVIOUS
<1>1. wire \in Seq(Wire) /\ sent \in Seq(Message) /\ InEmit(sending, sent)
    BY DEF Init, InEmit
<1>2. pings \in 0..MaxPing
    BY BoundAssumption DEF Init
<1>3. /\ ended \in BOOLEAN /\ rx \in {"live", "deaf", "over", "ended", "panicked"}
      /\ Waits(partial) /\ heads \in Nat /\ broken \subseteq Nat
    BY DEF Init, Waits
<1>4. Calls(got, called)
  <2>1. got \in Seq({}) /\ called = {}
      BY DEF Init
  <2> QED BY <2>1 DEF Calls
<1> QED BY <1>1, <1>2, <1>3, <1>4 DEF Shape

\* The packet in the receiver, one more attachment included.
LEMMA WaitsFor ==
    ASSUME Shape, partial # Absent, NEW kinds, Take(kinds)
    PROVE  LET p == partial[1].packet
               a == Append(partial[1].atts, Head(wire))
           IN  p.count \in Nat /\ a \in Seq(Wire) /\ (Len(a) # p.count => Len(a) < p.count)
<1>1. PICK p, a : /\ partial = Present([packet |-> p, atts |-> a])
                  /\ p.count \in Nat /\ a \in Seq(Wire) /\ Len(a) < p.count
    BY DEF Shape, Waits
<1>2. partial[1].packet = p /\ partial[1].atts = a
    BY <1>1 DEF Present
<1>3. Head(wire) \in Wire
  <2>1. wire \in Seq(Wire) /\ wire # <<>>
      BY DEF Shape, Take
  <2> QED BY <2>1
<1>4. Append(a, Head(wire)) \in Seq(Wire) /\ Len(Append(a, Head(wire))) = Len(a) + 1
    BY <1>1, <1>3
<1>5. Len(a) \in Nat
    BY <1>1
<1>6. Len(a) + 1 # p.count => Len(a) + 1 < p.count
    BY <1>1, <1>5
<1> QED BY <1>1, <1>2, <1>4, <1>6

LEMMA TakesOff ==
    ASSUME Shape, NEW kinds, Take(kinds)
    PROVE  /\ wire' \in Seq(Wire) /\ Head(wire) \in Wire /\ Head(wire).kind \in kinds
           /\ wire # <<>> /\ wire' = Tail(wire) /\ rx = "live" /\ heads' \in Nat
<1>1. wire \in Seq(Wire) /\ wire # <<>> /\ wire' = Tail(wire) /\ Head(wire).kind \in kinds
      /\ rx = "live" /\ heads' \in Nat
    BY DEF Shape, Take
<1> QED BY <1>1

\* Handing something over.
LEMMA CallsMore ==
    ASSUME Calls(got, called), NEW p, NEW a, Deliver(p, a)
    PROVE  Calls(got', called')
<1>1. PICK S : got \in Seq(S)
    BY DEF Calls
<1>2. CASE UNCHANGED <<got, called>>
    BY <1>2
<1>3. ASSUME NEW y, got' = Append(got, y), called' \subseteq called \cup {Len(got) + 1}
      PROVE  Calls(got', called')
  <2> DEFINE T == S \cup {y}
  <2>1. got \in Seq(T) /\ y \in T /\ Len(got) \in Nat
      BY <1>1
  <2> HIDE DEF T
  <2>2. got' \in Seq(T) /\ Len(got') = Len(got) + 1
      BY <1>3, <2>1
  <2>3. called \subseteq 1..Len(got)
      BY DEF Calls
  <2>4. called' \subseteq 1..Len(got')
      BY <1>3, <2>1, <2>2, <2>3
  <2> QED BY <2>2, <2>4 DEF Calls
<1> QED BY <1>2, <1>3 DEF Deliver

LEMMA ShapeStep == Shape /\ [Next]_vars => Shape'
<1> SUFFICES ASSUME Shape, [Next]_vars PROVE Shape'
    OBVIOUS
<1> USE DEF sender, receiver
<1>0. /\ wire \in Seq(Wire) /\ pings \in 0..MaxPing /\ ended \in BOOLEAN
      /\ rx \in {"live", "deaf", "over", "ended", "panicked"} /\ sent \in Seq(Message)
      /\ heads \in Nat /\ broken \subseteq Nat
      /\ Waits(partial) /\ Calls(got, called) /\ InEmit(sending, sent)
      /\ sending \in Seq(Bin) /\ Bin \subseteq Wire /\ Len(sent) \in Nat
    BY DEF Shape, InEmit, Wire
<1>1. ASSUME NEW m \in Message, Send(m) PROVE Shape'
  <2>1. wire' = Append(wire, HeadOf(m)) /\ sending' = Atts(m) /\ sent' = Append(sent, m)
        /\ UNCHANGED <<pings, ended, rx, partial, got, called, heads, broken>>
      BY <1>1 DEF Send, HeadOf, Atts
  <2>2. wire' \in Seq(Wire) /\ sent' \in Seq(Message)
      BY <1>0, <2>1, WireKinds
  <2>3. sent' # <<>> /\ sent'[Len(sent')] = m
      BY <1>0, <2>1
  <2>4. InEmit(sending', sent')
      BY <2>1, <2>3, AttsAreBin DEF InEmit
  <2> QED BY <1>0, <2>1, <2>2, <2>4 DEF Shape
<1>2. CASE SendAttachment
  <2>1. /\ sending # <<>> /\ wire' = Append(wire, Head(sending)) /\ sending' = Tail(sending)
        /\ UNCHANGED <<pings, ended, rx, partial, got, called, heads, broken, sent>>
      BY <1>2 DEF SendAttachment
  <2>2. Head(sending) \in Bin /\ Tail(sending) \in Seq(Bin) /\ Len(Tail(sending)) < Len(sending)
      BY <1>0, <2>1
  <2>3. wire' \in Seq(Wire)
      BY <1>0, <2>1, <2>2
  <2>4. InEmit(sending', sent')
    <3>1. sent # <<>> /\ Len(sending) <= Len(Atts(sent[Len(sent)]))
        BY <1>0, <2>1 DEF InEmit
    <3>2. sent[Len(sent)] \in Message
        BY <1>0, <3>1
    <3>3. Len(Atts(sent[Len(sent)])) \in Nat /\ Len(sending) \in Nat /\ Len(Tail(sending)) \in Nat
        BY <1>0, <2>2, <3>2, AttsAreBin
    <3>4. Len(Tail(sending)) <= Len(Atts(sent[Len(sent)]))
        BY <2>2, <3>1, <3>3
    <3> QED BY <2>1, <2>2, <3>1, <3>4 DEF InEmit
  <2> QED BY <1>0, <2>1, <2>3, <2>4 DEF Shape
<1>3. CASE SendFails
  <2>1. /\ sending' = <<>> /\ broken' = broken \cup {Len(sent)}
        /\ UNCHANGED <<wire, pings, ended, rx, partial, got, called, heads, sent>>
      BY <1>3 DEF SendFails
  <2>2. InEmit(sending', sent')
      BY <2>1 DEF InEmit
  <2>3. broken' \subseteq Nat
      BY <1>0, <2>1
  <2> QED BY <1>0, <2>1, <2>2, <2>3 DEF Shape
<1>4. CASE EnginePacket
  <2>1. wire' = Append(wire, Other) /\ pings < MaxPing /\ pings' = pings + 1
        /\ UNCHANGED <<ended, rx, partial, got, called, heads, sent, sending, broken>>
      BY <1>4 DEF EnginePacket, Other
  <2>2. wire' \in Seq(Wire)
      BY <1>0, <2>1, WireKinds
  <2>3. pings' \in 0..MaxPing
      BY <1>0, <2>1, BoundAssumption
  <2> QED BY <1>0, <2>1, <2>2, <2>3 DEF Shape
<1>5. CASE Lost
  <2>1. wire' = <<>> /\ ended' = TRUE /\ sending' = <<>>
        /\ UNCHANGED <<pings, rx, partial, got, called, heads, sent, broken>>
      BY <1>5 DEF Lost
  <2>2. InEmit(sending', sent')
      BY <2>1 DEF InEmit
  <2> QED BY <1>0, <2>1, <2>2 DEF Shape
<1>6. CASE SkipOther
  <2>1. wire' \in Seq(Wire) /\ heads' \in Nat
        /\ UNCHANGED <<pings, ended, sending, sent, rx, partial, got, called, broken>>
      BY <1>6, TakesOff DEF SkipOther
  <2> QED BY <1>0, <2>1 DEF Shape
<1>7. CASE TakePacket
  <2> DEFINE p == Decode(Head(wire).val)
  <2>1. wire' \in Seq(Wire) /\ Head(wire) \in Wire /\ Head(wire).kind = "head" /\ heads' \in Nat
      BY <1>7, TakesOff DEF TakePacket
  <2>2. PICK m \in Message : Head(wire) = HeadOf(m)
      BY <2>1, WireKinds
  <2>3. p = PacketOf(m) /\ p.count \in Nat
      BY <2>2, Payloads DEF HeadOf, PacketOf
  <2>4. /\ UNCHANGED <<pings, ended, sending, sent, rx, broken>>
        /\ IF p.count = 0 THEN Deliver(p, <<>>) /\ partial' = partial
           ELSE /\ partial' = Present([packet |-> p, atts |-> <<>>])
                /\ UNCHANGED <<got, called>>
      BY <1>7 DEF TakePacket
  <2> HIDE DEF p
  <2>5. CASE p.count = 0
    <3>1. Calls(got', called') /\ Waits(partial')
        BY <1>0, <2>4, <2>5, CallsMore
    <3> QED BY <1>0, <2>1, <2>4, <3>1 DEF Shape
  <2>6. CASE p.count # 0
    <3>1. <<>> \in Seq(Wire) /\ Len(<<>>) < p.count
        BY <2>3, <2>6
    <3>2. Calls(got', called') /\ Waits(partial')
        BY <1>0, <2>3, <2>4, <2>6, <3>1 DEF Waits
    <3> QED BY <1>0, <2>1, <2>4, <3>2 DEF Shape
  <2> QED BY <2>5, <2>6
<1>8. CASE TakeAttachment
  <2> DEFINE p == partial[1].packet
             a == Append(partial[1].atts, Head(wire))
  <2>1. partial # Absent /\ Take({"head", "bin"})
      BY <1>8 DEF TakeAttachment
  <2>2. wire' \in Seq(Wire) /\ heads' \in Nat
      BY <2>1, TakesOff
  <2>3. p.count \in Nat /\ a \in Seq(Wire) /\ (Len(a) # p.count => Len(a) < p.count)
      BY <2>1, WaitsFor
  <2>4. /\ UNCHANGED <<pings, ended, sending, sent, rx, broken>>
        /\ IF Len(a) = p.count THEN partial' = Absent /\ Deliver(p, a)
           ELSE partial' = Present([packet |-> p, atts |-> a]) /\ UNCHANGED <<got, called>>
      BY <1>8 DEF TakeAttachment
  <2> HIDE DEF p, a
  <2>5. Waits(partial')
      BY <2>3, <2>4 DEF Waits
  <2>6. Calls(got', called')
      BY <1>0, <2>4, CallsMore
  <2> QED BY <1>0, <2>2, <2>4, <2>5, <2>6 DEF Shape
<1>9. CASE TakeError
  <2>1. wire' \in Seq(Wire) /\ heads' \in Nat /\ rx' = "over"
        /\ UNCHANGED <<pings, ended, sending, sent, partial, got, called, broken>>
      BY <1>9, TakesOff DEF TakeError
  <2> QED BY <1>0, <2>1 DEF Shape
<1>10. CASE PollDrops
  <2>1. wire' \in Seq(Wire) /\ heads' \in Nat /\ rx' \in {"live", "deaf"}
        /\ broken' \subseteq broken \cup {heads'}
        /\ UNCHANGED <<pings, ended, sending, sent, partial, got, called>>
      BY <1>10, TakesOff DEF PollDrops
  <2>2. broken' \subseteq Nat
      BY <1>0, <2>1
  <2> QED BY <1>0, <2>1, <2>2 DEF Shape
<1>11. CASE StreamEnds
  <2>1. /\ rx' \in {"live", "deaf", "over", "ended", "panicked"}
        /\ UNCHANGED <<wire, pings, ended, sending, sent, partial, got, called, heads, broken>>
      BY <1>11 DEF StreamEnds
  <2> QED BY <1>0, <2>1 DEF Shape
<1>12. ASSUME NEW k \in DOMAIN got, CallbackRuns(k) PROVE Shape'
  <2>1. /\ called' = called \cup {k}
        /\ UNCHANGED <<wire, pings, ended, sending, sent, rx, partial, got, heads, broken>>
      BY <1>12 DEF CallbackRuns
  <2>2. Calls(got', called')
    <3>1. k \in 1..Len(got)
        BY <1>0 DEF Calls
    <3> QED BY <1>0, <2>1, <3>1 DEF Calls
  <2> QED BY <1>0, <2>1, <2>2 DEF Shape
<1>13. CASE UNCHANGED vars
    BY <1>0, <1>13 DEF vars, Shape
<1> QED BY <1>1, <1>2, <1>3, <1>4, <1>5, <1>6, <1>7, <1>8, <1>9, <1>10, <1>11, <1>12, <1>13
        DEF Next, Receive

LEMMA ShapeIsTypeOK == Shape => TypeOK
<1> SUFFICES ASSUME Shape PROVE TypeOK
    OBVIOUS
<1>1. \A k \in DOMAIN wire : wire[k].kind \in {"head", "bin", "other"}
  <2>1. wire \in Seq(Wire) /\ \A x \in Wire : x.kind \in {"head", "bin", "other"}
      BY DEF Shape, Wire, Bin, HeadOf, Other
  <2> QED BY <2>1
<1>2. partial # Absent => Len(partial[1].atts) < partial[1].packet.count
  <2> SUFFICES ASSUME partial # Absent
               PROVE  Len(partial[1].atts) < partial[1].packet.count
      OBVIOUS
  <2>1. PICK p, a : partial = Present([packet |-> p, atts |-> a]) /\ Len(a) < p.count
      BY DEF Shape, Waits
  <2>2. partial[1].packet = p /\ partial[1].atts = a
      BY <2>1 DEF Present
  <2> QED BY <2>1, <2>2
<1>3. \A k \in DOMAIN sending : sending[k].kind = "bin"
  <2>1. sending \in Seq(Bin) /\ \A x \in Bin : x.kind = "bin"
      BY DEF Shape, InEmit, Bin
  <2> QED BY <2>1
<1>4. called \subseteq DOMAIN got
  <2>1. PICK S : got \in Seq(S)
      BY DEF Shape, Calls
  <2>2. DOMAIN got = 1..Len(got)
      BY <2>1
  <2> QED BY <2>2 DEF Shape, Calls
<1> QED BY <1>1, <1>2, <1>3, <1>4 DEF Shape, TypeOK

-----------------------------------------------------------------------------
(* Intact messages *)

LEMMA IntactIsPrefix == Shape => \E l \in 0..Len(sent) : Intact = 1..l
<1> SUFFICES ASSUME Shape PROVE \E l \in 0..Len(sent) : Intact = 1..l
    OBVIOUS
<1>0. sent \in Seq(Message) /\ Len(sent) \in Nat /\ DOMAIN sent = 1..Len(sent)
  <2>1. sent \in Seq(Message)
      BY DEF Shape
  <2> QED BY <2>1
<1> DEFINE T == {k \in 1..Len(sent) : ~(Fit(sent[k]) /\ k \notin broken)}
<1>1. \A k : k \in Intact <=> k \in 1..Len(sent) /\ \A i \in 1..k : i \notin T
  <2>1. ASSUME NEW k PROVE k \in Intact <=> k \in 1..Len(sent) /\ \A i \in 1..k : i \notin T
    <3>1. CASE k \notin 1..Len(sent)
        BY <1>0, <3>1 DEF Intact
    <3>2. CASE k \in 1..Len(sent)
      <4>1. \A i \in 1..k : i \in 1..Len(sent)
          BY <1>0, <3>2
      <4> QED BY <1>0, <3>2, <4>1 DEF Intact
    <3> QED BY <3>1, <3>2
  <2> QED BY <2>1
<1>2. CASE T = {}
  <2>1. Intact = 1..Len(sent)
    <3> HIDE DEF T
    <3> QED BY <1>1, <1>2
  <2>2. Len(sent) \in 0..Len(sent)
      BY <1>0
  <2> QED BY <2>1, <2>2
<1>3. CASE T # {}
  <2>1. T \subseteq Nat /\ \A k \in T : k \in 1..Len(sent)
      BY <1>0
  <2> HIDE DEF T
  <2>2. PICK x \in T : \A y \in T : x <= y
      BY <1>3, <2>1, Least
  <2>3. x \in 1..Len(sent) /\ x - 1 \in 0..Len(sent)
      BY <1>0, <2>1, <2>2
  <2>4. ASSUME NEW k PROVE k \in Intact <=> k \in 1..(x - 1)
    <3>1. CASE k \notin 1..Len(sent)
        BY <1>0, <1>1, <2>3, <3>1
    <3>2. CASE k \in 1..Len(sent) /\ k < x
      <4>1. \A i \in 1..k : i \notin T
          BY <1>0, <2>2, <2>3, <3>2
      <4> QED BY <1>0, <1>1, <2>3, <3>2, <4>1
    <3>3. CASE k \in 1..Len(sent) /\ ~(k < x)
      <4>1. x \in 1..k
          BY <1>0, <2>3, <3>3
      <4>2. k \notin Intact
          BY <1>1, <2>2, <4>1
      <4>3. k \notin 1..(x - 1)
          BY <1>0, <2>3, <3>3
      <4> QED BY <4>2, <4>3
    <3> QED BY <3>1, <3>2, <3>3
  <2> QED BY <2>3, <2>4
<1> QED BY <1>2, <1>3

LEMMA IntactShrinks ==
    ASSUME sent' = sent, broken \subseteq broken'
    PROVE  Intact' \subseteq Intact
BY DEF Intact

\* A message behind one that is not intact, or that does not fit, adds nothing.
LEMMA IntactSend ==
    ASSUME Shape, NEW m \in Message, sent' = Append(sent, m), broken' = broken,
           NEW l \in Nat, Intact \subseteq 1..l, l <= Len(sent), l < Len(sent) \/ ~Fit(m)
    PROVE  Intact' \subseteq 1..l
<1>0. /\ sent \in Seq(Message) /\ Len(sent) \in Nat /\ DOMAIN sent = 1..Len(sent)
      /\ DOMAIN sent' = 1..(Len(sent) + 1) /\ sent'[Len(sent) + 1] = m
      /\ \A i \in 1..Len(sent) : sent'[i] = sent[i]
  <2>1. sent \in Seq(Message)
      BY DEF Shape
  <2> QED BY <2>1
<1>1. ASSUME NEW k \in Intact', k \in 1..Len(sent) PROVE k \in Intact
  <2>1. \A i \in 1..k : i \in 1..Len(sent) /\ Fit(sent'[i]) /\ i \notin broken
      BY <1>0, <1>1 DEF Intact
  <2> QED BY <1>0, <1>1, <2>1 DEF Intact
<1>2. ASSUME NEW k \in Intact' PROVE k \in 1..l
  <2>1. k \in 1..(Len(sent) + 1) /\ \A i \in 1..k : Fit(sent'[i]) /\ i \notin broken
      BY <1>0 DEF Intact
  <2>2. k # Len(sent) + 1
    <3> SUFFICES ASSUME k = Len(sent) + 1 PROVE FALSE
        OBVIOUS
    <3>1. Fit(m)
        BY <1>0, <2>1
    <3>2. Len(sent) \in 1..k /\ Len(sent) \in 1..Len(sent) /\ l < Len(sent)
        BY <1>0, <3>1
    <3>3. \A i \in 1..Len(sent) : i \in 1..k
        BY <1>0
    <3>4. Len(sent) \in Intact
        BY <1>0, <2>1, <3>2, <3>3 DEF Intact
    <3> QED BY <1>0, <3>2, <3>4
  <2>3. k \in 1..Len(sent)
      BY <1>0, <2>1, <2>2
  <2> QED BY <1>1, <2>3
<1> QED BY <1>2

-----------------------------------------------------------------------------
(* Past a message that is not intact *)

LEMMA HandedFromReceived ==
    ASSUME NEW ms \in Seq(Message), NEW g, NEW d \in Nat, Received(g, ms, d), NEW x \in Nat, x <= d
    PROVE  Handed(g, ms, x)
<1> DEFINE K == MineAt(ms)
<1>1. Len(g) = Rank(K, d) /\ \A j \in 1..Len(g) : g[j] = Promise(Selected(ms, K)[j])
    BY DEF Received
<1>2. Rank(K, x) <= Rank(K, d) /\ Rank(K, x) \in Nat /\ Rank(K, d) \in Nat
    BY RankGrows, RankStep
<1> HIDE DEF K
<1>3. Rank(K, x) <= Len(g) /\ \A j \in 1..Rank(K, x) : j \in 1..Len(g)
    BY <1>1, <1>2
<1> QED BY <1>1, <1>3 DEF Handed, K

LEMMA HandedMore ==
    ASSUME NEW g, NEW S, g \in Seq(S), NEW ms, NEW x \in Nat, Handed(g, ms, x), NEW y
    PROVE  Handed(Append(g, y), ms, x)
<1> DEFINE T == S \cup {y}
           f == Append(g, y)
<1>1. g \in Seq(T) /\ y \in T /\ Len(g) \in Nat
    OBVIOUS
<1> HIDE DEF T
<1>2. Len(f) = Len(g) + 1 /\ \A j \in 1..Len(g) : f[j] = g[j]
    BY <1>1
<1> DEFINE r == Rank(MineAt(ms), x)
<1>3. r \in Nat
    BY RankStep
<1>4. r <= Len(g) /\ \A j \in 1..r : g[j] = Promise(Selected(ms, MineAt(ms))[j])
    BY DEF Handed
<1> HIDE DEF r, f
<1>5. r <= Len(f) /\ \A j \in 1..r : f[j] = g[j]
    BY <1>1, <1>2, <1>3, <1>4
<1> QED BY <1>4, <1>5 DEF Handed, r, f

LEMMA HandedSend ==
    ASSUME NEW g, NEW ms \in Seq(Message), NEW m \in Message, NEW x \in 0..Len(ms),
           Handed(g, ms, x)
    PROVE  Handed(g, Append(ms, m), x)
<1> DEFINE ns == Append(ms, m)
           K == MineAt(ms)
           L == MineAt(ns)
<1>0. /\ Len(ms) \in Nat /\ DOMAIN ms = 1..Len(ms) /\ ns \in Seq(Message)
      /\ DOMAIN ns = 1..(Len(ms) + 1) /\ \A k \in 1..Len(ms) : ns[k] = ms[k]
    OBVIOUS
<1>1. \A k \in 1..Len(ms) : k \in L <=> k \in K
  <2> HIDE DEF ns
  <2>1. \A k \in 1..Len(ms) : k \in DOMAIN ns /\ k \in DOMAIN ms
      BY <1>0
  <2> QED BY <1>0, <2>1 DEF MineAt
<1>2. K \in SUBSET Nat /\ L \in SUBSET Nat
    BY <1>0, MineIsNat
<1> HIDE DEF K, L
<1>3. /\ \A d \in 0..Len(ms) : Rank(L, d) = Rank(K, d)
      /\ \A j \in 1..Len(Selected(ms, K)) : Selected(ns, L)[j] = Selected(ms, K)[j]
    BY <1>1, <1>2, SelectedAppend
<1>4. Rank(K, x) <= Len(g) /\ \A j \in 1..Rank(K, x) : g[j] = Promise(Selected(ms, K)[j])
    BY DEF Handed, K
<1>5. \A j \in 1..Rank(K, x) : j \in 1..Len(Selected(ms, K))
  <2>1. Rank(K, x) <= Rank(K, Len(ms)) /\ Rank(K, x) \in Nat
      BY <1>0, RankGrows, RankStep
  <2>2. Len(Selected(ms, K)) = Rank(K, Len(ms)) /\ Rank(K, Len(ms)) \in Nat
      BY <1>2, SelectedSpec
  <2> QED BY <2>1, <2>2
<1>6. Rank(L, x) = Rank(K, x)
    BY <1>3
<1> QED BY <1>3, <1>4, <1>5, <1>6 DEF Handed, L

\* Nothing that is handed over is taken back.
LEMMA GotGrows ==
    ASSUME [Next]_vars
    PROVE  got' = got \/ \E y : got' = Append(got, y)
BY DEF Next, Receive, Send, SendAttachment, SendFails, EnginePacket, Lost, SkipOther, TakePacket,
       TakeAttachment, TakeError, PollDrops, StreamEnds, CallbackRuns, Deliver, vars, receiver

LEMMA SentGrows ==
    ASSUME [Next]_vars
    PROVE  \/ sent' = sent /\ broken \subseteq broken'
           \/ \E m \in Message : Send(m) /\ sent' = Append(sent, m) /\ broken' = broken /\ got' = got
BY DEF Next, Receive, Send, SendAttachment, SendFails, EnginePacket, Lost, SkipOther, TakePacket,
       TakeAttachment, TakeError, PollDrops, StreamEnds, CallbackRuns, vars, sender, receiver

LEMMA PastStep ==
    ASSUME Shape, Past, [Next]_vars
    PROVE  Past'
<1>0. sent \in Seq(Message) /\ Len(sent) \in Nat
  <2>1. sent \in Seq(Message)
      BY DEF Shape
  <2> QED BY <2>1
<1>1. PICK x \in Nat : x < Len(sent) /\ Intact \subseteq 1..x /\ Handed(got, sent, x)
    BY DEF Past
<1>2. PICK S : got \in Seq(S)
    BY DEF Shape, Calls
<1>3. CASE sent' = sent /\ broken \subseteq broken'
  <2>1. Intact' \subseteq 1..x
      BY <1>1, <1>3, IntactShrinks
  <2>2. Handed(got', sent, x)
      BY <1>1, <1>2, GotGrows, HandedMore
  <2> QED BY <1>1, <1>3, <2>1, <2>2 DEF Past
<1>4. ASSUME NEW m \in Message, sent' = Append(sent, m), broken' = broken, got' = got
      PROVE  Past'
  <2>1. x \in 0..Len(sent) /\ Len(sent') = Len(sent) + 1
      BY <1>0, <1>1, <1>4
  <2>2. Intact' \subseteq 1..x
      BY <1>0, <1>1, <1>4, IntactSend
  <2>3. Handed(got', sent', x)
      BY <1>0, <1>1, <1>4, <2>1, HandedSend
  <2>4. x < Len(sent')
      BY <1>0, <1>1, <2>1
  <2> QED BY <2>2, <2>3, <2>4 DEF Past
<1> QED BY <1>3, <1>4, SentGrows

-----------------------------------------------------------------------------
(* Packets in their order *)

\* One of the attachments under way becomes one of those taken.
MovesOver(S, a, b, c, t) ==
    /\ c \in Seq(S) /\ t \in Seq(S) /\ c \o t = a \o b /\ c \o <<>> = c
    /\ Len(c) = Len(a \o b) <=> t = <<>>

LEMMA OneMore ==
    ASSUME NEW S, NEW a \in Seq(S), NEW b \in Seq(S), b # <<>>,
           NEW c, c = Append(a, Head(b)), NEW t, t = Tail(b)
    PROVE  MovesOver(S, a, b, c, t)
<1>0. Len(a) \in Nat /\ Len(b) \in Nat /\ Len(b) >= 1
    BY EmptySeq
<1>1. /\ Head(b) \in S /\ t \in Seq(S) /\ Len(t) = Len(b) - 1
      /\ \A j \in 1..Len(t) : t[j] = b[j + 1]
    BY <1>0
<1>2. /\ c \in Seq(S) /\ Len(c) = Len(a) + 1 /\ c[Len(a) + 1] = b[1]
      /\ \A j \in 1..Len(a) : c[j] = a[j]
    BY <1>0, <1>1
<1>3. /\ c \o t \in Seq(S) /\ a \o b \in Seq(S) /\ Len(a \o b) = Len(a) + Len(b)
      /\ Len(c \o t) = Len(a) + Len(b)
  <2>0. c \in Seq(S) /\ t \in Seq(S)
      BY <1>1, <1>2
  <2>1. c \o t \in Seq(S) /\ Len(c \o t) = Len(c) + Len(t)
      BY ONLY <2>0
  <2>2. a \o b \in Seq(S) /\ Len(a \o b) = Len(a) + Len(b)
      OBVIOUS
  <2>3. Len(c) + Len(t) = Len(a) + Len(b)
      BY <1>0, <1>1, <1>2
  <2> QED BY <2>1, <2>2, <2>3
<1>4. ASSUME NEW k \in 1..(Len(a) + Len(b)) PROVE (c \o t)[k] = (a \o b)[k]
  <2>1. CASE k <= Len(a)
    <3>1. k \in 1..Len(a) /\ k \in 1..Len(c)
        BY <1>0, <1>2, <2>1
    <3>2. (c \o t)[k] = c[k] /\ (a \o b)[k] = a[k]
        BY <1>1, <1>2, <3>1
    <3> QED BY <1>2, <3>1, <3>2
  <2>2. CASE k = Len(a) + 1
    <3>1. k \in 1..Len(c) /\ k > Len(a) /\ k - Len(a) = 1
        BY <1>0, <1>2, <2>2
    <3>2. (c \o t)[k] = c[k]
        BY <1>1, <1>2, <3>1
    <3>3. (a \o b)[k] = b[k - Len(a)]
        BY <1>0, <3>1
    <3> QED BY <1>2, <2>2, <3>1, <3>2, <3>3
  <2>3. CASE k > Len(a) + 1
    <3>1. /\ k > Len(c) /\ k - Len(c) \in 1..Len(t) /\ k > Len(a)
          /\ (k - Len(c)) + 1 = k - Len(a) /\ k <= Len(c) + Len(t)
        BY <1>0, <1>1, <1>2, <2>3
    <3>2. (c \o t)[k] = t[k - Len(c)]
        BY <1>0, <1>1, <1>2, <3>1
    <3>3. (a \o b)[k] = b[k - Len(a)]
        BY <1>0, <3>1
    <3> QED BY <1>1, <3>1, <3>2, <3>3
  <2>4. k \in Nat
      BY <1>0
  <2>5. k <= Len(a) \/ k = Len(a) + 1 \/ k > Len(a) + 1
      BY <1>0, <2>4
  <2> QED BY <2>1, <2>2, <2>3, <2>5
<1>5. c \o t = a \o b
  <2>1. Len(c \o t) = Len(a \o b) /\ \A k \in 1..Len(c \o t) : (c \o t)[k] = (a \o b)[k]
      BY ONLY <1>3, <1>4
  <2>2. c \o t \in Seq(S) /\ a \o b \in Seq(S)
      BY <1>3
  <2> DEFINE x == c \o t
             y == a \o b
  <2>3. x \in Seq(S) /\ y \in Seq(S) /\ Len(x) = Len(y) /\ \A k \in 1..Len(x) : x[k] = y[k]
      BY ONLY <2>1, <2>2
  <2> HIDE DEF x, y
  <2>4. x = y
      BY ONLY <2>3, SeqEqual
  <2> QED BY <2>4 DEF x, y
<1>6. Len(c) = Len(a \o b) <=> Len(t) = 0
  <2> DEFINE i == Len(a)
             j == Len(b)
  <2>1. /\ i \in Nat /\ j \in Nat /\ Len(c) = i + 1 /\ Len(a \o b) = i + j /\ Len(t) = j - 1
      BY <1>0, <1>1, <1>2, <1>3
  <2> HIDE DEF i, j
  <2>2. i + 1 = i + j <=> j - 1 = 0
      BY <2>1
  <2> QED BY <2>1, <2>2
<1>7. t = <<>> <=> Len(t) = 0
    BY <1>1, EmptySeq
<1>8. c \o <<>> = c
    BY <1>2
<1> QED BY <1>1, <1>2, <1>5, <1>6, <1>7, <1>8 DEF MovesOver

LEMMA Joined ==
    ASSUME NEW S, NEW v \in Seq(S), NEW a \in Seq(S), NEW u, u = v \o a
    PROVE  /\ u \in Seq(S) /\ Len(u) = Len(v) + Len(a)
           /\ \A k \in 1..Len(v) : u[k] = v[k]
           /\ \A j \in 1..Len(a) : u[Len(v) + j] = a[j]
<1>0. Len(v) \in Nat /\ Len(a) \in Nat
    OBVIOUS
<1>1. u \in Seq(S) /\ Len(u) = Len(v) + Len(a)
    OBVIOUS
<1>2. ASSUME NEW k \in 1..Len(v) PROVE u[k] = v[k]
    BY <1>0
<1>3. ASSUME NEW j \in 1..Len(a) PROVE u[Len(v) + j] = a[j]
  <2>1. Len(v) + j \in 1..(Len(v) + Len(a)) /\ Len(v) + j > Len(v) /\ (Len(v) + j) - Len(v) = j
      BY <1>0
  <2> QED BY <1>0, <2>1
<1> QED BY <1>1, <1>2, <1>3

LEMMA SameInterval ==
    ASSUME NEW i \in Nat, NEW j \in Nat, 1..i = 1..j
    PROVE  i = j
<1>1. i # 0 => i \in 1..i
    OBVIOUS
<1>2. j # 0 => j \in 1..j
    OBVIOUS
<1>3. i # 0 => i <= j
    BY <1>1
<1>4. j # 0 => j <= i
    BY <1>2
<1> QED BY <1>3, <1>4

LEMMA JoinTail ==
    ASSUME NEW S, NEW w \in Seq(S), w # <<>>, NEW d \in Seq(S)
    PROVE  /\ w \o d \in Seq(S) /\ Head(w \o d) = Head(w) /\ Tail(w \o d) = Tail(w) \o d
           /\ Len(w \o d) = Len(w) + Len(d) /\ Len(w) \in Nat /\ Len(w) >= 1 /\ Len(d) \in Nat
           /\ Len(Tail(w)) = Len(w) - 1 /\ Len(Tail(w) \o d) = Len(w) + Len(d) - 1
           /\ Tail(w) \in Seq(S)
<1>0. Len(w) \in Nat /\ Len(w) >= 1 /\ Len(d) \in Nat
    BY EmptySeq
<1> DEFINE u == w \o d
           t == Tail(w)
           v == t \o d
<1>1. /\ u \in Seq(S) /\ Len(u) = Len(w) + Len(d) /\ \A k \in 1..Len(w) : u[k] = w[k]
      /\ \A k \in 1..Len(u) : k > Len(w) => u[k] = d[k - Len(w)]
    BY <1>0
<1>2. /\ t \in Seq(S) /\ Len(t) = Len(w) - 1 /\ \A k \in 1..Len(t) : t[k] = w[k + 1]
    BY <1>0
<1> HIDE DEF t
<1>3. /\ v \in Seq(S) /\ Len(v) = Len(t) + Len(d) /\ \A k \in 1..Len(t) : v[k] = t[k]
      /\ \A k \in 1..Len(v) : k > Len(t) => v[k] = d[k - Len(t)]
    BY <1>0, <1>2
<1> HIDE DEF u, v
<1>4. u # <<>> /\ Head(u) = u[1] /\ Head(w) = w[1]
    BY <1>0, <1>1
<1>5. Head(u) = Head(w)
    BY <1>0, <1>1, <1>4
<1> DEFINE q == Tail(u)
<1>6. q \in Seq(S) /\ Len(q) = Len(u) - 1 /\ \A k \in 1..Len(q) : q[k] = u[k + 1]
    BY <1>1, <1>4
<1> HIDE DEF q
<1>7. Len(q) = Len(v)
    BY <1>0, <1>1, <1>2, <1>3, <1>6
<1>8. ASSUME NEW k \in 1..Len(q) PROVE q[k] = v[k]
  <2>0. q[k] = u[k + 1] /\ k \in 1..Len(v) /\ k \in Nat
      BY <1>0, <1>1, <1>6, <1>7
  <2>1. CASE k <= Len(t)
    <3>1. k \in 1..Len(t) /\ k + 1 \in 1..Len(w)
        BY <1>0, <1>2, <2>0, <2>1
    <3> QED BY <1>1, <1>2, <1>3, <2>0, <3>1
  <2>2. CASE k > Len(t)
    <3>0. /\ k \in 1..Len(q) /\ Len(q) = Len(u) - 1 /\ Len(u) = Len(w) + Len(d)
          /\ Len(t) = Len(w) - 1 /\ Len(w) \in Nat /\ Len(d) \in Nat /\ k > Len(t)
        BY <1>0, <1>1, <1>2, <1>6, <2>2
    <3>1. k + 1 \in 1..Len(u) /\ k + 1 > Len(w) /\ (k + 1) - Len(w) = k - Len(t)
        BY ONLY <3>0
    <3>2. u[k + 1] = d[(k + 1) - Len(w)] /\ v[k] = d[k - Len(t)]
        BY <1>1, <1>3, <2>0, <2>2, <3>1
    <3> QED BY <2>0, <3>1, <3>2
  <2> QED BY <1>0, <1>2, <2>0, <2>1, <2>2
<1>9. q = v
    BY ONLY <1>3, <1>6, <1>7, <1>8, SeqEqual
<1>10. Len(v) = Len(w) + Len(d) - 1
    BY <1>0, <1>2, <1>3
<1> QED BY <1>0, <1>1, <1>2, <1>5, <1>9, <1>10 DEF q, u, v, t

\* What comes off the wire: an attachment that is awaited, a packet of another kind, the
\* next message, or something behind the intact messages.
LEMMA Off ==
    ASSUME Shape, NEW n, NEW b, Reading(n, b), Clean(wire, n, b), wire # <<>>
    PROVE  \/ b # <<>> /\ Head(wire) = Head(b) /\ Clean(Tail(wire), n, Tail(b))
           \/ b = <<>> /\ Head(wire).kind = "other" /\ Clean(Tail(wire), n, b)
           \/ /\ b = <<>> /\ n + 1 \in 1..Len(sent) /\ Fit(sent[n + 1])
              /\ Head(wire) = HeadOf(sent[n + 1]) /\ Clean(Tail(wire), n + 1, Atts(sent[n + 1]))
           \/ b = <<>> /\ n < Len(sent) /\ Intact \subseteq 1..n
<1> DEFINE w == wire \o sending
<1>0. wire \in Seq(Wire) /\ sending \in Seq(Wire) /\ sent \in Seq(Message)
  <2>1. sending \in Seq(Bin) /\ Bin \subseteq Wire
      BY DEF Shape, InEmit, Wire
  <2>2. sending \in Seq(Wire)
      BY <2>1
  <2> QED BY <2>2 DEF Shape
<1>1. PICK l, z, h :
        /\ Frames(w, b, sent, n, l, z, h)
        /\ Intact \subseteq 1..l /\ \A i \in 1..l : Fit(sent[i])
        /\ IF l = Len(sent) THEN z = Len(w) ELSE z <= Len(wire)
    BY DEF Clean
<1>2. /\ Head(w) = Head(wire) /\ Tail(w) = Tail(wire) \o sending
      /\ Len(w) = Len(wire) + Len(sending) /\ Len(wire) \in Nat /\ Len(wire) >= 1
      /\ Len(sending) \in Nat /\ Len(Tail(wire)) = Len(wire) - 1
      /\ Len(Tail(wire) \o sending) = Len(w) - 1
    BY <1>0, JoinTail
<1> HIDE DEF w
<1>3. /\ n \in Nat /\ l \in Nat /\ n <= l /\ l <= Len(sent) /\ z \in Nat /\ Len(b) \in Nat
      /\ Len(b) <= z /\ Len(sent) \in Nat /\ b \in Seq(Bin)
    BY <1>1, FramesNat
<1>4. ASSUME NEW q, NEW c, NEW g, z >= 1, Frames(Tail(w), c, sent, q, l, z - 1, g)
      PROVE  Clean(Tail(wire), q, c)
  <2>1. IF l = Len(sent) THEN z - 1 = Len(Tail(wire) \o sending) ELSE z - 1 <= Len(Tail(wire))
      BY <1>1, <1>2, <1>3
  <2>2. Frames(Tail(wire) \o sending, c, sent, q, l, z - 1, g)
      BY <1>2, <1>4
  <2> QED BY <1>1, <2>1, <2>2 DEF Clean
<1>5. CASE b # <<>>
    BY <1>1, <1>2, <1>4, <1>5, FramesAttachment
<1>6. CASE b = <<>> /\ z >= 1 /\ Head(wire).kind = "other"
  <2>1. \E g : Frames(Tail(w), b, sent, n, l, z - 1, g)
      BY <1>1, <1>2, <1>6, FramesOtherNext
  <2> QED BY <1>4, <1>6, <2>1
<1>7. CASE b = <<>> /\ z >= 1 /\ Head(wire).kind # "other"
  <2>1. /\ n + 1 \in 1..Len(sent) /\ n + 1 <= l /\ Head(w) = HeadOf(sent[n + 1])
        /\ \E g : Frames(Tail(w), Atts(sent[n + 1]), sent, n + 1, l, z - 1, g)
      BY <1>1, <1>2, <1>7, FramesMessageNext
  <2>2. Fit(sent[n + 1])
    <3>1. n + 1 \in 1..l
        BY <1>3, <2>1
    <3> QED BY <1>1, <3>1
  <2>3. Clean(Tail(wire), n + 1, Atts(sent[n + 1]))
      BY <1>4, <1>7, <2>1
  <2> QED BY <1>2, <1>7, <2>1, <2>2, <2>3
<1>8. CASE b = <<>> /\ z = 0
  <2>1. l # Len(sent)
      BY <1>1, <1>2, <1>8
  <2>2. ~(n < l)
    <3> SUFFICES ASSUME n < l PROVE FALSE
        OBVIOUS
    <3>1. n + 1 \in (n + 1)..l
        BY <1>3
    <3>2. /\ h[n + 1] \in Nat /\ h[n + 1] >= 1 /\ Len(Atts(sent[n + 1])) \in Nat
          /\ Ends(sent, h, n + 1) = h[n + 1] + Len(Atts(sent[n + 1]))
        BY <1>1, <3>1, FramesNat
    <3>3. Ends(sent, h, n + 1) <= 0
        BY <1>1, <1>8, <3>1 DEF Frames
    <3> QED BY <3>2, <3>3
  <2>3. n = l /\ n < Len(sent)
      BY <1>3, <2>1, <2>2
  <2> QED BY <1>1, <1>8, <2>3
<1> QED BY <1>3, <1>5, <1>6, <1>7, <1>8

LEMMA InOrderInit == Init => InOrder
<1> SUFFICES ASSUME Init PROVE InOrder
    OBVIOUS
<1>1. /\ wire = <<>> /\ sending = <<>> /\ ended = FALSE /\ rx = "live" /\ partial = Absent
      /\ sent = <<>> /\ got = <<>> /\ heads = 0
    BY DEF Init
<1>2. Frames(<<>>, <<>>, <<>>, 0, 0, 0, <<>>)
    BY DEF Frames
<1>3. Received(<<>>, <<>>, 0)
    BY RankStep DEF Received
<1>4. Reading(0, <<>>)
    BY <1>1, <1>3 DEF Reading
<1>5. wire \o sending = <<>> /\ Len(sent) = 0
    BY <1>1
<1>6. Intact \subseteq 1..0
    BY <1>1 DEF Intact
<1>7. Clean(wire, 0, <<>>)
    BY <1>1, <1>2, <1>5, <1>6 DEF Clean
<1> QED BY <1>1, <1>4, <1>7 DEF InOrder

\* The connection is there and the stream has not failed.
Open(n, b) == Reading(n, b) /\ ~ended /\ rx \in {"live", "deaf"} /\ Clean(wire, n, b)

LEMMA ReadingHanded ==
    ASSUME Shape, NEW n, NEW b, Reading(n, b), NEW x \in Nat, x <= n, b # <<>> => x < n
    PROVE  Handed(got, sent, x)
<1>1. sent \in Seq(Message) /\ n \in Nat /\ Len(sent) \in Nat
  <2>1. sent \in Seq(Message) /\ n \in 0..Len(sent)
      BY DEF Shape, Reading
  <2> QED BY <2>1
<1>2. CASE b = <<>>
    BY <1>1, <1>2, HandedFromReceived DEF Reading
<1>3. CASE b # <<>>
  <2>1. n # 0 /\ Received(got, sent, n - 1)
      BY <1>3 DEF Reading
  <2>2. n - 1 \in Nat /\ x <= n - 1
      BY <1>1, <1>3, <2>1
  <2> QED BY <1>1, <2>1, <2>2, HandedFromReceived
<1> QED BY <1>2, <1>3

\* A message is sent: its packet is on the wire, behind the others.
LEMMA InOrderSend ==
    ASSUME Shape, NEW n, NEW b, Open(n, b), NEW m \in Message, Send(m)
    PROVE  Open(n, b)'
<1>0. /\ sent \in Seq(Message) /\ Len(sent) \in Nat /\ sent' = Append(sent, m)
      /\ Len(sent') = Len(sent) + 1 /\ \A k \in 1..Len(sent) : sent'[k] = sent[k]
      /\ sent'[Len(sent) + 1] = m /\ sent' \in Seq(Message)
  <2>1. sent \in Seq(Message) /\ sent' = Append(sent, m)
      BY DEF Shape, Send
  <2> QED BY <2>1
<1>1. /\ wire' = Append(wire, HeadOf(m)) /\ sending = <<>> /\ sending' = Atts(m)
      /\ UNCHANGED <<ended, rx, partial, got, heads, broken>>
    BY DEF Send, HeadOf, Atts, receiver
<1>2. Reading(n, b) /\ n \in 0..Len(sent) /\ n \in Nat
  <2>1. Reading(n, b) /\ n \in 0..Len(sent)
      BY DEF Open, Reading
  <2> QED BY <1>0, <2>1
<1>3. Reading(n, b)'
  <2>1. n \in 0..Len(sent')
      BY <1>0, <1>2
  <2>2. CASE b = <<>>
    <3>1. Received(got, sent, n)
        BY <1>2, <2>2 DEF Reading
    <3>2. Received(got, sent', n)
        BY <1>0, <1>2, <3>1, ReceivedSend
    <3> QED BY <1>1, <1>2, <2>1, <2>2, <3>2 DEF Reading
  <2>3. CASE b # <<>>
    <3>1. n # 0 /\ Received(got, sent, n - 1)
        BY <1>2, <2>3 DEF Reading
    <3>2. n - 1 \in 0..Len(sent) /\ n \in 1..Len(sent) /\ sent'[n] = sent[n]
        BY <1>0, <1>2, <3>1
    <3>3. Received(got, sent', n - 1)
        BY <1>0, <3>1, <3>2, ReceivedSend
    <3> QED BY <1>1, <1>2, <2>1, <2>3, <3>1, <3>2, <3>3 DEF Reading
  <2> QED BY <2>2, <2>3
<1> DEFINE w == wire \o sending
           u == wire' \o sending'
<1>4. /\ wire \in Seq(Wire) /\ w = wire /\ Len(wire) \in Nat
      /\ Atts(m) \in Seq(Wire) /\ Len(Atts(m)) \in Nat
  <2>1. Atts(m) \in Seq(Bin) /\ Bin \subseteq Wire /\ Len(Atts(m)) \in Nat
      BY AttsAreBin DEF Wire
  <2>2. wire \in Seq(Wire)
      BY DEF Shape
  <2> QED BY <1>1, <2>1, <2>2
<1>5. /\ wire' \in Seq(Wire) /\ Len(wire') = Len(wire) + 1 /\ wire'[Len(wire) + 1] = HeadOf(m)
      /\ \A k \in 1..Len(wire) : wire'[k] = wire[k]
    BY <1>1, <1>4, WireKinds
<1>6. /\ u \in Seq(Wire) /\ Len(u) = Len(wire) + 1 + Len(Atts(m))
      /\ \A k \in 1..(Len(wire) + 1) : u[k] = wire'[k]
      /\ \A j \in 1..Len(Atts(m)) : u[(Len(wire) + 1) + j] = Atts(m)[j]
  <2>1. \A v, a : v \in Seq(Wire) /\ a \in Seq(Wire)
                  => /\ v \o a \in Seq(Wire) /\ Len(v \o a) = Len(v) + Len(a)
                     /\ \A k \in 1..Len(v) : (v \o a)[k] = v[k]
                     /\ \A k \in 1..Len(a) : (v \o a)[Len(v) + k] = a[k]
      BY ONLY Joined
  <2>2. wire' \in Seq(Wire) /\ Atts(m) \in Seq(Wire)
      BY <1>4, <1>5
  <2>3. /\ wire' \o Atts(m) \in Seq(Wire) /\ Len(wire' \o Atts(m)) = Len(wire') + Len(Atts(m))
        /\ \A k \in 1..Len(wire') : (wire' \o Atts(m))[k] = wire'[k]
        /\ \A k \in 1..Len(Atts(m)) : (wire' \o Atts(m))[Len(wire') + k] = Atts(m)[k]
      BY ONLY <2>1, <2>2
  <2>4. u = wire' \o Atts(m) /\ Len(wire') = Len(wire) + 1
      BY <1>1, <1>5
  <2> HIDE DEF u
  <2> QED BY ONLY <2>3, <2>4, Zenon
<1>7. PICK l, z, h :
        /\ Frames(w, b, sent, n, l, z, h)
        /\ Intact \subseteq 1..l /\ \A i \in 1..l : Fit(sent[i])
        /\ IF l = Len(sent) THEN z = Len(w) ELSE z <= Len(wire)
    BY DEF Open, Clean
<1>8. l \in Nat /\ l <= Len(sent) /\ z \in Nat /\ z <= Len(wire)
  <2>1. l \in Nat /\ l <= Len(sent) /\ z \in Nat /\ z <= Len(w)
      BY <1>7, FramesNat
  <2> QED BY <1>4, <2>1
<1> HIDE DEF u, w
<1>9. Frames(u, b, sent', n, l, z, h)
  <2>1. z <= Len(u) /\ \A k \in 1..z : u[k] = w[k]
    <3>1. \A k \in 1..z : k \in 1..Len(wire) /\ k \in 1..(Len(wire) + 1)
        BY <1>4, <1>8
    <3>2. z <= Len(u)
        BY <1>4, <1>6, <1>8
    <3> QED BY <1>4, <1>5, <1>6, <3>1, <3>2
  <2>2. l <= Len(sent') /\ \A i \in 1..l : sent'[i] = sent[i]
      BY <1>0, <1>8
  <2> DEFINE ns == sent'
  <2>3. ns \in Seq(Message) /\ l <= Len(ns) /\ \A i \in 1..l : ns[i] = sent[i]
      BY <1>0, <2>2
  <2>4. Frames(w, b, sent, n, l, z, h) /\ u \in Seq(Wire)
      BY <1>6, <1>7
  <2> HIDE DEF ns
  <2>5. Frames(u, b, ns, n, l, z, h)
      BY ONLY <2>1, <2>3, <2>4, FramesAgree
  <2> QED BY <2>5 DEF ns
<1>10. CASE l = Len(sent) /\ Fit(m)
  <2> DEFINE y == z + 1 + Len(Atts(m))
  <2>1. z = Len(wire) /\ sent'[l + 1] = m /\ l + 1 = Len(sent')
      BY <1>0, <1>4, <1>7, <1>10
  <2>2. y = Len(u) /\ u[z + 1] = HeadOf(m) /\ \A j \in 1..Len(Atts(m)) : u[(z + 1) + j] = Atts(m)[j]
    <3>1. z + 1 \in 1..(Len(wire) + 1)
        BY <1>4, <2>1
    <3> QED BY <1>5, <1>6, <2>1, <3>1
  <2>3. l + 1 <= Len(sent') /\ y <= Len(u)
      BY <1>4, <1>6, <1>8, <2>1, <2>2
  <2> HIDE DEF y
  <2>4. y = z + 1 + Len(Atts(sent'[l + 1]))
      BY <2>1 DEF y
  <2>5. \E g : Frames(u, b, sent', n, l + 1, y, g)
      BY <1>9, <2>1, <2>2, <2>3, <2>4, FramesMessage
  <2>6. Intact' \subseteq 1..(l + 1)
    <3>1. DOMAIN sent' = 1..(l + 1)
        BY <1>0, <2>1
    <3> QED BY <3>1 DEF Intact
  <2>7. \A i \in 1..(l + 1) : Fit(sent'[i])
    <3>1. \A i \in 1..(l + 1) : i = l + 1 \/ (i \in 1..l /\ i \in 1..Len(sent))
        BY <1>8
    <3> QED BY <1>0, <1>7, <1>10, <2>1, <3>1
  <2>8. Clean(wire, n, b)'
      BY <2>1, <2>2, <2>5, <2>6, <2>7 DEF Clean, u
  <2> QED BY <1>1, <1>3, <2>8 DEF Open
<1>11. CASE l < Len(sent) \/ ~Fit(m)
  <2>1. Intact' \subseteq 1..l
      BY <1>0, <1>1, <1>7, <1>8, <1>11, IntactSend
  <2>2. \A i \in 1..l : Fit(sent'[i])
    <3>1. \A i \in 1..l : i \in 1..Len(sent)
        BY <1>0, <1>8
    <3> QED BY <1>0, <1>7, <3>1
  <2>3. l # Len(sent') /\ z <= Len(wire')
      BY <1>0, <1>4, <1>5, <1>8
  <2>4. Clean(wire, n, b)'
      BY <1>9, <2>1, <2>2, <2>3 DEF Clean, u
  <2> QED BY <1>1, <1>3, <2>4 DEF Open
<1> QED BY <1>0, <1>8, <1>10, <1>11

-----------------------------------------------------------------------------
(* The other steps *)

LEMMA ReadingKept ==
    ASSUME NEW n, NEW b, Reading(n, b), UNCHANGED <<sent, heads, partial, got>>
    PROVE  Reading(n, b)'
BY DEF Reading

LEMMA CleanKept ==
    ASSUME NEW n, NEW b, Clean(wire', n, b), UNCHANGED <<sending, sent, broken>>
    PROVE  Clean(wire, n, b)'
BY DEF Clean, Intact

LEMMA SendingIsWire ==
    ASSUME Shape
    PROVE  /\ wire \in Seq(Wire) /\ sending \in Seq(Wire) /\ sending \in Seq(Bin)
           /\ sent \in Seq(Message) /\ Len(sent) \in Nat
<1>1. sending \in Seq(Bin) /\ Bin \subseteq Wire /\ wire \in Seq(Wire) /\ sent \in Seq(Message)
    BY DEF Shape, InEmit, Wire
<1> QED BY <1>1

\* A message is broken when all before it have been handed over.
LEMMA PastNow ==
    ASSUME Shape, NEW n, NEW b, Reading(n, b), NEW x \in Nat, x <= n, b # <<>> => x < n,
           x < Len(sent), UNCHANGED <<sent, got>>, x + 1 \in broken'
    PROVE  Past'
<1>1. Handed(got', sent', x)
    BY ReadingHanded
<1>2. sent' \in Seq(Message) /\ DOMAIN sent' = 1..Len(sent') /\ Len(sent') \in Nat
    BY SendingIsWire
<1>3. ASSUME NEW k \in Intact' PROVE k \in 1..x
  <2>1. k \in 1..Len(sent') /\ \A i \in 1..k : i \notin broken'
      BY <1>2 DEF Intact
  <2>2. x + 1 \notin 1..k
      BY <2>1
  <2> QED BY <1>2, <2>1, <2>2
<1>4. x < Len(sent')
    OBVIOUS
<1> QED BY <1>1, <1>3, <1>4 DEF Past

\* An attachment moves from the sender to the wire.
LEMMA InOrderSends ==
    ASSUME Shape, NEW n, NEW b, Open(n, b), SendAttachment
    PROVE  Open(n, b)'
<1>1. /\ sending # <<>> /\ wire' = Append(wire, Head(sending)) /\ sending' = Tail(sending)
      /\ UNCHANGED <<ended, rx, partial, got, heads, sent, broken>>
    BY DEF SendAttachment, receiver
<1>2. wire \in Seq(Wire) /\ sending \in Seq(Wire) /\ Len(wire) \in Nat
  <2>1. wire \in Seq(Wire) /\ sending \in Seq(Wire)
      BY SendingIsWire
  <2> QED BY <2>1
<1>3. wire' \o sending' = wire \o sending
  <2> DEFINE c == wire'
             t == sending'
  <2>1. c = Append(wire, Head(sending)) /\ t = Tail(sending)
      BY <1>1
  <2> HIDE DEF c, t
  <2>2. MovesOver(Wire, wire, sending, c, t)
      BY ONLY <1>1, <1>2, <2>1, OneMore
  <2> QED BY <2>2 DEF MovesOver, c, t
<1>4. Len(wire') = Len(wire) + 1
  <2>1. Head(sending) \in Wire
      BY <1>1, <1>2
  <2> QED BY <1>1, <1>2, <2>1
<1>5. PICK l, z, h :
        /\ Frames(wire \o sending, b, sent, n, l, z, h)
        /\ Intact \subseteq 1..l /\ \A i \in 1..l : Fit(sent[i])
        /\ IF l = Len(sent) THEN z = Len(wire \o sending) ELSE z <= Len(wire)
    BY DEF Open, Clean
<1>6. z \in Nat /\ Intact' = Intact
    BY <1>1, <1>5, FramesNat DEF Intact
<1>7. IF l = Len(sent') THEN z = Len(wire' \o sending') ELSE z <= Len(wire')
  <2>1. CASE l = Len(sent)
      BY <1>1, <1>3, <1>5, <2>1
  <2>2. CASE l # Len(sent)
    <3>1. z <= Len(wire')
        BY ONLY <1>2, <1>4, <1>5, <1>6, <2>2
    <3> QED BY <1>1, <2>2, <3>1
  <2> QED BY <2>1, <2>2
<1>8. Frames(wire' \o sending', b, sent', n, l, z, h)
    BY <1>1, <1>3, <1>5
<1>9. Clean(wire, n, b)'
    BY <1>1, <1>5, <1>6, <1>7, <1>8 DEF Clean
<1> QED BY <1>1, <1>9, ReadingKept DEF Open

\* The rest of a message is not sent.
LEMMA InOrderFails ==
    ASSUME Shape, NEW n, NEW b, Open(n, b), SendFails
    PROVE  Open(n, b)' \/ Past'
<1>1. /\ sending # <<>> /\ sending' = <<>> /\ broken' = broken \cup {Len(sent)}
      /\ UNCHANGED <<wire, ended, rx, partial, got, heads, sent>>
    BY DEF SendFails, receiver
<1>2. /\ wire \in Seq(Wire) /\ sending \in Seq(Wire) /\ sent \in Seq(Message)
      /\ Len(sent) \in Nat /\ Len(wire) \in Nat /\ Len(sending) \in Nat
  <2>1. wire \in Seq(Wire) /\ sending \in Seq(Wire) /\ sent \in Seq(Message)
      BY SendingIsWire
  <2> QED BY <2>1
<1> DEFINE w == wire \o sending
<1>3. PICK l, z, h :
        /\ Frames(w, b, sent, n, l, z, h)
        /\ Intact \subseteq 1..l /\ \A i \in 1..l : Fit(sent[i])
        /\ IF l = Len(sent) THEN z = Len(w) ELSE z <= Len(wire)
    BY DEF Open, Clean
<1>4. /\ l \in Nat /\ n \in Nat /\ n <= l /\ l <= Len(sent) /\ z \in Nat
    BY <1>3, FramesNat
<1>5. Len(w) = Len(wire) + Len(sending) /\ \A k \in 1..Len(wire) : wire[k] = w[k]
  <2>1. Len(w) = Len(wire) + Len(sending)
      BY ONLY <1>2
  <2>2. ASSUME NEW k \in 1..Len(wire) PROVE wire[k] = w[k]
      BY ONLY <1>2, <2>2
  <2> QED BY <2>1, <2>2
<1>6. wire' \o sending' = wire
    BY <1>1, <1>2
<1>7. /\ Len(sent) # 0 /\ Len(Atts(sent[Len(sent)])) \in Nat
      /\ Len(sending) <= Len(Atts(sent[Len(sent)]))
  <2>1. sent # <<>> /\ Len(sending) <= Len(Atts(sent[Len(sent)]))
      BY <1>1 DEF Shape, InEmit
  <2>2. Len(sent) # 0
      BY <1>2, <2>1, EmptySeq
  <2>3. sent[Len(sent)] \in Message
      BY <1>2, <2>2
  <2> QED BY <2>1, <2>2, <2>3, AttsAreBin
<1> HIDE DEF w
<1>8. ASSUME NEW m \in Nat, NEW y, Frames(w, b, sent, n, m, y, h), y <= Len(wire), m < Len(sent),
             m <= l, Intact' \subseteq 1..m
      PROVE  Open(n, b)'
  <2>1. y \in Nat /\ \A k \in 1..y : k \in 1..Len(wire)
    <3>1. y \in Nat
        BY <1>8, FramesNat
    <3> QED BY <1>2, <1>8, <3>1
  <2>2. \A k \in 1..y : wire[k] = w[k]
      BY <1>5, <2>1
  <2>3. Frames(wire, b, sent, n, m, y, h)
      BY <1>2, <1>8, <2>2, FramesAgree
  <2>4. Frames(wire' \o sending', b, sent', n, m, y, h)
      BY <1>1, <1>6, <2>3
  <2>5. \A i \in 1..m : Fit(sent'[i])
    <3>1. \A i \in 1..m : i \in 1..l
        BY <1>4, <1>8
    <3> QED BY <1>1, <1>3, <3>1
  <2>6. m # Len(sent') /\ y <= Len(wire')
      BY <1>1, <1>2, <1>8
  <2>7. Clean(wire, n, b)'
      BY <1>8, <2>4, <2>5, <2>6 DEF Clean
  <2> QED BY <1>1, <2>7, ReadingKept DEF Open
<1>9. CASE l < Len(sent)
  <2>1. z <= Len(wire)
      BY <1>2, <1>3, <1>4, <1>9
  <2>2. Intact' \subseteq 1..l
      BY <1>1, <1>3, IntactShrinks
  <2> QED BY <1>3, <1>4, <1>8, <1>9, <2>1, <2>2
<1>10. CASE l = Len(sent) /\ n < l
  <2>1. h[l] \in Nat /\ h[l] + Len(Atts(sent[l])) <= z /\ Frames(w, b, sent, n, l - 1, h[l] - 1, h)
      BY <1>3, <1>10, FramesTear
  <2>2. h[l] - 1 <= Len(wire)
      BY <1>2, <1>3, <1>5, <1>7, <1>10, <2>1
  <2>3. l - 1 \in Nat /\ l - 1 < Len(sent) /\ l - 1 <= l
      BY <1>4, <1>10
  <2>4. Intact' \subseteq 1..(l - 1)
    <3>1. DOMAIN sent' = 1..l /\ l \in broken'
        BY <1>1, <1>2, <1>10
    <3>2. ASSUME NEW k \in Intact' PROVE k \in 1..(l - 1)
      <4>1. k \in 1..l /\ \A i \in 1..k : i \notin broken'
          BY <3>1 DEF Intact
      <4>2. l \notin 1..k
          BY <3>1, <4>1
      <4> QED BY <1>4, <4>1, <4>2
    <3> QED BY <3>2
  <2> QED BY <1>8, <2>1, <2>2, <2>3, <2>4
<1>11. CASE l = Len(sent) /\ n = l
  <2>1. n - 1 \in Nat /\ n - 1 <= n /\ n - 1 < n /\ n - 1 < Len(sent) /\ (n - 1) + 1 = Len(sent)
      BY <1>2, <1>4, <1>7, <1>11
  <2>2. (n - 1) + 1 \in broken'
      BY <1>1, <2>1
  <2>3. Reading(n, b)
      BY DEF Open
  <2> QED BY <1>1, <2>1, <2>2, <2>3, PastNow
<1> QED BY <1>2, <1>4, <1>9, <1>10, <1>11

\* A packet of another kind is sent, between two messages.
LEMMA InOrderEngine ==
    ASSUME Shape, NEW n, NEW b, Open(n, b), EnginePacket
    PROVE  Open(n, b)'
<1>1. /\ wire' = Append(wire, Other) /\ sending = <<>> /\ sending' = <<>>
      /\ UNCHANGED <<ended, rx, partial, got, heads, sent, broken>>
    BY DEF EnginePacket, Other, sender, receiver
<1>2. wire \in Seq(Wire) /\ sent \in Seq(Message) /\ Len(wire) \in Nat
  <2>1. wire \in Seq(Wire) /\ sent \in Seq(Message)
      BY SendingIsWire
  <2> QED BY <2>1
<1>3. wire \o sending = wire
    BY <1>1, <1>2
<1> DEFINE u == wire'
<1>4. /\ u \in Seq(Wire) /\ Len(u) = Len(wire) + 1 /\ u[Len(wire) + 1].kind = "other"
      /\ \A k \in 1..Len(wire) : u[k] = wire[k]
    BY <1>1, <1>2, WireKinds
<1>5. u \o sending' = u
    BY <1>1, <1>4
<1>6. PICK l, z, h :
        /\ Frames(wire, b, sent, n, l, z, h)
        /\ Intact \subseteq 1..l /\ \A i \in 1..l : Fit(sent[i])
        /\ IF l = Len(sent) THEN z = Len(wire) ELSE z <= Len(wire)
    BY <1>3 DEF Open, Clean
<1>7. z \in Nat /\ z <= Len(wire) /\ l <= Len(sent)
    BY <1>6, FramesNat
<1> HIDE DEF u
<1>8. Frames(u, b, sent, n, l, z, h)
  <2>1. z <= Len(u) /\ \A k \in 1..z : u[k] = wire[k]
      BY <1>2, <1>4, <1>7
  <2> QED BY <1>2, <1>4, <1>6, <1>7, <2>1, FramesAgree
<1>9. Intact' = Intact
    BY <1>1 DEF Intact
<1>10. ASSUME NEW y, Frames(u, b, sent, n, l, y, h), IF l = Len(sent) THEN y = Len(u) ELSE y <= Len(u)
       PROVE  Open(n, b)'
  <2>1. Frames(wire' \o sending', b, sent', n, l, y, h)
      BY <1>1, <1>5, <1>10 DEF u
  <2>2. IF l = Len(sent') THEN y = Len(wire' \o sending') ELSE y <= Len(wire')
      BY <1>1, <1>5, <1>10 DEF u
  <2>3. Clean(wire, n, b)'
      BY <1>1, <1>6, <1>9, <2>1, <2>2 DEF Clean
  <2> QED BY <1>1, <2>3, ReadingKept DEF Open
<1>11. CASE l = Len(sent)
  <2>1. z = Len(wire) /\ z < Len(u) /\ z + 1 = Len(u)
      BY <1>2, <1>4, <1>6, <1>11
  <2>2. Frames(u, b, sent, n, l, z + 1, h)
      BY <1>4, <1>8, <2>1, FramesEngine
  <2> QED BY <1>10, <1>11, <2>1, <2>2
<1>12. CASE l # Len(sent)
  <2>1. z <= Len(u)
      BY <1>2, <1>4, <1>7
  <2> QED BY <1>8, <1>10, <1>12, <2>1
<1> QED BY <1>11, <1>12

\* What a complete message adds to what the callbacks have got.
LEMMA Delivers ==
    ASSUME Shape, NEW d \in Nat, d + 1 <= Len(sent), Fit(sent[d + 1]), Received(got, sent, d),
           Deliver(PacketOf(sent[d + 1]), Atts(sent[d + 1]))
    PROVE  Received(got', sent, d + 1)
<1> DEFINE m == sent[d + 1]
<1>1. sent \in Seq(Message) /\ m \in Message
  <2>1. sent \in Seq(Message)
      BY DEF Shape
  <2> QED BY <2>1
<1>2. Delivery(PacketOf(m), Atts(m)) = Promise(m) /\ PacketOf(m).nsp = m.nsp
    BY <1>1, RoundTrip, PacketFields
<1>3. got' = IF m.nsp = Nsp THEN Append(got, Promise(m)) ELSE got
    BY <1>2 DEF Deliver
<1> QED BY <1>1, <1>3, ReceivedNext

\* Behind the messages that are framed there is one that is not intact.
LEMMA PastWhere ==
    ASSUME Shape, NEW n, Reading(n, <<>>), n < Len(sent), Intact \subseteq 1..n
    PROVE  Past
<1>1. n \in Nat
  <2>1. n \in 0..Len(sent) /\ Len(sent) \in Nat
      BY SendingIsWire DEF Reading
  <2> QED BY <2>1
<1>2. n <= n /\ Handed(got, sent, n)
    BY <1>1, ReadingHanded
<1> QED BY <1>1, <1>2 DEF Past

\* A packet is taken: what it is, in terms of the messages.
LEMMA Taken ==
    ASSUME Shape, NEW n, NEW b, Open(n, b), NEW kinds, Take(kinds)
    PROVE  /\ wire' = Tail(wire) /\ wire # <<>> /\ Head(wire).kind \in kinds /\ Reading(n, b)
           /\ n \in Nat /\ heads = n /\ b \in Seq(Bin) /\ (b = <<>> <=> partial = Absent)
           /\ (b # <<>> => Head(b) \in Bin)
           /\ \/ b # <<>> /\ Head(wire) = Head(b) /\ Clean(wire', n, Tail(b)) /\ heads' = n
              \/ b = <<>> /\ Head(wire).kind = "other" /\ Clean(wire', n, b) /\ heads' = n
              \/ /\ b = <<>> /\ n + 1 \in 1..Len(sent) /\ Fit(sent[n + 1]) /\ heads' = n + 1
                 /\ Head(wire) = HeadOf(sent[n + 1]) /\ Clean(wire', n + 1, Atts(sent[n + 1]))
                 /\ Head(wire).kind = "head" /\ sent[n + 1] \in Message
              \/ Past
<1>1. /\ wire' = Tail(wire) /\ wire # <<>> /\ Head(wire).kind \in kinds
      /\ heads' = IF Head(wire).kind = "head" THEN heads + 1 ELSE heads
    BY DEF Take
<1>2. Reading(n, b) /\ Clean(wire, n, b) /\ n \in 0..Len(sent) /\ heads = n /\ b \in Seq(Bin)
    BY DEF Open, Reading
<1>3. n \in Nat /\ sent \in Seq(Message) /\ Len(sent) \in Nat
  <2>1. sent \in Seq(Message) /\ Len(sent) \in Nat
      BY SendingIsWire
  <2> QED BY <1>2, <2>1
<1>4. b = <<>> <=> partial = Absent
  <2>1. CASE b = <<>>
      BY <1>2, <2>1 DEF Reading
  <2>2. CASE b # <<>>
    <3>1. PICK p : partial = <<p>>
        BY <1>2, <2>2 DEF Reading, Present
    <3> QED BY <2>2, <3>1 DEF Absent
  <2> QED BY <2>1, <2>2
<1>5. b # <<>> => Head(b) \in Bin
    BY <1>2
<1>6. \/ b # <<>> /\ Head(wire) = Head(b) /\ Clean(Tail(wire), n, Tail(b))
      \/ b = <<>> /\ Head(wire).kind = "other" /\ Clean(Tail(wire), n, b)
      \/ /\ b = <<>> /\ n + 1 \in 1..Len(sent) /\ Fit(sent[n + 1])
         /\ Head(wire) = HeadOf(sent[n + 1]) /\ Clean(Tail(wire), n + 1, Atts(sent[n + 1]))
      \/ b = <<>> /\ n < Len(sent) /\ Intact \subseteq 1..n
    BY <1>1, <1>2, Off
<1>7. CASE b # <<>> /\ Head(wire) = Head(b) /\ Clean(Tail(wire), n, Tail(b))
  <2>1. Head(wire).kind = "bin"
      BY <1>5, <1>7, WireKinds
  <2> QED BY <1>1, <1>2, <1>3, <1>4, <1>5, <1>7, <2>1
<1>8. CASE b = <<>> /\ Head(wire).kind = "other" /\ Clean(Tail(wire), n, b)
    BY <1>1, <1>2, <1>3, <1>4, <1>8
<1>9. CASE /\ b = <<>> /\ n + 1 \in 1..Len(sent) /\ Fit(sent[n + 1])
           /\ Head(wire) = HeadOf(sent[n + 1]) /\ Clean(Tail(wire), n + 1, Atts(sent[n + 1]))
  <2>1. sent[n + 1] \in Message
      BY <1>3, <1>9
  <2>2. Head(wire).kind = "head"
      BY <1>9, <2>1, WireKinds
  <2> QED BY <1>1, <1>2, <1>3, <1>4, <1>9, <2>1, <2>2
<1>10. CASE b = <<>> /\ n < Len(sent) /\ Intact \subseteq 1..n
    BY <1>1, <1>2, <1>3, <1>4, <1>10, PastWhere
<1> QED BY <1>6, <1>7, <1>8, <1>9, <1>10

LEMMA InOrderSkip ==
    ASSUME Shape, NEW n, NEW b, Open(n, b), SkipOther
    PROVE  Open(n, b)' \/ Past
<1>1. partial = Absent /\ Take({"other"}) /\ UNCHANGED <<ended, sending, sent, rx, partial, got, broken>>
    BY DEF SkipOther, sender
<1>2. /\ Reading(n, b) /\ heads = n /\ b = <<>> /\ Head(wire).kind = "other"
      /\ (Clean(wire', n, b) /\ heads' = n) \/ Past
    BY <1>1, Taken
<1>3. CASE Clean(wire', n, b) /\ heads' = n
    BY <1>1, <1>2, <1>3, CleanKept, ReadingKept DEF Open
<1> QED BY <1>2, <1>3

\* The next message is the packet that comes.
LEMMA InOrderPacket ==
    ASSUME Shape, NEW n, NEW b, Open(n, b), TakePacket
    PROVE  Past \/ \E q, c : Open(q, c)'
<1>1. partial = Absent /\ Take({"head"}) /\ UNCHANGED <<ended, sending, sent, rx, broken>>
    BY DEF TakePacket, sender
<1> DEFINE m == sent[n + 1]
           p == PacketOf(m)
<1>2. /\ Reading(n, b) /\ n \in Nat /\ b = <<>> /\ Head(wire).kind = "head"
      /\ \/ /\ n + 1 \in 1..Len(sent) /\ Fit(m) /\ heads' = n + 1 /\ m \in Message
            /\ Head(wire) = HeadOf(m) /\ Clean(wire', n + 1, Atts(m))
         \/ Past
    BY <1>1, Taken
<1> SUFFICES ASSUME /\ n + 1 \in 1..Len(sent) /\ Fit(m) /\ heads' = n + 1 /\ m \in Message
                    /\ Head(wire) = HeadOf(m) /\ Clean(wire', n + 1, Atts(m))
             PROVE  Open(n + 1, Atts(m))'
    BY <1>2
<1>3. Clean(wire, n + 1, Atts(m))' /\ ~ended' /\ rx' \in {"live", "deaf"}
  <2>1. Clean(wire, n + 1, Atts(m))'
      BY <1>1 DEF Clean, Intact
  <2> QED BY <1>1, <2>1 DEF Open
<1>4. /\ n + 1 \in 0..Len(sent) /\ n + 1 <= Len(sent) /\ (n + 1) - 1 = n /\ n + 1 # 0
      /\ Received(got, sent, n)
  <2>1. Len(sent) \in Nat
      BY SendingIsWire
  <2>2. Received(got, sent, n)
      BY <1>2 DEF Reading
  <2> QED BY <1>2, <2>1, <2>2
<1>5. p.count = Len(Atts(m)) /\ Atts(m) \in Seq(Bin)
    BY PacketFields, AttsAreBin
<1>6. Decode(Head(wire).val) = p
    BY DEF HeadOf, PacketOf
<1>7. IF p.count = 0 THEN Deliver(p, <<>>) /\ UNCHANGED partial
      ELSE partial' = Present([packet |-> p, atts |-> <<>>]) /\ UNCHANGED got
    BY <1>6 DEF TakePacket
<1>8. CASE p.count = 0
  <2>1. Atts(m) = <<>>
      BY <1>5, <1>8, EmptySeq
  <2>2. Received(got', sent, n + 1)
      BY <1>2, <1>4, <1>7, <1>8, <2>1, Delivers
  <2>3. partial' = Absent
      BY <1>1, <1>7, <1>8
  <2>4. Reading(n + 1, Atts(m))'
      BY <1>1, <1>4, <1>5, <2>1, <2>2, <2>3 DEF Reading
  <2> QED BY <1>3, <2>4 DEF Open
<1>9. CASE p.count # 0
  <2>1. Atts(m) # <<>>
      BY <1>5, <1>9
  <2>2. <<>> \in Seq(Bin) /\ Atts(m) = <<>> \o Atts(m)
      BY <1>5
  <2>3. partial' = Present([packet |-> p, atts |-> <<>>]) /\ got' = got
      BY <1>7, <1>9
  <2>4. Received(got', sent', (n + 1) - 1)
      BY <1>1, <1>4, <2>3
  <2>5. Reading(n + 1, Atts(m))'
      BY <1>1, <1>4, <1>5, <2>1, <2>2, <2>3, <2>4 DEF Reading
  <2> QED BY <1>3, <2>5 DEF Open
<1> QED BY <1>8, <1>9

\* A message whose packet was taken fits, if nothing behind it has gone wrong.
LEMMA FitsRead ==
    ASSUME NEW n, NEW b, Clean(wire, n, b), n # 0
    PROVE  Fit(sent[n])
<1>1. PICK l, z, h : Frames(wire \o sending, b, sent, n, l, z, h) /\ \A i \in 1..l : Fit(sent[i])
    BY DEF Clean
<1>2. n \in Nat /\ l \in Nat /\ n <= l
    BY <1>1, FramesNat
<1>3. n \in 1..l
    BY <1>2
<1> QED BY <1>1, <1>3

LEMMA InOrderAttachment ==
    ASSUME Shape, NEW n, NEW b, Open(n, b), TakeAttachment
    PROVE  Past \/ \E q, c : Open(q, c)'
<1>1. partial # Absent /\ Take({"head", "bin"}) /\ UNCHANGED <<ended, sending, sent, rx, broken>>
    BY DEF TakeAttachment, sender
<1>2. /\ Reading(n, b) /\ n \in Nat /\ b # <<>> /\ b \in Seq(Bin)
      /\ (Head(wire) = Head(b) /\ Clean(wire', n, Tail(b)) /\ heads' = n) \/ Past
    BY <1>1, Taken
<1> DEFINE m == sent[n]
           p == PacketOf(m)
           t == Tail(b)
<1> SUFFICES ASSUME Head(wire) = Head(b) /\ Clean(wire', n, t) /\ heads' = n
             PROVE  Open(n, t)'
    BY <1>2
<1>3. PICK a \in Seq(Bin) : Atts(m) = a \o b /\ partial = Present([packet |-> p, atts |-> a])
    BY <1>2 DEF Reading
<1>4. n # 0 /\ Received(got, sent, n - 1) /\ n \in 0..Len(sent)
    BY <1>2 DEF Reading
<1> DEFINE c == Append(a, Head(b))
<1>5. sent \in Seq(Message) /\ Len(sent) \in Nat
    BY SendingIsWire
<1>6. m \in Message /\ n - 1 \in Nat /\ (n - 1) + 1 = n /\ (n - 1) + 1 <= Len(sent)
  <2>1. n \in 1..Len(sent)
      BY <1>2, <1>4, <1>5
  <2> QED BY <1>5, <2>1
<1>7. Fit(m) /\ p.count = Len(Atts(m))
  <2>1. Fit(m)
      BY <1>4, FitsRead DEF Open
  <2> QED BY <1>6, <2>1, PacketFields
<1>8. /\ c \in Seq(Bin) /\ t \in Seq(Bin) /\ c \o t = Atts(m)
      /\ Len(c) = Len(Atts(m)) => t = <<>>
      /\ t = <<>> => Len(c) = Len(Atts(m)) /\ c = Atts(m)
  <2>1. /\ c \in Seq(Bin) /\ t \in Seq(Bin) /\ c \o t = a \o b /\ c \o <<>> = c
        /\ Len(c) = Len(a \o b) <=> t = <<>>
    <3>1. a \in Seq(Bin) /\ b \in Seq(Bin) /\ b # <<>> /\ c = Append(a, Head(b)) /\ t = Tail(b)
        BY <1>2
    <3> HIDE DEF c, t
    <3>2. MovesOver(Bin, a, b, c, t)
        BY ONLY <3>1, OneMore
    <3> QED BY ONLY <3>2 DEF MovesOver
  <2> HIDE DEF c, t
  <2> QED BY <1>3, <2>1
<1>9. partial[1].packet = p /\ Append(partial[1].atts, Head(wire)) = c
    BY <1>3 DEF Present
<1>10. IF Len(c) = p.count THEN partial' = Absent /\ Deliver(p, c)
       ELSE partial' = Present([packet |-> p, atts |-> c]) /\ UNCHANGED got
    BY <1>9 DEF TakeAttachment
<1> HIDE DEF c, t
<1>11. Clean(wire, n, t)' /\ ~ended' /\ rx' \in {"live", "deaf"}
    BY <1>1, CleanKept DEF Open
<1>12. CASE Len(c) = p.count
  <2>1. t = <<>> /\ c = Atts(m)
      BY <1>7, <1>8, <1>12
  <2>2. partial' = Absent /\ Deliver(p, Atts(m))
      BY <1>10, <1>12, <2>1
  <2>3. Received(got', sent, (n - 1) + 1)
      BY <1>4, <1>6, <1>7, <2>2, Delivers
  <2>4. Reading(n, t)'
      BY <1>1, <1>4, <1>6, <1>8, <2>1, <2>2, <2>3 DEF Reading
  <2> QED BY <1>11, <2>4 DEF Open
<1>13. CASE Len(c) # p.count
  <2>1. t # <<>>
      BY <1>7, <1>8, <1>13
  <2>2. partial' = Present([packet |-> p, atts |-> c]) /\ got' = got
      BY <1>10, <1>13
  <2>3. Reading(n, t)'
      BY <1>1, <1>4, <1>8, <2>1, <2>2 DEF Reading
  <2> QED BY <1>11, <2>3 DEF Open
<1> QED BY <1>12, <1>13

\* An error is found only behind a message that is not intact.
LEMMA InOrderError ==
    ASSUME Shape, NEW n, NEW b, Open(n, b), TakeError
    PROVE  Past
<1> DEFINE kinds == IF partial = Absent THEN {"bin"} ELSE {"other"}
<1>1. Take(kinds)
    BY DEF TakeError
<1>2. CASE b = <<>>
  <2>1. Head(wire).kind = "bin"
      BY <1>1, <1>2, Taken
  <2> QED BY <1>1, <1>2, <2>1, Taken
<1>3. CASE b # <<>>
  <2>1. Head(wire).kind = "other"
      BY <1>1, <1>3, Taken
  <2>2. (Head(wire) = Head(b) /\ Head(b) \in Bin) \/ Past
      BY <1>1, <1>3, Taken
  <2> QED BY <2>1, <2>2, WireKinds
<1> QED BY <1>2, <1>3

LEMMA InOrderDrops ==
    ASSUME Shape, NEW n, NEW b, Open(n, b), PollDrops
    PROVE  Past \/ Past' \/ Open(n, b)'
<1>1. /\ Take({"head", "bin", "other"}) /\ UNCHANGED <<ended, sending, sent, partial, got>>
      /\ rx' \in {"live", "deaf"}
      /\ broken' = IF Head(wire).kind = "other" THEN broken ELSE broken \cup {heads'}
    BY DEF PollDrops, sender
<1>2. Reading(n, b) /\ n \in Nat /\ heads = n /\ n \in 0..Len(sent) /\ Len(sent) \in Nat
    BY <1>1, Taken, SendingIsWire DEF Reading
<1>3. CASE b # <<>> /\ Head(wire) = Head(b) /\ Head(b) \in Bin /\ heads' = n
  <2>1. n # 0
      BY <1>2, <1>3 DEF Reading
  <2>2. n \in broken'
      BY <1>1, <1>3, WireKinds
  <2>3. n - 1 \in Nat /\ n - 1 <= n /\ n - 1 < n /\ n - 1 < Len(sent) /\ (n - 1) + 1 \in broken'
      BY <1>2, <2>1, <2>2
  <2> QED BY <1>1, <1>2, <2>3, PastNow
<1>4. CASE b = <<>> /\ Head(wire).kind = "other" /\ Clean(wire', n, b) /\ heads' = n
  <2>1. UNCHANGED <<heads, broken>>
      BY <1>1, <1>2, <1>4
  <2> QED BY <1>1, <1>2, <1>4, <2>1, CleanKept, ReadingKept DEF Open
<1>5. CASE b = <<>> /\ n + 1 \in 1..Len(sent) /\ heads' = n + 1 /\ Head(wire).kind = "head"
  <2>1. n + 1 \in broken' /\ n <= n /\ n < Len(sent)
      BY <1>1, <1>2, <1>5
  <2> QED BY <1>1, <1>2, <1>5, <2>1, PastNow
<1> QED BY <1>1, <1>3, <1>4, <1>5, Taken

LEMMA InOrderStep == Shape /\ InOrder /\ [Next]_vars => InOrder'
<1> SUFFICES ASSUME Shape, InOrder, [Next]_vars PROVE InOrder'
    OBVIOUS
<1>1. CASE Past
    BY <1>1, PastStep DEF InOrder
<1>2. ASSUME NEW n, NEW b, Reading(n, b), ended, wire = <<>> PROVE InOrder'
  <2>1. UNCHANGED <<wire, ended, sent, heads, partial, got>>
      BY <1>2 DEF Next, Receive, Send, SendAttachment, SendFails, EnginePacket, Lost, SkipOther,
                  TakePacket, TakeAttachment, TakeError, PollDrops, StreamEnds, CallbackRuns, Take,
                  vars, sender, receiver
  <2> QED BY <1>2, <2>1, ReadingKept DEF InOrder
<1>3. ASSUME NEW n, NEW b, Open(n, b) PROVE InOrder'
  <2>0. ASSUME NEW q, NEW c, Open(q, c)' PROVE InOrder'
      BY <2>0 DEF Open, InOrder
  <2>1. ASSUME NEW m \in Message, Send(m) PROVE InOrder'
      BY <1>3, <2>0, <2>1, InOrderSend
  <2>2. CASE SendAttachment
      BY <1>3, <2>0, <2>2, InOrderSends
  <2>3. CASE SendFails
      BY <1>3, <2>0, <2>3, InOrderFails DEF InOrder
  <2>4. CASE EnginePacket
      BY <1>3, <2>0, <2>4, InOrderEngine
  <2>5. CASE Lost
    <3>1. wire' = <<>> /\ ended' = TRUE /\ UNCHANGED <<sent, heads, partial, got>>
        BY <2>5 DEF Lost, receiver
    <3> QED BY <1>3, <3>1, ReadingKept DEF Open, InOrder
  <2>6. CASE SkipOther
      BY <1>1, <1>3, <2>0, <2>6, InOrderSkip
  <2>7. CASE TakePacket
      BY <1>1, <1>3, <2>0, <2>7, InOrderPacket
  <2>8. CASE TakeAttachment
      BY <1>1, <1>3, <2>0, <2>8, InOrderAttachment
  <2>9. CASE TakeError
      BY <1>1, <1>3, <2>9, InOrderError
  <2>10. CASE PollDrops
      BY <1>1, <1>3, <2>0, <2>10, InOrderDrops DEF InOrder
  <2>11. CASE UNCHANGED <<wire, ended, sending, sent, rx, partial, got, heads, broken>>
    <3>1. Clean(wire', n, b)
        BY <1>3, <2>11 DEF Open
    <3>2. Open(n, b)'
        BY <1>3, <2>11, <3>1, CleanKept, ReadingKept DEF Open
    <3> QED BY <2>0, <3>2
  <2>12. ~StreamEnds
      BY <1>3 DEF Open, StreamEnds
  <2>13. ASSUME NEW k \in DOMAIN got, CallbackRuns(k) PROVE InOrder'
      BY <2>11, <2>13 DEF CallbackRuns, sender
  <2>14. CASE UNCHANGED vars
      BY <2>11, <2>14 DEF vars, sender, receiver
  <2> QED BY <2>1, <2>2, <2>3, <2>4, <2>5, <2>6, <2>7, <2>8, <2>9, <2>10, <2>12, <2>13, <2>14
          DEF Next, Receive
<1> QED BY <1>1, <1>2, <1>3 DEF InOrder, Open

-----------------------------------------------------------------------------
(* Theorems *)

\* The wire and the receiver keep their shape, and what comes out of the wire next is what
\* the receiver's stream expects, until it is past a message that does not fit, that
\* emit_multi left without its attachments or that lost a packet to poll_next; what was
\* before that message has then been handed over.
THEOREM Invariance == Spec => []IInv
<1>1. Init => IInv
    BY ShapeInit, InOrderInit DEF IInv
<1>2. IInv /\ [Next]_vars => IInv'
    BY ShapeStep, InOrderStep DEF IInv
<1> QED BY <1>1, <1>2, PTL DEF Spec

\* Every variable has its type, and a packet waits only while it lacks attachments, for
\* any messages, also those that the encoding cannot carry.
THEOREM TypeCorrect == Spec => []TypeOK
<1>1. IInv => TypeOK
    BY ShapeIsTypeOK DEF IInv
<1> QED BY <1>1, Invariance, PTL

\* What is for this socket among the intact messages.
LEMMA MineIs ==
    ASSUME Shape
    PROVE  \E l \in 0..Len(sent) :
             /\ Intact = 1..l /\ Len(Mine) = Rank(MineAt(sent), l) /\ Len(Mine) \in Nat
             /\ DOMAIN Mine = 1..Len(Mine)
             /\ \A j \in 1..Len(Mine) : Mine[j] = Selected(sent, MineAt(sent))[j]
<1>1. PICK l \in 0..Len(sent) : Intact = 1..l
    BY IntactIsPrefix
<1>2. sent \in Seq(Message) /\ MineAt(sent) \in SUBSET Nat
    BY SendingIsWire, MineIsNat
<1> DEFINE K == MineAt(sent)
<1>3. Mine = Selected(sent, K \cap 1..l)
    BY <1>1 DEF Mine
<1> HIDE DEF K
<1>4. K \in SUBSET Nat
    BY <1>2 DEF K
<1>5. /\ Len(Mine) = Rank(K, l) /\ Rank(K, l) \in Nat /\ Mine \in Seq(Message)
      /\ \A j \in 1..Rank(K, l) : Mine[j] = Selected(sent, K)[j]
  <2>1. /\ Len(Selected(sent, K \cap 1..l)) = Rank(K, l) /\ Rank(K, l) \in Nat
        /\ Selected(sent, K \cap 1..l) \in Seq(Message)
        /\ \A j \in 1..Rank(K, l) : Selected(sent, K \cap 1..l)[j] = Selected(sent, K)[j]
    <3>1. l \in 0..Len(sent) /\ sent \in Seq(Message) /\ K \in SUBSET Nat
        BY <1>2, <1>4
    <3> QED BY ONLY <3>1, SelectedPrefix, Zenon
  <2> QED BY ONLY <1>3, <2>1
<1>6. DOMAIN Mine = 1..Len(Mine)
    BY <1>5
<1> QED BY <1>1, <1>5, <1>6 DEF K

\* How far the callbacks have come: as far as the intact messages, or, if there are no
\* others, not yet that far.
LEMMA HandedSoFar ==
    ASSUME IInv
    PROVE  \/ Past
           \/ \E d \in 0..Len(sent) : Received(got, sent, d)
<1>1. CASE Past
    BY <1>1
<1>2. ASSUME NEW n, NEW b, Reading(n, b) PROVE \E d \in 0..Len(sent) : Received(got, sent, d)
  <2>1. CASE b = <<>>
      BY <1>2, <2>1 DEF Reading
  <2>2. CASE b # <<>>
    <3>1. n \in 0..Len(sent) /\ n # 0 /\ Received(got, sent, n - 1) /\ Len(sent) \in Nat
        BY <1>2, <2>2, SendingIsWire DEF Reading, IInv
    <3>2. n - 1 \in 0..Len(sent)
        BY <3>1
    <3> QED BY <3>1, <3>2
  <2> QED BY <2>1, <2>2
<1> QED BY <1>1, <1>2 DEF IInv, InOrder

\* Past a message that is not intact, all that is intact has been handed over.
LEMMA PastMine ==
    ASSUME Shape, Past
    PROVE  /\ Intact # DOMAIN sent /\ Len(Mine) <= Len(got)
           /\ \A j \in 1..Len(Mine) : got[j] = Promise(Mine[j])
<1>0. sent \in Seq(Message) /\ Len(sent) \in Nat /\ DOMAIN sent = 1..Len(sent)
  <2>1. sent \in Seq(Message)
      BY SendingIsWire
  <2> QED BY <2>1
<1>1. PICK l \in 0..Len(sent) :
        /\ Intact = 1..l /\ Len(Mine) = Rank(MineAt(sent), l) /\ Len(Mine) \in Nat
        /\ \A j \in 1..Len(Mine) : Mine[j] = Selected(sent, MineAt(sent))[j]
    BY MineIs
<1>2. PICK x \in Nat : x < Len(sent) /\ Intact \subseteq 1..x /\ Handed(got, sent, x)
    BY DEF Past
<1>3. l <= x /\ l \in Nat /\ l < Len(sent)
  <2>1. l \in Nat
      BY <1>0
  <2>2. l # 0 => l \in 1..l
      BY <2>1
  <2>3. l <= x
      BY <1>1, <1>2, <2>1, <2>2
  <2> QED BY <1>0, <1>2, <2>1, <2>3
<1>4. Intact # DOMAIN sent
  <2>1. Len(sent) \in 1..Len(sent) /\ Len(sent) \notin 1..l
      BY <1>0, <1>3
  <2> QED BY <1>0, <1>1, <2>1
<1> DEFINE r == Rank(MineAt(sent), x)
<1>5. Len(Mine) <= r /\ r \in Nat
    BY <1>1, <1>2, <1>3, RankGrows, RankStep
<1>6. r <= Len(got) /\ \A j \in 1..r : got[j] = Promise(Selected(sent, MineAt(sent))[j])
    BY <1>2 DEF Handed
<1>7. Len(got) \in Nat
  <2>1. PICK S : got \in Seq(S)
      BY DEF Shape, Calls
  <2> QED BY <2>1
<1> HIDE DEF r
<1>8. Len(Mine) <= Len(got) /\ \A j \in 1..Len(Mine) : j \in 1..r
    BY <1>1, <1>5, <1>6, <1>7
<1> QED BY <1>1, <1>4, <1>6, <1>8

\* What is handed to the callbacks is what was emitted to them, in that order and with
\* every binary in its place, up to the first message that does not fit or was cut short,
\* for any payloads.
THEOREM Delivered == Spec => []DeliveredAsSent
<1>1. IInv => DeliveredAsSent
  <2> SUFFICES ASSUME IInv PROVE DeliveredAsSent
      OBVIOUS
  <2>0. Shape /\ sent \in Seq(Message) /\ Len(sent) \in Nat
      BY SendingIsWire DEF IInv
  <2>1. PICK l \in 0..Len(sent) :
          /\ Intact = 1..l /\ Len(Mine) = Rank(MineAt(sent), l) /\ Len(Mine) \in Nat
          /\ DOMAIN Mine = 1..Len(Mine)
          /\ \A j \in 1..Len(Mine) : Mine[j] = Selected(sent, MineAt(sent))[j]
      BY <2>0, MineIs
  <2>2. CASE Past
      BY <2>0, <2>1, <2>2, PastMine DEF DeliveredAsSent
  <2>3. ASSUME NEW d \in 0..Len(sent), Received(got, sent, d) PROVE DeliveredAsSent
    <3> DEFINE K == MineAt(sent)
    <3>1. /\ Len(got) = Rank(K, d) /\ got \in Seq({Promise(m) : m \in Message})
          /\ \A j \in 1..Len(got) : got[j] = Promise(Selected(sent, K)[j])
        BY <2>3 DEF Received
    <3>2. DOMAIN got = 1..Len(got)
        BY <3>1
    <3>3. Rank(K, d) <= Rank(K, Len(sent))
        BY <2>0, RankGrows
    <3>4. Intact = DOMAIN sent => l = Len(sent)
      <4>1. DOMAIN sent = 1..Len(sent) /\ l \in Nat
          BY <2>0
      <4>2. 1..l = 1..Len(sent) => l = Len(sent)
          BY <2>0, <4>1, SameInterval
      <4> QED BY <2>1, <4>1, <4>2
    <3>5. Intact = DOMAIN sent => Len(got) <= Len(Mine)
        BY <2>1, <3>1, <3>3, <3>4
    <3> QED BY <2>1, <3>1, <3>2, <3>5 DEF DeliveredAsSent
  <2> QED BY <2>2, <2>3, HandedSoFar
<1> QED BY <1>1, Invariance, PTL

\* The receiver's stream fails on a live transport only past a message that does not fit or
\* was cut short, and what is before that message has then been handed over.
THEOREM Survives == Spec => []StreamSurvives
<1>1. IInv => StreamSurvives
  <2> SUFFICES ASSUME IInv, rx = "over", ~ended
               PROVE  Intact # DOMAIN sent /\ Len(got) >= Len(Mine)
      BY DEF StreamSurvives
  <2>1. Past /\ Shape
      BY DEF IInv, InOrder
  <2>2. Intact # DOMAIN sent /\ Len(Mine) <= Len(got)
      BY <2>1, PastMine
  <2>3. Len(Mine) \in Nat /\ Len(got) \in Nat
    <3>1. PICK S : got \in Seq(S)
        BY <2>1 DEF Shape, Calls
    <3> QED BY <2>1, <3>1, MineIs
  <2> QED BY <2>2, <2>3
<1> QED BY <1>1, Invariance, PTL
=============================================================================
