------------------------------ MODULE TextProofs ------------------------------
(***************************************************************************)
(* Lemmas about Text and what it is made of: numbers in order, parts of    *)
(* sequences, the places of the dots of a name and its pieces.  They are   *)
(* about names of any length; where a claim needs induction over data, the *)
(* provers get it as a statement about the least number for which the      *)
(* claim would fail (LeastNumber).                                         *)
(***************************************************************************)
EXTENDS Text, FiniteSetTheorems, SequenceTheorems, WellFoundedInduction, TLAPS

-----------------------------------------------------------------------------
(* Least and greatest numbers *)

\* Induction: a set of numbers has a least one.
LEMMA LeastNumber ==
  ASSUME NEW T, T \subseteq Nat, T # {}
  PROVE  \E n \in T : \A k \in T : n <= k
<1> DEFINE R == OpToRel(<, Nat)
<1>1. IsWellFoundedOn(R, Nat)
  BY NatLessThanWellFounded
<1>2. \A k, n \in Nat : (k < n) <=> (<<k, n>> \in R)
  BY DEF OpToRel
<1> HIDE DEF R
<1>3. PICK n \in T : \A k \in T : <<k, n>> \notin R
  BY <1>1, WFMin
<1>4. ASSUME NEW k \in T
      PROVE  n <= k
  <2>1. n \in Nat /\ k \in Nat
    OBVIOUS
  <2>2. ~(k < n)
    BY <1>2, <1>3, <2>1
  <2> QED
    BY <2>1, <2>2
<1> QED
  BY <1>4

\* Induction up to a bound.
LEMMA Upward ==
  ASSUME NEW n \in Nat, NEW T, 0 \in T,
         \A k \in 0..(n - 1) : k \in T => k + 1 \in T
  PROVE  \A k \in 0..n : k \in T
<1> DEFINE Out == {k \in 0..n : k \notin T}
<1>1. SUFFICES ASSUME Out # {}
               PROVE  FALSE
  OBVIOUS
<1>2. PICK k \in Out : \A j \in Out : k <= j
  <2>1. Out \subseteq Nat
    OBVIOUS
  <2> HIDE DEF Out
  <2> QED
    BY <1>1, <2>1, LeastNumber
<1>3. k \in 0..n /\ k \notin T /\ k # 0
  OBVIOUS
<1>4. k - 1 \in 0..(n - 1) /\ k - 1 \in 0..n /\ ~(k <= k - 1) /\ k - 1 + 1 = k
  BY <1>3
<1>5. k - 1 \in T
  BY <1>2, <1>4
<1>6. k - 1 + 1 \in T
  BY <1>4, <1>5
<1> QED
  BY <1>3, <1>4, <1>6

\* A set of numbers below a bound has a greatest one.
LEMMA GreatestNumber ==
  ASSUME NEW n \in Nat, NEW T, T \subseteq 0..n, T # {}
  PROVE  Max(T) \in T /\ \A k \in T : k <= Max(T)
<1> DEFINE U == {n - k : k \in T}
<1>0. \A k \in T : k \in Nat /\ n - k \in Nat
  OBVIOUS
<1>1. U \subseteq Nat /\ U # {}
  BY <1>0
<1>2. PICK u \in U : \A v \in U : u <= v
  <2> HIDE DEF U
  <2> QED
    BY <1>1, LeastNumber
<1>3. PICK m \in T : u = n - m
  BY <1>2
<1>4. \A k \in T : m >= k
  <2>1. ASSUME NEW k \in T
        PROVE  m >= k
    <3>1. n - m <= n - k
      BY <1>2, <1>3
    <3>2. m \in Nat /\ k \in Nat
      BY <1>0
    <3> QED
      BY <3>1, <3>2
  <2> QED
    BY <2>1
<1>5. Max(T) \in T /\ \A k \in T : Max(T) >= k
  BY <1>4 DEF Max
<1>6. Max(T) \in Nat /\ \A k \in T : k \in Nat
  BY <1>0, <1>5
<1> QED
  BY <1>5, <1>6

-----------------------------------------------------------------------------
(* Numbers in order *)

Below(C, c) == {b \in C : b < c}
Rank(C, c) == Cardinality(Below(C, c))

LEMMA RankType ==
  ASSUME NEW C, C \subseteq Nat, IsFiniteSet(C), NEW c \in C
  PROVE  Rank(C, c) \in Nat /\ Rank(C, c) + 1 \in 1..Cardinality(C)
<1>1. IsFiniteSet(Below(C, c)) /\ Rank(C, c) <= Cardinality(C)
  BY FS_Subset DEF Below, Rank
<1>2. Rank(C, c) \in Nat /\ Cardinality(C) \in Nat
  BY <1>1, FS_CardinalityType DEF Rank
<1>3. Below(C, c) # C
  <2>1. c \in Nat
    OBVIOUS
  <2>2. c \notin Below(C, c)
    BY <2>1 DEF Below
  <2> QED
    BY <2>2
<1>4. Rank(C, c) # Cardinality(C)
  <2>1. Below(C, c) \in SUBSET C
    BY DEF Below
  <2>2. Cardinality(C) = Cardinality(Below(C, c)) => C = Below(C, c)
    BY <2>1, FS_Subset
  <2> QED
    BY <1>3, <2>2 DEF Rank
<1> QED
  <2> DEFINE r == Rank(C, c)  n == Cardinality(C)
  <2>1. r \in Nat /\ n \in Nat /\ r <= n /\ r # n
    BY <1>1, <1>2, <1>4
  <2> HIDE DEF r, n
  <2>2. r + 1 \in 1..n
    BY <2>1
  <2> QED
    BY <2>1, <2>2 DEF r, n

LEMMA RankGrows ==
  ASSUME NEW C, C \subseteq Nat, IsFiniteSet(C), NEW b \in C, NEW c \in C, b < c
  PROVE  Rank(C, b) < Rank(C, c)
<1>1. IsFiniteSet(Below(C, b)) /\ IsFiniteSet(Below(C, c))
  BY FS_Subset DEF Below
<1>2. b \notin Below(C, b) /\ Below(C, b) \cup {b} \subseteq Below(C, c)
  <2>1. b \in Nat /\ c \in Nat /\ \A x \in C : x \in Nat
    OBVIOUS
  <2>2. \A x \in C : x < b => x < c
    BY <2>1
  <2>3. b \notin Below(C, b)
    BY <2>1 DEF Below
  <2>4. b \in Below(C, c)
    BY DEF Below
  <2>5. Below(C, b) \subseteq Below(C, c)
    BY <2>2 DEF Below
  <2> QED
    BY <2>3, <2>4, <2>5
<1>3. /\ IsFiniteSet(Below(C, b) \cup {b})
      /\ Cardinality(Below(C, b) \cup {b}) = Rank(C, b) + 1
  BY <1>1, <1>2, FS_AddElement DEF Rank
<1>4. Cardinality(Below(C, b) \cup {b}) <= Rank(C, c)
  BY <1>1, <1>2, FS_Subset DEF Rank
<1>5. Rank(C, b) \in Nat /\ Rank(C, c) \in Nat
  BY RankType
<1> QED
  BY <1>3, <1>4, <1>5

\* Nth and Rank are each other's inverse.
LEMMA NthRank ==
  ASSUME NEW C, C \subseteq Nat, IsFiniteSet(C)
  PROVE  /\ \A k \in 1..Cardinality(C) : Nth(C, k) \in C /\ Rank(C, Nth(C, k)) = k - 1
         /\ \A c \in C : Nth(C, Rank(C, c) + 1) = c
<1> DEFINE N == Cardinality(C)
           f == [c \in C |-> Rank(C, c) + 1]
<1>1. N \in Nat
  BY FS_CardinalityType
<1>2. \A b, c \in C : Rank(C, b) = Rank(C, c) => b = c
  <2>1. ASSUME NEW b \in C, NEW c \in C, Rank(C, b) = Rank(C, c)
        PROVE  b = c
    <3>0. Rank(C, b) \in Nat /\ Rank(C, c) \in Nat
      BY RankType
    <3>1. /\ b < c => Rank(C, b) < Rank(C, c)
          /\ c < b => Rank(C, c) < Rank(C, b)
      BY RankGrows
    <3>2. b \in Nat /\ c \in Nat
      OBVIOUS
    <3> QED
      BY <2>1, <3>0, <3>1, <3>2
  <2> QED
    BY <2>1
<1>3. f \in [C -> 1..N]
  BY RankType
<1>4. \A b, c \in C : f[b] = f[c] => b = c
  <2>1. ASSUME NEW b \in C, NEW c \in C, f[b] = f[c]
        PROVE  b = c
    <3>1. Rank(C, b) \in Nat /\ Rank(C, c) \in Nat
      BY RankType
    <3>2. Rank(C, b) + 1 = Rank(C, c) + 1
      BY <2>1
    <3> QED
      BY <1>2, <3>1, <3>2
  <2> QED
    BY <2>1
<1>5. f \in Injection(C, 1..N)
  BY <1>3, <1>4 DEF Injection, IsInjective
<1>6. IsFiniteSet(1..N) /\ Cardinality(1..N) = N
  BY <1>1, FS_Interval
<1>7. f \in Surjection(C, 1..N)
  BY <1>5, <1>6, FS_Injection
<1>8. \A k \in 1..N : \E c \in C : Rank(C, c) = k - 1
  <2>1. ASSUME NEW k \in 1..N
        PROVE  \E c \in C : Rank(C, c) = k - 1
    <3>1. PICK c \in C : f[c] = k
      BY <1>7 DEF Surjection
    <3>2. Rank(C, c) \in Nat /\ Rank(C, c) + 1 = k
      BY <3>1, RankType
    <3> QED
      BY <3>2
  <2> QED
    BY <2>1
<1>9. ASSUME NEW k \in 1..N
      PROVE  Nth(C, k) \in C /\ Rank(C, Nth(C, k)) = k - 1
  BY <1>8 DEF Nth, Rank, Below
<1>10. ASSUME NEW c \in C
       PROVE  Nth(C, Rank(C, c) + 1) = c
  <2>1. Rank(C, c) + 1 \in 1..N /\ Rank(C, c) \in Nat
    BY RankType
  <2>2. /\ Nth(C, Rank(C, c) + 1) \in C
        /\ Rank(C, Nth(C, Rank(C, c) + 1)) = Rank(C, c)
    BY <1>9, <2>1
  <2> QED
    BY <1>2, <2>2
<1> QED
  BY <1>9, <1>10

LEMMA NthGrows ==
  ASSUME NEW C, C \subseteq Nat, IsFiniteSet(C),
         NEW j \in 1..Cardinality(C), NEW k \in 1..Cardinality(C)
  PROVE  j < k <=> Nth(C, j) < Nth(C, k)
<1> DEFINE x == Nth(C, j)  y == Nth(C, k)
<1>1. Cardinality(C) \in Nat
  BY FS_CardinalityType
<1>2. x \in C /\ y \in C /\ Rank(C, x) = j - 1 /\ Rank(C, y) = k - 1
  BY NthRank
<1>3. x \in Nat /\ y \in Nat
  BY <1>2
<1> HIDE DEF x, y
<1>4. CASE x < y
  <2>1. Rank(C, x) < Rank(C, y)
    BY <1>2, <1>4, RankGrows
  <2> QED
    BY <1>1, <1>2, <1>4, <2>1 DEF x, y
<1>5. CASE x = y
  BY <1>1, <1>2, <1>3, <1>5 DEF x, y
<1>6. CASE y < x
  <2>1. Rank(C, y) < Rank(C, x)
    BY <1>2, <1>6, RankGrows
  <2> QED
    BY <1>1, <1>2, <1>3, <1>6, <2>1 DEF x, y
<1> QED
  BY <1>3, <1>4, <1>5, <1>6

\* A set that gets a greatest number keeps its order.
LEMMA NthNext ==
  ASSUME NEW C, C \subseteq Nat, IsFiniteSet(C),
         NEW m \in Nat, \A c \in C : c < m
  PROVE  /\ IsFiniteSet(C \cup {m}) /\ C \cup {m} \subseteq Nat
         /\ Cardinality(C) \in Nat
         /\ Cardinality(C \cup {m}) = Cardinality(C) + 1
         /\ \A k \in 1..Cardinality(C) : Nth(C \cup {m}, k) = Nth(C, k)
         /\ Nth(C \cup {m}, Cardinality(C) + 1) = m
<1> DEFINE D == C \cup {m}
<1>1. m \notin C
  OBVIOUS
<1>2. /\ IsFiniteSet(D) /\ D \subseteq Nat /\ Cardinality(C) \in Nat
      /\ Cardinality(D) = Cardinality(C) + 1
  BY <1>1, FS_AddElement, FS_CardinalityType
<1>3. \A d \in D : Nth(D, Rank(D, d) + 1) = d
  BY <1>2, NthRank
<1>4. \A c \in C : Below(D, c) = Below(C, c)
  <2>1. \A c \in C : ~(m < c)
    OBVIOUS
  <2> QED
    BY <2>1 DEF Below
<1>5. Below(D, m) = C
  <2>1. ~(m < m)
    OBVIOUS
  <2> QED
    BY <2>1 DEF Below
<1>6. Nth(D, Cardinality(C) + 1) = m
  BY <1>3, <1>5 DEF Rank
<1>7. ASSUME NEW k \in 1..Cardinality(C)
      PROVE  Nth(D, k) = Nth(C, k)
  <2> DEFINE c == Nth(C, k)
  <2>1. c \in C /\ Rank(C, c) = k - 1
    BY NthRank
  <2>2. Rank(D, c) = k - 1
    BY <1>4, <2>1 DEF Rank
  <2>3. k - 1 + 1 = k
    BY <1>2
  <2>4. Nth(D, k - 1 + 1) = c
    BY <1>3, <2>1, <2>2
  <2> QED
    BY <2>3, <2>4
<1> QED
  BY <1>2, <1>6, <1>7

-----------------------------------------------------------------------------
(* Parts of sequences *)

\* What a part of a sequence holds.
LEMMA Part ==
  ASSUME NEW S, NEW t \in Seq(S), NEW m \in Nat, NEW n \in Nat,
         1 <= m, m <= n + 1, n <= Len(t)
  PROVE  LET p == SubSeq(t, m, n)
         IN  /\ p \in Seq(S) /\ Len(p) = n - m + 1
             /\ \A j \in 1..(n - m + 1) : p[j] = t[m + j - 1]
<1>1. Len(t) \in Nat
  BY LenProperties
<1>2. \A i \in m..n : t[i] \in S
  BY <1>1, ElementOfSeq
<1>3. m \in Int /\ n \in Int
  OBVIOUS
<1>4. /\ SubSeq(t, m, n) \in Seq(S)
      /\ Len(SubSeq(t, m, n)) = IF m <= n THEN n - m + 1 ELSE 0
      /\ \A j \in 1..(n - m + 1) : SubSeq(t, m, n)[j] = t[m + j - 1]
  BY <1>2, <1>3, SubSeqProperties
<1>5. ~(m <= n) => n - m + 1 = 0
  OBVIOUS
<1> QED
  BY <1>4, <1>5

\* p is the m elements of t that stand behind its first a ones.
Excerpt(p, S, t, a, m) ==
    p \in Seq(S) /\ Len(p) = m /\ \A i \in 1..m : p[i] = t[a + i]

LEMMA ExcerptIs ==
  ASSUME NEW S, NEW t \in Seq(S), NEW a \in Nat, NEW m \in Nat,
         a + m <= Len(t)
  PROVE  Excerpt(SubSeq(t, a + 1, a + m), S, t, a, m)
<1> DEFINE b == a + 1  c == a + m  p == SubSeq(t, b, c)
<1>1. /\ b \in Nat /\ c \in Nat /\ 1 <= b /\ b <= c + 1 /\ c <= Len(t)
      /\ c - b + 1 = m
  OBVIOUS
<1>2. \A i \in 1..m : b + i - 1 = a + i
  OBVIOUS
<1> HIDE DEF b, c
<1>3. /\ p \in Seq(S) /\ Len(p) = c - b + 1
      /\ \A j \in 1..(c - b + 1) : p[j] = t[b + j - 1]
  BY <1>1, Part
<1> HIDE DEF p
<1>4. Excerpt(p, S, t, a, m)
  BY <1>1, <1>2, <1>3 DEF Excerpt
<1> QED
  BY <1>4 DEF b, c, p

\* r is one sequence behind another.
Joins(r, s, t) ==
    /\ Len(s) \in Nat /\ Len(t) \in Nat /\ Len(r) = Len(s) + Len(t)
    /\ \A i \in 1..Len(s) : r[i] = s[i]
    /\ \A i \in 1..Len(t) : r[Len(s) + i] = t[i]

LEMMA Joint ==
  ASSUME NEW S, NEW s \in Seq(S), NEW t \in Seq(S)
  PROVE  s \o t \in Seq(S) /\ Joins(s \o t, s, t)
<1> DEFINE m == Len(s)  n == Len(t)
<1>1. m \in Nat /\ n \in Nat
  BY LenProperties
<1>2. /\ s \o t \in Seq(S) /\ Len(s \o t) = m + n
      /\ \A i \in 1..(m + n) : (s \o t)[i] = IF i <= m THEN s[i] ELSE t[i - m]
  BY ConcatProperties
<1> HIDE DEF m, n
<1>3. \A i \in 1..m : i \in 1..(m + n) /\ i <= m
  BY <1>1
<1>5. \A i \in 1..m : (s \o t)[i] = s[i]
  BY <1>2, <1>3
<1>6. ASSUME NEW i \in 1..n
      PROVE  (s \o t)[m + i] = t[i]
  <2>1. PICK j \in Nat : j = m + i
    BY <1>1
  <2>2. j \in 1..(m + n) /\ ~(j <= m) /\ j - m = i
    BY <1>1, <2>1
  <2>3. (s \o t)[j] = t[i]
    BY <1>2, <2>2
  <2> QED
    BY <2>1, <2>3
<1> QED
  BY <1>1, <1>2, <1>5, <1>6 DEF m, n, Joins

\* FlattenSeq puts the parts together one after the other: f[k] is what the
\* first k of them make.
Puts(f, parts) ==
    /\ f[0] = <<>>
    /\ \A k \in 1..Len(parts) : f[k] = f[k - 1] \o parts[k]

LEMMA Flattened ==
  ASSUME NEW S, NEW parts \in Seq(Seq(S))
  PROVE  \E f \in [0..Len(parts) -> Seq(S)] :
            Puts(f, parts) /\ FlattenSeq(parts) = f[Len(parts)]
<1> DEFINE n == Len(parts)
           Rule(g, i) == IF i = 1 THEN parts[i] ELSE g[i - 1] \o parts[i]
           Upto(k) == \E g \in [1..n -> Seq(S)] :
                         \A i \in 1..n : i <= k => g[i] = Rule(g, i)
           Good == {k \in 0..n : Upto(k)}
<1>1. n \in Nat /\ \A i \in 1..n : parts[i] \in Seq(S)
  BY LenProperties, ElementOfSeq
<1>2. Upto(0)
  <2>1. [i \in 1..n |-> <<>>] \in [1..n -> Seq(S)]
    BY EmptySeq
  <2>2. \A i \in 1..n : ~(i <= 0)
    BY <1>1
  <2> QED
    BY <2>1, <2>2
<1>3. ASSUME NEW k \in 0..n, k + 1 \in 0..n, Upto(k)
      PROVE  Upto(k + 1)
  <2>1. PICK g \in [1..n -> Seq(S)] : \A i \in 1..n : i <= k => g[i] = Rule(g, i)
    BY <1>3
  <2> DEFINE h == [i \in 1..n |-> IF i = k + 1 THEN Rule(g, i) ELSE g[i]]
  <2>2. h \in [1..n -> Seq(S)]
    <3>1. k + 1 # 1 => k \in 1..n /\ (k + 1) - 1 = k
      BY <1>1
    <3>2. k + 1 \in 1..n
      BY <1>1, <1>3
    <3>3. Rule(g, k + 1) \in Seq(S)
      BY <1>1, <3>1, <3>2, ConcatProperties
    <3> QED
      BY <3>3
  <2>3. ASSUME NEW i \in 1..n, i <= k + 1
        PROVE  h[i] = Rule(h, i)
    <3>1. i # 1 => i - 1 \in 1..n /\ i - 1 # k + 1
      BY <1>1, <2>3
    <3>2. Rule(h, i) = Rule(g, i)
      BY <3>1
    <3>3. i # k + 1 => i <= k
      BY <1>1, <2>3
    <3> QED
      BY <2>1, <3>2, <3>3
  <2> HIDE DEF h, Rule
  <2> QED
    BY <2>2, <2>3
<1> HIDE DEF Upto
<1>4. Upto(n)
  <2>1. 0 \in Good /\ \A k \in 0..(n - 1) : k \in Good => k + 1 \in Good
    BY <1>1, <1>2, <1>3
  <2> HIDE DEF Good
  <2>2. \A k \in 0..n : k \in Good
    BY <1>1, <2>1, Upward
  <2> QED
    BY <1>1, <2>2 DEF Good
<1>5. PICK g \in [1..n -> Seq(S)] : \A i \in 1..n : i <= n => g[i] = Rule(g, i)
  BY <1>4 DEF Upto
<1>6. g = [i \in 1..n |-> Rule(g, i)]
  <2>1. \A i \in 1..n : i <= n
    BY <1>1
  <2> HIDE DEF Rule
  <2> QED
    BY SMTT(60), <1>5, <2>1
<1> DEFINE G == CHOOSE g1 : g1 = [i \in 1..n |-> Rule(g1, i)]
           f == [k \in 0..n |-> IF k = 0 THEN <<>> ELSE G[k]]
<1>7. G = [i \in 1..n |-> Rule(G, i)]
  BY ZenonT(60), <1>6
<1>8. FlattenSeq(parts) = IF n = 0 THEN parts ELSE G[n]
  BY DEF FlattenSeq
<1> HIDE DEF G
<1>9. \A i \in 1..n : G[i] = Rule(G, i)
  BY <1>7
<1>10. \A i \in 1..n : G[i] \in Seq(S)
  <2> DEFINE T == {i \in 0..n : i # 0 => G[i] \in Seq(S)}
  <2>1. ASSUME NEW k \in 0..(n - 1), k \in T
        PROVE  k + 1 \in T
    <3>1. k + 1 \in 1..n /\ k + 1 \in 0..n /\ k + 1 - 1 = k
      BY <1>1
    <3>2. G[k + 1] = Rule(G, k + 1) /\ parts[k + 1] \in Seq(S)
      BY <1>1, <1>9, <3>1
    <3>3. k # 0 => G[k] \in Seq(S)
      BY <2>1
    <3>4. k = 0 => k + 1 = 1
      OBVIOUS
    <3>5. CASE k = 0
      BY <3>1, <3>2, <3>4, <3>5
    <3>6. CASE k # 0
      <4>1. k + 1 # 1
        BY <3>1, <3>6
      <4>2. G[k] \o parts[k + 1] \in Seq(S)
        BY <3>2, <3>3, <3>6, ConcatProperties
      <4>3. G[k + 1] = G[k] \o parts[k + 1]
        <5>1. PICK i \in 1..n : i = k + 1 /\ i - 1 = k
          BY <3>1
        <5>2. i # 1 /\ G[i] = Rule(G, i)
          BY <3>2, <4>1, <5>1
        <5>3. G[i] = G[i - 1] \o parts[i]
          BY <5>2
        <5> QED
          BY <5>1, <5>3
      <4>4. G[k + 1] \in Seq(S)
        BY <4>2, <4>3
      <4> QED
        BY <3>1, <4>4
    <3> QED
      BY <3>5, <3>6
  <2>2. 0 \in T
    BY <1>1
  <2> HIDE DEF T
  <2>3. \A i \in 0..n : i \in T
    BY <1>1, <2>1, <2>2, Upward
  <2>4. \A i \in 1..n : i \in 0..n /\ i # 0
    BY <1>1
  <2> QED
    BY <2>3, <2>4 DEF T
<1>11. f \in [0..n -> Seq(S)]
  BY <1>1, <1>10, EmptySeq
<1>12. f[0] = <<>> /\ \A k \in 1..n : f[k] = G[k]
  BY <1>1
<1>13. ASSUME NEW k \in 1..n
       PROVE  f[k] = f[k - 1] \o parts[k]
  <2>1. G[k] = Rule(G, k)
    BY <1>9
  <2>2. CASE k = 1
    <3>1. f[k - 1] = <<>> /\ parts[k] \in Seq(S)
      BY <1>1, <1>12, <2>2
    <3> QED
      BY <1>12, <2>1, <2>2, <3>1, ConcatEmptySeq
  <2>3. CASE k # 1
    <3>1. k - 1 \in 1..n
      BY <1>1, <2>3
    <3> QED
      BY <1>12, <2>1, <2>3, <3>1
  <2> QED
    BY <2>2, <2>3
<1>14. FlattenSeq(parts) = f[n]
  <2>1. CASE n = 0
    BY <1>8, <1>12, <2>1, EmptySeq
  <2>2. CASE n # 0
    BY <1>1, <1>8, <1>12, <2>2
  <2> QED
    BY <2>1, <2>2
<1> HIDE DEF f
<1> QED
  BY <1>11, <1>12, <1>13, <1>14 DEF Puts

-----------------------------------------------------------------------------
(* The places of the dots *)

Texts == Seq(0..127)

\* How many dots and ends there are, and the k-th of them.
Count(t) == Cardinality(Cuts(t))
CutAt(t, k) == Nth(Cuts(t), k)

LEMMA CutsType ==
  ASSUME NEW t \in Texts
  PROVE  /\ Len(t) \in Nat /\ DOMAIN t = 1..Len(t)
         /\ Cuts(t) \subseteq 0..(Len(t) + 1) /\ Cuts(t) \subseteq Nat
         /\ IsFiniteSet(Cuts(t)) /\ Count(t) \in Nat
         /\ 0 \in Cuts(t) /\ Len(t) + 1 \in Cuts(t)
<1>1. Len(t) \in Nat /\ DOMAIN t = 1..Len(t)
  BY LenProperties DEF Texts
<1>2. Cuts(t) \subseteq 0..(Len(t) + 1)
  BY <1>1 DEF Cuts
<1>3. IsFiniteSet(0..(Len(t) + 1))
  BY <1>1, FS_Interval
<1>4. IsFiniteSet(Cuts(t))
  BY <1>2, <1>3, FS_Subset
<1>5. Count(t) \in Nat
  BY <1>4, FS_CardinalityType DEF Count
<1> QED
  BY <1>1, <1>2, <1>4, <1>5 DEF Cuts

\* The cuts of a text in order: from 0 to behind its end, and all of them.
LEMMA CutsInOrder ==
  ASSUME NEW t \in Texts
  PROVE  /\ Count(t) >= 2
         /\ CutAt(t, 1) = 0 /\ CutAt(t, Count(t)) = Len(t) + 1
         /\ \A k \in 1..Count(t) : CutAt(t, k) \in Cuts(t)
         /\ \A j, k \in 1..Count(t) : j < k <=> CutAt(t, j) < CutAt(t, k)
         /\ \A c \in Cuts(t) : \E k \in 1..Count(t) : CutAt(t, k) = c
<1> DEFINE C == Cuts(t)  N == Count(t)
<1>1. /\ C \subseteq Nat /\ IsFiniteSet(C) /\ N \in Nat /\ N = Cardinality(C)
      /\ 0 \in C /\ Len(t) + 1 \in C /\ Len(t) \in Nat
      /\ \A c \in C : c <= Len(t) + 1
  BY CutsType DEF Count
<1> HIDE DEF C, N
<1>2. \A k \in 1..N : Nth(C, k) \in C
  BY <1>1, NthRank
<1>3. \A j, k \in 1..N : j < k <=> Nth(C, j) < Nth(C, k)
  BY <1>1, NthGrows
<1>4. ASSUME NEW c \in C
      PROVE  \E k \in 1..N : Nth(C, k) = c
  <2>1. Rank(C, c) + 1 \in 1..N
    BY <1>1, RankType
  <2>2. Nth(C, Rank(C, c) + 1) = c
    BY <1>1, NthRank
  <2> QED
    BY <2>1, <2>2
<1>5. PICK a \in 1..N : Nth(C, a) = 0
  BY <1>1, <1>4
<1>6. PICK z \in 1..N : Nth(C, z) = Len(t) + 1
  BY <1>1, <1>4
<1>7. a = 1
  <2>0. 1 \in 1..N
    BY <1>1, <1>5
  <2>1. 1 \in 1..N /\ Nth(C, 1) \in Nat
    BY <1>1, <1>2, <2>0
  <2>2. 1 < a <=> Nth(C, 1) < Nth(C, a)
    BY <1>3, <2>1
  <2>3. ~(Nth(C, 1) < 0)
    BY <2>1
  <2>4. ~(1 < a)
    BY <1>5, <2>2, <2>3
  <2>5. a \in Nat /\ a >= 1
    BY <1>1
  <2> QED
    BY <2>4, <2>5
<1>8. z = N
  <2>0. N \in 1..N
    BY <1>1, <1>6
  <2>1. N \in 1..N /\ Nth(C, N) \in Nat /\ Nth(C, N) <= Len(t) + 1
    BY <1>1, <1>2, <2>0
  <2>2. z < N <=> Nth(C, z) < Nth(C, N)
    BY <1>3, <2>1
  <2>3. ~(Len(t) + 1 < Nth(C, N))
    BY <1>1, <2>1
  <2>4. ~(z < N)
    BY <1>6, <2>2, <2>3
  <2>5. z \in Nat /\ z <= N
    BY <1>1
  <2> QED
    BY <1>1, <2>4, <2>5
<1>9. N >= 2
  <2>1. a # z
    BY <1>1, <1>5, <1>6
  <2> QED
    BY <1>1, <1>7, <1>8, <2>1
<1> QED
  BY <1>2, <1>3, <1>4, <1>5, <1>6, <1>7, <1>8, <1>9 DEF CutAt, C, N

\* A place in a text is a dot, or lies in a piece between two cuts.
LEMMA Between ==
  ASSUME NEW t \in Texts, NEW i \in 1..Len(t)
  PROVE  \E k \in 1..(Count(t) - 1) : CutAt(t, k) < i /\ i <= CutAt(t, k + 1)
<1> DEFINE N == Count(t)
           Over == {k \in 1..N : i <= CutAt(t, k)}
<1>1. N \in Nat /\ N >= 2 /\ Len(t) \in Nat
  BY CutsType, CutsInOrder
<1>2. N \in Over
  BY <1>1, CutsInOrder
<1>3. PICK m \in Over : \A k \in Over : m <= k
  <2>1. Over \subseteq Nat
    BY <1>1
  <2> HIDE DEF Over
  <2> QED
    BY <1>2, <2>1, LeastNumber
<1>4. m # 1
  BY <1>1, <1>3, CutsInOrder
<1>5. m - 1 \in 1..(N - 1) /\ m - 1 \notin Over /\ m - 1 + 1 = m
  BY <1>1, <1>3, <1>4
<1>6. CutAt(t, m - 1) \in Nat
  BY SMTT(60), <1>1, <1>5, CutsType, CutsInOrder
<1>7. CutAt(t, m - 1) < i
  BY <1>1, <1>5, <1>6
<1> QED
  BY <1>3, <1>5, <1>7

-----------------------------------------------------------------------------
(* The pieces between the dots *)

LEMMA PieceType ==
  ASSUME NEW t \in Texts
  PROVE  /\ Pieces(t) \in Seq(Texts) /\ Len(Pieces(t)) = Count(t) - 1
         /\ \A k \in 1..(Count(t) - 1) :
               /\ CutAt(t, k) \in Nat /\ CutAt(t, k + 1) \in Nat
               /\ CutAt(t, k) < CutAt(t, k + 1) /\ CutAt(t, k + 1) <= Len(t) + 1
               /\ Len(Pieces(t)[k]) = CutAt(t, k + 1) - CutAt(t, k) - 1
               /\ \A j \in 1..(CutAt(t, k + 1) - CutAt(t, k) - 1) :
                     Pieces(t)[k][j] = t[CutAt(t, k) + j]
<1> DEFINE N == Count(t) - 1
           e(k) == SubSeq(t, CutAt(t, k) + 1, CutAt(t, k + 1) - 1)
<1>1. Count(t) \in Nat /\ Count(t) >= 2 /\ N \in Nat /\ Len(t) \in Nat
  BY CutsType, CutsInOrder
<1>2. Pieces(t) = [k \in 1..N |-> e(k)]
  BY DEF Pieces, CutAt, Count
<1>3. ASSUME NEW k \in 1..N
      PROVE  /\ CutAt(t, k) \in Nat /\ CutAt(t, k + 1) \in Nat
             /\ CutAt(t, k) < CutAt(t, k + 1) /\ CutAt(t, k + 1) <= Len(t) + 1
  <2>1. k \in 1..Count(t) /\ k + 1 \in 1..Count(t) /\ k < k + 1
    BY <1>1
  <2>2. CutAt(t, k) \in Cuts(t) /\ CutAt(t, k + 1) \in Cuts(t) /\ CutAt(t, k) < CutAt(t, k + 1)
    BY <2>1, CutsInOrder
  <2> QED
    BY <1>1, <2>2, CutsType
<1>4. ASSUME NEW k \in 1..N
      PROVE  /\ e(k) \in Texts /\ Len(e(k)) = CutAt(t, k + 1) - CutAt(t, k) - 1
             /\ \A j \in 1..(CutAt(t, k + 1) - CutAt(t, k) - 1) : e(k)[j] = t[CutAt(t, k) + j]
  <2> DEFINE b == CutAt(t, k)  c == CutAt(t, k + 1)
  <2>1. b \in Nat /\ c \in Nat /\ b < c /\ c <= Len(t) + 1
    BY <1>3
  <2> HIDE DEF b, c
  <2>2. /\ b + 1 \in Nat /\ c - 1 \in Nat /\ 1 <= b + 1
        /\ b + 1 <= c - 1 + 1 /\ c - 1 <= Len(t)
        /\ (c - 1) - (b + 1) + 1 = c - b - 1
    BY <1>1, <2>1
  <2>3. t \in Seq(0..127)
    BY DEF Texts
  <2>4. LET p == SubSeq(t, b + 1, c - 1)
        IN  /\ p \in Seq(0..127) /\ Len(p) = (c - 1) - (b + 1) + 1
            /\ \A j \in 1..((c - 1) - (b + 1) + 1) : p[j] = t[(b + 1) + j - 1]
    BY ZenonT(60), <2>2, <2>3, Part
  <2>5. \A j \in 1..(c - b - 1) : (b + 1) + j - 1 = b + j
    BY <2>1
  <2>6. e(k) = SubSeq(t, b + 1, c - 1)
    BY DEF b, c
  <2> HIDE DEF e
  <2>7. /\ e(k) \in Texts /\ Len(e(k)) = c - b - 1
        /\ \A j \in 1..(c - b - 1) : e(k)[j] = t[b + j]
    BY <2>2, <2>4, <2>5, <2>6 DEF Texts
  <2> QED
    BY <2>7 DEF b, c
<1> HIDE DEF e, N
<1>5. [k \in 1..N |-> e(k)] \in Seq(Texts)
  BY <1>1, <1>4, IsASeq
<1>6. Len(Pieces(t)) = N
  BY <1>1, <1>2
<1>7. \A k \in 1..N : Pieces(t)[k] = e(k)
  BY <1>2
<1> QED
  BY <1>2, <1>3, <1>4, <1>5, <1>6, <1>7 DEF N

\* What a suffix is, position by position.
Ends(p, q) ==
    /\ Len(p) <= Len(q)
    /\ \A k \in 1..Len(p) : p[k] = q[k + (Len(q) - Len(p))]

LEMMA SuffixEnds ==
  ASSUME NEW S, NEW p \in Seq(S), NEW q \in Seq(S)
  PROVE  IsSuffix(p, q) <=> Ends(p, q)
<1> DEFINE P == Reverse(p)  Q == Reverse(q)  m == Len(p)  n == Len(q)
<1>1. m \in Nat /\ n \in Nat
  BY LenProperties
<1>2. /\ P = [i \in 1..m |-> p[(m - i) + 1]]
      /\ Q = [i \in 1..n |-> q[(n - i) + 1]]
  BY DEF Reverse
<1>3. \A i \in 1..m : p[(m - i) + 1] \in S
  BY <1>1, ElementOfSeq
<1>4. \A i \in 1..n : q[(n - i) + 1] \in S
  BY <1>1, ElementOfSeq
<1>5. /\ \A i \in 1..m : P[i] = p[(m - i) + 1]
      /\ \A i \in 1..n : Q[i] = q[(n - i) + 1]
  BY <1>2
<1> HIDE DEF m, n
<1>6. P \in Seq(S) /\ Q \in Seq(S) /\ Len(P) = m /\ Len(Q) = n
  BY <1>1, <1>2, <1>3, <1>4, IsASeq
<1> HIDE DEF P, Q
<1>7. IsSuffix(p, q) <=> m <= n /\ SubSeq(P, 1, m) = SubSeq(Q, 1, m)
  BY <1>6 DEF IsSuffix, IsPrefix, P, Q
<1>8. CASE ~(m <= n)
  BY <1>7, <1>8 DEF Ends, m, n
<1>9. CASE m <= n
  <2>1. 1 \in Nat /\ 1 <= 1 /\ 1 <= m + 1 /\ m <= Len(P) /\ m <= Len(Q)
    BY <1>1, <1>6, <1>9
  <2>2. /\ SubSeq(P, 1, m) \in Seq(S) /\ Len(SubSeq(P, 1, m)) = m - 1 + 1
        /\ \A j \in 1..(m - 1 + 1) : SubSeq(P, 1, m)[j] = P[1 + j - 1]
    BY <1>1, <1>6, <2>1, Part
  <2>3. /\ SubSeq(Q, 1, m) \in Seq(S) /\ Len(SubSeq(Q, 1, m)) = m - 1 + 1
        /\ \A j \in 1..(m - 1 + 1) : SubSeq(Q, 1, m)[j] = Q[1 + j - 1]
    BY <1>1, <1>6, <2>1, Part
  <2>4. m - 1 + 1 = m /\ \A j \in 1..m : 1 + j - 1 = j
    BY <1>1
  <2>5. \A j \in 1..m : SubSeq(P, 1, m)[j] = P[j] /\ SubSeq(Q, 1, m)[j] = Q[j]
    BY <2>2, <2>3, <2>4
  <2>6. SubSeq(P, 1, m) = SubSeq(Q, 1, m) <=> \A j \in 1..m : P[j] = Q[j]
    <3>1. ASSUME \A j \in 1..m : P[j] = Q[j]
          PROVE  SubSeq(P, 1, m) = SubSeq(Q, 1, m)
      <4>1. \A j \in 1..m : SubSeq(P, 1, m)[j] = SubSeq(Q, 1, m)[j]
        BY <2>5, <3>1
      <4>2. Len(SubSeq(P, 1, m)) = m /\ Len(SubSeq(Q, 1, m)) = m
        BY <2>2, <2>3, <2>4
      <4> QED
        BY <2>2, <2>3, <4>1, <4>2, SeqEqual
    <3>2. ASSUME SubSeq(P, 1, m) = SubSeq(Q, 1, m), NEW j \in 1..m
          PROVE  P[j] = Q[j]
      BY <2>5, <3>2
    <3> QED
      BY <3>1, <3>2
  <2>7. (\A j \in 1..m : P[j] = Q[j]) <=> \A k \in 1..m : p[k] = q[k + (n - m)]
    <3>1. ASSUME \A j \in 1..m : P[j] = Q[j], NEW k \in 1..m
          PROVE  p[k] = q[k + (n - m)]
      <4>1. /\ (m - k) + 1 \in 1..m /\ (m - k) + 1 \in 1..n
            /\ (m - ((m - k) + 1)) + 1 = k
            /\ (n - ((m - k) + 1)) + 1 = k + (n - m)
        BY <1>1, <1>9
      <4>2. P[(m - k) + 1] = Q[(m - k) + 1]
        BY <3>1, <4>1
      <4> QED
        BY <1>5, <4>1, <4>2
    <3>2. ASSUME \A k \in 1..m : p[k] = q[k + (n - m)], NEW j \in 1..m
          PROVE  P[j] = Q[j]
      <4>1. /\ (m - j) + 1 \in 1..m /\ j \in 1..n
            /\ ((m - j) + 1) + (n - m) = (n - j) + 1
        BY <1>1, <1>9
      <4>2. p[(m - j) + 1] = q[(n - j) + 1]
        BY <3>2, <4>1
      <4> QED
        BY <1>5, <4>1, <4>2
    <3> QED
      BY <3>1, <3>2
  <2>8. Ends(p, q) <=> \A k \in 1..m : p[k] = q[k + (n - m)]
    BY SMTT(60), <1>9 DEF Ends, m, n
  <2> QED
    BY <1>7, <1>9, <2>6, <2>7, <2>8
<1> QED
  BY <1>8, <1>9

\* What stands in t between the places b and c.
IsPart(p, t, b, c) ==
    /\ p \in Seq(0..127)
    /\ b \in Nat /\ c \in Nat /\ b < c /\ c <= Len(t) + 1
    /\ Len(p) = c - b - 1
    /\ \A j \in 1..(c - b - 1) : p[j] = t[b + j]

LEMMA PieceIs ==
  ASSUME NEW t \in Texts, NEW k \in 1..Len(Pieces(t))
  PROVE  IsPart(Pieces(t)[k], t, CutAt(t, k), CutAt(t, k + 1))
<1>1. Pieces(t) \in Seq(Texts) /\ k \in 1..(Count(t) - 1)
  BY PieceType
<1>2. Pieces(t)[k] \in Texts
  BY <1>1, ElementOfSeq
<1> QED
  BY <1>1, <1>2, PieceType DEF Texts, IsPart

\* A text without dots is one piece.
Dotless(t) == \A i \in 1..Len(t) : t[i] # Dot

LEMMA OnePiece ==
  ASSUME NEW t \in Texts, Dotless(t)
  PROVE  Pieces(t) = <<t>>
<1> DEFINE n == Len(t)
<1>1. n \in Nat /\ DOMAIN t = 1..n
  BY CutsType
<1>2. Cuts(t) = {0} \cup {n + 1}
  BY <1>1 DEF Cuts, Dotless
<1>3. Cardinality({0}) = 1 /\ IsFiniteSet({0})
  BY FS_Singleton
<1>4. Count(t) = 2
  <2>1. Cardinality({0} \cup {n + 1}) = Cardinality({0}) + 1
    <3>1. n + 1 \notin {0}
      BY <1>1
    <3> QED
      BY <1>3, <3>1, FS_AddElement
  <2> DEFINE C == {0} \cup {n + 1}
  <2>2. Cardinality(C) = 2 /\ Cuts(t) = C
    BY <1>2, <1>3, <2>1
  <2> HIDE DEF C
  <2> QED
    BY <2>2 DEF Count
<1>5. CutAt(t, 1) = 0 /\ CutAt(t, 2) = n + 1
  BY <1>4, CutsInOrder
<1>6. Pieces(t) \in Seq(Texts) /\ Len(Pieces(t)) = 1
  <2>1. Pieces(t) \in Seq(Texts) /\ Len(Pieces(t)) = 2 - 1
    BY <1>4, PieceType
  <2> QED
    BY <2>1
<1>7. Pieces(t)[1] = t
  <2> DEFINE p == Pieces(t)[1]
  <2>1. 1 \in 1..Len(Pieces(t)) /\ CutAt(t, 1 + 1) = n + 1
    BY <1>5, <1>6
  <2>2. IsPart(p, t, 0, n + 1)
    <3>1. IsPart(p, t, CutAt(t, 1), CutAt(t, 1 + 1))
      BY <2>1, PieceIs
    <3> QED
      BY <1>5, <2>1, <3>1
  <2>3. (n + 1) - 0 - 1 = n /\ \A j \in 1..n : 0 + j = j
    BY <1>1
  <2>4. t \in Seq(0..127)
    BY DEF Texts
  <2> HIDE DEF p
  <2>5. Len(p) = Len(t) /\ \A j \in 1..Len(p) : p[j] = t[j]
    BY <2>2, <2>3 DEF IsPart
  <2>6. p = t
    BY <2>2, <2>4, <2>5, SeqEqual DEF IsPart
  <2> QED
    BY <2>6 DEF p
<1> DEFINE q == Pieces(t)  r == <<t>>
<1>9. /\ r \in Seq(Texts) /\ q \in Seq(Texts) /\ Len(q) = Len(r)
      /\ \A k \in 1..Len(q) : q[k] = r[k]
  BY <1>6, <1>7
<1> HIDE DEF q, r
<1>10. q = r
  BY <1>9, SeqEqual
<1> QED
  BY <1>10 DEF q, r

\* A dot and a label add a piece.
LEMMA PiecesNext ==
  ASSUME NEW t \in Texts, NEW l \in Texts, Dotless(l)
  PROVE  LET u == t \o (<<Dot>> \o l)
         IN  /\ u \in Texts
             /\ Len(Pieces(u)) = Len(Pieces(t)) + 1
             /\ \A k \in 1..Len(Pieces(t)) : Pieces(u)[k] = Pieces(t)[k]
             /\ Pieces(u)[Len(Pieces(t)) + 1] = l
<1> DEFINE u == t \o (<<Dot>> \o l)
           n == Len(t)
           m == Len(l)
           N == Count(t)
<1>1. /\ t \in Seq(0..127) /\ l \in Seq(0..127) /\ n \in Nat /\ m \in Nat
      /\ <<Dot>> \in Seq(0..127) /\ Len(<<Dot>>) = 1 /\ <<Dot>>[1] = Dot
  BY LenProperties DEF Texts, Dot
<1>2. /\ <<Dot>> \o l \in Seq(0..127) /\ Len(<<Dot>> \o l) = 1 + m
      /\ (<<Dot>> \o l)[1] = Dot
      /\ \A i \in 1..m : (<<Dot>> \o l)[1 + i] = l[i]
  <2>1. <<Dot>> \o l \in Seq(0..127) /\ Joins(<<Dot>> \o l, <<Dot>>, l)
    BY <1>1, Joint
  <2> QED
    BY <1>1, <2>1 DEF Joins
<1> DEFINE d == <<Dot>> \o l
<1> HIDE DEF d
<1>3. /\ t \o d \in Seq(0..127) /\ Len(t \o d) = n + (1 + m)
      /\ \A i \in 1..n : (t \o d)[i] = t[i]
      /\ \A i \in 1..(1 + m) : (t \o d)[n + i] = d[i]
  <2>1. d \in Seq(0..127) /\ Len(d) = 1 + m
    BY <1>2 DEF d
  <2>2. t \o d \in Seq(0..127) /\ Joins(t \o d, t, d)
    BY <1>1, <2>1, Joint
  <2> QED
    BY <2>1, <2>2 DEF Joins
<1>4. /\ u \in Texts /\ Len(u) = n + m + 1 /\ DOMAIN u = 1..(n + m + 1)
      /\ \A i \in 1..n : u[i] = t[i]
      /\ u[n + 1] = Dot
      /\ \A i \in 1..m : u[n + 1 + i] = l[i]
  <2>0. u = t \o d
    BY DEF d
  <2> HIDE DEF u
  <2>1. u \in Texts /\ Len(u) = n + m + 1
    BY <1>1, <1>3, <2>0 DEF Texts
  <2>2. u[n + 1] = d[1] /\ d[1] = Dot
    BY <1>1, <1>2, <1>3, <2>0 DEF d
  <2>3. ASSUME NEW i \in 1..m
        PROVE  u[n + 1 + i] = l[i]
    <3>1. PICK j \in 1..(1 + m) : j = 1 + i /\ n + 1 + i = n + j
      BY <1>1
    <3>2. u[n + j] = d[j]
      BY <1>3, <2>0
    <3>3. d[1 + i] = l[i]
      BY <1>2 DEF d
    <3> QED
      BY <3>1, <3>2, <3>3
  <2>4. DOMAIN u = 1..Len(u)
    BY <2>1, CutsType
  <2> QED
    BY <1>3, <2>0, <2>1, <2>2, <2>3, <2>4
<1> HIDE DEF u
<1>5. Cuts(u) = Cuts(t) \cup {n + m + 2}
  <2>1. DOMAIN t = 1..n
    BY CutsType
  <2>2. ASSUME NEW i \in 1..(n + m + 1)
        PROVE  u[i] = Dot <=> (i \in 1..n /\ t[i] = Dot) \/ i = n + 1
    <3>1. CASE i \in 1..n
      BY <1>1, <1>4, <3>1
    <3>2. CASE i = n + 1
      BY <1>1, <1>4, <3>2
    <3>3. CASE i \notin 1..n /\ i # n + 1
      <4>1. PICK j \in 1..m : i = n + 1 + j
        <5>1. i - n - 1 \in 1..m /\ i = n + 1 + (i - n - 1)
          BY <1>1, <3>3
        <5> QED
          BY <5>1
      <4>2. u[i] = l[j] /\ l[j] # Dot
        BY <1>4, <4>1 DEF Dotless
      <4> QED
        BY <3>3, <4>2
    <3> QED
      BY <3>1, <3>2, <3>3
  <2>3. {i \in 1..(n + m + 1) : u[i] = Dot} = {i \in 1..n : t[i] = Dot} \cup {n + 1}
    BY <1>1, <2>2
  <2>4. Len(u) + 1 = n + m + 2
    BY <1>1, <1>4
  <2> QED
    BY <1>4, <2>1, <2>3, <2>4 DEF Cuts
<1>6. /\ N \in Nat /\ N >= 2 /\ Count(u) = N + 1
      /\ \A k \in 1..N : CutAt(u, k) = CutAt(t, k)
      /\ CutAt(u, N + 1) = n + m + 2 /\ CutAt(u, N) = n + 1
  <2>1. /\ Cuts(t) \subseteq Nat /\ IsFiniteSet(Cuts(t)) /\ n + m + 2 \in Nat
        /\ \A c \in Cuts(t) : c < n + m + 2
    BY <1>1, CutsType
  <2>2. /\ N \in Nat /\ Cardinality(Cuts(u)) = N + 1
        /\ \A k \in 1..N : Nth(Cuts(u), k) = Nth(Cuts(t), k)
        /\ Nth(Cuts(u), N + 1) = n + m + 2
    <3> DEFINE z == n + m + 2  C == Cuts(t)
    <3> HIDE DEF z, C
    <3>1. C \subseteq Nat /\ IsFiniteSet(C) /\ z \in Nat /\ \A c \in C : c < z
      BY <2>1 DEF z, C
    <3>2. /\ Cardinality(C) \in Nat /\ Cardinality(C \cup {z}) = Cardinality(C) + 1
          /\ \A k \in 1..Cardinality(C) : Nth(C \cup {z}, k) = Nth(C, k)
          /\ Nth(C \cup {z}, Cardinality(C) + 1) = z
      BY <3>1, NthNext
    <3> QED
      BY <1>5, <3>2 DEF z, C, Count
  <2>3. N >= 2 /\ CutAt(t, N) = n + 1
    BY CutsInOrder
  <2>4. N \in 1..N
    BY <2>2, <2>3
  <2>5. \A k \in 1..N : CutAt(u, k) = CutAt(t, k)
    BY <2>2 DEF CutAt
  <2>6. CutAt(u, N + 1) = n + m + 2 /\ Count(u) = N + 1
    BY <2>2 DEF CutAt, Count
  <2> QED
    BY <2>2, <2>3, <2>4, <2>5, <2>6
<1> DEFINE K == Count(t) - 1
<1>7. /\ Len(Pieces(t)) = K /\ Len(Pieces(u)) = K + 1 /\ K \in Nat /\ K + 1 = N
      /\ Pieces(t) \in Seq(Texts) /\ Pieces(u) \in Seq(Texts)
  <2>1. Len(Pieces(t)) = N - 1 /\ Pieces(t) \in Seq(Texts)
    BY PieceType
  <2>2. Len(Pieces(u)) = Count(u) - 1 /\ Pieces(u) \in Seq(Texts)
    BY <1>4, PieceType
  <2>3. N - 1 \in Nat /\ N - 1 + 1 = N /\ N + 1 - 1 = N
    BY <1>6
  <2> QED
    BY <1>6, <2>1, <2>2, <2>3
<1>8. ASSUME NEW k \in 1..K
      PROVE  Pieces(u)[k] = Pieces(t)[k]
  <2> DEFINE b == CutAt(t, k)  c == CutAt(t, k + 1)
             p == Pieces(t)[k]  q == Pieces(u)[k]
  <2>0. /\ k \in 1..Len(Pieces(t)) /\ k \in 1..Len(Pieces(u))
        /\ k \in 1..N /\ k + 1 \in 1..N
    <3>1. k \in 1..K /\ K \in Nat /\ K + 1 = N
      BY <1>7
    <3> HIDE DEF K, N
    <3>2. k \in 1..(K + 1) /\ k \in 1..N /\ k + 1 \in 1..N
      BY <3>1
    <3> QED
      BY <1>7, <3>1, <3>2
  <2>1. CutAt(u, k) = b /\ CutAt(u, k + 1) = c
    BY <1>6, <2>0
  <2> HIDE DEF b, c
  <2>2. IsPart(p, t, b, c)
    BY <2>0, PieceIs DEF b, c
  <2>3. IsPart(q, u, b, c)
    <3>1. IsPart(q, u, CutAt(u, k), CutAt(u, k + 1))
      BY <1>4, <2>0, PieceIs
    <3> QED
      BY <2>1, <3>1
  <2> HIDE DEF p, q
  <2>4. \A j \in 1..(c - b - 1) : b + j \in 1..n
    BY <1>1, <2>2 DEF IsPart
  <2>5. \A j \in 1..Len(q) : q[j] = p[j]
    BY <1>4, <2>2, <2>3, <2>4 DEF IsPart
  <2>6. q = p
    BY <2>2, <2>3, <2>5, SeqEqual DEF IsPart
  <2> QED
    BY <2>6 DEF p, q
<1>9. Pieces(u)[K + 1] = l
  <2> DEFINE q == Pieces(u)[N]
  <2>1. N \in 1..Len(Pieces(u))
    BY <1>6, <1>7
  <2>2. IsPart(q, u, n + 1, n + m + 2)
    <3>1. IsPart(q, u, CutAt(u, N), CutAt(u, N + 1))
      BY <1>4, <2>1, PieceIs
    <3> QED
      BY <1>6, <3>1
  <2>3. (n + m + 2) - (n + 1) - 1 = m
    BY <1>1
  <2> HIDE DEF q
  <2>4. Len(q) = m /\ \A j \in 1..m : q[j] = l[j]
    BY <1>4, <2>2, <2>3 DEF IsPart
  <2>5. q = l
    BY <1>1, <2>2, <2>4, SeqEqual DEF IsPart
  <2> QED
    BY <1>7, <2>5 DEF q
<1> QED
  BY <1>4, <1>7, <1>8, <1>9 DEF u, d

\* Splitting undoes joining.
LEMMA PiecesJoined ==
  ASSUME NEW ls \in Seq(Texts), ls # <<>>,
         \A k \in 1..Len(ls) : Dotless(ls[k])
  PROVE  Joined(ls) \in Texts /\ Pieces(Joined(ls)) = ls
<1> DEFINE n == Len(ls)
           part(k) == IF k = 1 THEN ls[k] ELSE <<Dot>> \o ls[k]
           parts == [k \in 1..n |-> part(k)]
<1>1. /\ n \in Nat /\ n # 0 /\ DOMAIN ls = 1..n
      /\ \A k \in 1..n : ls[k] \in Texts
  BY LenProperties, ElementOfSeq, EmptySeq
<1>2. parts \in Seq(Texts) /\ Len(parts) = n
  <2>1. <<Dot>> \in Texts
    BY DEF Texts, Dot
  <2>2. \A k \in 1..n : part(k) \in Texts
    BY <1>1, <2>1, ConcatProperties DEF Texts
  <2> HIDE DEF part
  <2> QED
    BY <1>1, <2>2
<1>3. Joined(ls) = FlattenSeq(parts)
  BY <1>1 DEF Joined
<1>4. \A k \in 1..n : parts[k] = part(k)
  OBVIOUS
<1> HIDE DEF parts
<1>5. PICK f \in [0..n -> Texts] : Puts(f, parts) /\ FlattenSeq(parts) = f[n]
  <2>1. parts \in Seq(Seq(0..127))
    BY <1>2 DEF Texts
  <2> QED
    BY <1>2, <2>1, Flattened DEF Texts
<1> DEFINE Split(k) == /\ Len(Pieces(f[k])) = k
                       /\ \A j \in 1..k : Pieces(f[k])[j] = ls[j]
           Good == {k \in 0..n : k # 0 => Split(k)}
<1>6. ASSUME NEW k \in 0..(n - 1), k \in Good
      PROVE  k + 1 \in Good
  <2>1. k + 1 \in 1..n /\ k + 1 \in 0..n /\ k + 1 - 1 = k /\ k \in 0..n
    BY <1>1
  <2>2. PICK m \in 1..n : m = k + 1 /\ m - 1 = k
    BY <2>1
  <2>3. f[m] = f[k] \o part(m) /\ ls[m] \in Texts /\ Dotless(ls[m])
    BY <1>1, <1>2, <1>4, <1>5, <2>2 DEF Puts
  <2>4. CASE k = 0
    <3>1. m = 1 /\ f[k] = <<>> /\ part(m) = ls[m]
      BY <1>5, <2>2, <2>4 DEF Puts
    <3>2. f[m] = ls[m]
      BY <2>3, <3>1, ConcatEmptySeq DEF Texts
    <3>3. Pieces(f[m]) = <<ls[m]>>
      BY <2>3, <3>2, OnePiece
    <3>4. Split(1)
      BY <3>1, <3>3
    <3> QED
      BY <2>1, <2>2, <3>1, <3>4
  <2>5. CASE k # 0
    <3>1. m # 1 /\ part(m) = <<Dot>> \o ls[m]
      BY <2>1, <2>2, <2>5
    <3>2. f[k] \in Texts /\ Split(k)
      BY <1>5, <1>6, <2>1, <2>5
    <3> DEFINE t == f[k]  l == ls[m]  u == f[m]
    <3>3. u = t \o (<<Dot>> \o l)
      BY <2>3, <3>1
    <3>4. t \in Texts /\ l \in Texts /\ Dotless(l)
      BY <2>3, <3>2
    <3> HIDE DEF t, l, u
    <3>5. /\ Len(Pieces(u)) = Len(Pieces(t)) + 1
          /\ \A j \in 1..Len(Pieces(t)) : Pieces(u)[j] = Pieces(t)[j]
          /\ Pieces(u)[Len(Pieces(t)) + 1] = l
      BY <3>3, <3>4, PiecesNext
    <3>6. Len(Pieces(t)) = k /\ \A j \in 1..k : Pieces(t)[j] = ls[j]
      BY <3>2 DEF t
    <3>7. Len(Pieces(u)) = m /\ Pieces(u)[m] = ls[m]
      BY <2>2, <3>5, <3>6 DEF l
    <3>8. \A j \in 1..m : j # m => j \in 1..k
      BY <2>1, <2>2
    <3>9. \A j \in 1..m : Pieces(u)[j] = ls[j]
      BY <3>5, <3>6, <3>7, <3>8
    <3>10. Split(m)
      BY <3>7, <3>9 DEF u
    <3> HIDE DEF Split
    <3> QED
      BY <2>1, <2>2, <3>10
  <2> QED
    BY <2>4, <2>5
<1>7. n \in Good
  <2>1. 0 \in Good
    BY <1>1
  <2>2. \A k \in 0..(n - 1) : k \in Good => k + 1 \in Good
    BY <1>6
  <2> HIDE DEF Good
  <2>3. \A k \in 0..n : k \in Good
    BY <1>1, <2>1, <2>2, Upward
  <2> QED
    BY <1>1, <2>3
<1> DEFINE u == f[n]
<1>8. u \in Texts /\ Len(Pieces(u)) = n /\ \A j \in 1..n : Pieces(u)[j] = ls[j]
  BY <1>1, <1>5, <1>7
<1> HIDE DEF u
<1>9. Pieces(u) \in Seq(Texts)
  BY <1>8, PieceType
<1>10. Pieces(u) = ls
  BY <1>8, <1>9, SeqEqual
<1> QED
  BY <1>3, <1>5, <1>8, <1>10 DEF u

-----------------------------------------------------------------------------
(* Names in lower case without trailing dots *)

LEMMA LowerType ==
  ASSUME NEW t \in Texts
  PROVE  /\ Lower(t) \in Texts /\ Len(Lower(t)) = Len(t)
         /\ \A i \in 1..Len(t) : Lower(t)[i] = Dot <=> t[i] = Dot
         /\ Lower(Lower(t)) = Lower(t)
<1> DEFINE low(c) == IF c \in 65..90 THEN c + 32 ELSE c
<1>1. Len(t) \in Nat /\ DOMAIN t = 1..Len(t) /\ t \in Seq(0..127)
  BY CutsType DEF Texts
<1>2. \A i \in 1..Len(t) : t[i] \in 0..127
  BY <1>1, ElementOfSeq
<1>3. \A c \in 0..127 : low(c) \in 0..127 /\ (low(c) = Dot <=> c = Dot) /\ low(low(c)) = low(c)
  BY DEF Dot
<1>4. Lower(t) = [i \in 1..Len(t) |-> low(t[i])]
  BY <1>1 DEF Lower
<1> HIDE DEF low
<1>5. \A i \in 1..Len(t) : low(t[i]) \in 0..127
  BY <1>2, <1>3
<1>6. [i \in 1..Len(t) |-> low(t[i])] \in Seq(0..127)
  BY <1>1, <1>5, IsASeq
<1>7. Lower(t) \in Texts /\ Len(Lower(t)) = Len(t) /\ DOMAIN Lower(t) = 1..Len(t)
  BY <1>1, <1>4, <1>6 DEF Texts
<1>8. \A i \in 1..Len(t) : Lower(t)[i] = low(t[i])
  BY <1>4
<1>9. Lower(Lower(t)) = [i \in 1..Len(t) |-> low(Lower(t)[i])]
  BY <1>7 DEF Lower, low
<1>10. \A i \in 1..Len(t) : low(Lower(t)[i]) = low(t[i])
  BY <1>2, <1>3, <1>8
<1>11. Lower(Lower(t)) = Lower(t)
  BY <1>4, <1>9, <1>10
<1> QED
  BY <1>2, <1>3, <1>7, <1>8, <1>11

NoDotLast(t) == t # <<>> => t[Len(t)] # Dot

LEMMA TrimType ==
  ASSUME NEW t \in Texts
  PROVE  /\ TrimDots(t) \in Texts /\ NoDotLast(TrimDots(t))
         /\ NoDotLast(t) => TrimDots(t) = t
<1> DEFINE kept == {i \in DOMAIN t : t[i] # Dot}
           m == Max(kept)
<1>1. Len(t) \in Nat /\ DOMAIN t = 1..Len(t) /\ t \in Seq(0..127)
  BY CutsType DEF Texts
<1>2. TrimDots(t) = IF kept = {} THEN <<>> ELSE SubSeq(t, 1, m)
  BY DEF TrimDots
<1>3. t # <<>> => Len(t) \in DOMAIN t
  BY <1>1, EmptySeq
<1>4. CASE kept = {}
  <2>1. TrimDots(t) = <<>> /\ <<>> \in Texts
    BY <1>2, <1>4, EmptySeq DEF Texts
  <2>2. NoDotLast(t) => t = <<>>
    BY <1>3, <1>4 DEF NoDotLast
  <2> QED
    BY <2>1, <2>2 DEF NoDotLast
<1>5. CASE kept # {}
  <2>1. kept \subseteq 0..Len(t)
    BY <1>1
  <2>2. m \in kept /\ \A k \in kept : k <= m
    <3> HIDE DEF kept
    <3> QED
      BY <1>1, <1>5, <2>1, GreatestNumber
  <2>3. m \in 1..Len(t) /\ t[m] # Dot /\ m \in Nat
    BY <1>1, <2>2
  <2>4. NoDotLast(t) => m = Len(t)
    <3>1. ASSUME NoDotLast(t)
          PROVE  m = Len(t)
      <4>1. t # <<>>
        <5>1. Len(t) # 0
          BY <1>1, <2>3
        <5> QED
          BY <5>1, EmptySeq
      <4>2. Len(t) \in kept
        BY <1>3, <3>1, <4>1 DEF NoDotLast
      <4>3. Len(t) <= m
        BY <2>2, <4>2
      <4> QED
        BY <1>1, <2>3, <4>3
    <3> QED
      BY <3>1
  <2> HIDE DEF m, kept
  <2>5. 1 \in Nat /\ 1 <= 1 /\ 1 <= m + 1 /\ m <= Len(t) /\ m - 1 + 1 = m
    BY <1>1, <2>3
  <2>6. LET p == SubSeq(t, 1, m)
        IN  /\ p \in Seq(0..127) /\ Len(p) = m - 1 + 1
            /\ \A j \in 1..(m - 1 + 1) : p[j] = t[1 + j - 1]
    BY <1>1, <2>3, <2>5, Part
  <2>7. TrimDots(t) = SubSeq(t, 1, m)
    BY <1>2, <1>5
  <2>8. TrimDots(t) \in Seq(0..127) /\ Len(TrimDots(t)) = m
    BY <2>5, <2>6, <2>7
  <2>9. \A j \in 1..m : TrimDots(t)[j] = t[j]
    <3>1. \A j \in 1..m : 1 + j - 1 = j
      BY <2>3
    <3> QED
      BY <2>5, <2>6, <2>7, <3>1
  <2>10. NoDotLast(TrimDots(t))
    <3>1. m \in 1..m
      BY <2>3
    <3> QED
      BY <2>3, <2>8, <2>9, <3>1 DEF NoDotLast
  <2>11. ASSUME NoDotLast(t)
         PROVE  TrimDots(t) = t
    <3>1. Len(TrimDots(t)) = Len(t) /\ \A j \in 1..Len(TrimDots(t)) : TrimDots(t)[j] = t[j]
      BY <2>4, <2>8, <2>9, <2>11
    <3> QED
      BY <1>1, <2>8, <3>1, SeqEqual
  <2> QED
    BY <2>8, <2>10, <2>11 DEF Texts
<1> QED
  BY <1>4, <1>5
================================================================================
