----------------------------- MODULE MatcherProofs -----------------------------
(***************************************************************************)
(* Theorems about Matcher, for every set of lines, names and patterns, and *)
(* names of any length.                                                    *)
(*                                                                         *)
(* The inductive invariant, RulesInv, says that the sets of rules are what *)
(* the lines parsed so far give.  From it the verdicts follow without a    *)
(* step of the system, but for one fact about text: the tails that         *)
(* suffix_match walks through are the names whose labels end the labels of *)
(* the name asked for (TailsAreSuffixes).  That is proved from the places  *)
(* of the dots, in order: those of a tail are those of the name, moved.    *)
(***************************************************************************)
EXTENDS Matcher, TextProofs

-----------------------------------------------------------------------------
(* The tails of a name are the names whose labels end its labels *)

\* There is no cut between two cuts that follow each other.
LEMMA NextCut ==
  ASSUME NEW t \in Texts, NEW k \in 1..(Count(t) - 1), NEW c \in Cuts(t), CutAt(t, k) < c
  PROVE  CutAt(t, k + 1) <= c
<1>1. Count(t) \in Nat /\ Cuts(t) \subseteq Nat
  BY CutsType
<1>2. PICK m \in 1..Count(t) : CutAt(t, m) = c
  BY CutsInOrder
<1>3. k \in 1..Count(t) /\ k + 1 \in 1..Count(t)
  BY <1>1
<1>4. k < m
  BY <1>2, <1>3, CutsInOrder
<1>5. CASE k + 1 = m
  <2>1. c \in Nat
    BY <1>1
  <2> QED
    BY <1>2, <1>5, <2>1
<1>6. CASE k + 1 < m
  <2>1. CutAt(t, k + 1) < CutAt(t, m)
    BY <1>2, <1>3, <1>6, CutsInOrder
  <2>2. CutAt(t, k + 1) \in Nat /\ c \in Nat
    BY <1>1, <1>3, CutsInOrder
  <2> QED
    BY <1>2, <2>1, <2>2
<1> QED
  BY <1>1, <1>2, <1>3, <1>4, <1>5, <1>6

\* The cuts of x are those of d from e on, moved by e.
SameCuts(x, d, e) == \A c \in Nat : c \in Cuts(x) <=> c + e \in Cuts(d)

LEMMA Moved ==
  ASSUME NEW x \in Texts, NEW d \in Texts, NEW e \in Nat, NEW r \in Nat,
         r + 1 <= Count(d), CutAt(d, r + 1) = e, SameCuts(x, d, e)
  PROVE  \A k \in 1..Count(x) : k + r <= Count(d) /\ CutAt(d, k + r) = CutAt(x, k) + e
<1> DEFINE Good(k) == k + r <= Count(d) /\ CutAt(d, k + r) = CutAt(x, k) + e
           Bad == {k \in 1..Count(x) : ~Good(k)}
<1>1. /\ Count(x) \in Nat /\ Count(d) \in Nat /\ Count(x) >= 2
      /\ Cuts(x) \subseteq Nat /\ Cuts(d) \subseteq Nat
  BY CutsType, CutsInOrder
<1>2. Good(1)
  <2>1. CutAt(x, 1) = 0 /\ 1 + r = r + 1
    BY CutsInOrder
  <2> QED
    BY <2>1
<1>3. ASSUME NEW k \in 1..(Count(x) - 1), Good(k)
      PROVE  Good(k + 1)
  <2>1. k \in Nat /\ k \in 1..Count(x) /\ k + 1 \in 1..Count(x) /\ k + r \in 1..Count(d)
    BY <1>1, <1>3
  <2>2. /\ CutAt(x, k) \in Cuts(x) /\ CutAt(x, k + 1) \in Cuts(x) /\ CutAt(x, k) < CutAt(x, k + 1)
        /\ CutAt(d, k + r) \in Cuts(d)
    BY <2>1, CutsInOrder
  <2>3. CutAt(x, k) \in Nat /\ CutAt(x, k + 1) \in Nat /\ CutAt(d, k + r) \in Nat
    BY <1>1, <2>2
  <2>4. CutAt(x, k + 1) + e \in Cuts(d) /\ CutAt(d, k + r) < CutAt(x, k + 1) + e
    <3>1. CutAt(x, k + 1) + e \in Cuts(d)
      BY <2>2, <2>3 DEF SameCuts
    <3> QED
      BY <1>3, <2>2, <2>3, <3>1
  <2>5. PICK m \in 1..Count(d) : CutAt(d, m) = CutAt(x, k + 1) + e
    BY <2>4, CutsInOrder
  <2>6. k + r < m
    BY <2>1, <2>4, <2>5, CutsInOrder
  <2>7. k + r \in 1..(Count(d) - 1) /\ (k + r) + 1 = (k + 1) + r /\ (k + 1) + r \in 1..Count(d)
    BY <1>1, <2>1, <2>5, <2>6
  <2>8. CutAt(d, (k + 1) + r) <= CutAt(x, k + 1) + e
    BY <2>4, <2>7, NextCut
  <2>9. CutAt(d, (k + 1) + r) \in Cuts(d) /\ CutAt(d, k + r) < CutAt(d, (k + 1) + r)
    <3>1. k + r < (k + 1) + r
      BY <2>1
    <3> QED
      BY <2>1, <2>7, <3>1, CutsInOrder
  <2> DEFINE c == CutAt(d, (k + 1) + r) - e
  <2>10. CutAt(d, (k + 1) + r) \in Nat
    BY <1>1, <2>9
  <2>11. c \in Nat /\ c + e = CutAt(d, (k + 1) + r) /\ CutAt(x, k) < c
    <3> DEFINE a == CutAt(x, k)  b == CutAt(d, (k + 1) + r)
    <3>1. a \in Nat /\ b \in Nat /\ a + e < b
      BY <1>3, <2>3, <2>9, <2>10
    <3> HIDE DEF a, b
    <3>2. b - e \in Nat /\ (b - e) + e = b /\ a < b - e
      BY <3>1
    <3> QED
      BY <3>2 DEF a, b
  <2> HIDE DEF c
  <2>12. c \in Cuts(x)
    BY <2>9, <2>11 DEF SameCuts
  <2>13. CutAt(x, k + 1) <= c
    BY <2>11, <2>12, NextCut
  <2>14. CutAt(d, (k + 1) + r) = CutAt(x, k + 1) + e
    BY <2>3, <2>8, <2>10, <2>11, <2>13
  <2> QED
    BY <1>1, <2>7, <2>14
<1> HIDE DEF Good
<1>4. ASSUME Bad # {}
      PROVE  FALSE
  <2>1. Bad \subseteq Nat
    BY <1>1
  <2>2. PICK m \in Bad : \A k \in Bad : m <= k
    <3> HIDE DEF Bad
    <3> QED
      BY <1>4, <2>1, LeastNumber
  <2>3. m \in 1..Count(x) /\ ~Good(m)
    BY <2>2
  <2>4. m # 1
    BY <1>2, <2>3
  <2>5. m - 1 \in 1..(Count(x) - 1) /\ m - 1 \in 1..Count(x) /\ (m - 1) + 1 = m /\ ~(m <= m - 1)
    BY <1>1, <2>3, <2>4
  <2>6. m - 1 \notin Bad
    BY <2>2, <2>5
  <2>7. Good(m - 1)
    BY <2>5, <2>6
  <2>8. Good((m - 1) + 1)
    BY <1>3, <2>5, <2>7
  <2> QED
    BY <2>3, <2>5, <2>8
<1> QED
  BY <1>4 DEF Good

\* Where a tail of a name begins.
LEMMA TailsAre ==
  ASSUME NEW d \in Texts, NEW x
  PROVE  x \in Tails(d) <=>
            \E e \in Cuts(d) : e <= Len(d) /\ x = SubSeq(d, e + 1, Len(d))
<1>1. Len(d) \in Nat /\ DOMAIN d = 1..Len(d)
  BY CutsType
<1>2. ASSUME x \in Tails(d)
      PROVE  \E e \in Cuts(d) : e <= Len(d) /\ x = SubSeq(d, e + 1, Len(d))
  <2>1. PICK i \in {1} \cup {k + 1 : k \in {j \in DOMAIN d : d[j] = Dot}} :
             x = SubSeq(d, i, Len(d))
    BY <1>2 DEF Tails
  <2>2. CASE i = 1
    <3>1. 0 \in Cuts(d) /\ 0 <= Len(d) /\ 0 + 1 = 1
      BY <1>1 DEF Cuts
    <3> QED
      BY <2>1, <2>2, <3>1
  <2>3. CASE i # 1
    <3>1. PICK j \in DOMAIN d : d[j] = Dot /\ i = j + 1
      BY <2>1, <2>3
    <3>2. j \in Cuts(d) /\ j <= Len(d)
      BY <1>1, <3>1 DEF Cuts
    <3> QED
      BY <2>1, <3>1, <3>2
  <2> QED
    BY <2>2, <2>3
<1>3. ASSUME NEW e \in Cuts(d), e <= Len(d), x = SubSeq(d, e + 1, Len(d))
      PROVE  x \in Tails(d)
  <2>1. e # Len(d) + 1
    BY <1>1, <1>3
  <2>2. e = 0 \/ (e \in DOMAIN d /\ d[e] = Dot)
    BY <2>1 DEF Cuts
  <2>3. e + 1 \in {1} \cup {k + 1 : k \in {j \in DOMAIN d : d[j] = Dot}}
    BY <2>2
  <2> QED
    BY <1>3, <2>3 DEF Tails
<1> QED
  BY <1>2, <1>3

LEMMA TailEnds ==
  ASSUME NEW d \in Texts, NEW e \in Cuts(d), e <= Len(d)
  PROVE  LET x == SubSeq(d, e + 1, Len(d))
         IN  /\ x \in Texts /\ Len(x) = Len(d) - e
             /\ \A j \in 1..Len(x) : x[j] = d[e + j]
             /\ Ends(Pieces(x), Pieces(d))
<1> DEFINE x == SubSeq(d, e + 1, Len(d))
<1>1. /\ Len(d) \in Nat /\ DOMAIN d = 1..Len(d) /\ e \in Nat /\ Count(d) \in Nat
      /\ Cuts(d) \subseteq 0..(Len(d) + 1) /\ d \in Seq(0..127)
  BY CutsType DEF Texts
<1>2. x \in Texts /\ Len(x) = Len(d) - e /\ \A j \in 1..Len(x) : x[j] = d[e + j]
  <2> DEFINE u == e + 1  n == Len(d)
  <2>1. /\ u \in Nat /\ n \in Nat /\ 1 <= u /\ u <= n + 1 /\ n <= Len(d)
        /\ n - u + 1 = Len(d) - e
    BY <1>1
  <2>2. \A j \in Nat : u + j - 1 = e + j
    BY <1>1
  <2>3. x = SubSeq(d, u, n) /\ d \in Seq(0..127)
    BY <1>1 DEF x
  <2> HIDE DEF u, n, x
  <2>4. LET p == SubSeq(d, u, n)
        IN  /\ p \in Seq(0..127) /\ Len(p) = n - u + 1
            /\ \A j \in 1..(n - u + 1) : p[j] = d[u + j - 1]
    BY ZenonT(60), <2>1, <2>3, Part
  <2>5. /\ x \in Seq(0..127) /\ Len(x) = n - u + 1
        /\ \A j \in 1..(n - u + 1) : x[j] = d[u + j - 1]
    BY <2>3, <2>4
  <2>6. \A j \in 1..(n - u + 1) : j \in Nat
    BY <2>1
  <2>7. \A j \in 1..(n - u + 1) : x[j] = d[e + j]
    BY <2>2, <2>5, <2>6
  <2> QED
    BY <2>1, <2>5, <2>7 DEF Texts
<1> HIDE DEF x
<1>3. Len(x) \in Nat /\ DOMAIN x = 1..Len(x) /\ Count(x) \in Nat /\ Count(x) >= 2
  BY <1>2, CutsType, CutsInOrder
<1>4. \A c \in Nat : c \in Cuts(x) <=> c + e \in Cuts(d)
  <2>1. ASSUME NEW c \in Nat
        PROVE  c \in Cuts(x) <=> c + e \in Cuts(d)
    <3>1. CASE c = 0
      <4>1. c + e = e
        BY <1>1, <3>1
      <4> QED
        BY <3>1, <4>1 DEF Cuts
    <3>2. CASE c \in 1..Len(x)
      <4>1. c + e \in 1..Len(d) /\ e + c = c + e /\ c + e # 0 /\ c + e # Len(d) + 1
        BY <1>1, <1>2, <1>3, <3>2
      <4>2. x[c] = d[c + e]
        BY <1>2, <3>2, <4>1
      <4>3. c # 0 /\ c # Len(x) + 1
        BY <1>3, <3>2
      <4>4. c \in Cuts(x) <=> x[c] = Dot
        BY <1>3, <3>2, <4>3 DEF Cuts
      <4>5. c + e \in Cuts(d) <=> d[c + e] = Dot
        BY <1>1, <4>1 DEF Cuts
      <4> QED
        BY <4>2, <4>4, <4>5
    <3>3. CASE c = Len(x) + 1
      <4>1. c + e = Len(d) + 1
        BY <1>1, <1>2, <1>3, <3>3
      <4> QED
        BY <3>3, <4>1 DEF Cuts
    <3>4. CASE c > Len(x) + 1
      <4>1. c + e > Len(d) + 1 /\ c + e \in Nat
        BY <1>1, <1>2, <1>3, <3>4
      <4>2. c + e \notin Cuts(d)
        BY <1>1, <4>1
      <4>3. c \notin Cuts(x)
        BY <1>2, <1>3, <3>4, CutsType
      <4> QED
        BY <4>2, <4>3
    <3> QED
      BY <1>3, <3>1, <3>2, <3>3, <3>4
  <2> QED
    BY <2>1
<1>5. PICK m \in 1..Count(d) : CutAt(d, m) = e
  BY CutsInOrder
<1> DEFINE r == m - 1
<1>6. r \in Nat /\ r + 1 <= Count(d) /\ r + 1 = m
  BY <1>1, <1>5
<1> HIDE DEF r
<1>7. \A k \in 1..Count(x) : k + r <= Count(d) /\ CutAt(d, k + r) = CutAt(x, k) + e
  <2>1. CutAt(d, r + 1) = e
    BY <1>5, <1>6
  <2>2. x \in Texts /\ e \in Nat /\ r \in Nat /\ r + 1 <= Count(d)
    BY <1>1, <1>2, <1>6
  <2>3. SameCuts(x, d, e)
    BY <1>4 DEF SameCuts
  <2> QED
    BY <2>1, <2>2, <2>3, Moved
<1>8. Count(x) + r = Count(d)
  <2>1. Count(x) \in 1..Count(x) /\ Count(x) + r \in 1..Count(d) /\ Count(d) \in 1..Count(d)
    BY <1>1, <1>3, <1>6, <1>7
  <2>2. CutAt(x, Count(x)) = Len(x) + 1 /\ CutAt(d, Count(d)) = Len(d) + 1
    BY <1>2, CutsInOrder
  <2>3. CutAt(d, Count(x) + r) = CutAt(d, Count(d))
    <3>1. Len(x) + 1 + e = Len(d) + 1
      BY <1>1, <1>2
    <3> QED
      BY <1>7, <2>1, <2>2, <3>1
  <2>4. CutAt(d, Count(d)) \in Nat
    BY <1>1, <2>2
  <2>5. ~(Count(x) + r < Count(d))
    <3>1. Count(x) + r < Count(d) => CutAt(d, Count(x) + r) < CutAt(d, Count(d))
      BY <2>1, CutsInOrder
    <3> QED
      BY <2>3, <2>4, <3>1
  <2> QED
    BY <1>1, <1>3, <1>6, <2>1, <2>5
<1>9. ASSUME NEW k \in 1..(Count(x) - 1)
      PROVE  Pieces(x)[k] = Pieces(d)[k + r]
  <2>1. /\ k \in Nat /\ k \in 1..Count(x) /\ k + 1 \in 1..Count(x)
        /\ k + r \in 1..(Count(d) - 1) /\ (k + r) + 1 = (k + 1) + r
    BY SMTT(60), <1>1, <1>3, <1>6, <1>8
  <2> DEFINE b == CutAt(x, k)  c == CutAt(x, k + 1)
  <2>2. /\ b \in Nat /\ c \in Nat /\ b < c /\ c <= Len(x) + 1
        /\ Len(Pieces(x)[k]) = c - b - 1
        /\ \A j \in 1..(c - b - 1) : Pieces(x)[k][j] = x[b + j]
    BY <1>2, PieceType
  <2>3. CutAt(d, k + r) = b + e /\ CutAt(d, (k + r) + 1) = c + e
    BY <1>7, <2>1
  <2>4. /\ Len(Pieces(d)[k + r]) = (c + e) - (b + e) - 1
        /\ \A j \in 1..((c + e) - (b + e) - 1) : Pieces(d)[k + r][j] = d[(b + e) + j]
    <3>1. \A n \in 1..(Count(d) - 1) :
             /\ Len(Pieces(d)[n]) = CutAt(d, n + 1) - CutAt(d, n) - 1
             /\ \A j \in 1..(CutAt(d, n + 1) - CutAt(d, n) - 1) :
                   Pieces(d)[n][j] = d[CutAt(d, n) + j]
      BY PieceType
    <3> DEFINE n == k + r
    <3>2. n \in 1..(Count(d) - 1) /\ CutAt(d, n) = b + e /\ CutAt(d, n + 1) = c + e
      BY <2>1, <2>3
    <3> HIDE DEF n, b, c
    <3>3. /\ Len(Pieces(d)[n]) = (c + e) - (b + e) - 1
          /\ \A j \in 1..((c + e) - (b + e) - 1) : Pieces(d)[n][j] = d[(b + e) + j]
      BY <3>1, <3>2
    <3> QED
      BY <3>3 DEF n
  <2> HIDE DEF b, c
  <2>5. (c + e) - (b + e) - 1 = c - b - 1
    BY <1>1, <2>2
  <2>6. \A j \in 1..(c - b - 1) : b + j \in 1..Len(x) /\ e + (b + j) = (b + e) + j
    <3>1. b \in Nat /\ c \in Nat /\ c <= Len(x) + 1 /\ e \in Nat /\ Len(x) \in Nat
      BY <1>1, <1>3, <2>2
    <3> QED
      BY <3>1
  <2>7. \A j \in 1..(c - b - 1) : Pieces(x)[k][j] = Pieces(d)[k + r][j]
    <3>1. ASSUME NEW j \in 1..(c - b - 1)
          PROVE  Pieces(x)[k][j] = Pieces(d)[k + r][j]
      <4>1. x[b + j] = d[e + (b + j)]
        BY <1>2, <2>6
      <4> QED
        BY <2>2, <2>4, <2>5, <2>6, <4>1
    <3> QED
      BY <3>1
  <2>8. Pieces(x)[k] \in Seq(0..127) /\ Pieces(d)[k + r] \in Seq(0..127)
    <3>1. /\ Pieces(x) \in Seq(Texts) /\ Len(Pieces(x)) = Count(x) - 1
          /\ Pieces(d) \in Seq(Texts) /\ Len(Pieces(d)) = Count(d) - 1
      BY <1>2, PieceType
    <3>2. k \in 1..Len(Pieces(x)) /\ k + r \in 1..Len(Pieces(d))
      BY <2>1, <3>1
    <3>3. Pieces(x)[k] \in Texts /\ Pieces(d)[k + r] \in Texts
      BY <3>1, <3>2, ElementOfSeq
    <3> QED
      BY <3>3 DEF Texts
  <2>9. Len(Pieces(x)[k]) = c - b - 1 /\ Len(Pieces(d)[k + r]) = c - b - 1
    BY <2>2, <2>4, <2>5
  <2>10. \A j \in 1..Len(Pieces(x)[k]) : Pieces(x)[k][j] = Pieces(d)[k + r][j]
    BY <2>7, <2>9
  <2> QED
    BY <2>8, <2>9, <2>10, SeqEqual
<1>10. Ends(Pieces(x), Pieces(d))
  <2>1. Len(Pieces(x)) = Count(x) - 1 /\ Len(Pieces(d)) = Count(d) - 1
    BY <1>2, PieceType
  <2>2. Len(Pieces(x)) <= Len(Pieces(d)) /\ Len(Pieces(d)) - Len(Pieces(x)) = r
    <3> DEFINE a == Count(x)  b == Count(d)
    <3>1. a \in Nat /\ b \in Nat /\ r \in Nat /\ a + r = b
      BY <1>1, <1>3, <1>6, <1>8
    <3> HIDE DEF a, b
    <3>2. a - 1 <= b - 1 /\ (b - 1) - (a - 1) = r
      BY <3>1
    <3> QED
      BY <2>1, <3>2 DEF a, b
  <2> QED
    BY <1>9, <2>1, <2>2 DEF Ends
<1> QED
  BY <1>2, <1>10 DEF x

LEMMA EndsTail ==
  ASSUME NEW x \in Texts, NEW d \in Texts, Ends(Pieces(x), Pieces(d))
  PROVE  \E e \in Cuts(d) : e <= Len(d) /\ x = SubSeq(d, e + 1, Len(d))
<1> DEFINE m == Count(x) - 1
           n == Count(d) - 1
           r == n - m
           e == CutAt(d, r + 1)
<1>1. /\ Count(x) \in Nat /\ Count(d) \in Nat /\ Count(x) >= 2 /\ Count(d) >= 2
      /\ Cuts(x) \subseteq Nat /\ Cuts(d) \subseteq Nat
      /\ Len(x) \in Nat /\ Len(d) \in Nat /\ DOMAIN x = 1..Len(x) /\ DOMAIN d = 1..Len(d)
  BY CutsType, CutsInOrder
<1>2. /\ m \in Nat /\ n \in Nat /\ m >= 1 /\ n >= 1
      /\ Count(x) = m + 1 /\ Count(d) = n + 1
  BY <1>1
<1>3. Len(Pieces(x)) = m /\ Len(Pieces(d)) = n
  BY PieceType
<1> HIDE DEF m, n
<1>4. m <= n /\ r \in Nat /\ m + r = n /\ \A k \in 1..m : Pieces(x)[k] = Pieces(d)[k + r]
  <2>1. m <= n /\ \A k \in 1..m : Pieces(x)[k] = Pieces(d)[k + r]
    BY <1>3 DEF Ends
  <2> QED
    BY <1>2, <2>1
<1> HIDE DEF r
<1>5. e \in Cuts(d) /\ e \in Nat
  <2>1. r + 1 \in 1..Count(d)
    BY <1>2, <1>4
  <2> QED
    BY <1>1, <2>1, CutsInOrder
<1> DEFINE Good(k) == CutAt(d, k + r) = CutAt(x, k) + e
           Bad == {k \in 1..(m + 1) : ~Good(k)}
<1>6. Good(1)
  <2>1. CutAt(x, 1) = 0 /\ 1 + r = r + 1
    BY <1>4, CutsInOrder
  <2>2. 0 + e = e
    BY <1>5
  <2> QED
    BY <2>1, <2>2
<1>7. ASSUME NEW k \in 1..m, Good(k)
      PROVE  Good(k + 1)
  <2>1. /\ k \in 1..(Count(x) - 1) /\ k + r \in 1..(Count(d) - 1)
        /\ (k + r) + 1 = (k + 1) + r
    BY <1>2, <1>4
  <2>2. /\ CutAt(x, k) \in Nat /\ CutAt(x, k + 1) \in Nat
        /\ Len(Pieces(x)[k]) = CutAt(x, k + 1) - CutAt(x, k) - 1
    BY <2>1, PieceType
  <2>3. /\ CutAt(d, k + r) \in Nat /\ CutAt(d, (k + 1) + r) \in Nat
        /\ Len(Pieces(d)[k + r]) = CutAt(d, (k + 1) + r) - CutAt(d, k + r) - 1
    BY <2>1, PieceType
  <2>4. CutAt(x, k + 1) - CutAt(x, k) - 1 = CutAt(d, (k + 1) + r) - CutAt(d, k + r) - 1
    BY <1>4, <2>2, <2>3
  <2> QED
    <3> DEFINE a == CutAt(x, k)  b == CutAt(x, k + 1)
               f == CutAt(d, k + r)  g == CutAt(d, (k + 1) + r)
    <3>1. /\ a \in Nat /\ b \in Nat /\ f \in Nat /\ g \in Nat
          /\ f = a + e /\ b - a - 1 = g - f - 1
      BY <1>7, <2>2, <2>3, <2>4
    <3> HIDE DEF a, b, f, g, e
    <3>2. g = b + e
      BY <1>5, <3>1
    <3> QED
      BY <3>2 DEF b, g
<1> HIDE DEF Good
<1>8. \A k \in 1..(m + 1) : Good(k)
  <2>1. ASSUME Bad # {}
        PROVE  FALSE
    <3>1. Bad \subseteq Nat
      BY <1>2
    <3>2. PICK l \in Bad : \A k \in Bad : l <= k
      <4> HIDE DEF Bad
      <4> QED
        BY <2>1, <3>1, LeastNumber
    <3>3. l \in 1..(m + 1) /\ ~Good(l)
      BY <3>2
    <3>4. l # 1
      BY <1>6, <3>3
    <3>5. l - 1 \in 1..m /\ l - 1 \in 1..(m + 1) /\ (l - 1) + 1 = l /\ ~(l <= l - 1)
      BY <1>2, <3>3, <3>4
    <3>6. Good(l - 1)
      BY <3>2, <3>5
    <3>7. Good((l - 1) + 1)
      BY <1>7, <3>5, <3>6
    <3> QED
      BY <3>3, <3>5, <3>7
  <2> QED
    BY <2>1
<1> HIDE DEF e
<1>9. Len(x) + e = Len(d)
  <2>1. Good(m + 1) /\ (m + 1) + r = Count(d)
    BY <1>2, <1>4, <1>8
  <2>2. CutAt(x, m + 1) = Len(x) + 1 /\ CutAt(d, Count(d)) = Len(d) + 1
    BY <1>2, CutsInOrder
  <2>3. Len(d) + 1 = Len(x) + 1 + e
    BY <2>1, <2>2 DEF Good
  <2> DEFINE a == Len(d)  b == Len(x)
  <2>4. a \in Nat /\ b \in Nat /\ e \in Nat /\ a + 1 = b + 1 + e
    BY <1>1, <1>5, <2>3
  <2> HIDE DEF a, b
  <2>5. b + e = a
    BY <2>4
  <2> QED
    BY <2>5 DEF a, b
<1>10. ASSUME NEW i \in 1..Len(x)
       PROVE  x[i] = d[e + i]
  <2>1. PICK k \in 1..(Count(x) - 1) : CutAt(x, k) < i /\ i <= CutAt(x, k + 1)
    BY Between
  <2>2. /\ k \in 1..m /\ k \in 1..(m + 1) /\ k + 1 \in 1..(m + 1) /\ k + 1 \in 1..Count(x)
        /\ k + r \in 1..(Count(d) - 1) /\ (k + 1) + r \in 1..Count(d)
        /\ (k + r) + 1 = (k + 1) + r
    BY <1>2, <1>4
  <2> DEFINE b == CutAt(x, k)  c == CutAt(x, k + 1)
  <2>3. /\ b \in Nat /\ c \in Nat /\ b < i /\ i <= c
        /\ \A j \in 1..(c - b - 1) : Pieces(x)[k][j] = x[b + j]
    BY <2>1, PieceType
  <2>4. CutAt(d, k + r) = b + e /\ CutAt(d, (k + 1) + r) = c + e
    BY <1>8, <2>2 DEF Good
  <2>5. \A j \in 1..((c + e) - (b + e) - 1) : Pieces(d)[k + r][j] = d[(b + e) + j]
    <3>1. \A v \in 1..(Count(d) - 1) :
             \A j \in 1..(CutAt(d, v + 1) - CutAt(d, v) - 1) :
                Pieces(d)[v][j] = d[CutAt(d, v) + j]
      BY PieceType
    <3>2. CutAt(d, (k + r) + 1) = c + e
      BY <2>2, <2>4
    <3> QED
      BY <2>2, <2>4, <3>1, <3>2
  <2>6. c \in Cuts(x) /\ c + e \in Cuts(d)
    BY <2>2, <2>4, CutsInOrder
  <2> HIDE DEF b, c
  <2>7. CASE i < c
    <3>1. /\ i - b \in 1..(c - b - 1) /\ (c + e) - (b + e) - 1 = c - b - 1
          /\ b + (i - b) = i /\ (b + e) + (i - b) = e + i
      BY <1>5, <2>3, <2>7
    <3>2. Pieces(x)[k][i - b] = x[i]
      BY <2>3, <3>1
    <3>3. Pieces(d)[k + r][i - b] = d[e + i]
      BY <2>5, <3>1
    <3> QED
      BY <1>4, <2>2, <3>2, <3>3
  <2>8. CASE i = c
    <3>1. /\ i # 0 /\ i # Len(x) + 1 /\ c + e = e + i
          /\ e + i # 0 /\ e + i # Len(d) + 1
      BY <1>1, <1>5, <1>9, <2>8
    <3>2. x[i] = Dot
      BY <2>6, <2>8, <3>1 DEF Cuts
    <3>3. d[e + i] = Dot
      BY <2>6, <3>1 DEF Cuts
    <3> QED
      BY <3>2, <3>3
  <2> QED
    BY <2>3, <2>7, <2>8
<1>11. e <= Len(d)
  BY <1>1, <1>5, <1>9
<1> DEFINE y == SubSeq(d, e + 1, Len(d))
<1>12. y \in Texts /\ Len(y) = Len(d) - e /\ \A j \in 1..Len(y) : y[j] = d[e + j]
  <2>1. e \in Cuts(d)
    BY <1>5
  <2>2. LET z == SubSeq(d, e + 1, Len(d))
        IN  /\ z \in Texts /\ Len(z) = Len(d) - e
            /\ \A j \in 1..Len(z) : z[j] = d[e + j]
            /\ Ends(Pieces(z), Pieces(d))
    BY <1>11, <2>1, TailEnds
  <2> QED
    BY <2>2
<1> HIDE DEF y
<1>13. Len(y) = Len(x)
  <2> DEFINE a == Len(d)  b == Len(x)
  <2>1. a \in Nat /\ b \in Nat /\ e \in Nat /\ b + e = a
    BY ZenonT(60), <1>1, <1>5, <1>9
  <2> HIDE DEF a, b
  <2>2. a - e = b
    BY <2>1
  <2> QED
    BY <1>12, <2>2 DEF a, b
<1>14. x = y
  <2>1. \A j \in 1..Len(x) : x[j] = y[j]
    BY <1>10, <1>12, <1>13
  <2>2. x \in Seq(0..127) /\ y \in Seq(0..127)
    BY <1>12 DEF Texts
  <2> QED
    BY <1>13, <2>1, <2>2, SeqEqual
<1> QED
  BY <1>5, <1>11, <1>14 DEF y

\* A tail of a name is a name whose labels are the last ones of it.
LEMMA TailsAreSuffixes ==
  ASSUME NEW x \in Texts, NEW d \in Texts
  PROVE  x \in Tails(d) <=> IsSuffix(Pieces(x), Pieces(d))
<1>1. x \in Tails(d) <=> \E e \in Cuts(d) : e <= Len(d) /\ x = SubSeq(d, e + 1, Len(d))
  BY TailsAre
<1>2. IsSuffix(Pieces(x), Pieces(d)) <=> Ends(Pieces(x), Pieces(d))
  <2>1. Pieces(x) \in Seq(Texts) /\ Pieces(d) \in Seq(Texts)
    BY PieceType
  <2> QED
    BY <2>1, SuffixEnds
<1>3. ASSUME NEW e \in Cuts(d), e <= Len(d), x = SubSeq(d, e + 1, Len(d))
      PROVE  Ends(Pieces(x), Pieces(d))
  BY <1>3, TailEnds
<1>4. ASSUME Ends(Pieces(x), Pieces(d))
      PROVE  \E e \in Cuts(d) : e <= Len(d) /\ x = SubSeq(d, e + 1, Len(d))
  BY <1>4, EndsTail
<1> QED
  BY <1>1, <1>2, <1>3, <1>4

LEMMA TailType ==
  ASSUME NEW d \in Texts, NEW x \in Tails(d)
  PROVE  x \in Texts /\ Len(x) \in Nat /\ Len(x) <= Len(d) /\ (Len(x) = Len(d) => x = d)
<1>1. PICK e \in Cuts(d) : e <= Len(d) /\ x = SubSeq(d, e + 1, Len(d))
  BY TailsAre
<1>2. x \in Texts /\ Len(x) = Len(d) - e /\ \A j \in 1..Len(x) : x[j] = d[e + j]
  BY <1>1, TailEnds
<1>3. Len(d) \in Nat /\ e \in Nat /\ Len(x) \in Nat
  BY <1>2, CutsType
<1>4. ASSUME Len(x) = Len(d)
      PROVE  x = d
  <2>1. e = 0
    BY <1>2, <1>3, <1>4
  <2>2. \A j \in 1..Len(x) : e + j = j
    BY <1>3, <2>1
  <2>3. \A j \in 1..Len(x) : x[j] = d[j]
    BY <1>2, <2>2
  <2>4. x \in Seq(0..127) /\ d \in Seq(0..127)
    BY <1>2 DEF Texts
  <2> QED
    BY <1>4, <2>3, <2>4, SeqEqual
<1> QED
  BY <1>2, <1>3, <1>4

\* Names with the same labels are the same.
LEMMA SamePieces ==
  ASSUME NEW x \in Texts, NEW d \in Texts, Pieces(x) = Pieces(d)
  PROVE  x = d
<1>1. Len(Pieces(x)) \in Nat /\ Pieces(x) \in Seq(Texts)
  BY PieceType, CutsType, LenProperties
<1>2. Ends(Pieces(x), Pieces(d)) /\ Ends(Pieces(d), Pieces(x))
  BY <1>1 DEF Ends
<1>3. x \in Tails(d) /\ d \in Tails(x)
  BY <1>2, EndsTail, TailsAre
<1>4. Len(x) = Len(d)
  BY <1>3, TailType
<1> QED
  BY <1>3, <1>4, TailType

\* The name in a line is in the form in which names are looked up.
LEMMA DomainType ==
  ASSUME NEW l \in Line, l.form \in {"names", "anchored"}
  PROVE  Domain(l) \in Texts /\ Domain(l) = Lower(TrimDots(Domain(l)))
<1> DEFINE w == Last(l.words)  t == TrimDots(w)  d == Lower(t)
<1>1. w \in Texts
  <2>1. l.words \in Seq(Texts) /\ l.words # <<>>
    BY LineAssumption DEF Texts
  <2>2. Len(l.words) \in 1..Len(l.words)
    BY <2>1, EmptySeq
  <2> QED
    BY <2>1, <2>2, ElementOfSeq DEF Last
<1> HIDE DEF w
<1>2. t \in Texts /\ NoDotLast(t)
  BY <1>1, TrimType
<1> HIDE DEF t
<1>3. /\ d \in Texts /\ Len(d) = Len(t) /\ Lower(d) = d
      /\ \A i \in 1..Len(t) : d[i] = Dot <=> t[i] = Dot
  BY <1>2, LowerType
<1> HIDE DEF d
<1>4. NoDotLast(d)
  <2>1. ASSUME d # <<>>
        PROVE  d[Len(d)] # Dot
    <3>1. Len(d) \in Nat \ {0}
      BY <1>3, <2>1, EmptySeq DEF Texts
    <3>2. Len(t) \in 1..Len(t) /\ t # <<>>
      BY <1>3, <3>1, EmptySeq
    <3> QED
      BY <1>2, <1>3, <3>2 DEF NoDotLast
  <2> QED
    BY <2>1 DEF NoDotLast
<1>5. TrimDots(d) = d
  BY <1>3, <1>4, TrimType
<1>6. Domain(l) = d
  BY DEF Domain, w, t, d
<1> QED
  BY <1>3, <1>5, <1>6

-----------------------------------------------------------------------------
(* The rules are what the lines give *)

\* Which of the sets of its side a line adds a rule to, and the rule.
Kind(l) ==
    IF l.form = "names" /\ (l.source = "manual_allow" \/ IsDomain(l)) THEN "domains"
    ELSE IF l.form = "anchored" /\ Domain(l) # <<>> THEN "suffixes"
    ELSE IF l.form = "pattern" /\ IsPattern(l) THEN "regex"
    ELSE "none"

Rule(l) == IF l.form = "pattern" THEN l.pattern ELSE Domain(l)

Given(ls, side, shape) == {Rule(l) : l \in {m \in ls : SideOf(m) = side /\ Kind(m) = shape}}

\* The inductive invariant: each set of rules holds what the lines parsed so
\* far give it, and nothing else.
RulesInv ==
    /\ rules = [side \in Side |-> [shape \in Shape |-> Given(lines, side, shape)]]
    /\ lines \subseteq Line
    /\ aborted \in BOOLEAN

LEMMA LineForms ==
  ASSUME NEW l \in Line
  PROVE  /\ l.form \in Form /\ SideOf(l) \in Side
         /\ l.source = "manual_allow" => l.form = "names"
         /\ l.form = "names" => l.source \in ListSource \/ l.source = "manual_allow"
         /\ l.pattern \in Pattern
  BY LineAssumption DEF Form, Side, SideOf, ListSource, RegexSource

\* What is given by one line more.
Grown(ls, l, side, shape) ==
    IF SideOf(l) = side /\ Kind(l) = shape
    THEN Given(ls, side, shape) \cup {Rule(l)} ELSE Given(ls, side, shape)

LEMMA OneMore ==
  ASSUME NEW ls, NEW l, NEW side, NEW shape
  PROVE  Given(ls \cup {l}, side, shape) = Grown(ls, l, side, shape)
<1> DEFINE T(k) == {m \in k : SideOf(m) = side /\ Kind(m) = shape}
<1>1. /\ Given(ls, side, shape) = {Rule(m) : m \in T(ls)}
      /\ Given(ls \cup {l}, side, shape) = {Rule(m) : m \in T(ls \cup {l})}
  BY DEF Given
<1>2. T(ls \cup {l}) = IF SideOf(l) = side /\ Kind(l) = shape THEN T(ls) \cup {l} ELSE T(ls)
  OBVIOUS
<1> HIDE DEF T
<1>3. {Rule(m) : m \in T(ls) \cup {l}} = {Rule(m) : m \in T(ls)} \cup {Rule(l)}
  OBVIOUS
<1> QED
  BY <1>1, <1>2, <1>3 DEF Grown

\* What parsing a line does to the rules.
LEMMA ParseRule ==
  ASSUME NEW l \in Line, Parse(l)
  PROVE  /\ lines' = lines \cup {l} /\ l \notin lines
         /\ aborted' \in {aborted, TRUE}
         /\ IF Kind(l) = "none" THEN rules' = rules
            ELSE rules' = [rules EXCEPT ![SideOf(l)][Kind(l)] = @ \cup {Rule(l)}]
<1>1. /\ l.form \in {"ignored", "names", "anchored", "pattern", "slash"}
      /\ l.source = "manual_allow" => l.form = "names"
      /\ l.form = "names" => l.source \in ListSource \/ l.source = "manual_allow"
      /\ "manual_allow" \notin ListSource
  BY LineForms DEF Form, ListSource
<1>2. lines' = lines \cup {l} /\ l \notin lines
  BY DEF Parse
<1>3. CASE AddDomain(l)
  <2>1. Kind(l) = "domains" /\ Rule(l) = Domain(l)
    BY <1>3 DEF AddDomain, Kind, Rule
  <2> QED
    BY <1>2, <1>3, <2>1 DEF AddDomain, Insert
<1>4. CASE SkipDomain(l)
  <2>1. Kind(l) = "none"
    BY <1>1, <1>4 DEF SkipDomain, Kind
  <2> QED
    BY <1>2, <1>4, <2>1 DEF SkipDomain, Ignore
<1>5. CASE AddLiteral(l)
  <2>1. Kind(l) = "domains" /\ Rule(l) = Domain(l)
    BY <1>1, <1>5 DEF AddLiteral, Kind, Rule
  <2> QED
    BY <1>2, <1>5, <2>1 DEF AddLiteral, Insert
<1>6. CASE AddSuffix(l)
  <2>1. Kind(l) = "suffixes" /\ Rule(l) = Domain(l)
    BY <1>6 DEF AddSuffix, Kind, Rule
  <2> QED
    BY <1>2, <1>6, <2>1 DEF AddSuffix, Insert
<1>7. CASE SkipSuffix(l)
  <2>1. Kind(l) = "none"
    BY <1>7 DEF SkipSuffix, Kind
  <2> QED
    BY <1>2, <1>7, <2>1 DEF SkipSuffix, Ignore
<1>8. CASE AddPattern(l)
  <2>1. Kind(l) = "regex" /\ Rule(l) = l.pattern
    BY <1>8 DEF AddPattern, Kind, Rule
  <2> QED
    BY <1>2, <1>8, <2>1 DEF AddPattern, Insert
<1>9. CASE SkipPattern(l)
  <2>1. Kind(l) = "none"
    BY <1>9 DEF SkipPattern, Kind
  <2> QED
    BY <1>2, <1>9, <2>1 DEF SkipPattern, Ignore
<1>10. CASE SkipLine(l)
  <2>1. Kind(l) = "none"
    BY <1>10 DEF SkipLine, Kind
  <2> QED
    BY <1>2, <1>10, <2>1 DEF SkipLine, Ignore
<1>11. CASE Abort(l)
  <2>1. Kind(l) = "none"
    BY <1>11 DEF Abort, Kind
  <2> QED
    BY <1>2, <1>11, <2>1 DEF Abort
<1> QED
  BY <1>3, <1>4, <1>5, <1>6, <1>7, <1>8, <1>9, <1>10, <1>11 DEF Parse

LEMMA KindType ==
  ASSUME NEW l
  PROVE  Kind(l) \in {"domains", "suffixes", "regex", "none"}
  BY DEF Kind

\* Every rule that stands in the sets is the one of a line parsed so far, and
\* every line parsed has its rule there: what create_blocklist builds of the
\* lines depends on which they are, not on their order.
THEOREM RulesInvHolds == RulesSpec => []RulesInv
<1>1. RulesInit => RulesInv
  <2>1. ASSUME RulesInit
        PROVE  RulesInv
    <3>1. \A side, shape : Given({}, side, shape) = {}
      BY DEF Given
    <3> QED
      BY <2>1, <3>1 DEF RulesInit, RulesInv, NoRules
  <2> QED
    BY <2>1
<1>2. RulesInv /\ [RulesNext]_ruleVars => RulesInv'
  <2> SUFFICES ASSUME RulesInv, [RulesNext]_ruleVars
               PROVE  RulesInv'
    OBVIOUS
  <2>1. CASE UNCHANGED ruleVars
    BY <2>1 DEF RulesInv, ruleVars
  <2>2. CASE RulesNext
    <3>1. PICK l \in Line : Parse(l)
      BY <2>2 DEF RulesNext
    <3>2. /\ lines' = lines \cup {l} /\ l \notin lines
          /\ aborted' \in {aborted, TRUE}
          /\ IF Kind(l) = "none" THEN rules' = rules
             ELSE rules' = [rules EXCEPT ![SideOf(l)][Kind(l)] = @ \cup {Rule(l)}]
      BY <3>1, ParseRule
    <3>3. lines' \subseteq Line /\ aborted' \in BOOLEAN
      BY <3>2 DEF RulesInv
    <3>4. rules = [side \in Side |-> [shape \in Shape |-> Given(lines, side, shape)]]
      BY DEF RulesInv
    <3>5. \A side, shape : Given(lines', side, shape) =
             IF SideOf(l) = side /\ Kind(l) = shape
             THEN Given(lines, side, shape) \cup {Rule(l)} ELSE Given(lines, side, shape)
      <4>1. \A side, shape : Given(lines \cup {l}, side, shape) = Grown(lines, l, side, shape)
        BY OneMore
      <4> QED
        BY <3>2, <4>1 DEF Grown
    <3>6. rules' = [side \in Side |-> [shape \in Shape |-> Given(lines', side, shape)]]
      <4>1. CASE Kind(l) = "none"
        <5>1. \A side \in Side, shape \in Shape : Given(lines', side, shape) = Given(lines, side, shape)
          BY <3>5, <4>1 DEF Shape
        <5> QED
          BY <3>2, <3>4, <4>1, <5>1
      <4>2. CASE Kind(l) # "none"
        <5>1. Kind(l) \in Shape /\ SideOf(l) \in Side
          BY <4>2, KindType, LineForms DEF Shape
        <5>2. rules' = [rules EXCEPT ![SideOf(l)][Kind(l)] = @ \cup {Rule(l)}]
          BY <3>2, <4>2
        <5> DEFINE s0 == SideOf(l)  k0 == Kind(l)
        <5> HIDE DEF s0, k0
        <5>3. rules' = [side \in Side |-> [shape \in Shape |->
                           IF s0 = side /\ k0 = shape
                           THEN Given(lines, side, shape) \cup {Rule(l)}
                           ELSE Given(lines, side, shape)]]
          BY <3>4, <5>1, <5>2 DEF s0, k0
        <5> QED
          BY <3>5, <5>3 DEF s0, k0
      <4> QED
        BY <4>1, <4>2
    <3> QED
      BY <3>3, <3>6 DEF RulesInv
  <2> QED
    BY <2>1, <2>2
<1> QED
  BY <1>1, <1>2, PTL DEF RulesSpec

-----------------------------------------------------------------------------
(* The type invariant *)

LEMMA KindForm ==
  ASSUME NEW l \in Line
  PROVE  /\ Kind(l) = "domains" => l.form = "names" /\ Rule(l) = Domain(l)
         /\ Kind(l) = "suffixes" => l.form = "anchored" /\ Rule(l) = Domain(l)
         /\ Kind(l) = "regex" => l.form = "pattern" /\ IsPattern(l) /\ Rule(l) = l.pattern
  BY DEF Kind, Rule

LEMMA RuleSets ==
  ASSUME RulesInv, NEW side \in Side
  PROVE  /\ rules[side].domains = Given(lines, side, "domains")
         /\ rules[side].suffixes = Given(lines, side, "suffixes")
         /\ rules[side].regex = Given(lines, side, "regex")
         /\ DOMAIN rules = Side /\ DOMAIN rules[side] = Shape
  BY DEF RulesInv, Shape

LEMMA GivenBy ==
  ASSUME RulesInv, NEW side, NEW shape, NEW rule \in Given(lines, side, shape)
  PROVE  \E l \in lines : l \in Line /\ SideOf(l) = side /\ Kind(l) = shape /\ Rule(l) = rule
  BY DEF Given, RulesInv

\* Names are kept in the form in which they are looked up.
LEMMA NamesKept ==
  ASSUME RulesInv, NEW side, NEW d,
         d \in Given(lines, side, "domains") \cup Given(lines, side, "suffixes")
  PROVE  d \in Texts /\ d = Lower(TrimDots(d))
<1>1. PICK l \in lines : /\ l \in Line /\ Rule(l) = d
                         /\ Kind(l) \in {"domains", "suffixes"}
  BY GivenBy
<1>2. l.form \in {"names", "anchored"} /\ d = Domain(l)
  BY <1>1, KindForm
<1> QED
  BY <1>1, <1>2, DomainType

LEMMA TypeFollows == RulesInv => RulesTypeOK
<1> SUFFICES ASSUME RulesInv
             PROVE  RulesTypeOK
  OBVIOUS
<1>1. lines \subseteq Line /\ aborted \in BOOLEAN
  BY DEF RulesInv
<1>2. DOMAIN rules = Side
  BY DEF RulesInv
<1>3. ASSUME NEW side \in Side
      PROVE  /\ DOMAIN rules[side] = Shape
             /\ rules[side].regex \subseteq Valid
             /\ \A d \in rules[side].domains \cup rules[side].suffixes :
                   d = Lower(TrimDots(d))
  <2>1. ASSUME NEW p \in Given(lines, side, "regex")
        PROVE  p \in Valid
    <3>1. PICK l \in lines : l \in Line /\ Kind(l) = "regex" /\ Rule(l) = p
      BY GivenBy
    <3> QED
      BY <3>1, KindForm DEF IsPattern
  <2> QED
    BY <2>1, RuleSets, NamesKept
<1> QED
  BY <1>1, <1>2, <1>3 DEF RulesTypeOK

\* Rules are in lower case and without trailing dots, and patterns compile,
\* for every set of lines: clean_domain_static and Regex::new see to it.
THEOREM RulesTyped == RulesSpec => []RulesTypeOK
<1>1. RulesSpec => []RulesInv
  BY RulesInvHolds
<1>2. RulesInv => RulesTypeOK
  BY TypeFollows
<1> QED
  BY <1>1, <1>2, PTL

-----------------------------------------------------------------------------
(* What check finds *)

\* The lines that are about a name, by the set that their rule is in.
LEMMA CoversKind ==
  ASSUME NEW l \in Line, NEW n \in Name
  PROVE  /\ Lower(n) \in Texts
         /\ Covers(l, n) <=>
               \/ Kind(l) = "domains" /\ Domain(l) = Lower(n)
               \/ Kind(l) = "suffixes" /\ Domain(l) \in Tails(Lower(n))
               \/ Kind(l) = "regex" /\ Lower(n) \in Matches[l.pattern]
<1> DEFINE d == Lower(n)
<1>1. n \in Texts
  BY NameAssumption DEF Texts
<1>2. d \in Texts
  BY <1>1, LowerType
<1> HIDE DEF d
<1>3. CASE l.form = "names"
  <2>1. Domain(l) \in Texts
    BY <1>3, DomainType
  <2>2. Pieces(d) = LabelsIn(l) <=> Domain(l) = d
    BY <1>2, <2>1, SamePieces DEF LabelsIn
  <2>3. Kind(l) = "domains" <=> (l.source = "manual_allow" \/ IsDomain(l))
    BY <1>3 DEF Kind
  <2>4. Kind(l) # "suffixes" /\ Kind(l) # "regex"
    BY <1>3 DEF Kind
  <2>5. Covers(l, n) <=> Pieces(d) = LabelsIn(l) /\ (l.source = "manual_allow" \/ IsDomain(l))
    BY <1>3 DEF Covers, d
  <2> QED
    BY <1>2, <2>2, <2>3, <2>4, <2>5 DEF d
<1>4. CASE l.form = "anchored"
  <2>1. Domain(l) \in Texts
    BY <1>4, DomainType
  <2>2. IsSuffix(LabelsIn(l), Pieces(d)) <=> Domain(l) \in Tails(d)
    BY <1>2, <2>1, TailsAreSuffixes DEF LabelsIn
  <2>3. Kind(l) = "suffixes" <=> Domain(l) # <<>>
    BY <1>4 DEF Kind
  <2>4. Kind(l) # "domains" /\ Kind(l) # "regex"
    BY <1>4 DEF Kind
  <2>5. Covers(l, n) <=> Domain(l) # <<>> /\ IsSuffix(LabelsIn(l), Pieces(d))
    BY <1>4 DEF Covers, d
  <2> QED
    BY <1>2, <2>2, <2>3, <2>4, <2>5 DEF d
<1>5. CASE l.form = "pattern"
  <2>1. Kind(l) = "regex" <=> IsPattern(l)
    BY <1>5 DEF Kind
  <2>2. Kind(l) # "domains" /\ Kind(l) # "suffixes"
    BY <1>5 DEF Kind
  <2>3. Covers(l, n) <=> IsPattern(l) /\ d \in Matches[l.pattern]
    BY <1>5 DEF Covers, d
  <2> QED
    BY <1>2, <2>1, <2>2, <2>3 DEF d
<1>6. CASE l.form \notin {"names", "anchored", "pattern"}
  <2>1. Kind(l) = "none" /\ ~Covers(l, n)
    BY <1>6 DEF Kind, Covers
  <2> QED
    BY <1>2, <2>1 DEF d
<1> QED
  BY <1>3, <1>4, <1>5, <1>6

\* Of the tails that are rules, suffix_match reports the longest one.
LEMMA LongestTail ==
  ASSUME NEW set, NEW d \in Texts, set \cap Tails(d) # {}
  PROVE  SuffixMatch(set, d) # {}
<1> DEFINE T == set \cap Tails(d)
           U == {Len(d) - Len(s) : s \in T}
<1>1. \A s \in T : Len(s) \in Nat /\ Len(s) <= Len(d)
  BY TailType
<1>2. Len(d) \in Nat
  BY CutsType
<1>3. \A s \in T : Len(d) - Len(s) \in Nat
  BY <1>1, <1>2
<1>4. U \subseteq Nat /\ U # {}
  BY <1>3
<1>5. PICK u \in U : \A v \in U : u <= v
  <2> HIDE DEF U
  <2> QED
    BY <1>4, LeastNumber
<1>6. PICK s \in T : u = Len(d) - Len(s)
  BY <1>5
<1>7. ASSUME NEW r \in T
      PROVE  Len(r) <= Len(s)
  <2>1. Len(d) - Len(s) <= Len(d) - Len(r)
    BY <1>5, <1>6
  <2>2. Len(s) \in Nat /\ Len(r) \in Nat
    BY <1>1
  <2> QED
    BY <1>2, <2>1, <2>2
<1>8. s \in SuffixMatch(set, d)
  BY <1>6, <1>7 DEF SuffixMatch
<1> QED
  BY <1>8

\* What a set reports for a name comes from a line that is about the name.
LEMMA HitFromLine ==
  ASSUME RulesInv, NEW n \in Name, NEW side \in Side, NEW shape \in Shape,
         NEW rule \in Hits(side, shape, Lower(n))
  PROVE  \E l \in About(n, side) : l \in Line /\ Kind(l) = shape /\ Rule(l) = rule
<1> DEFINE d == Lower(n)
<1>1. lines \subseteq Line
  BY DEF RulesInv
<1>2. CASE shape = "domains"
  <2>1. rule \in Given(lines, side, "domains") /\ rule = d
    BY <1>2, RuleSets DEF Hits
  <2>2. PICK l \in lines : /\ l \in Line /\ SideOf(l) = side
                           /\ Kind(l) = "domains" /\ Rule(l) = rule
    BY <2>1, GivenBy
  <2>3. Covers(l, n)
    BY <2>1, <2>2, KindForm, CoversKind
  <2> QED
    BY <1>2, <2>2, <2>3 DEF About
<1>3. CASE shape = "suffixes"
  <2>1. rule \in Given(lines, side, "suffixes") /\ rule \in Tails(d)
    BY <1>3, RuleSets DEF Hits, SuffixMatch
  <2>2. PICK l \in lines : /\ l \in Line /\ SideOf(l) = side
                           /\ Kind(l) = "suffixes" /\ Rule(l) = rule
    BY <2>1, GivenBy
  <2>3. Covers(l, n)
    BY <2>1, <2>2, KindForm, CoversKind
  <2> QED
    BY <1>3, <2>2, <2>3 DEF About
<1>4. CASE shape = "regex"
  <2>1. rule \in Given(lines, side, "regex") /\ d \in Matches[rule]
    BY <1>4, RuleSets DEF Hits
  <2>2. PICK l \in lines : /\ l \in Line /\ SideOf(l) = side
                           /\ Kind(l) = "regex" /\ Rule(l) = rule
    BY <2>1, GivenBy
  <2>3. Covers(l, n)
    BY <2>1, <2>2, KindForm, CoversKind
  <2> QED
    BY <1>4, <2>2, <2>3 DEF About
<1> QED
  BY <1>2, <1>3, <1>4 DEF Shape

\* A line about a name has its set report something for the name.
LEMMA LineHits ==
  ASSUME RulesInv, NEW n \in Name, NEW side \in Side, NEW l \in About(n, side)
  PROVE  /\ l \in Line /\ Kind(l) \in Shape
         /\ Hits(side, Kind(l), Lower(n)) # {}
         /\ Kind(l) = "suffixes" =>
               \A rule \in Hits(side, "suffixes", Lower(n)) : Len(Domain(l)) <= Len(rule)
<1> DEFINE d == Lower(n)
<1>1. l \in lines /\ l \in Line /\ SideOf(l) = side /\ Covers(l, n)
  BY DEF About, RulesInv
<1>2. \/ Kind(l) = "domains" /\ Domain(l) = d
      \/ Kind(l) = "suffixes" /\ Domain(l) \in Tails(d)
      \/ Kind(l) = "regex" /\ d \in Matches[l.pattern]
  BY <1>1, CoversKind
<1>3. Rule(l) \in Given(lines, side, Kind(l))
  BY <1>1 DEF Given
<1>4. CASE Kind(l) = "domains" /\ Domain(l) = d
  <2>1. d \in rules[side].domains
    BY <1>1, <1>3, <1>4, KindForm, RuleSets
  <2>2. d \in Hits(side, "domains", d)
    BY <2>1 DEF Hits
  <2> QED
    BY <1>1, <1>4, <2>2 DEF Shape
<1>5. CASE Kind(l) = "suffixes" /\ Domain(l) \in Tails(d)
  <2>1. Domain(l) \in rules[side].suffixes \cap Tails(d)
    BY <1>1, <1>3, <1>5, KindForm, RuleSets
  <2>2. d \in Texts
    BY <1>1, CoversKind
  <2>3. Hits(side, "suffixes", d) = SuffixMatch(rules[side].suffixes, d)
    BY DEF Hits
  <2>4. SuffixMatch(rules[side].suffixes, d) # {}
    BY <2>1, <2>2, LongestTail
  <2>5. \A rule \in SuffixMatch(rules[side].suffixes, d) : Len(Domain(l)) <= Len(rule)
    BY <2>1 DEF SuffixMatch
  <2> QED
    BY <1>1, <1>5, <2>3, <2>4, <2>5 DEF Shape
<1>6. CASE Kind(l) = "regex" /\ d \in Matches[l.pattern]
  <2>1. l.pattern \in rules[side].regex
    BY <1>1, <1>3, <1>6, KindForm, RuleSets
  <2>2. l.pattern \in Hits(side, "regex", d)
    BY <1>6, <2>1 DEF Hits
  <2> QED
    BY <1>1, <1>6, <2>2 DEF Shape
<1> QED
  BY <1>2, <1>4, <1>5, <1>6

LEMMA OrderIs ==
  /\ DOMAIN Order = 1..6
  /\ \A k \in 1..6 : Order[k][1] \in Side /\ Order[k][2] \in Shape
  /\ \A k \in 1..6 : Order[k][1] = IF k <= 3 THEN "allow" ELSE "block"
  /\ \A side \in Side, shape \in Shape :
        \E k \in 1..6 : Order[k][1] = side /\ Order[k][2] = shape
  BY DEF Order, Side, Shape

\* check stops at the first set that reports something.
LEMMA CheckIs ==
  ASSUME NEW n
  PROVE  \/ /\ Check(n) = Forwarded
            /\ \A k \in 1..6 : Hits(Order[k][1], Order[k][2], Lower(n)) = {}
         \/ \E m \in 1..6 :
               /\ Hits(Order[m][1], Order[m][2], Lower(n)) # {}
               /\ \A k \in 1..6 : k < m => Hits(Order[k][1], Order[k][2], Lower(n)) = {}
               /\ Check(n) = [side |-> Order[m][1], shape |-> Order[m][2],
                              found |-> Hits(Order[m][1], Order[m][2], Lower(n))]
<1> DEFINE hits(k) == Hits(Order[k][1], Order[k][2], Lower(n))
           hit == {k \in DOMAIN Order : hits(k) # {}}
           m == Min(hit)
<1>1. Check(n) = IF hit = {} THEN Forwarded
                 ELSE [side |-> Order[m][1], shape |-> Order[m][2], found |-> hits(m)]
  BY DEF Check
<1>2. hit = {k \in 1..6 : hits(k) # {}}
  BY SMTT(60), OrderIs
<1> HIDE DEF hits
<1>3. CASE hit = {}
  <2>1. \A k \in 1..6 : hits(k) = {}
    BY <1>2, <1>3
  <2> QED
    BY <1>1, <1>3, <2>1 DEF hits
<1>4. CASE hit # {}
  <2>1. hit \subseteq Nat /\ hit \subseteq 1..6
    BY <1>2
  <2>2. m \in hit /\ \A k \in hit : m <= k
    <3> HIDE DEF hit
    <3>1. \E k \in hit : \A j \in hit : k <= j
      BY <1>4, <2>1, LeastNumber
    <3> QED
      BY <3>1 DEF Min
  <2> HIDE DEF m
  <2>3. m \in 1..6 /\ hits(m) # {}
    BY <1>2, <2>2
  <2>4. ASSUME NEW k \in 1..6, k < m
        PROVE  hits(k) = {}
    <3>1. ~(m <= k)
      BY <2>3, <2>4
    <3>2. k \notin hit
      BY <2>2, <3>1
    <3> QED
      BY <1>2, <3>2
  <2>5. Check(n) = [side |-> Order[m][1], shape |-> Order[m][2], found |-> hits(m)]
    BY <1>1, <1>4
  <2> QED
    BY <2>3, <2>4, <2>5 DEF hits
<1> QED
  BY <1>3, <1>4

-----------------------------------------------------------------------------
(* The verdict and the rule named for it *)

LEMMA VerdictFollows == RulesInv => VerdictRight
<1> SUFFICES ASSUME RulesInv, NEW n \in Name
             PROVE  Check(n).side = IF About(n, "allow") # {} THEN "allow"
                                    ELSE IF About(n, "block") # {} THEN "block" ELSE "none"
  BY DEF VerdictRight
<1> DEFINE hits(k) == Hits(Order[k][1], Order[k][2], Lower(n))
<1>1. ASSUME NEW side \in Side, NEW l \in About(n, side)
      PROVE  \E k \in 1..6 : Order[k][1] = side /\ hits(k) # {}
  <2>1. Kind(l) \in Shape /\ Hits(side, Kind(l), Lower(n)) # {}
    BY LineHits
  <2>2. PICK k \in 1..6 : Order[k][1] = side /\ Order[k][2] = Kind(l)
    BY <2>1, OrderIs
  <2> QED
    BY <2>1, <2>2
<1>2. "allow" \in Side /\ "block" \in Side
  BY DEF Side
<1>3. CASE Check(n) = Forwarded /\ \A k \in 1..6 : hits(k) = {}
  <2>1. About(n, "allow") = {} /\ About(n, "block") = {}
    BY <1>1, <1>2, <1>3
  <2> QED
    BY <1>3, <2>1 DEF Forwarded
<1>4. ASSUME NEW m \in 1..6, hits(m) # {}, \A k \in 1..6 : k < m => hits(k) = {},
             Check(n) = [side |-> Order[m][1], shape |-> Order[m][2], found |-> hits(m)]
      PROVE  Check(n).side = IF About(n, "allow") # {} THEN "allow"
                             ELSE IF About(n, "block") # {} THEN "block" ELSE "none"
  <2>1. Order[m][1] \in Side /\ Order[m][2] \in Shape
    BY OrderIs
  <2>2. About(n, Order[m][1]) # {}
    BY <1>4, <2>1, HitFromLine
  <2>3. Check(n).side = Order[m][1]
    BY <1>4
  <2>4. CASE m <= 3
    <3>1. Order[m][1] = "allow"
      BY <2>4, OrderIs
    <3> QED
      BY <2>2, <2>3, <3>1
  <2>5. CASE ~(m <= 3)
    <3>1. Order[m][1] = "block"
      BY <2>5, OrderIs
    <3>2. About(n, "allow") = {}
      <4>1. ASSUME NEW l \in About(n, "allow")
            PROVE  FALSE
        <5>1. PICK k \in 1..6 : Order[k][1] = "allow" /\ hits(k) # {}
          BY <1>1, <1>2
        <5>2. k <= 3
          BY <5>1, OrderIs
        <5>3. k < m
          BY <2>5, <5>2
        <5> QED
          BY <1>4, <5>1, <5>3
      <4> QED
        BY <4>1
    <3> QED
      BY <2>2, <2>3, <3>1, <3>2
  <2> QED
    BY <2>4, <2>5
<1> QED
  BY <1>3, <1>4, CheckIs

LEMMA NameFollows == RulesInv => RuleNamed
<1> SUFFICES ASSUME RulesInv, NEW n \in Name
             PROVE  LET c == Check(n) IN
                      /\ c.side # "none" => c.found # {}
                      /\ \A rule \in c.found : \E l \in About(n, c.side) :
                            l.form = Origin[c.shape] /\ StandsIn(rule, l)
                      /\ c.shape = "suffixes" => \A rule \in c.found, l \in About(n, c.side) :
                            l.form = "anchored" => Len(Domain(l)) <= Len(rule)
  BY DEF RuleNamed
<1> DEFINE hits(k) == Hits(Order[k][1], Order[k][2], Lower(n))
<1>1. CASE Check(n) = Forwarded
  BY <1>1 DEF Forwarded
<1>2. ASSUME NEW m \in 1..6, hits(m) # {},
             Check(n) = [side |-> Order[m][1], shape |-> Order[m][2], found |-> hits(m)]
      PROVE  LET c == Check(n) IN
               /\ c.side # "none" => c.found # {}
               /\ \A rule \in c.found : \E l \in About(n, c.side) :
                     l.form = Origin[c.shape] /\ StandsIn(rule, l)
               /\ c.shape = "suffixes" => \A rule \in c.found, l \in About(n, c.side) :
                     l.form = "anchored" => Len(Domain(l)) <= Len(rule)
  <2> DEFINE side == Order[m][1]  shape == Order[m][2]
  <2>1. side \in Side /\ shape \in Shape
    BY OrderIs
  <2>2. Check(n).side = side /\ Check(n).shape = shape /\ Check(n).found = hits(m)
    BY <1>2
  <2> HIDE DEF side, shape
  <2>3. hits(m) = Hits(side, shape, Lower(n))
    BY DEF side, shape
  <2> HIDE DEF hits
  <2>4. ASSUME NEW rule \in hits(m)
        PROVE  \E l \in About(n, side) : l.form = Origin[shape] /\ StandsIn(rule, l)
    <3>1. PICK l \in About(n, side) : l \in Line /\ Kind(l) = shape /\ Rule(l) = rule
      BY <2>1, <2>3, <2>4, HitFromLine
    <3>2. l.form = Origin[shape]
      BY <2>1, <3>1, KindForm DEF Origin, Shape
    <3>3. StandsIn(rule, l)
      BY <3>1 DEF StandsIn, Rule
    <3> QED
      BY <3>2, <3>3
  <2>5. ASSUME shape = "suffixes", NEW rule \in hits(m), NEW l \in About(n, side),
               l.form = "anchored"
        PROVE  Len(Domain(l)) <= Len(rule)
    <3>1. l \in Line /\ Kind(l) \in Shape
      BY <2>1, LineHits
    <3>2. Kind(l) = "suffixes"
      BY <2>5, <3>1, KindForm DEF Shape
    <3>3. rule \in Hits(side, "suffixes", Lower(n))
      BY <2>3, <2>5
    <3> QED
      BY <2>1, <3>2, <3>3, LineHits
  <2> QED
    BY <1>2, <2>2, <2>4, <2>5
<1> QED
  BY <1>1, <1>2, CheckIs

\* For every set of lines and every order of parsing them, check allows a name
\* if and only if some line allows it, else blocks it if and only if some line
\* blocks it; a suffix rule ends at a label, whatever the name looks like.
THEOREM VerdictsRight == RulesSpec => []VerdictRight
<1>1. RulesSpec => []RulesInv
  BY RulesInvHolds
<1>2. RulesInv => VerdictRight
  BY VerdictFollows
<1> QED
  BY <1>1, <1>2, PTL

\* The rule that check names for a verdict stands in a line about the name,
\* and no closer suffix rule of that side was passed over.
THEOREM RulesNamed == RulesSpec => []RuleNamed
<1>1. RulesSpec => []RulesInv
  BY RulesInvHolds
<1>2. RulesInv => RuleNamed
  BY NameFollows
<1> QED
  BY <1>1, <1>2, PTL

\* Parsing one line more never turns a name the wrong way: a line of an
\* allowlist blocks nothing, and a line that blocks lets nothing through and
\* takes nothing off an allowlist.
THEOREM SidesKept == RulesSpec => OneSided
<1> DEFINE Kept == \A l \in lines' \ lines, n \in Name :
              IF l.source \in {"allowlist_urls", "regex_allow_urls", "regex_allow",
                               "manual_allow"}
              THEN Check(n)'.side = "block" => Check(n).side = "block"
              ELSE ~l.at => /\ Check(n).side = "allow" => Check(n)'.side = "allow"
                            /\ Check(n).side = "block" => Check(n)'.side = "block"
<1>1. ASSUME VerdictRight, VerdictRight', RulesNext
      PROVE  Kept
  <2> SUFFICES ASSUME NEW l \in lines' \ lines, NEW n \in Name
               PROVE  IF l.source \in {"allowlist_urls", "regex_allow_urls", "regex_allow",
                                       "manual_allow"}
                      THEN Check(n)'.side = "block" => Check(n).side = "block"
                      ELSE ~l.at => /\ Check(n).side = "allow" => Check(n)'.side = "allow"
                                    /\ Check(n).side = "block" => Check(n)'.side = "block"
    OBVIOUS
  <2>1. PICK k \in Line : Parse(k)
    BY <1>1 DEF RulesNext
  <2>2. lines' = lines \cup {l}
    BY <2>1 DEF Parse
  <2>3. \A side : SideOf(l) # side => About(n, side)' = About(n, side)
    BY <2>2 DEF About
  <2>4. \A side : About(n, side) \subseteq About(n, side)'
    BY <2>2 DEF About
  <2>5. Check(n).side = IF About(n, "allow") # {} THEN "allow"
                        ELSE IF About(n, "block") # {} THEN "block" ELSE "none"
    BY <1>1 DEF VerdictRight
  <2>6. Check(n)'.side = IF About(n, "allow")' # {} THEN "allow"
                         ELSE IF About(n, "block")' # {} THEN "block" ELSE "none"
    BY <1>1 DEF VerdictRight
  <2>7. CASE l.source \in {"allowlist_urls", "regex_allow_urls", "regex_allow", "manual_allow"}
    <3>1. SideOf(l) # "block"
      BY <2>7 DEF SideOf
    <3> QED
      BY <2>3, <2>4, <2>5, <2>6, <2>7, <3>1
  <2>8. CASE l.source \notin {"allowlist_urls", "regex_allow_urls", "regex_allow", "manual_allow"}
    <3>1. ~l.at => SideOf(l) # "allow"
      BY <2>8 DEF SideOf
    <3> QED
      BY <2>3, <2>4, <2>5, <2>6, <2>8, <3>1
  <2> QED
    BY <2>7, <2>8
<1>2. VerdictRight /\ VerdictRight' /\ [RulesNext]_ruleVars => [Kept]_ruleVars
  BY <1>1
<1>3. RulesSpec => []VerdictRight
  BY VerdictsRight
<1> QED
  BY <1>2, <1>3, PTL DEF RulesSpec, OneSided
=============================================================================
