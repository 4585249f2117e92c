--------------------------- MODULE DnsMessageProofs ---------------------------
(***************************************************************************)
(* Theorems about DnsMessage, for messages with any numbers of questions   *)
(* and records.                                                            *)
(*                                                                         *)
(* What is composed is read by counts that the code sets by hand.  So the  *)
(* proofs rest on two lemmas about any message: what parse makes of a      *)
(* packet counts its sections right (ReadType), and a message whose first  *)
(* three counts are right is read as itself when it has been serialized    *)
(* (Written).  The inductive invariant, MessageInv, says of which message  *)
(* each wire form was made.                                                *)
(***************************************************************************)
EXTENDS DnsMessage, TextProofs

Item == Question \cup Record
Wire == Header \cup Item
Packet == ClientPacket \cup {r.wire : r \in UpstreamReply}

Msg == [header : Header, questions : Seq(Question), answers : Seq(Record),
        authorities : Seq(Record), additionals : Seq(Record)]

\* The counts of a header are right, but perhaps for the last one.
Counted3(m) ==
    /\ m.header.questions = Len(m.questions)
    /\ m.header.answers = Len(m.answers)
    /\ m.header.authorities = Len(m.authorities)
Counted(m) == Counted3(m) /\ m.header.additionals = Len(m.additionals)

-----------------------------------------------------------------------------
(* Parts of a sequence that is put together *)

LEMMA SliceLeft ==
  ASSUME NEW s \in Seq(Wire), NEW t \in Seq(Wire), NEW a \in Nat, NEW b \in Nat,
         1 <= a, a <= b + 1, b <= Len(s)
  PROVE  SubSeq(s \o t, a, b) = SubSeq(s, a, b)
<1> DEFINE w == s \o t
<1>1. /\ w \in Seq(Wire) /\ Len(w) = Len(s) + Len(t)
      /\ \A i \in 1..Len(s) + Len(t) :
            w[i] = IF i <= Len(s) THEN s[i] ELSE t[i - Len(s)]
  BY ConcatProperties
<1>2. Len(s) \in Nat /\ Len(t) \in Nat
  BY LenProperties
<1> HIDE DEF w
<1>3. b <= Len(w)
  BY <1>1, <1>2
<1>4. /\ SubSeq(w, a, b) \in Seq(Wire) /\ Len(SubSeq(w, a, b)) = b - a + 1
      /\ \A j \in 1..(b - a + 1) : SubSeq(w, a, b)[j] = w[a + j - 1]
  BY <1>1, <1>3, Part
<1>5. /\ SubSeq(s, a, b) \in Seq(Wire) /\ Len(SubSeq(s, a, b)) = b - a + 1
      /\ \A j \in 1..(b - a + 1) : SubSeq(s, a, b)[j] = s[a + j - 1]
  BY Part
<1>6. \A j \in 1..(b - a + 1) : w[a + j - 1] = s[a + j - 1]
  <2>1. ASSUME NEW j \in 1..(b - a + 1)
        PROVE  w[a + j - 1] = s[a + j - 1]
    <3>1. a + j - 1 \in 1..Len(s) + Len(t) /\ a + j - 1 <= Len(s)
      BY <1>2
    <3> QED
      BY <1>1, <3>1
  <2> QED
    BY <2>1
<1>7. \A j \in 1..Len(SubSeq(w, a, b)) : SubSeq(w, a, b)[j] = SubSeq(s, a, b)[j]
  BY <1>4, <1>5, <1>6
<1>8. SubSeq(w, a, b) = SubSeq(s, a, b)
  BY <1>4, <1>5, <1>7, SeqEqual
<1> QED
  BY <1>8 DEF w

\* The items from a up to c, without c.
Slice(w, a, c) == SubSeq(w, a, c - 1)

LEMMA SliceKept ==
  ASSUME NEW s \in Seq(Wire), NEW t \in Seq(Wire), NEW a \in Nat, NEW c \in Nat,
         1 <= a, a <= c, c <= Len(s) + 1
  PROVE  Slice(s \o t, a, c) = Slice(s, a, c)
<1>1. Len(s) \in Nat
  BY LenProperties
<1> DEFINE b == c - 1
<1>2. b \in Nat /\ a <= b + 1 /\ b <= Len(s)
  BY <1>1
<1> HIDE DEF b
<1>3. SubSeq(s \o t, a, b) = SubSeq(s, a, b)
  BY <1>2, SliceLeft
<1> QED
  BY <1>3 DEF Slice, b

LEMMA SliceRight ==
  ASSUME NEW s \in Seq(Wire), NEW t \in Seq(Wire)
  PROVE  SubSeq(s \o t, Len(s) + 1, Len(s) + Len(t)) = t
<1> DEFINE w == s \o t  a == Len(s) + 1  b == Len(s) + Len(t)
<1>1. /\ w \in Seq(Wire) /\ Len(w) = Len(s) + Len(t)
      /\ \A i \in 1..Len(s) + Len(t) :
            w[i] = IF i <= Len(s) THEN s[i] ELSE t[i - Len(s)]
  BY ConcatProperties
<1>2. Len(s) \in Nat /\ Len(t) \in Nat
  BY LenProperties
<1>3. /\ a \in Nat /\ b \in Nat /\ 1 <= a /\ a <= b + 1 /\ b - a + 1 = Len(t)
      /\ b <= Len(s) + Len(t)
  BY <1>2
<1>4. \A j \in 1..Len(t) : a + j - 1 = Len(s) + j
  BY <1>2
<1> HIDE DEF w, a, b
<1>5. /\ SubSeq(w, a, b) \in Seq(Wire) /\ Len(SubSeq(w, a, b)) = b - a + 1
      /\ \A j \in 1..(b - a + 1) : SubSeq(w, a, b)[j] = w[a + j - 1]
  BY <1>1, <1>3, Part
<1>6. \A j \in 1..Len(t) : w[Len(s) + j] = t[j]
  <2>1. ASSUME NEW j \in 1..Len(t)
        PROVE  w[Len(s) + j] = t[j]
    <3>1. /\ Len(s) + j \in 1..Len(s) + Len(t) /\ ~(Len(s) + j <= Len(s))
          /\ Len(s) + j - Len(s) = j
      BY <1>2
    <3> QED
      BY <1>1, <3>1
  <2> QED
    BY <2>1
<1>7. Len(SubSeq(w, a, b)) = Len(t)
  BY <1>3, <1>5
<1>8. \A j \in 1..Len(t) : SubSeq(w, a, b)[j] = t[j]
  BY <1>3, <1>4, <1>5, <1>6
<1>9. SubSeq(w, a, b) = t
  BY <1>5, <1>7, <1>8, SeqEqual
<1> QED
  BY <1>9 DEF w, a, b

LEMMA Single ==
  ASSUME NEW S, NEW e \in S
  PROVE  <<e>> \in Seq(S) /\ Len(<<e>>) = 1 /\ <<e>>[1] = e
  OBVIOUS

\* A wire form is put together of a header and four sections that begin at 2,
\* i, j and k and end before l; and each can be cut out of it again.
Together(w, h, q, a, u, x, i, j, k, l) ==
    /\ h \in Wire /\ q \in Seq(Wire) /\ a \in Seq(Wire) /\ u \in Seq(Wire)
    /\ x \in Seq(Wire)
    /\ i = 2 + Len(q) /\ j = i + Len(a) /\ k = j + Len(u) /\ l = k + Len(x)
    /\ w = <<h>> \o q \o a \o u \o x
Apart(w, h, q, a, u, x, i, j, k, l) ==
    /\ w \in Seq(Wire) /\ w # <<>> /\ Len(w) = l - 1 /\ w[1] = h
    /\ Slice(w, 2, i) = q /\ Slice(w, i, j) = a
    /\ Slice(w, j, k) = u /\ Slice(w, k, l) = x

LEMMA Layout ==
  ASSUME NEW w, NEW h, NEW q, NEW a, NEW u, NEW x, NEW i, NEW j, NEW k, NEW l,
         Together(w, h, q, a, u, x, i, j, k, l)
  PROVE  Apart(w, h, q, a, u, x, i, j, k, l)
<1>0. /\ h \in Wire /\ q \in Seq(Wire) /\ a \in Seq(Wire) /\ u \in Seq(Wire)
      /\ x \in Seq(Wire)
      /\ i = 2 + Len(q) /\ j = i + Len(a) /\ k = j + Len(u) /\ l = k + Len(x)
      /\ w = <<h>> \o q \o a \o u \o x
  BY DEF Together
<1> DEFINE w0 == <<h>>
           w1 == w0 \o q
           w2 == w1 \o a
           w3 == w2 \o u
           w4 == w3 \o x
<1>1. Len(q) \in Nat /\ Len(a) \in Nat /\ Len(u) \in Nat /\ Len(x) \in Nat
  BY <1>0, LenProperties
<1>2. /\ 2 \in Nat /\ i \in Nat /\ j \in Nat /\ k \in Nat /\ l \in Nat
      /\ i - 1 \in Nat /\ j - 1 \in Nat /\ k - 1 \in Nat /\ l - 1 \in Nat
      /\ 2 <= i /\ i <= j /\ j <= k /\ k <= l
  BY SMTT(60), <1>0, <1>1
<1>3. w0 \in Seq(Wire) /\ Len(w0) = 1 /\ w0[1] = h
  BY <1>0, Single
<1> HIDE DEF w0
<1>4. w1 \in Seq(Wire) /\ Len(w1) = i - 1
  <2>1. w1 \in Seq(Wire) /\ Len(w1) = 1 + Len(q)
    BY ZenonT(60), <1>0, <1>3, ConcatProperties
  <2> QED
    BY <1>0, <1>1, <2>1
<1>5. w1[1] = h
  <2>1. 1 \in 1..Len(w0) + Len(q) /\ 1 <= Len(w0)
    BY <1>1, <1>3
  <2> QED
    BY <1>3, <2>1, ConcatProperties
<1>6. Slice(w1, 2, i) = q
  <2>1. Len(w0) + 1 = 2 /\ Len(w0) + Len(q) = i - 1
    BY <1>0, <1>1, <1>3
  <2>2. SubSeq(w1, Len(w0) + 1, Len(w0) + Len(q)) = q
    BY <1>0, <1>3, SliceRight
  <2> QED
    BY <2>1, <2>2 DEF Slice
<1> HIDE DEF w1
<1>7. w2 \in Seq(Wire) /\ Len(w2) = j - 1
  <2>1. w2 \in Seq(Wire) /\ Len(w2) = i - 1 + Len(a)
    BY <1>0, <1>4, ConcatProperties
  <2> QED
    BY <1>0, <1>1, <1>2, <2>1
<1>8. w2[1] = h
  <2>1. 1 \in 1..Len(w1) + Len(a) /\ 1 <= Len(w1)
    BY <1>1, <1>2, <1>4
  <2> QED
    BY <1>4, <1>5, <2>1, ConcatProperties
<1>9. Slice(w2, 2, i) = q
  <2>1. 1 <= 2 /\ 2 <= i /\ i <= Len(w1) + 1
    BY <1>2, <1>4
  <2>2. Slice(w2, 2, i) = Slice(w1, 2, i)
    BY SMTT(60), <1>0, <1>2, <1>4, <2>1, SliceKept
  <2> QED
    BY <1>6, <2>2
<1>10. Slice(w2, i, j) = a
  <2>1. Len(w1) + 1 = i /\ Len(w1) + Len(a) = j - 1
    BY <1>0, <1>1, <1>2, <1>4
  <2>2. SubSeq(w2, Len(w1) + 1, Len(w1) + Len(a)) = a
    BY <1>0, <1>4, SliceRight
  <2> QED
    BY <2>1, <2>2 DEF Slice
<1> HIDE DEF w2
<1>11. w3 \in Seq(Wire) /\ Len(w3) = k - 1
  <2>1. w3 \in Seq(Wire) /\ Len(w3) = j - 1 + Len(u)
    BY <1>0, <1>7, ConcatProperties
  <2> QED
    BY <1>0, <1>1, <1>2, <2>1
<1>12. w3[1] = h
  <2>1. 1 \in 1..Len(w2) + Len(u) /\ 1 <= Len(w2)
    BY <1>1, <1>2, <1>7
  <2> QED
    BY <1>7, <1>8, <2>1, ConcatProperties
<1>13. Slice(w3, 2, i) = q /\ Slice(w3, i, j) = a
  <2>1. /\ 1 <= 2 /\ 2 <= i /\ i <= Len(w2) + 1
        /\ 1 <= i /\ i <= j /\ j <= Len(w2) + 1
    BY <1>2, <1>7
  <2>2. Slice(w3, 2, i) = Slice(w2, 2, i)
    BY SMTT(60), <1>0, <1>2, <1>7, <2>1, SliceKept
  <2>3. Slice(w3, i, j) = Slice(w2, i, j)
    BY SMTT(60), <1>0, <1>2, <1>7, <2>1, SliceKept
  <2> QED
    BY <1>9, <1>10, <2>2, <2>3
<1>14. Slice(w3, j, k) = u
  <2>1. Len(w2) + 1 = j /\ Len(w2) + Len(u) = k - 1
    BY <1>0, <1>1, <1>2, <1>7
  <2>2. SubSeq(w3, Len(w2) + 1, Len(w2) + Len(u)) = u
    BY <1>0, <1>7, SliceRight
  <2> QED
    BY <2>1, <2>2 DEF Slice
<1> HIDE DEF w3
<1>15. w4 \in Seq(Wire) /\ Len(w4) = l - 1
  <2>1. w4 \in Seq(Wire) /\ Len(w4) = k - 1 + Len(x)
    BY ZenonT(60), <1>0, <1>11, ConcatProperties
  <2> QED
    BY <1>0, <1>1, <1>2, <2>1
<1>16. w4[1] = h
  <2>1. 1 \in 1..Len(w3) + Len(x) /\ 1 <= Len(w3)
    BY <1>1, <1>2, <1>11
  <2> QED
    BY <1>11, <1>12, <2>1, ConcatProperties
<1>17. /\ Slice(w4, 2, i) = q /\ Slice(w4, i, j) = a
       /\ Slice(w4, j, k) = u
  <2>1. /\ 1 <= 2 /\ 2 <= i /\ i <= Len(w3) + 1
        /\ 1 <= i /\ i <= j /\ j <= Len(w3) + 1
        /\ 1 <= j /\ j <= k /\ k <= Len(w3) + 1
    BY <1>2, <1>11
  <2>0. /\ w3 \in Seq(Wire) /\ x \in Seq(Wire) /\ 2 \in Nat /\ i \in Nat /\ j \in Nat
        /\ i - 1 \in Nat /\ j - 1 \in Nat /\ k - 1 \in Nat
    BY <1>0, <1>2, <1>11
  <2>2. Slice(w4, 2, i) = Slice(w3, 2, i)
    BY <2>0, <2>1, SliceKept
  <2>3. Slice(w4, i, j) = Slice(w3, i, j)
    BY <2>0, <2>1, SliceKept
  <2>4. Slice(w4, j, k) = Slice(w3, j, k)
    BY SMTT(60), <1>0, <2>0, <2>1, SliceKept
  <2> QED
    BY <1>13, <1>14, <2>2, <2>3, <2>4
<1>18. Slice(w4, k, l) = x
  <2>1. Len(w3) + 1 = k /\ Len(w3) + Len(x) = l - 1
    BY <1>0, <1>1, <1>2, <1>11
  <2>2. SubSeq(w4, Len(w3) + 1, Len(w3) + Len(x)) = x
    BY <1>0, <1>11, SliceRight
  <2> QED
    BY <2>1, <2>2 DEF Slice
<1>19. w4 # <<>>
  <2>1. Len(w4) # 0
    BY <1>2, <1>15
  <2> QED
    BY <2>1, EmptySeq
<1> QED
  <2>1. w = w4
    BY <1>0 DEF w0, w1, w2, w3, w4
  <2> HIDE DEF w4
  <2> QED
    BY <1>15, <1>16, <1>17, <1>18, <1>19, <2>1 DEF Apart

-----------------------------------------------------------------------------
(* parse and serialize *)

LEMMA Retyped ==
  ASSUME NEW S, NEW T, NEW s \in Seq(S), \A i \in 1..Len(s) : s[i] \in T
  PROVE  s \in Seq(T)
<1>1. Len(s) \in Nat /\ s \in [1..Len(s) -> S]
  BY LenProperties
<1>2. s = [i \in 1..Len(s) |-> s[i]]
  BY <1>1
<1>3. [i \in 1..Len(s) |-> s[i]] \in Seq(T)
  BY <1>1, IsASeq
<1> QED
  BY <1>2, <1>3

LEMMA BeginIs ==
  ASSUME NEW wire
  PROVE  /\ Begin(wire, 1) = 2
         /\ Begin(wire, 2) = 2 + wire[1].questions
         /\ Begin(wire, 3) = 2 + wire[1].questions + wire[1].answers
         /\ Begin(wire, 4) = 2 + wire[1].questions + wire[1].answers + wire[1].authorities
         /\ Begin(wire, 5) = 2 + wire[1].questions + wire[1].answers
                               + wire[1].authorities + wire[1].additionals
  BY DEF Begin

LEMMA ItemsAre ==
  ASSUME NEW wire
  PROVE  /\ Items(wire, 1) = SubSeq(wire, Begin(wire, 1), Begin(wire, 2) - 1)
         /\ Items(wire, 2) = SubSeq(wire, Begin(wire, 2), Begin(wire, 3) - 1)
         /\ Items(wire, 3) = SubSeq(wire, Begin(wire, 3), Begin(wire, 4) - 1)
         /\ Items(wire, 4) = SubSeq(wire, Begin(wire, 4), Begin(wire, 5) - 1)
  BY DEF Items

LEMMA ToSetIs ==
  ASSUME NEW S, NEW s \in Seq(S)
  PROVE  ToSet(s) = {s[i] : i \in 1..Len(s)}
  BY LenProperties DEF ToSet

\* What is read from a packet is a message that counts its sections right.
LEMMA ReadType ==
  ASSUME NEW wire \in Packet, Readable(wire)
  PROVE  Read(wire) \in Msg /\ Counted(Read(wire)) /\ Read(wire).header = wire[1]
<1> DEFINE h == wire[1]
           b(k) == Begin(wire, k)
<1>1. /\ wire \in Seq(Wire) /\ wire # <<>> /\ h \in Header
      /\ \A i \in 2..Len(wire) : wire[i] \in Item
  BY WireAssumption DEF Packet, Wire, Item, Readable
<1>2. /\ h.questions \in Nat /\ h.answers \in Nat /\ h.authorities \in Nat
      /\ h.additionals \in Nat
  BY <1>1 DEF Header
<1>3. /\ b(1) = 2 /\ b(2) = 2 + h.questions /\ b(3) = b(2) + h.answers
      /\ b(4) = b(3) + h.authorities /\ b(5) = b(4) + h.additionals
  BY <1>2, BeginIs
<1>4. Len(wire) \in Nat /\ b(5) - 1 <= Len(wire)
  BY <1>1, LenProperties DEF Readable, Extent
<1> HIDE DEF b, h
<1>6. /\ b(1) \in Nat /\ b(2) \in Nat /\ b(3) \in Nat /\ b(4) \in Nat /\ b(5) \in Nat
      /\ 2 <= b(1) /\ b(1) <= b(2) /\ b(2) <= b(3) /\ b(3) <= b(4) /\ b(4) <= b(5)
      /\ b(2) = b(1) + h.questions
  BY <1>2, <1>3
<1>5. ASSUME NEW i \in Nat, NEW n \in Nat, 2 <= i, i + n <= b(5)
      PROVE  LET s == SubSeq(wire, i, i + n - 1)
             IN  s \in Seq(Item) /\ Len(s) = n
  <2> DEFINE k == i + n - 1
             s == SubSeq(wire, i, k)
  <2>1. /\ i \in Nat /\ k \in Nat /\ 1 <= i /\ i <= k + 1 /\ k <= Len(wire)
        /\ k - i + 1 = n
    BY SMTT(60), <1>4, <1>5, <1>6
  <2>2. \A j \in 1..n : i + j - 1 \in 2..Len(wire)
    BY <1>4, <1>5, <2>1
  <2> HIDE DEF k
  <2>3. /\ s \in Seq(Wire) /\ Len(s) = k - i + 1
        /\ \A j \in 1..(k - i + 1) : s[j] = wire[i + j - 1]
    BY <1>1, <2>1, Part
  <2> HIDE DEF s
  <2>4. Len(s) = n /\ \A j \in 1..Len(s) : s[j] \in Item
    BY <1>1, <2>1, <2>2, <2>3
  <2>5. s \in Seq(Item)
    BY <2>3, <2>4, Retyped
  <2> QED
    BY <2>4, <2>5 DEF s, k
<1>7. Items(wire, 1) \in Seq(Item) /\ Len(Items(wire, 1)) = h.questions
  <2>1. b(1) + h.questions <= b(5)
    BY <1>6
  <2>2. Items(wire, 1) = SubSeq(wire, b(1), b(1) + h.questions - 1)
    <3>1. Items(wire, 1) = SubSeq(wire, b(1), b(2) - 1)
      BY ItemsAre DEF b
    <3>2. b(2) - 1 = b(1) + h.questions - 1
      BY <1>2, <1>3, <1>6
    <3> QED
      BY <3>1, <3>2
  <2>3. LET s == SubSeq(wire, b(1), b(1) + h.questions - 1)
        IN  s \in Seq(Item) /\ Len(s) = h.questions
    BY <1>2, <1>5, <1>6, <2>1
  <2> QED
    BY <2>2, <2>3
<1>8. Items(wire, 2) \in Seq(Item) /\ Len(Items(wire, 2)) = h.answers
  <2>1. b(2) + h.answers <= b(5) /\ 2 <= b(2)
    BY <1>3, <1>6
  <2>2. Items(wire, 2) = SubSeq(wire, b(2), b(2) + h.answers - 1)
    <3>1. Items(wire, 2) = SubSeq(wire, b(2), b(3) - 1)
      BY ItemsAre DEF b
    <3>2. b(3) - 1 = b(2) + h.answers - 1
      BY <1>2, <1>3, <1>6
    <3> QED
      BY <3>1, <3>2
  <2>3. LET s == SubSeq(wire, b(2), b(2) + h.answers - 1)
        IN  s \in Seq(Item) /\ Len(s) = h.answers
    BY <1>2, <1>5, <1>6, <2>1
  <2> QED
    BY <2>2, <2>3
<1>9. Items(wire, 3) \in Seq(Item) /\ Len(Items(wire, 3)) = h.authorities
  <2>1. b(3) + h.authorities <= b(5) /\ 2 <= b(3)
    BY <1>3, <1>6
  <2>2. Items(wire, 3) = SubSeq(wire, b(3), b(3) + h.authorities - 1)
    <3>1. Items(wire, 3) = SubSeq(wire, b(3), b(4) - 1)
      BY ItemsAre DEF b
    <3>2. b(4) - 1 = b(3) + h.authorities - 1
      BY <1>2, <1>3, <1>6
    <3> QED
      BY <3>1, <3>2
  <2>3. LET s == SubSeq(wire, b(3), b(3) + h.authorities - 1)
        IN  s \in Seq(Item) /\ Len(s) = h.authorities
    BY <1>2, <1>5, <1>6, <2>1
  <2> QED
    BY <2>2, <2>3
<1>10. Items(wire, 4) \in Seq(Item) /\ Len(Items(wire, 4)) = h.additionals
  <2>1. b(4) + h.additionals <= b(5) /\ 2 <= b(4)
    BY <1>3, <1>6
  <2>2. Items(wire, 4) = SubSeq(wire, b(4), b(4) + h.additionals - 1)
    <3>1. Items(wire, 4) = SubSeq(wire, b(4), b(5) - 1)
      BY ItemsAre DEF b
    <3>2. b(5) - 1 = b(4) + h.additionals - 1
      BY <1>2, <1>3, <1>6
    <3> QED
      BY <3>1, <3>2
  <2>3. LET s == SubSeq(wire, b(4), b(4) + h.additionals - 1)
        IN  s \in Seq(Item) /\ Len(s) = h.additionals
    BY <1>2, <1>5, <1>6, <2>1
  <2> QED
    BY <2>2, <2>3
<1>11. Items(wire, 1) \in Seq(Question)
  <2>1. ToSet(Items(wire, 1)) = {Items(wire, 1)[i] : i \in 1..Len(Items(wire, 1))}
    BY <1>7, ToSetIs
  <2>2. \A i \in 1..Len(Items(wire, 1)) : Items(wire, 1)[i] \in Question
    BY <2>1 DEF Readable
  <2> QED
    BY <1>7, <2>2, Retyped
<1>12. ASSUME NEW k \in 2..4, Items(wire, k) \in Seq(Item)
       PROVE  Items(wire, k) \in Seq(Record)
  <2>1. ToSet(Items(wire, k)) = {Items(wire, k)[i] : i \in 1..Len(Items(wire, k))}
    BY <1>12, ToSetIs
  <2>2. \A i \in 1..Len(Items(wire, k)) : Items(wire, k)[i] \notin Question
    BY <2>1 DEF Readable
  <2>3. \A i \in 1..Len(Items(wire, k)) : Items(wire, k)[i] \in Record
    BY <1>12, <2>2, ElementOfSeq DEF Item
  <2> QED
    BY <1>12, <2>3, Retyped
<1>13. /\ Items(wire, 2) \in Seq(Record) /\ Items(wire, 3) \in Seq(Record)
       /\ Items(wire, 4) \in Seq(Record)
  BY <1>8, <1>9, <1>10, <1>12
<1>14. Read(wire) = [header |-> h, questions |-> Items(wire, 1), answers |-> Items(wire, 2),
                     authorities |-> Items(wire, 3), additionals |-> Items(wire, 4)]
  BY DEF Read, h
<1>15. h \in Header
  BY <1>1 DEF h
<1>16. Read(wire) \in Msg
  BY <1>11, <1>13, <1>14, <1>15 DEF Msg
<1>17. Counted(Read(wire))
  BY <1>7, <1>8, <1>9, <1>10, <1>14 DEF Counted, Counted3
<1> QED
  BY <1>14, <1>16, <1>17 DEF h

\* A message is read as itself after it has been serialized, if all its counts
\* but the last are right.
LEMMA Written ==
  ASSUME NEW m \in Msg, Counted3(m)
  PROVE  LET w == Serialize(m)
         IN  /\ Readable(w) /\ Extent(w) = Len(w) /\ w # <<>>
             /\ Read(w) = [m EXCEPT !.header.additionals = Len(m.additionals)]
<1> DEFINE w == Serialize(m)
           h == [m.header EXCEPT !.additionals = Len(m.additionals)]
           q == m.questions
           a == m.answers
           u == m.authorities
           x == m.additionals
<1>1. /\ m.header \in Header /\ q \in Seq(Question) /\ a \in Seq(Record)
      /\ u \in Seq(Record) /\ x \in Seq(Record)
  BY DEF Msg
<1>2. Len(q) \in Nat /\ Len(a) \in Nat /\ Len(u) \in Nat /\ Len(x) \in Nat
  BY <1>1, LenProperties
<1>3. /\ h \in Header /\ h.questions = Len(q) /\ h.answers = Len(a)
      /\ h.authorities = Len(u) /\ h.additionals = Len(x)
  BY <1>1, <1>2 DEF Header, Counted3
<1>4. w = <<h>> \o q \o a \o u \o x
  BY DEF Serialize
<1>5. /\ h \in Wire /\ q \in Seq(Wire) /\ a \in Seq(Wire) /\ u \in Seq(Wire)
      /\ x \in Seq(Wire)
  <2>1. /\ \A i \in 1..Len(q) : q[i] \in Wire
        /\ \A i \in 1..Len(a) : a[i] \in Wire
        /\ \A i \in 1..Len(u) : u[i] \in Wire
        /\ \A i \in 1..Len(x) : x[i] \in Wire
    BY <1>1, ElementOfSeq DEF Wire, Item
  <2>2. h \in Wire
    BY <1>3 DEF Wire
  <2> HIDE DEF h, q, a, u, x
  <2> QED
    BY <1>1, <2>1, <2>2, Retyped
<1> DEFINE i == 2 + Len(q)
           j == i + Len(a)
           k == j + Len(u)
           l == k + Len(x)
<1> HIDE DEF w, h, q, a, u, x
<1>6. /\ w \in Seq(Wire) /\ w # <<>> /\ Len(w) = l - 1 /\ w[1] = h
      /\ SubSeq(w, 2, i - 1) = q /\ SubSeq(w, i, j - 1) = a
      /\ SubSeq(w, j, k - 1) = u /\ SubSeq(w, k, l - 1) = x
  <2>1. i = 2 + Len(q) /\ j = i + Len(a) /\ k = j + Len(u) /\ l = k + Len(x)
    OBVIOUS
  <2> HIDE DEF i, j, k, l
  <2>2. Together(w, h, q, a, u, x, i, j, k, l)
    BY <1>4, <1>5, <2>1 DEF Together
  <2>3. Apart(w, h, q, a, u, x, i, j, k, l)
    BY <2>2, Layout
  <2> QED
    BY <2>3 DEF Apart, Slice
<1>7. /\ Begin(w, 1) = 2 /\ Begin(w, 2) = i /\ Begin(w, 3) = j /\ Begin(w, 4) = k
      /\ Begin(w, 5) = l
  BY <1>3, <1>6, BeginIs
<1> HIDE DEF i, j, k, l
<1>8. /\ Items(w, 1) = q /\ Items(w, 2) = a /\ Items(w, 3) = u /\ Items(w, 4) = x
  BY <1>6, <1>7, ItemsAre
<1>9. Extent(w) = Len(w)
  BY <1>6, <1>7 DEF Extent
<1>10. Len(w) \in Nat
  BY <1>6, LenProperties
<1>11. ToSet(Items(w, 1)) \subseteq Question
  BY SMTT(60), <1>1, <1>8, ToSetIs, ElementOfSeq
<1>12. \A n \in 2..4 : ToSet(Items(w, n)) \cap Question = {}
  <2>1. ASSUME NEW s \in Seq(Record)
        PROVE  ToSet(s) \cap Question = {}
    <3>1. ToSet(s) = {s[n] : n \in 1..Len(s)} /\ \A n \in 1..Len(s) : s[n] \in Record
      BY ToSetIs, ElementOfSeq
    <3> QED
      BY <3>1, WireAssumption
  <2>2. \A n \in 2..4 : Items(w, n) \in Seq(Record)
    BY <1>1, <1>8
  <2> QED
    BY <2>1, <2>2
<1>13. Readable(w)
  BY <1>6, <1>9, <1>10, <1>11, <1>12 DEF Readable
<1>14. Read(w) = [header |-> h, questions |-> q, answers |-> a, authorities |-> u,
                  additionals |-> x]
  BY <1>6, <1>8 DEF Read
<1>15. [m EXCEPT !.header.additionals = Len(m.additionals)] =
          [header |-> h, questions |-> q, answers |-> a, authorities |-> u,
           additionals |-> x]
  <2>1. m = [header |-> m.header, questions |-> q, answers |-> a, authorities |-> u,
             additionals |-> x]
    BY DEF Msg, q, a, u, x
  <2>2. [m EXCEPT !.header.additionals = Len(m.additionals)] = [m EXCEPT !.header = h]
    BY DEF h, x, Msg
  <2> QED
    BY <2>1, <2>2
<1> QED
  BY <1>6, <1>9, <1>13, <1>14, <1>15 DEF w

-----------------------------------------------------------------------------
(* What is kept of the additionals *)

LEMMA RetainType ==
  ASSUME NEW s \in Seq(Record), NEW places, places \subseteq 1..Len(s)
  PROVE  /\ Cardinality(places) \in Nat
         /\ Retain(s, places) \in Seq(Record)
         /\ Len(Retain(s, places)) = Cardinality(places)
         /\ \A k \in 1..Cardinality(places) :
               Retain(s, places)[k] = s[Nth(places, k)] /\ Nth(places, k) \in places
<1> DEFINE n == Cardinality(places)
           e(k) == s[Nth(places, k)]
<1>1. Len(s) \in Nat
  BY LenProperties
<1>2. IsFiniteSet(places) /\ places \subseteq Nat /\ n \in Nat
  <2>1. IsFiniteSet(1..Len(s))
    BY <1>1, FS_Interval
  <2>2. IsFiniteSet(places)
    BY <2>1, FS_Subset
  <2> QED
    BY <2>2, FS_CardinalityType
<1>3. \A k \in 1..n : Nth(places, k) \in places
  BY <1>2, NthRank
<1>4. \A k \in 1..n : e(k) \in Record
  BY <1>1, <1>3, ElementOfSeq
<1>5. Retain(s, places) = [k \in 1..n |-> e(k)]
  BY DEF Retain
<1> HIDE DEF n, e
<1>6. [k \in 1..n |-> e(k)] \in Seq(Record)
  BY <1>2, <1>4, IsASeq
<1>7. Len([k \in 1..n |-> e(k)]) = n
  BY <1>2, <1>6, LenProperties
<1>8. \A k \in 1..n : Retain(s, places)[k] = e(k)
  BY <1>5
<1> QED
  BY <1>2, <1>3, <1>5, <1>6, <1>7, <1>8 DEF n, e

\* What is retained depends on the items at the places only.
LEMMA RetainSame ==
  ASSUME NEW s \in Seq(Record), NEW t \in Seq(Record), NEW places,
         places \subseteq 1..Len(s), places \subseteq 1..Len(t),
         \A i \in places : s[i] = t[i]
  PROVE  Retain(s, places) = Retain(t, places)
<1> DEFINE n == Cardinality(places)
           x == Retain(s, places)
           y == Retain(t, places)
<1>1. /\ x \in Seq(Record) /\ y \in Seq(Record) /\ Len(x) = n /\ Len(y) = n
      /\ \A k \in 1..n : x[k] = s[Nth(places, k)] /\ y[k] = t[Nth(places, k)]
      /\ \A k \in 1..n : Nth(places, k) \in places
  BY ZenonT(60), RetainType
<1> HIDE DEF n, x, y
<1>2. \A k \in 1..Len(x) : x[k] = y[k]
  BY <1>1
<1>3. x = y
  BY <1>1, <1>2, SeqEqual
<1> QED
  BY <1>3 DEF x, y

LEMMA FirstOptIs ==
  ASSUME NEW m \in Msg
  PROVE  /\ Len(m.additionals) \in Nat
         /\ DOMAIN m.additionals = 1..Len(m.additionals)
         /\ Opts(m) \subseteq 1..Len(m.additionals)
         /\ Others(m) \subseteq 1..Len(m.additionals)
         /\ \A i \in 1..Len(m.additionals) : m.additionals[i] \in Record
         /\ Opts(m) # {} => FirstOpt(m) \in Opts(m)
<1>1. m.additionals \in Seq(Record)
  BY DEF Msg
<1>2. /\ Len(m.additionals) \in Nat
      /\ DOMAIN m.additionals = 1..Len(m.additionals)
      /\ \A i \in 1..Len(m.additionals) : m.additionals[i] \in Record
  BY <1>1, LenProperties, ElementOfSeq
<1>3. /\ Opts(m) \subseteq 1..Len(m.additionals)
      /\ Others(m) \subseteq 1..Len(m.additionals)
  BY <1>2 DEF Opts, Others
<1>4. ASSUME Opts(m) # {}
      PROVE  FirstOpt(m) \in Opts(m)
  <2>1. Opts(m) \subseteq Nat
    BY <1>2, <1>3
  <2>2. \E i \in Opts(m) : \A j \in Opts(m) : i <= j
    BY <1>4, <2>1, LeastNumber
  <2> QED
    BY <2>2 DEF FirstOpt
<1> QED
  BY <1>2, <1>3, <1>4

-----------------------------------------------------------------------------
(* What is composed *)

\* What QueryFaithful says of the query r that is made of the message m.
Faithful(r, m) ==
    /\ [r EXCEPT !.header.additionals = 0, !.additionals = <<>>] =
          [m EXCEPT !.header.additionals = 0, !.additionals = <<>>]
    /\ Retain(r.additionals, Others(r)) = Retain(m.additionals, Others(m))
    /\ r.additionals[FirstOpt(r)].size = EDNS_BUFFER_SIZE
    /\ r.additionals[FirstOpt(r)].do
    /\ IF Opts(m) = {} THEN r.additionals[FirstOpt(r)].data = NoData
       ELSE /\ Opts(r) = Opts(m)
            /\ \A i \in Opts(r) : r.additionals[i].data = m.additionals[i].data

LEMMA Rewritten ==
  ASSUME NEW m \in Msg, Counted(m), Opts(m) # {}
  PROVE  LET r == AddOptRecord(m, EDNS_BUFFER_SIZE)
         IN  r \in Msg /\ Counted(r) /\ Faithful(r, m)
<1> DEFINE r == AddOptRecord(m, EDNS_BUFFER_SIZE)
           f == FirstOpt(m)
           s == m.additionals
           n == Len(s)
           yes == TRUE
           o == [s[f] EXCEPT !.size = EDNS_BUFFER_SIZE, !.do = yes]
           x == [s EXCEPT ![f] = o]
<1>1. /\ n \in Nat /\ DOMAIN s = 1..n /\ Opts(m) \subseteq 1..n
      /\ Others(m) \subseteq 1..n /\ f \in Opts(m)
      /\ \A i \in 1..n : s[i] \in Record
  BY FirstOptIs
<1>2. s \in Seq(Record)
  BY DEF Msg
<1>3. s[f] \in Record
  BY <1>1
<1>4. /\ o \in Record /\ o.size = EDNS_BUFFER_SIZE /\ o.do = TRUE
      /\ o.opt = s[f].opt /\ o.data = s[f].data
  <2> DEFINE e == s[f]  a == e.opt  b == e.size  c == e.do  d == e.data
             z == [e EXCEPT !.size = EDNS_BUFFER_SIZE]
             y == [opt |-> a, size |-> EDNS_BUFFER_SIZE, do |-> yes, data |-> d]
  <2> HIDE DEF s, f
  <2>1. e \in Record
    BY <1>3
  <2> HIDE DEF e
  <2>2. /\ a \in BOOLEAN /\ d \in Data
        /\ e = [opt |-> a, size |-> b, do |-> c, data |-> d]
    BY <2>1 DEF Record
  <2> HIDE DEF a, b, c, d
  <2>3. /\ y \in Record /\ y.size = EDNS_BUFFER_SIZE /\ y.do = TRUE /\ y.opt = a
        /\ y.data = d
    BY <2>2 DEF Record, EDNS_BUFFER_SIZE
  <2> HIDE DEF yes
  <2>4. z = [opt |-> a, size |-> EDNS_BUFFER_SIZE, do |-> c, data |-> d]
    BY <2>2
  <2> HIDE DEF z
  <2>5. [z EXCEPT !.do = yes] = y
    BY <2>4
  <2>6. o = y
    BY <2>5 DEF e, z
  <2> QED
    BY <2>3, <2>6 DEF e, a, d
<1>5. r = [m EXCEPT !.additionals = x]
  BY DEF AddOptRecord, Msg
<1> HIDE DEF o
<1>6. /\ x = [i \in 1..n |-> IF i = f THEN o ELSE s[i]]
      /\ DOMAIN x = 1..n
  BY <1>1
<1>7. x \in Seq(Record)
  <2>1. \A i \in 1..n : (IF i = f THEN o ELSE s[i]) \in Record
    BY <1>1, <1>4
  <2> HIDE DEF x, s, n, f
  <2>2. [i \in 1..n |-> IF i = f THEN o ELSE s[i]] \in Seq(Record)
    BY <1>1, <2>1, IsASeq
  <2> QED
    BY <1>6, <2>2
<1>8. Len(x) = n
  <2> HIDE DEF x, n
  <2> QED
    BY <1>1, <1>6, <1>7, LenProperties
<1>9. \A i \in 1..n : x[i].opt = s[i].opt /\ x[i].data = s[i].data
  BY <1>1, <1>4, <1>6
<1>10. x[f] = o /\ \A i \in Others(m) : x[i] = s[i]
  BY <1>1, <1>6 DEF Others
<1>11. r.additionals = x /\ m.additionals = s
  BY <1>5 DEF Msg
<1> HIDE DEF x, s, n, f
<1>12. /\ r \in Msg /\ r.header = m.header /\ r.questions = m.questions
       /\ r.answers = m.answers /\ r.authorities = m.authorities
  BY <1>5, <1>7 DEF Msg
<1>13. Counted(r)
  BY <1>8, <1>11, <1>12 DEF Counted, Counted3, n
<1> HIDE DEF r
<1>14. Opts(r) = Opts(m)
  BY <1>1, <1>6, <1>9, <1>11 DEF Opts, IsOpt
<1>15. Others(r) = Others(m)
  BY <1>1, <1>6, <1>11, <1>14 DEF Others
<1>16. FirstOpt(r) = f
  BY <1>14 DEF FirstOpt, f
<1>17. Retain(x, Others(m)) = Retain(s, Others(m))
  <2>1. Others(m) \subseteq 1..Len(x) /\ Others(m) \subseteq 1..Len(s)
    BY <1>1, <1>8 DEF n
  <2> QED
    BY <1>2, <1>7, <1>10, <2>1, RetainSame
<1>18. [r EXCEPT !.header.additionals = 0, !.additionals = <<>>] =
          [m EXCEPT !.header.additionals = 0, !.additionals = <<>>]
  BY <1>5, <1>12 DEF Msg
<1>19. \A i \in Opts(r) : x[i].data = s[i].data
  BY <1>1, <1>9, <1>14
<1>20. Faithful(r, m)
  BY <1>4, <1>10, <1>11, <1>14, <1>15, <1>16, <1>17, <1>18, <1>19 DEF Faithful
<1> QED
  BY <1>12, <1>13, <1>20 DEF r

LEMMA Added ==
  ASSUME NEW m \in Msg, Counted(m), Opts(m) = {}
  PROVE  LET r == AddOptRecord(m, EDNS_BUFFER_SIZE)
         IN  r \in Msg /\ Counted(r) /\ Faithful(r, m)
<1> DEFINE r == AddOptRecord(m, EDNS_BUFFER_SIZE)
           s == m.additionals
           n == Len(s)
           o == Opt(EDNS_BUFFER_SIZE, TRUE, NoData)
           x == Append(s, o)
           h == [m.header EXCEPT !.additionals = n + 1]
<1>1. /\ n \in Nat /\ DOMAIN s = 1..n /\ Others(m) \subseteq 1..n
      /\ \A i \in 1..n : s[i] \in Record
  BY FirstOptIs
<1>2. s \in Seq(Record) /\ m.header \in Header /\ m.header.additionals = n
  BY DEF Msg, Counted
<1>3. /\ o \in Record /\ o.opt /\ o.size = EDNS_BUFFER_SIZE /\ o.do /\ o.data = NoData
  BY WireAssumption DEF Opt, Record, EDNS_BUFFER_SIZE
<1>4. r = [m EXCEPT !.additionals = x, !.header = h]
  BY <1>2 DEF AddOptRecord, WithOpt, Msg
<1> HIDE DEF o, n
<1>5. h \in Header
  <2>1. n + 1 \in Nat
    BY <1>1
  <2> HIDE DEF s
  <2> QED
    BY <1>2, <2>1 DEF Header
<1>6. /\ x \in Seq(Record) /\ Len(x) = n + 1 /\ x[n + 1] = o
      /\ \A i \in 1..n : x[i] = s[i]
  <2> HIDE DEF s
  <2> QED
    BY <1>1, <1>2, <1>3, AppendProperties DEF n
<1>7. r.additionals = x /\ m.additionals = s /\ r.header = h
  BY <1>4 DEF Msg
<1> HIDE DEF x, s
<1>8. DOMAIN x = 1..(n + 1)
  BY <1>6, LenProperties
<1>9. h.additionals = n + 1 /\ h.questions = m.header.questions
      /\ h.answers = m.header.answers /\ h.authorities = m.header.authorities
      /\ [h EXCEPT !.additionals = 0] = [m.header EXCEPT !.additionals = 0]
  BY <1>2 DEF Header
<1> HIDE DEF h
<1>10. /\ r \in Msg /\ r.questions = m.questions
       /\ r.answers = m.answers /\ r.authorities = m.authorities
  BY <1>4, <1>5, <1>6 DEF Msg
<1>11. Counted(r)
  BY <1>6, <1>7, <1>9, <1>10 DEF Counted, Counted3
<1>12. [r EXCEPT !.header.additionals = 0, !.additionals = <<>>] =
          [m EXCEPT !.header.additionals = 0, !.additionals = <<>>]
  BY <1>4, <1>9 DEF Msg
<1> HIDE DEF r
<1>13. \A i \in 1..n : ~IsOpt(s[i])
  BY <1>1, <1>7 DEF Opts
<1>14. Opts(r) = {n + 1}
  BY <1>1, <1>3, <1>6, <1>7, <1>8, <1>13 DEF Opts, IsOpt
<1>15. Others(r) = 1..n /\ Others(m) = 1..n
  BY <1>1, <1>7, <1>8, <1>14 DEF Others
<1>16. FirstOpt(r) = n + 1
  BY <1>1, <1>14 DEF FirstOpt
<1>17. Retain(x, Others(r)) = Retain(s, Others(m))
  <2>1. Others(m) \subseteq 1..Len(x) /\ Others(m) \subseteq 1..Len(s)
    BY <1>1, <1>6, <1>15 DEF n
  <2>2. \A i \in Others(m) : x[i] = s[i]
    BY <1>6, <1>15
  <2>3. Retain(x, Others(m)) = Retain(s, Others(m))
    BY <1>2, <1>6, <2>1, <2>2, RetainSame
  <2> QED
    BY <1>15, <2>3
<1>18. Faithful(r, m)
  BY <1>3, <1>6, <1>7, <1>12, <1>16, <1>17 DEF Faithful
<1> QED
  BY <1>10, <1>11, <1>18 DEF r

\* A query with right counts is composed, and read as it was composed.
LEMMA Queried ==
  ASSUME NEW m \in Msg, Counted(m)
  PROVE  LET w == Serialize(AddOptRecord(m, EDNS_BUFFER_SIZE))
         IN  Readable(w) /\ Extent(w) = Len(w) /\ Faithful(Read(w), m)
<1> DEFINE r == AddOptRecord(m, EDNS_BUFFER_SIZE)
           w == Serialize(r)
<1>1. r \in Msg /\ Counted(r) /\ Faithful(r, m)
  BY Rewritten, Added
<1> HIDE DEF r
<1>2. Counted3(r) /\ r.header.additionals = Len(r.additionals)
  BY <1>1 DEF Counted
<1>3. /\ Readable(w) /\ Extent(w) = Len(w)
      /\ Read(w) = [r EXCEPT !.header.additionals = Len(r.additionals)]
  BY <1>1, <1>2, Written
<1>4. [r EXCEPT !.header.additionals = Len(r.additionals)] = r
  <2> DEFINE h == r.header
  <2>1. h \in Header /\ h.additionals = Len(r.additionals)
    BY <1>1, <1>2 DEF Msg
  <2>2. [h EXCEPT !.additionals = Len(r.additionals)] = h
    BY <2>1 DEF Header
  <2>3. [r EXCEPT !.header = h] = r
    BY <1>1 DEF Msg
  <2> QED
    BY <2>2, <2>3
<1>5. Read(w) = r
  BY <1>3, <1>4
<1> QED
  BY <1>1, <1>3, <1>5 DEF r

\* What is left of a reply is a message with right counts, but for the last one.
LEMMA CutType ==
  ASSUME NEW m \in Msg, Counted(m)
  PROVE  LET c == Cut(m)
         IN  /\ c \in Msg /\ Counted3(c) /\ "TC" \in c.header.flags
             /\ c.questions = m.questions /\ c.answers = <<>> /\ c.authorities = <<>>
             /\ c.additionals = Retain(m.additionals, Opts(m))
<1> DEFINE c == Cut(m)
           f == m.header.flags \cup {"TC"}
           h == [m.header EXCEPT !.flags = f, !.answers = 0, !.authorities = 0]
           x == Retain(m.additionals, Opts(m))
<1>1. m.header \in Header /\ m.additionals \in Seq(Record) /\ m.questions \in Seq(Question)
  BY DEF Msg
<1>2. x \in Seq(Record)
  BY <1>1, FirstOptIs, RetainType
<1>3. f \in SUBSET Flag /\ "TC" \in f
  BY <1>1 DEF Header, Flag
<1>4. c = [m EXCEPT !.header = h, !.answers = <<>>, !.authorities = <<>>, !.additionals = x]
  BY <1>1 DEF Cut, Msg
<1> HIDE DEF x, f
<1>5. /\ h \in Header /\ h.flags = f /\ h.questions = m.header.questions
      /\ h.answers = 0 /\ h.authorities = 0
  BY <1>1, <1>3 DEF Header
<1> HIDE DEF h
<1>6. <<>> \in Seq(Record) /\ Len(<<>>) = 0
  BY EmptySeq
<1>7. /\ c.header = h /\ c.questions = m.questions /\ c.answers = <<>>
      /\ c.authorities = <<>> /\ c.additionals = x
  BY <1>4 DEF Msg
<1>8. c \in Msg
  BY <1>1, <1>2, <1>4, <1>5, <1>6 DEF Msg
<1> HIDE DEF c
<1>9. Counted3(c)
  BY <1>5, <1>6, <1>7 DEF Counted, Counted3
<1> QED
  BY <1>3, <1>5, <1>7, <1>8, <1>9 DEF c, x

LEMMA CutRead ==
  ASSUME NEW m \in Msg, Counted(m)
  PROVE  LET w == Serialize(Cut(m))
         IN  /\ Readable(w) /\ Extent(w) = Len(w) /\ "TC" \in Read(w).header.flags
             /\ Read(w).questions = m.questions
             /\ Read(w).answers = <<>> /\ Read(w).authorities = <<>>
             /\ Read(w).additionals = Retain(m.additionals, Opts(m))
<1> DEFINE c == Cut(m)
           w == Serialize(c)
<1>1. /\ c \in Msg /\ Counted3(c) /\ "TC" \in c.header.flags
      /\ c.questions = m.questions /\ c.answers = <<>> /\ c.authorities = <<>>
      /\ c.additionals = Retain(m.additionals, Opts(m))
  BY CutType
<1> HIDE DEF c
<1>2. /\ Readable(w) /\ Extent(w) = Len(w)
      /\ Read(w) = [c EXCEPT !.header.additionals = Len(c.additionals)]
  BY <1>1, Written
<1>3. /\ Read(w).header.flags = c.header.flags /\ Read(w).questions = c.questions
      /\ Read(w).answers = c.answers /\ Read(w).authorities = c.authorities
      /\ Read(w).additionals = c.additionals
  BY <1>1, <1>2 DEF Msg, Header
<1> QED
  BY <1>1, <1>2, <1>3 DEF c

\* A refusal keeps every question of the query on the wire, and counts one.
LEMMA RefusalRead ==
  ASSUME NEW m \in Msg, Counted(m), m.questions # <<>>
  PROVE  LET w == BuildNxdomain(m)
         IN  /\ Readable(w) /\ "NXDOMAIN" \in Read(w).header.flags
             /\ Read(w).header.id = m.header.id
             /\ Read(w).questions = <<Head(m.questions)>>
             /\ Read(w).answers = <<>> /\ Read(w).authorities = <<>>
             /\ Read(w).additionals = <<>>
             /\ Len(m.questions) = 1 => Extent(w) = Len(w)
<1> DEFINE w == BuildNxdomain(m)
           q == m.questions
           h == [id |-> m.header.id, flags |-> {"QR", "RD", "RA", "NXDOMAIN"},
                 questions |-> 1, answers |-> 0, authorities |-> 0, additionals |-> 0]
           e == <<>>
           n == Len(q)
<1>1. m.header \in Header /\ q \in Seq(Question)
  BY DEF Msg
<1>2. h \in Header
  <2>1. m.header.id \in Id
    BY <1>1 DEF Header
  <2> QED
    BY <2>1 DEF Header, Flag
<1>3. Len(e) = 0 /\ e \in Seq(Wire) /\ e \in Seq(Record)
  BY EmptySeq
<1>4. w = <<h>> \o q \o e \o e \o e
  <2> DEFINE g == [m.header EXCEPT !.flags = {"QR", "RD", "RA", "NXDOMAIN"},
                                   !.questions = 1, !.answers = 0, !.authorities = 0]
             r == [m EXCEPT !.header = g, !.answers = e, !.authorities = e,
                            !.additionals = e]
  <2>1. w = Serialize(r)
    BY DEF BuildNxdomain, Msg
  <2>2. [g EXCEPT !.additionals = 0] = h
    <3> DEFINE y == {"QR", "RD", "RA", "NXDOMAIN"}
               i == m.header.id
               k == m.header
    <3>1. k = [id |-> i, flags |-> k.flags, questions |-> k.questions,
               answers |-> k.answers, authorities |-> k.authorities,
               additionals |-> k.additionals]
      BY <1>1 DEF Header
    <3> DEFINE k1 == [k EXCEPT !.flags = y]
               k2 == [k1 EXCEPT !.questions = 1]
               k3 == [k2 EXCEPT !.answers = 0]
               k4 == [k3 EXCEPT !.authorities = 0]
    <3> HIDE DEF k, i, y
    <3>2. k1 = [id |-> i, flags |-> y, questions |-> k.questions,
                answers |-> k.answers, authorities |-> k.authorities,
                additionals |-> k.additionals]
      BY <3>1
    <3> HIDE DEF k1
    <3>3. k2 = [id |-> i, flags |-> y, questions |-> 1,
                answers |-> k.answers, authorities |-> k.authorities,
                additionals |-> k.additionals]
      BY <3>2
    <3> HIDE DEF k2
    <3>4. k3 = [id |-> i, flags |-> y, questions |-> 1, answers |-> 0,
                authorities |-> k.authorities, additionals |-> k.additionals]
      BY <3>3
    <3> HIDE DEF k3
    <3>5. k4 = [id |-> i, flags |-> y, questions |-> 1, answers |-> 0,
                authorities |-> 0, additionals |-> k.additionals]
      BY <3>4
    <3> HIDE DEF k4
    <3>6. [k4 EXCEPT !.additionals = 0] =
             [id |-> i, flags |-> y, questions |-> 1, answers |-> 0,
              authorities |-> 0, additionals |-> 0]
      BY <3>5
    <3> QED
      BY <3>6 DEF k, k1, k2, k3, k4, i, y
  <2> HIDE DEF g
  <2>3. r.header = g /\ r.questions = q /\ r.answers = e /\ r.authorities = e
        /\ r.additionals = e
    BY DEF Msg
  <2> HIDE DEF r, q, e, w
  <2>4. w = <<[g EXCEPT !.additionals = Len(e)]>> \o q \o e \o e \o e
    BY <2>1, <2>3 DEF Serialize
  <2> QED
    BY <1>3, <2>2, <2>4
<1>5. q \in Seq(Wire) /\ \A i \in 1..n : q[i] \in Question
  <2>1. \A i \in 1..n : q[i] \in Wire /\ q[i] \in Question
    BY <1>1, ElementOfSeq DEF Wire, Item
  <2> HIDE DEF q
  <2> QED
    BY <1>1, <2>1, Retyped
<1>6. n \in Nat /\ n >= 1 /\ Head(q) = q[1]
  <2>1. n \in Nat /\ n # 0
    BY <1>1, LenProperties, EmptySeq
  <2> QED
    BY <2>1, <1>1, HeadTailProperties
<1> DEFINE l == 2 + n
<1>7. Together(w, h, q, e, e, e, l, l, l, l)
  <2>1. h \in Wire
    BY <1>2 DEF Wire
  <2>2. l = 2 + Len(q) /\ l = l + Len(e)
    BY <1>3, <1>6
  <2> HIDE DEF w, h, q, e, n, l
  <2> QED
    BY <1>3, <1>4, <1>5, <2>1, <2>2 DEF Together
<1> HIDE DEF w, q, n
<1>8. Apart(w, h, q, e, e, e, l, l, l, l)
  BY <1>7, Layout
<1>9. /\ w \in Seq(Wire) /\ w # <<>> /\ Len(w) = l - 1 /\ w[1] = h
      /\ SubSeq(w, 2, l - 1) = q
  BY <1>8 DEF Apart, Slice
<1>10. /\ h.questions = 1 /\ h.answers = 0 /\ h.authorities = 0 /\ h.additionals = 0
       /\ h.id = m.header.id /\ "NXDOMAIN" \in h.flags
  OBVIOUS
<1> HIDE DEF h
<1>11. /\ Begin(w, 1) = 2 /\ Begin(w, 2) = 3 /\ Begin(w, 3) = 3 /\ Begin(w, 4) = 3
       /\ Begin(w, 5) = 3
  BY <1>9, <1>10, BeginIs
<1>12. l - 1 \in Nat /\ l - 1 = n + 1 /\ Len(w) >= 2 /\ Len(w) \in Nat
  BY <1>6, <1>9
<1>13. Items(w, 1) = <<q[1]>>
  <2> DEFINE s == SubSeq(w, 2, 2)
             p == SubSeq(w, 2, l - 1)
  <2>1. /\ s \in Seq(Wire) /\ Len(s) = 2 - 2 + 1
        /\ \A j \in 1..(2 - 2 + 1) : s[j] = w[2 + j - 1]
    BY <1>9, <1>12, Part
  <2>2. \A j \in 1..(l - 1 - 2 + 1) : p[j] = w[2 + j - 1]
    <3> DEFINE k == l - 1
    <3>1. k \in Nat /\ 2 <= k + 1 /\ k <= Len(w)
      BY <1>9, <1>12
    <3> HIDE DEF k
    <3>2. \A j \in 1..(k - 2 + 1) : SubSeq(w, 2, k)[j] = w[2 + j - 1]
      BY <1>9, <3>1, Part
    <3> QED
      BY <3>2 DEF k
  <2>3. q[1] = w[2]
    <3>1. 1 \in 1..(l - 1 - 2 + 1) /\ 2 + 1 - 1 = 2
      BY <1>6
    <3>2. p[1] = w[2 + 1 - 1]
      BY <2>2, <3>1
    <3> QED
      BY <1>9, <3>1, <3>2
  <2> HIDE DEF s
  <2>4. s \in Seq(Wire) /\ Len(s) = 1 /\ s[1] = q[1]
    BY <2>1, <2>3
  <2>5. /\ <<q[1]>> \in Seq(Wire) /\ Len(<<q[1]>>) = 1 /\ <<q[1]>>[1] = q[1]
    <3>1. q[1] \in Wire
      BY <1>5, <1>6 DEF Wire, Item
    <3> QED
      BY <3>1, Single
  <2>6. s = <<q[1]>>
    BY <2>4, <2>5, SeqEqual
  <2>7. Items(w, 1) = SubSeq(w, 2, 2)
    <3>1. Begin(w, 2) - 1 = 2
      BY <1>11
    <3> QED
      BY <1>11, <3>1, ItemsAre
  <2> QED
    BY <2>6, <2>7 DEF s
<1>14. Items(w, 2) = e /\ Items(w, 3) = e /\ Items(w, 4) = e
  <2> DEFINE s == SubSeq(w, 3, 2)
  <2>1. s \in Seq(Wire) /\ Len(s) = 2 - 3 + 1
    BY <1>9, <1>12, Part
  <2> HIDE DEF s
  <2>2. s = e
    BY <2>1, EmptySeq
  <2>3. Items(w, 2) = s /\ Items(w, 3) = s /\ Items(w, 4) = s
    BY <1>11, ItemsAre DEF s
  <2> QED
    BY <2>2, <2>3
<1>15. Extent(w) = 2
  BY <1>11 DEF Extent
<1>16. ToSet(Items(w, 1)) \subseteq Question
  <2>1. q[1] \in Question
    BY <1>5, <1>6
  <2>2. <<q[1]>> \in Seq(Question) /\ Len(<<q[1]>>) = 1 /\ <<q[1]>>[1] = q[1]
    BY <2>1, Single
  <2>3. ToSet(<<q[1]>>) = {<<q[1]>>[i] : i \in 1..Len(<<q[1]>>)}
    BY <2>2, ToSetIs
  <2>4. \A i \in 1..Len(<<q[1]>>) : <<q[1]>>[i] = q[1]
    BY <2>2
  <2> QED
    BY <1>13, <2>1, <2>3, <2>4
<1>17. \A k \in 2..4 : ToSet(Items(w, k)) \cap Question = {}
  <2>1. \A k \in 2..4 : Items(w, k) = e
    BY <1>14
  <2>2. ToSet(e) = {}
    <3>1. ToSet(e) = {e[i] : i \in 1..Len(e)}
      BY <1>3, ToSetIs
    <3>2. 1..Len(e) = {}
      BY <1>3
    <3> QED
      BY <3>1, <3>2
  <2> HIDE DEF e
  <2> QED
    BY <2>1, <2>2
<1>18. Readable(w)
  BY <1>9, <1>12, <1>15, <1>16, <1>17 DEF Readable
<1>19. /\ Read(w).header = h /\ Read(w).questions = <<q[1]>>
       /\ Read(w).answers = e /\ Read(w).authorities = e /\ Read(w).additionals = e
  BY <1>9, <1>13, <1>14 DEF Read
<1>20. n = 1 => Extent(w) = Len(w)
  BY <1>6, <1>9, <1>15
<1> QED
  BY <1>6, <1>10, <1>18, <1>19, <1>20 DEF w, q, n

-----------------------------------------------------------------------------
(* The way of a query *)

Good(m) == m \in Msg /\ Counted(m)

\* The query is a message of the client; what is sent for it, either way, was
\* made of it or of the reply.
MessageInv ==
    /\ phase \in {"new", "parsed", "sent", "back", "ended"}
    /\ phase \in {"parsed", "sent", "back"} => Good(message)
    /\ phase = "back" => returned \in UpstreamReply
    /\ phase # "ended" => out = Nothing
    /\ phase \in {"new", "parsed"} => upward = <<>>
    /\ upward # <<>> =>
          Good(message) /\ upward = Serialize(AddOptRecord(message, EDNS_BUFFER_SIZE))
    /\ out.how = "nxdomain" =>
          /\ Good(message) /\ message.questions # <<>>
          /\ out.wire = BuildNxdomain(message)
    /\ out.how = "cut" =>
          /\ returned \in UpstreamReply /\ Readable(returned.wire)
          /\ out.wire = Serialize(Cut(Read(returned.wire)))
    /\ out.how = "whole" => returned.bytes <= ClientLimit(message)

LEMMA MessageInvInit ==
  MessageInit => MessageInv
<1> SUFFICES ASSUME MessageInit
             PROVE  MessageInv
  OBVIOUS
<1>1. out.how = "nothing"
  BY DEF MessageInit, Nothing
<1> QED
  BY <1>1 DEF MessageInit, MessageInv

LEMMA MessageInvStep ==
  MessageInv /\ [MessageNext]_messageVars => MessageInv'
<1> SUFFICES ASSUME MessageInv, [MessageNext]_messageVars
             PROVE  MessageInv'
  OBVIOUS
<1> USE DEF MessageInv
<1>1. ASSUME NEW p \in ClientPacket, Receive(p)
      PROVE  MessageInv'
  <2>1. p \in Packet /\ Readable(p)
    BY <1>1 DEF Packet, Receive
  <2>2. Good(message')
    BY <1>1, <2>1, ReadType DEF Good, Receive
  <2>3. out'.how = "nothing" /\ out' = Nothing
    BY <1>1 DEF Receive, Nothing
  <2> QED
    BY <1>1, <2>2, <2>3 DEF Receive
<1>2. ASSUME NEW p \in ClientPacket, Reject(p)
      PROVE  MessageInv'
  <2>1. out'.how = "nothing"
    BY <1>2 DEF Reject, Nothing
  <2> QED
    BY <1>2, <2>1 DEF Reject
<1>3. CASE Refuse
  <2>1. Good(message') /\ message'.questions # <<>>
    BY <1>3 DEF Refuse, Good
  <2>2. out'.how = "nxdomain" /\ out'.wire = BuildNxdomain(message')
    BY <1>3 DEF Refuse, Send
  <2> QED
    BY <1>3, <2>1, <2>2 DEF Refuse, Send
<1>4. CASE Forward
  <2>1. out'.how = "nothing" /\ out' = Nothing
    BY <1>4 DEF Forward, Nothing
  <2> QED
    BY <1>4, <2>1 DEF Forward, Good
<1>5. ASSUME NEW r \in UpstreamReply, Return(r)
      PROVE  MessageInv'
  <2>1. out'.how = "nothing" /\ out' = Nothing
    BY <1>5 DEF Return, Nothing
  <2> QED
    BY <1>5, <2>1 DEF Return, Good
<1>6. CASE Relay
  <2>1. out'.how = "whole" /\ returned'.bytes <= ClientLimit(message')
    BY <1>6 DEF Relay, Send, Fits
  <2> QED
    BY <1>6, <2>1 DEF Relay, Send, Good
<1>7. CASE Truncate
  <2>1. CASE Readable(returned.wire)
    <3>1. /\ out'.how = "cut" /\ returned' \in UpstreamReply /\ Readable(returned'.wire)
          /\ out'.wire = Serialize(Cut(Read(returned'.wire)))
      BY <1>7, <2>1 DEF Truncate, Send
    <3> QED
      BY <1>7, <2>1, <3>1 DEF Truncate, Send, Good
  <2>2. CASE ~Readable(returned.wire)
    <3>1. out'.how = "nothing"
      BY <1>7, <2>2 DEF Truncate, Nothing
    <3> QED
      BY <1>7, <2>2, <3>1 DEF Truncate, Good
  <2> QED
    BY <2>1, <2>2
<1>8. CASE UNCHANGED messageVars
  BY <1>8 DEF messageVars, Good
<1> QED
  BY <1>1, <1>2, <1>3, <1>4, <1>5, <1>6, <1>7, <1>8 DEF MessageNext

THEOREM MessageInvHolds ==
  MessageSpec => []MessageInv
BY MessageInvInit, MessageInvStep, PTL DEF MessageSpec

\* The upstream reads the client's own query with one OPT record more at most,
\* whatever the query holds (dns.rs, add_opt_record; upstream.rs:393-396).
THEOREM QueriesFaithful ==
  MessageSpec => []QueryFaithful
<1>1. MessageInv => QueryFaithful
  <2> SUFFICES ASSUME MessageInv, upward # <<>>
               PROVE  QueryFaithful
    BY DEF QueryFaithful
  <2>1. /\ message \in Msg /\ Counted(message)
        /\ upward = Serialize(AddOptRecord(message, EDNS_BUFFER_SIZE))
    BY DEF MessageInv, Good
  <2>2. Readable(upward) /\ Extent(upward) = Len(upward) /\ Faithful(Read(upward), message)
    BY <2>1, Queried
  <2> QED
    BY <2>2 DEF QueryFaithful, Faithful
<1> QED
  BY <1>1, MessageInvHolds, PTL

\* A reply that was cut is read as the question and the OPT records of the full
\* reply, with TC (upstream.rs, truncate_response).
THEOREM CutsRead ==
  MessageSpec => []CutReads
<1>1. MessageInv => CutReads
  <2> SUFFICES ASSUME MessageInv, out.how = "cut"
               PROVE  CutReads
    BY DEF CutReads
  <2>1. /\ returned \in UpstreamReply /\ Readable(returned.wire)
        /\ out.wire = Serialize(Cut(Read(returned.wire)))
    BY DEF MessageInv
  <2>2. returned.wire \in Packet
    BY <2>1 DEF Packet
  <2>3. Read(returned.wire) \in Msg /\ Counted(Read(returned.wire))
    BY <2>1, <2>2, ReadType
  <2> QED
    BY <2>1, <2>3, CutRead DEF CutReads
<1> QED
  BY <1>1, MessageInvHolds, PTL

\* A refusal is read as NXDOMAIN to the first question, also when the query had
\* several (upstream.rs, build_nxdomain).
THEOREM RefusalsRead ==
  MessageSpec => []RefusalReads
<1>1. MessageInv => RefusalReads
  BY RefusalRead DEF MessageInv, Good, RefusalReads
<1> QED
  BY <1>1, MessageInvHolds, PTL

\* No client gets more over UDP than 512 bytes or what it offered
\* (upstream.rs:380-391, 446-457).
THEOREM OffersKept ==
  MessageSpec => []WithinOffer
<1>1. MessageInv => WithinOffer
  <2> SUFFICES ASSUME MessageInv, out.how = "whole"
               PROVE  WithinOffer
    BY DEF WithinOffer
  <2> DEFINE offer == message.additionals[FirstOpt(message)].size
  <2>1. returned.bytes <= ClientLimit(message)
    BY DEF MessageInv
  <2>2. ClientLimit(message) = IF Opts(message) # {} /\ offer \in 1..4096
                               THEN offer ELSE DefaultLimit
    BY Zenon DEF ClientLimit
  <2> HIDE DEF offer
  <2>3. \/ ClientLimit(message) = DefaultLimit
        \/ Opts(message) # {} /\ ClientLimit(message) = offer
    BY <2>2
  <2> QED
    BY <2>1, <2>3 DEF WithinOffer, offer
<1> QED
  BY <1>1, MessageInvHolds, PTL
===============================================================================
