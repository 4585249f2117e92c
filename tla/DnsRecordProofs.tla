---------------------------- MODULE DnsRecordProofs ----------------------------
(***************************************************************************)
(* Theorems about DnsName and DnsRecord, for every packet and any limit on *)
(* the pointers of a name.                                                 *)
(*                                                                         *)
(* NamesIn is defined by recursion over positions, and a pointer may lead  *)
(* back: that there is such a function is proved first, by induction over  *)
(* Measure (pointers left, then bytes to the end).  The invariant then     *)
(* says that what the loop has read so far, followed by the name at the    *)
(* place where it is now, is the name at the place where it began          *)
(* (OnTheWay), and while a record is read, where its cursor has to be      *)
(* (AtName, AtTarget).                                                     *)
(***************************************************************************)
EXTENDS DnsRecord, TextProofs

-----------------------------------------------------------------------------
(* The definition of a name is a good one *)

Labels == Seq(Seq(0..127))
Named == [labels : Labels, next : Nat]

\* How far it is to the end of the packet, with what pointers are left.
Way(p, i) == IF i < Len(p) THEN Len(p) - i ELSE 0
Measure(p, at) == at[2] * (Len(p) + 1) + Way(p, at[1])

LEMMA Bytes ==
  ASSUME NEW p \in Seq(Byte), NEW i \in Nat, i < Len(p)
  PROVE  /\ At(p, i) \in Byte /\ At(p, i) \in Nat
         /\ IsPointer(At(p, i)) /\ PointerOk(p, i) => Offset(p, i) \in Nat
         /\ LabelEnd(p, i) \in Nat
         /\ ~IsRoot(At(p, i)) => LabelEnd(p, i) > i + 1
<1>1. \A k \in Nat : k < Len(p) => At(p, k) \in Byte
  <2>1. ASSUME NEW k \in Nat, k < Len(p)
        PROVE  p[k + 1] \in Byte
    <3>1. k + 1 \in 1..Len(p)
      BY <2>1
    <3> QED
      BY <3>1, ElementOfSeq
  <2> QED
    BY <2>1 DEF At
<1>2. \A b \in Byte : b \in Nat
  BY DEF Byte
<1> DEFINE b == At(p, i)  c == At(p, i + 1)
<1>3. ASSUME PointerOk(p, i), IsPointer(At(p, i))
      PROVE  Offset(p, i) \in Nat
  <2>1. b \in Nat /\ b >= 192 /\ c \in Nat
    BY <1>1, <1>2, <1>3 DEF PointerOk, IsPointer
  <2> HIDE DEF b, c
  <2>2. (b - 192) * 256 + c \in Nat
    BY <2>1
  <2> QED
    BY <2>2 DEF Offset, b, c
<1>4. b \in Byte /\ b \in Nat
  BY <1>1, <1>2
<1>5. LabelEnd(p, i) \in Nat /\ (~IsRoot(b) => LabelEnd(p, i) > i + 1)
  <2> HIDE DEF b
  <2>1. i + 1 + b \in Nat /\ (b # 0 => i + 1 + b > i + 1)
    BY <1>4
  <2> QED
    BY <2>1 DEF LabelEnd, IsRoot, b
<1> QED
  BY <1>3, <1>4, <1>5

LEMMA LabelType ==
  ASSUME NEW p \in Seq(Byte), NEW i \in Nat, i < Len(p),
         LabelOk(p, i), ~IsRoot(At(p, i))
  PROVE  /\ Label(p, i) \in Seq(0..127) \ {<<>>}
         /\ LabelEnd(p, i) \in 0..Len(p)
<1>1. /\ LabelEnd(p, i) \in Nat /\ LabelEnd(p, i) > i + 1
      /\ LabelEnd(p, i) <= Len(p)
  BY Bytes DEF LabelOk
<1> DEFINE l == Label(p, i)
<1>2. l \in Seq(Byte) /\ Len(l) = LabelEnd(p, i) - (i + 1)
  BY <1>1, SubSeqProperties DEF Label
<1>3. \A k \in 1..Len(l) : l[k] \in 0..127
  <2>1. \A k \in 1..Len(l) : l[k] \in Byte
    BY <1>2, ElementOfSeq
  <2>2. \A k \in 1..Len(l) : l[k] < 128
    BY <1>2 DEF LabelOk
  <2>3. \A b \in Byte : b < 128 => b \in 0..127
    BY DEF Byte
  <2> QED
    BY <2>1, <2>2, <2>3
<1>4. l \in Seq(0..127)
  <2>1. l = [k \in 1..Len(l) |-> l[k]]
    BY <1>2, LenProperties
  <2>2. Len(l) \in Nat
    BY <1>2, LenProperties
  <2> HIDE DEF l
  <2>3. [k \in 1..Len(l) |-> l[k]] \in Seq(0..127)
    BY <1>3, <2>2
  <2> QED
    BY <2>1, <2>3
<1>5. l # <<>>
  BY <1>1, <1>2
<1> QED
  BY <1>1, <1>4, <1>5

\* What is read at one place depends on places of a smaller measure.
LEMMA Smaller ==
  ASSUME NEW p \in Seq(Byte), NEW n \in Nat, NEW at \in Nat \X (0..n),
         at[1] < Len(p), ~IsRoot(At(p, at[1]))
  PROVE  LET i == at[1]
             j == at[2]
             b == At(p, i)
             on == <<Offset(p, i), j - 1>>
             behind == <<LabelEnd(p, i), j>>
         IN  /\ Measure(p, at) \in Nat
             /\ IsPointer(b) /\ PointerOk(p, i) /\ j > 0 =>
                  /\ on \in Nat \X (0..n) /\ Measure(p, on) \in Nat
                  /\ Measure(p, on) < Measure(p, at)
             /\ behind \in Nat \X (0..n) /\ Measure(p, behind) \in Nat
             /\ Measure(p, behind) < Measure(p, at)
<1> DEFINE i == at[1]
           j == at[2]
           m == Len(p) + 1
<1>1. i \in Nat /\ j \in 0..n /\ m \in Nat /\ i < Len(p)
  OBVIOUS
<1>2. Way(p, i) \in 1..(m - 1)
  BY <1>1 DEF Way
<1>3. j * m \in Nat
  BY <1>1
<1>4. ASSUME IsPointer(At(p, i)), PointerOk(p, i), j > 0
      PROVE  /\ <<Offset(p, i), j - 1>> \in Nat \X (0..n)
             /\ Measure(p, <<Offset(p, i), j - 1>>) \in Nat
             /\ Measure(p, <<Offset(p, i), j - 1>>) < Measure(p, at)
  <2>1. Offset(p, i) \in Nat
    BY <1>1, <1>4, Bytes
  <2>2. Way(p, Offset(p, i)) \in 0..(m - 1)
    BY <1>1, <2>1 DEF Way
  <2>3. (j - 1) * m = j * m - m /\ (j - 1) * m \in Nat
    BY <1>1, <1>4
  <2>4. <<Offset(p, i), j - 1>> \in Nat \X (0..n)
    BY <1>1, <1>4, <2>1
  <2>5. Measure(p, <<Offset(p, i), j - 1>>) = (j - 1) * m + Way(p, Offset(p, i))
    BY DEF Measure
  <2>6. Measure(p, at) = j * m + Way(p, i)
    BY DEF Measure
  <2> HIDE DEF i, j, m
  <2> QED
    BY SMTT(60), <1>1, <1>2, <1>3, <2>2, <2>3, <2>4, <2>5, <2>6
<1>5. /\ LabelEnd(p, i) \in Nat /\ LabelEnd(p, i) > i
  BY <1>1, Bytes
<1>6. Way(p, LabelEnd(p, i)) \in Nat /\ Way(p, LabelEnd(p, i)) < Way(p, i)
  BY <1>1, <1>5 DEF Way
<1>7. /\ Measure(p, at) = j * m + Way(p, i)
      /\ Measure(p, <<LabelEnd(p, i), j>>) = j * m + Way(p, LabelEnd(p, i))
  BY DEF Measure
<1> HIDE DEF i, j, m
<1>8. /\ <<LabelEnd(p, i), j>> \in Nat \X (0..n)
      /\ Measure(p, <<LabelEnd(p, i), j>>) \in Nat
      /\ Measure(p, <<LabelEnd(p, i), j>>) < Measure(p, at)
      /\ Measure(p, at) \in Nat
  <2>1. <<LabelEnd(p, i), j>> \in Nat \X (0..n)
    BY <1>1, <1>5
  <2>2. Way(p, i) \in Nat
    BY <1>1, <1>2
  <2> QED
    BY SMTT(60), <1>3, <1>6, <1>7, <2>1, <2>2
<1> QED
  BY <1>4, <1>8 DEF i, j

Places(n) == Nat \X (0..n)

LEMMA SmallerDecide ==
  ASSUME NEW p \in Seq(Byte), NEW n \in Nat, NEW at \in Places(n), NEW f, NEW g,
         \A to \in Places(n) : Measure(p, to) < Measure(p, at) => f[to] = g[to]
  PROVE  NameFrom(p, f, at[1], at[2]) = NameFrom(p, g, at[1], at[2])
<1> DEFINE i == at[1]
           j == at[2]
           on == <<Offset(p, i), j - 1>>
           behind == <<LabelEnd(p, i), j>>
<1>1. i \in Nat /\ Len(p) \in Nat
  BY LenProperties DEF Places
<1>2. CASE i >= Len(p) \/ IsRoot(At(p, i))
  BY <1>2 DEF NameFrom
<1>3. CASE i < Len(p) /\ ~IsRoot(At(p, i))
  <2>1. IsPointer(At(p, i)) /\ PointerOk(p, i) /\ j > 0 => f[on] = g[on]
    BY <1>3, Smaller DEF Places
  <2>2. f[behind] = g[behind]
    BY <1>3, Smaller DEF Places
  <2>3. ~(i >= Len(p))
    BY <1>1, <1>3
  <2> HIDE DEF i, j
  <2>4. CASE IsPointer(At(p, i)) /\ PointerOk(p, i) /\ j > 0
    BY <1>3, <2>1, <2>3, <2>4 DEF NameFrom, i, j
  <2>5. CASE IsPointer(At(p, i)) /\ ~(PointerOk(p, i) /\ j > 0)
    BY <1>3, <2>3, <2>5 DEF NameFrom, i, j
  <2>6. CASE ~IsPointer(At(p, i))
    BY <1>3, <2>2, <2>3, <2>6 DEF NameFrom, i, j
  <2> QED
    BY <2>4, <2>5, <2>6
<1> QED
  BY <1>1, <1>2, <1>3

LEMMA MeasureType ==
  ASSUME NEW p \in Seq(Byte), NEW n \in Nat, NEW at \in Places(n)
  PROVE  /\ Measure(p, at) \in Nat
         /\ Measure(p, at) < (n + 1) * (Len(p) + 1) + 1
<1> DEFINE m == Len(p) + 1  j == at[2]
<1>1. m \in Nat /\ j \in 0..n /\ Way(p, at[1]) \in 0..m
  BY LenProperties DEF Places, Way
<1>2. j * m \in Nat /\ j * m <= n * m /\ (n + 1) * m = n * m + m
  BY SMTT(60), <1>1
<1> HIDE DEF j
<1> QED
  BY SMTT(60), <1>1, <1>2 DEF Measure, j

\* By induction on the measure, there is a function that reads names.
LEMMA NamesThere ==
  ASSUME NEW p \in Seq(Byte), NEW n \in Nat
  PROVE  \E f : f = [at \in Places(n) |-> NameFrom(p, f, at[1], at[2])]
<1> DEFINE Upto(k) == \E f : /\ f = [at \in Places(n) |-> f[at]]
                             /\ \A at \in Places(n) : Measure(p, at) < k =>
                                   f[at] = NameFrom(p, f, at[1], at[2])
           Bad == {k \in Nat : ~Upto(k)}
<1>1. Upto(0)
  <2> DEFINE f == [at \in Places(n) |-> Unreadable]
  <2>1. \A at \in Places(n) : ~(Measure(p, at) < 0)
    BY MeasureType
  <2>2. f = [at \in Places(n) |-> f[at]]
    OBVIOUS
  <2> QED
    BY <2>1, <2>2
<1>2. ASSUME NEW k \in Nat, Upto(k)
      PROVE  Upto(k + 1)
  <2>1. PICK f : /\ f = [at \in Places(n) |-> f[at]]
                 /\ \A at \in Places(n) : Measure(p, at) < k =>
                      f[at] = NameFrom(p, f, at[1], at[2])
    BY <1>2
  <2> DEFINE g == [at \in Places(n) |-> NameFrom(p, f, at[1], at[2])]
  <2>2. \A at \in Places(n) : Measure(p, at) < k => g[at] = f[at]
    BY <2>1
  <2>3. ASSUME NEW at \in Places(n), Measure(p, at) < k + 1
        PROVE  g[at] = NameFrom(p, g, at[1], at[2])
    <3>1. \A to \in Places(n) : Measure(p, to) < Measure(p, at) => f[to] = g[to]
      BY <2>2, <2>3, MeasureType
    <3>2. NameFrom(p, f, at[1], at[2]) = NameFrom(p, g, at[1], at[2])
      <4> HIDE DEF g
      <4> QED
        BY <3>1, SmallerDecide
    <3> QED
      BY <3>2
  <2>4. g = [at \in Places(n) |-> g[at]]
    OBVIOUS
  <2> HIDE DEF g
  <2> QED
    BY <2>3, <2>4
<1> HIDE DEF Upto
<1>3. Bad = {}
  <2>1. SUFFICES ASSUME Bad # {}
                 PROVE  FALSE
    OBVIOUS
  <2>2. PICK k \in Bad : \A h \in Bad : k <= h
    BY <2>1, LeastNumber
  <2>3. k # 0
    BY <1>1
  <2>4. k - 1 \in Nat /\ k - 1 \notin Bad
    BY <2>2, <2>3
  <2>5. Upto((k - 1) + 1)
    BY <1>2, <2>4
  <2> QED
    BY <2>2, <2>5
<1> DEFINE top == (n + 1) * (Len(p) + 1) + 1
<1>4. top \in Nat /\ \A at \in Places(n) : Measure(p, at) < top
  BY MeasureType, LenProperties
<1> HIDE DEF top
<1>5. Upto(top)
  BY <1>3, <1>4
<1>6. PICK f : /\ f = [at \in Places(n) |-> f[at]]
               /\ \A at \in Places(n) : Measure(p, at) < top =>
                     f[at] = NameFrom(p, f, at[1], at[2])
  BY <1>5 DEF Upto
<1>7. f = [at \in Places(n) |-> NameFrom(p, f, at[1], at[2])]
  BY <1>4, <1>6
<1> QED
  BY <1>7

LEMMA NamesDefined ==
  ASSUME NEW p \in Seq(Byte), NEW n \in Nat
  PROVE  NamesIn(p, n) =
           [at \in Places(n) |-> NameFrom(p, NamesIn(p, n), at[1], at[2])]
<1> DEFINE F == CHOOSE f : f = [at \in Places(n) |-> NameFrom(p, f, at[1], at[2])]
<1>1. F = [at \in Places(n) |-> NameFrom(p, F, at[1], at[2])]
  BY NamesThere
<1>2. NamesIn(p, n) = F
  BY DEF NamesIn, Places
<1> QED
  BY <1>1, <1>2

LEMMA NameAgain ==
  ASSUME NEW p \in Seq(Byte), NEW n \in Nat, NEW i \in Nat, NEW j \in 0..n
  PROVE  NamesIn(p, n)[<<i, j>>] = NameFrom(p, NamesIn(p, n), i, j)
<1> DEFINE N == NamesIn(p, n)  at == <<i, j>>
<1>1. N = [to \in Places(n) |-> NameFrom(p, N, to[1], to[2])]
  BY NamesDefined
<1>2. at \in Places(n) /\ at[1] = i /\ at[2] = j
  BY DEF Places
<1> HIDE DEF N
<1>3. N[at] = NameFrom(p, N, at[1], at[2])
  BY <1>1, <1>2
<1> QED
  BY <1>2, <1>3 DEF N

\* By induction on the measure, what is read is a name or nothing.
LEMMA NamesType ==
  ASSUME NEW p \in Seq(Byte), NEW n \in Nat, NEW i \in Nat, NEW j \in 0..n
  PROVE  NamesIn(p, n)[<<i, j>>] \in Named \cup {Unreadable}
<1> DEFINE N == NamesIn(p, n)
           Type == Named \cup {Unreadable}
           Bad == {at \in Places(n) : N[at] \notin Type}
           Far == {Measure(p, at) : at \in Bad}
<1>1. ASSUME NEW at \in Places(n),
             \A to \in Places(n) : Measure(p, to) < Measure(p, at) => N[to] \in Type
      PROVE  N[at] \in Type
  <2> DEFINE k == at[1]
             l == at[2]
             on == <<Offset(p, k), l - 1>>
             behind == <<LabelEnd(p, k), l>>
  <2>1. k \in Nat /\ l \in 0..n /\ at = <<k, l>> /\ Len(p) \in Nat
    BY LenProperties DEF Places
  <2>2. N[at] = NameFrom(p, N, k, l)
    BY <2>1, NameAgain
  <2>3. CASE k >= Len(p)
    BY <2>2, <2>3 DEF NameFrom
  <2>4. CASE ~(k >= Len(p)) /\ IsRoot(At(p, k))
    <3>1. N[at] = [labels |-> <<>>, next |-> k + 1]
      BY <2>2, <2>4 DEF NameFrom
    <3>2. <<>> \in Labels
      BY EmptySeq DEF Labels
    <3> QED
      BY <2>1, <3>1, <3>2 DEF Named
  <2>5. CASE ~(k >= Len(p)) /\ ~IsRoot(At(p, k))
    <3>0. k < Len(p)
      BY <2>1, <2>5
    <3>1. CASE IsPointer(At(p, k)) /\ PointerOk(p, k) /\ l > 0
      <4>1. N[on] \in Type
        BY <1>1, <2>5, <3>0, <3>1, Smaller DEF Places
      <4>2. N[at] = IF N[on] = Unreadable THEN Unreadable
                    ELSE [labels |-> N[on].labels, next |-> k + 2]
        <5> HIDE DEF N, k, l
        <5> QED
          BY <2>2, <2>5, <3>1 DEF NameFrom
      <4> QED
        BY <2>1, <4>1, <4>2 DEF Named
    <3>2. CASE ~IsPointer(At(p, k)) /\ LabelOk(p, k)
      <4>1. N[behind] \in Type
        BY <1>1, <2>5, <3>0, Smaller DEF Places
      <4>2. N[at] = IF N[behind] = Unreadable THEN Unreadable
                    ELSE [labels |-> <<Label(p, k)>> \o N[behind].labels,
                          next |-> N[behind].next]
        <5> HIDE DEF N, k, l
        <5> QED
          BY <2>2, <2>5, <3>2 DEF NameFrom
      <4>3. Label(p, k) \in Seq(0..127)
        BY <2>1, <2>5, <3>0, <3>2, LabelType
      <4>4. ASSUME N[behind] # Unreadable
            PROVE  N[at] \in Named
        <5>1. N[behind].labels \in Labels /\ N[behind].next \in Nat
          BY <4>1, <4>4 DEF Named
        <5>2. <<Label(p, k)>> \in Labels
          BY <4>3 DEF Labels
        <5>3. <<Label(p, k)>> \o N[behind].labels \in Labels
          BY <5>1, <5>2, ConcatProperties DEF Labels
        <5> HIDE DEF N, behind
        <5> QED
          BY <4>2, <4>4, <5>1, <5>3 DEF Named
      <4> QED
        BY <4>2, <4>4
    <3>3. CASE /\ ~(IsPointer(At(p, k)) /\ PointerOk(p, k) /\ l > 0)
               /\ ~(~IsPointer(At(p, k)) /\ LabelOk(p, k))
      <4>1. N[at] = Unreadable
        <5> HIDE DEF N, k, l
        <5> QED
          BY <2>2, <2>5, <3>3 DEF NameFrom
      <4> QED
        BY <4>1
    <3> QED
      BY <3>1, <3>2, <3>3
  <2> QED
    BY <2>3, <2>4, <2>5
<1>2. Far = {}
  <2>1. SUFFICES ASSUME Far # {}
                 PROVE  FALSE
    OBVIOUS
  <2>2. Far \subseteq Nat
    BY MeasureType
  <2>3. PICK m \in Far : \A k \in Far : m <= k
    <3> HIDE DEF Far
    <3> QED
      BY <2>1, <2>2, LeastNumber
  <2>4. PICK at \in Bad : m = Measure(p, at)
    BY <2>3
  <2>5. ASSUME NEW to \in Places(n), Measure(p, to) < Measure(p, at), to \in Bad
        PROVE  FALSE
    <3>1. Measure(p, to) \in Far
      BY <2>5
    <3>2. Measure(p, to) \in Nat /\ Measure(p, at) \in Nat
      BY <2>4, <2>5, MeasureType
    <3> HIDE DEF Far, Bad
    <3>3. Measure(p, at) <= Measure(p, to)
      BY <2>3, <2>4, <3>1
    <3> QED
      BY <2>5, <3>2, <3>3
  <2> HIDE DEF N, Type
  <2> QED
    BY <1>1, <2>4, <2>5
<1>3. <<i, j>> \in Places(n)
  BY DEF Places
<1> HIDE DEF N, Type
<1>4. N[<<i, j>>] \in Type
  BY <1>2, <1>3
<1> QED
  BY <1>4 DEF N, Type

-----------------------------------------------------------------------------
(* parse_name *)

\* What has been read, with what is still to be read.
Completed(rest) ==
    IF rest = Unreadable THEN Unreadable
    ELSE [labels |-> labels \o rest.labels,
          next |-> IF jumped THEN jumpPos ELSE rest.next]

Rest == NamesIn(packet, MaxJumps)[<<pos, MaxJumps - jumps>>]
Whole == NameAt(packet, start, MaxJumps)

\* What has been read so far is the beginning of the name that is there.
OnTheWay ==
    reading = "busy" => jumps <= MaxJumps /\ Whole = Completed(Rest)

NameInv == NameTypeOK /\ OnTheWay /\ NameRead

LEMMA PacketType ==
  ASSUME NameTypeOK
  PROVE  packet \in Seq(Byte) /\ Len(packet) \in Nat
  BY PacketAssumption, LenProperties DEF NameTypeOK

LEMMA ConcatFacts ==
  ASSUME NEW s \in Labels, NEW t \in Labels, NEW l \in Seq(0..127)
  PROVE  /\ <<>> \o s = s /\ s \o <<>> = s
         /\ s \o (<<l>> \o t) = Append(s, l) \o t
<1>1. <<l>> \in Labels
  BY DEF Labels
<1>2. Append(s, l) = s \o <<l>>
  BY AppendIsConcat DEF Labels
<1>3. (s \o <<l>>) \o t = s \o (<<l>> \o t)
  BY <1>1, ConcatAssociative DEF Labels
<1>4. <<>> \o s = s /\ s \o <<>> = s
  BY ConcatEmptySeq DEF Labels
<1> QED
  BY <1>2, <1>3, <1>4

\* Nothing has been read, and the whole name is still to be read.
LEMMA Beginning ==
  ASSUME NEW p \in Packet, NEW i \in 0..Len(p)
  PROVE  LET w == NameAt(p, i, MaxJumps)
         IN  w # Unreadable => w = [labels |-> <<>> \o w.labels, next |-> w.next]
<1> DEFINE w == NameAt(p, i, MaxJumps)
<1>1. p \in Seq(Byte) /\ i \in Nat /\ MaxJumps \in Nat /\ MaxJumps \in 0..MaxJumps
  BY PacketAssumption, LenProperties
<1>2. w \in Named \cup {Unreadable}
  BY <1>1, NamesType DEF NameAt
<1>3. ASSUME w # Unreadable
      PROVE  w = [labels |-> <<>> \o w.labels, next |-> w.next]
  <2> HIDE DEF w
  <2>1. w.labels \in Labels /\ w = [labels |-> w.labels, next |-> w.next]
    BY <1>2, <1>3 DEF Named
  <2>2. <<>> \o w.labels = w.labels
    BY <2>1, ConcatEmptySeq DEF Labels
  <2> QED
    BY <2>1, <2>2
<1> QED
  BY <1>3

LEMMA FirstCall ==
  ASSUME NameInit
  PROVE  NameInv
<1>1. /\ packet \in Packet /\ start \in 0..Len(packet) /\ pos = start
      /\ labels = <<>> /\ jumps = 0 /\ jumped = FALSE /\ jumpPos = 0
      /\ reading = "busy"
  BY DEF NameInit
<1>2. /\ <<>> \in Seq(Seq(0..127) \ {<<>>}) /\ MaxJumps \in Nat
      /\ 0 \in 0..(MaxJumps + 1) /\ 0 \in 0..Len(packet) /\ MaxJumps - 0 = MaxJumps
  BY <1>1, EmptySeq, PacketAssumption, LenProperties
<1>3. NameTypeOK
  BY <1>1, <1>2 DEF NameTypeOK
<1>4. Rest = Whole
  BY <1>1, <1>2 DEF Rest, Whole, NameAt
<1>5. Whole = Completed(Whole)
  BY <1>1, Beginning DEF Completed, Whole
<1> QED
  BY <1>1, <1>2, <1>3, <1>4, <1>5 DEF NameInv, OnTheWay, NameRead

\* parse_name is called once more.
LEMMA CallInv ==
  ASSUME NameInv, NEW p \in 0..Len(packet), Call(p)
  PROVE  NameInv'
<1>1. /\ packet \in Packet /\ packet' = packet /\ start' = p /\ pos' = p
      /\ labels' = <<>> /\ jumps' = 0 /\ jumped' = FALSE /\ jumpPos' = 0
      /\ reading' = "busy"
  BY DEF NameInv, NameTypeOK, Call
<1>2. /\ <<>> \in Seq(Seq(0..127) \ {<<>>}) /\ MaxJumps \in Nat
      /\ 0 \in 0..(MaxJumps + 1) /\ 0 \in 0..Len(packet) /\ MaxJumps - 0 = MaxJumps
  BY <1>1, EmptySeq, PacketAssumption, LenProperties
<1>3. NameTypeOK'
  BY <1>1, <1>2 DEF NameTypeOK
<1>4. Rest' = Whole'
  BY <1>1, <1>2 DEF Rest, Whole, NameAt
<1>5. Whole' = Completed(Whole)'
  BY <1>1, Beginning DEF Completed, Whole
<1> QED
  BY <1>1, <1>2, <1>3, <1>4, <1>5 DEF NameInv, OnTheWay, NameRead

Left == MaxJumps - jumps
Names == NamesIn(packet, MaxJumps)

\* What is known where the loop of parse_name begins.
LEMMA InLoop ==
  ASSUME NameInv, reading = "busy"
  PROVE  /\ packet \in Seq(Byte) /\ Len(packet) \in Nat
         /\ MaxJumps \in Nat /\ jumps \in 0..MaxJumps
         /\ Left \in 0..MaxJumps /\ pos \in Nat
         /\ Rest = NameFrom(packet, Names, pos, Left)
         /\ Whole = Completed(Rest)
<1>1. packet \in Seq(Byte) /\ Len(packet) \in Nat /\ MaxJumps \in Nat
  BY PacketType, PacketAssumption DEF NameInv
<1>2. jumps \in 0..MaxJumps /\ Left \in 0..MaxJumps /\ pos \in Nat
  BY <1>1 DEF NameInv, NameTypeOK, OnTheWay, Left
<1>3. Rest = NameFrom(packet, Names, pos, Left)
  BY <1>1, <1>2, NameAgain DEF Rest, Names, Left
<1> QED
  BY <1>1, <1>2, <1>3 DEF NameInv, OnTheWay

LEMMA LabelsType ==
  ASSUME NameTypeOK
  PROVE  labels \in Labels
<1>1. \A S, T : S \subseteq T => Seq(S) \subseteq Seq(T)
  BY SeqMonotonic
<1>2. Seq(0..127) \ {<<>>} \subseteq Seq(0..127)
  OBVIOUS
<1> QED
  BY <1>1, <1>2 DEF NameTypeOK, Labels

\* parse_name fails where there is no name.
LEMMA FailInv ==
  ASSUME NameInv, reading = "busy", Rest = Unreadable, Fail
  PROVE  NameInv'
<1>1. NameTypeOK'
  BY DEF NameInv, NameTypeOK, Fail
<1>2. Whole = Unreadable
  BY InLoop DEF Completed
<1>3. Whole' = Whole
  BY DEF Whole, Fail
<1> QED
  BY <1>1, <1>2, <1>3 DEF NameInv, OnTheWay, NameRead, Fail, Whole

LEMMA EndOfDataInv ==
  ASSUME NameInv, EndOfData
  PROVE  NameInv'
<1>1. reading = "busy" /\ pos >= Len(packet) /\ Fail
  BY DEF EndOfData
<1>2. Rest = Unreadable
  BY <1>1, InLoop DEF NameFrom
<1> QED
  BY <1>1, <1>2, FailInv

LEMMA BadPointerInv ==
  ASSUME NameInv, BadPointer
  PROVE  NameInv'
<1>1. /\ reading = "busy" /\ pos < Len(packet) /\ Fail
      /\ IsPointer(At(packet, pos)) /\ ~PointerOk(packet, pos)
  BY DEF BadPointer, HasByte
<1>2. ~(pos >= Len(packet)) /\ ~IsRoot(At(packet, pos))
  BY <1>1, InLoop, Bytes DEF IsPointer, IsRoot
<1>3. Rest = Unreadable
  BY <1>1, <1>2, InLoop DEF NameFrom
<1> QED
  BY <1>1, <1>3, FailInv

LEMMA BadLabelInv ==
  ASSUME NameInv, BadLabel
  PROVE  NameInv'
<1>1. /\ reading = "busy" /\ pos < Len(packet) /\ Fail
      /\ IsLength(At(packet, pos)) /\ ~LabelOk(packet, pos)
  BY DEF BadLabel, HasByte
<1>2. /\ ~(pos >= Len(packet)) /\ ~IsRoot(At(packet, pos))
      /\ ~IsPointer(At(packet, pos))
  BY <1>1, InLoop, Bytes DEF IsPointer, IsRoot, IsLength
<1>3. Rest = Unreadable
  BY <1>1, <1>2, InLoop DEF NameFrom
<1> QED
  BY <1>1, <1>3, FailInv

LEMMA RootInv ==
  ASSUME NameInv, Root
  PROVE  NameInv'
<1>1. reading = "busy" /\ pos < Len(packet) /\ IsRoot(At(packet, pos))
  BY DEF Root, HasByte
<1>2. labels \in Labels /\ jumpPos \in 0..Len(packet) /\ jumped \in BOOLEAN
  BY LabelsType DEF NameInv, NameTypeOK
<1>3. Rest = [labels |-> <<>>, next |-> pos + 1]
  <2>1. ~(pos >= Len(packet))
    BY <1>1, InLoop
  <2> QED
    BY <1>1, <2>1, InLoop DEF NameFrom
<1>4. Rest # Unreadable
  <2>1. <<>> \in Labels
    BY EmptySeq DEF Labels
  <2>2. [labels |-> <<>>, next |-> pos + 1] \in Named
    BY <1>1, <2>1, InLoop DEF Named
  <2> QED
    BY <1>3, <2>2, UnreadableAssumption DEF Named, Labels
<1>5. Whole = [labels |-> labels, next |-> IF jumped THEN jumpPos ELSE pos + 1]
  <2>1. labels \o <<>> = labels
    BY <1>2, ConcatEmptySeq DEF Labels
  <2> QED
    BY <1>1, <1>3, <1>4, <2>1, InLoop DEF Completed
<1>6. pos' \in 0..Len(packet)
  BY <1>1, <1>2, InLoop DEF Root
<1>7. NameTypeOK'
  BY <1>6 DEF NameInv, NameTypeOK, Root
<1>8. Whole' = Whole
  BY DEF Whole, Root
<1> QED
  BY <1>5, <1>7, <1>8 DEF NameInv, OnTheWay, NameRead, Root, Whole

LEMMA JumpInv ==
  ASSUME NameInv, Jump
  PROVE  NameInv'
<1> DEFINE to == Offset(packet, pos)
           behind == NamesIn(packet, MaxJumps)[<<to, Left - 1>>]
<1>1. /\ reading = "busy" /\ pos < Len(packet)
      /\ IsPointer(At(packet, pos)) /\ PointerOk(packet, pos)
  BY DEF Jump, HasByte
<1>2. /\ ~(pos >= Len(packet)) /\ ~IsRoot(At(packet, pos))
      /\ to \in Nat /\ to < Len(packet) /\ pos + 1 < Len(packet)
  BY SMTT(60), <1>1, InLoop, Bytes DEF IsPointer, IsRoot, PointerOk
<1>3. NameTypeOK'
  <2>1. /\ pos' \in 0..Len(packet) /\ jumps' \in 0..(MaxJumps + 1)
        /\ jumpPos' \in 0..Len(packet)
    BY <1>1, <1>2, InLoop DEF Jump, NameInv, NameTypeOK
  <2> QED
    BY <2>1 DEF Jump, NameInv, NameTypeOK
<1>4. Whole' = Whole
  BY DEF Whole, Jump
<1>5. CASE Left = 0
  <2>1. ~(Left > 0)
    BY <1>5
  <2>2. Rest = Unreadable
    BY <1>1, <1>2, <2>1, InLoop DEF NameFrom
  <2>3. Whole = Unreadable
    BY <1>1, <2>2, InLoop DEF Completed
  <2>4. jumps' > MaxJumps /\ reading' = "failed"
    BY <1>1, <1>5, InLoop DEF Left, Jump
  <2> QED
    BY <1>3, <1>4, <2>3, <2>4 DEF NameInv, OnTheWay, NameRead, Whole
<1>6. CASE Left # 0
  <2>1. Left > 0 /\ Left - 1 \in 0..MaxJumps
    BY <1>1, <1>6, InLoop
  <2>2. Rest = IF behind = Unreadable THEN Unreadable
               ELSE [labels |-> behind.labels, next |-> pos + 2]
    BY <1>1, <1>2, <2>1, InLoop DEF NameFrom, Names
  <2>3. MaxJumps - jumps' = Left - 1 /\ jumps' <= MaxJumps /\ reading' = "busy"
    BY <1>1, <2>1, InLoop DEF Left, Jump
  <2>4. Rest' = behind
    BY <2>3 DEF Rest, Jump
  <2>5. behind \in Named \cup {Unreadable}
    BY <1>1, <1>2, <2>1, InLoop, NamesType
  <2>6. Whole = Completed(Rest)'
    <3>1. CASE behind = Unreadable
      BY <1>1, <2>2, <2>4, <3>1, InLoop DEF Completed
    <3>2. CASE behind # Unreadable
      <4>1. behind.labels \in Labels /\ behind.next \in Nat
        BY <2>5, <3>2 DEF Named
      <4>2. Rest = [labels |-> behind.labels, next |-> pos + 2] /\ Rest \in Named
        BY <1>1, <2>2, <3>2, <4>1, InLoop DEF Named
      <4>3. Rest # Unreadable
        BY <4>2, UnreadableAssumption DEF Named, Labels
      <4>4. Whole = [labels |-> labels \o behind.labels,
                     next |-> IF jumped THEN jumpPos ELSE pos + 2]
        BY <1>1, <4>2, <4>3, InLoop DEF Completed
      <4>5. Completed(Rest)' = [labels |-> labels \o behind.labels,
                                next |-> IF jumped THEN jumpPos ELSE pos + 2]
        BY <2>4, <3>2 DEF Completed, Jump
      <4> QED
        BY <4>4, <4>5
    <3> QED
      BY <3>1, <3>2
  <2> QED
    BY <1>3, <1>4, <2>3, <2>6 DEF NameInv, OnTheWay, NameRead
<1> QED
  BY <1>5, <1>6

LEMMA TakeLabelInv ==
  ASSUME NameInv, TakeLabel
  PROVE  NameInv'
<1> DEFINE l == Label(packet, pos)
           end == LabelEnd(packet, pos)
           behind == NamesIn(packet, MaxJumps)[<<end, Left>>]
<1>1. /\ reading = "busy" /\ pos < Len(packet)
      /\ IsLength(At(packet, pos)) /\ LabelOk(packet, pos)
  BY DEF TakeLabel, HasByte
<1>2. /\ ~(pos >= Len(packet)) /\ ~IsRoot(At(packet, pos))
      /\ ~IsPointer(At(packet, pos))
  BY <1>1, InLoop, Bytes DEF IsPointer, IsRoot, IsLength
<1>3. l \in Seq(0..127) \ {<<>>} /\ end \in 0..Len(packet)
  BY <1>1, <1>2, InLoop, LabelType
<1>4. labels \in Seq(Seq(0..127) \ {<<>>}) /\ labels \in Labels
  BY LabelsType DEF NameInv, NameTypeOK
<1>5. NameTypeOK'
  <2>1. labels' \in Seq(Seq(0..127) \ {<<>>})
    BY <1>3, <1>4, AppendProperties DEF TakeLabel
  <2> QED
    BY <1>3, <2>1 DEF TakeLabel, NameInv, NameTypeOK
<1>6. Whole' = Whole /\ Rest' = behind
  BY DEF Whole, Rest, Left, TakeLabel
<1>7. Rest = IF behind = Unreadable THEN Unreadable
             ELSE [labels |-> <<l>> \o behind.labels, next |-> behind.next]
  BY <1>1, <1>2, InLoop DEF NameFrom, Names
<1>8. behind \in Named \cup {Unreadable}
  BY <1>1, <1>3, InLoop, NamesType
<1>9. Whole = Completed(Rest)'
  <2>1. CASE behind = Unreadable
    BY <1>1, <1>6, <1>7, <2>1, InLoop DEF Completed
  <2>2. CASE behind # Unreadable
    <3>1. behind.labels \in Labels /\ behind.next \in Nat
      BY <1>8, <2>2 DEF Named
    <3>2. <<l>> \o behind.labels \in Labels
      <4>1. <<l>> \in Labels
        BY <1>3 DEF Labels
      <4> QED
        BY <3>1, <4>1, ConcatProperties DEF Labels
    <3>3. /\ Rest = [labels |-> <<l>> \o behind.labels, next |-> behind.next]
          /\ Rest \in Named
      BY <1>7, <2>2, <3>1, <3>2 DEF Named
    <3>4. Rest # Unreadable
      BY <3>3, UnreadableAssumption DEF Named, Labels
    <3>5. Whole = [labels |-> labels \o (<<l>> \o behind.labels),
                   next |-> IF jumped THEN jumpPos ELSE behind.next]
      BY <1>1, <3>3, <3>4, InLoop DEF Completed
    <3>6. Completed(Rest)' = [labels |-> Append(labels, l) \o behind.labels,
                              next |-> IF jumped THEN jumpPos ELSE behind.next]
      BY <1>6, <2>2 DEF Completed, TakeLabel
    <3>7. labels \o (<<l>> \o behind.labels) = Append(labels, l) \o behind.labels
      <4>1. l \in Seq(0..127)
        BY <1>3
      <4> HIDE DEF l, behind
      <4> QED
        BY ZenonT(60), <1>4, <3>1, <4>1, ConcatFacts
    <3> QED
      BY <3>5, <3>6, <3>7
  <2> QED
    BY <2>1, <2>2
<1> QED
  BY <1>1, <1>5, <1>6, <1>9, InLoop DEF NameInv, OnTheWay, NameRead, TakeLabel

LEMMA NameStep ==
  ASSUME NameInv, NameNext
  PROVE  NameInv'
  BY EndOfDataInv, RootInv, JumpInv, BadPointerInv, TakeLabelInv, BadLabelInv
  DEF NameNext

-----------------------------------------------------------------------------
(* DnsResourceRecord::parse *)

\* Where the data of the record begin and end, by the format.
DataAt == NameAt(packet, begin, MaxJumps).next + FieldsLength
DataEnd == DataAt + At(packet, DataAt - 1)

\* The record's name is there, and its fixed fields.
FieldsThere ==
    /\ NameAt(packet, begin, MaxJumps) # Unreadable
    /\ DataAt <= Len(packet)

\* While its name is read; while the target is read; and then.
AtName == stage = "name" =>
    /\ begin = start /\ cname = FALSE /\ target = NoTarget
    /\ reading # "idle"
AtTarget == stage = "target" =>
    /\ FieldsThere /\ saved = DataAt /\ start = DataAt /\ saved \in 0..Len(packet)
    /\ length = At(packet, DataAt - 1) /\ length \in Nat
    /\ cname = TRUE /\ reading # "idle"
Idle == stage \in {"read", "failed"} => reading = "idle"

RecordInv ==
    /\ NameInv /\ stage \in {"name", "target", "read", "failed"}
    /\ begin \in Nat
    /\ AtName /\ AtTarget /\ Idle
    /\ RecordRead

\* A cursor that is set while no name is read.
LEMMA LeaveInv ==
  ASSUME NameInv, NEW p \in 0..Len(packet), Leave(p)
  PROVE  NameInv'
<1>1. NameTypeOK'
  BY DEF NameInv, NameTypeOK, Leave
<1> QED
  BY <1>1 DEF NameInv, OnTheWay, NameRead, Leave

\* The record has a name, and its fields fit.
LEMMA FieldsRead ==
  ASSUME RecordInv, stage = "name", reading = "read", FieldsFit
  PROVE  /\ FieldsThere /\ pos + FieldsLength = DataAt
         /\ pos + FieldsLength - 1 = DataAt - 1
         /\ DataAt \in 0..Len(packet)
         /\ At(packet, DataAt - 1) \in Nat
<1>1. /\ NameInv /\ begin = start
      /\ NameAt(packet, start, MaxJumps) = [labels |-> labels, next |-> pos]
  BY DEF RecordInv, NameInv, AtName, NameRead
<1>2. packet \in Seq(Byte) /\ Len(packet) \in Nat /\ pos \in Nat
      /\ FieldsLength \in Nat \ {0}
  BY <1>1, PacketType, FieldsAssumption DEF NameInv, NameTypeOK
<1>3. [labels |-> labels, next |-> pos] \in Named
  BY <1>1, <1>2, LabelsType DEF Named, NameInv
<1>4. NameAt(packet, begin, MaxJumps) # Unreadable
  BY <1>1, <1>3, UnreadableAssumption DEF Named, Labels
<1>5. DataAt = pos + FieldsLength
  BY <1>1 DEF DataAt
<1>6. DataAt \in 0..Len(packet) /\ DataAt - 1 \in Nat /\ DataAt - 1 < Len(packet)
  BY <1>2, <1>5 DEF FieldsFit
<1>7. At(packet, DataAt - 1) \in Nat
  BY <1>2, <1>6, Bytes
<1>8. pos + FieldsLength - 1 = DataAt - 1
  BY <1>2, <1>5
<1> QED
  BY <1>4, <1>5, <1>6, <1>7, <1>8 DEF FieldsThere

LEMMA FirstRecord ==
  ASSUME RecordInit
  PROVE  RecordInv
<1>1. NameInv
  BY FirstCall DEF RecordInit
<1>2. begin \in Nat
  BY <1>1, PacketType DEF RecordInit, NameInv, NameTypeOK
<1> QED
  BY <1>1, <1>2
  DEF RecordInit, RecordInv, AtName, AtTarget, Idle, RecordRead, NameInit

\* While a name is read, the record stays as it is.
LEMMA ReadNameStep ==
  ASSUME RecordInv, ReadName
  PROVE  RecordInv'
<1>1. NameNext
  BY DEF ReadName
<1>2. /\ NameInv' /\ reading = "busy" /\ reading' # "idle"
      /\ packet' = packet /\ start' = start
  <2>1. NameInv /\ NameInv'
    BY <1>1, NameStep DEF RecordInv
  <2> QED
    BY <1>1, <2>1
    DEF NameNext, EndOfData, Root, Jump, BadPointer, TakeLabel, BadLabel,
        Fail, HasByte
<1>3. /\ stage' = stage /\ begin' = begin /\ cname' = cname /\ saved' = saved
      /\ length' = length /\ target' = target
  BY DEF ReadName
<1>4. stage \in {"name", "target"}
  BY <1>2 DEF RecordInv, Idle
<1> QED
  BY <1>2, <1>3, <1>4
  DEF RecordInv, AtName, AtTarget, Idle, RecordRead, FieldsThere, DataAt

LEMMA CnameFieldsStep ==
  ASSUME RecordInv, CnameFields
  PROVE  RecordInv'
<1>1. /\ stage = "name" /\ reading = "read" /\ FieldsFit
      /\ cname' = TRUE /\ saved' = pos + FieldsLength
      /\ length' = At(packet, pos + FieldsLength - 1)
      /\ Call(saved') /\ stage' = "target" /\ begin' = begin /\ target' = target
  BY DEF CnameFields
<1>2. /\ FieldsThere /\ saved' = DataAt /\ DataAt \in 0..Len(packet)
      /\ length' = At(packet, DataAt - 1) /\ length' \in Nat
  <2>1. /\ FieldsThere /\ pos + FieldsLength = DataAt /\ DataAt \in 0..Len(packet)
        /\ pos + FieldsLength - 1 = DataAt - 1 /\ At(packet, DataAt - 1) \in Nat
    BY <1>1, FieldsRead
  <2> QED
    BY <1>1, <2>1
<1>3. NameInv'
  BY <1>1, <1>2, CallInv DEF RecordInv
<1>4. packet' = packet /\ start' = saved' /\ reading' = "busy"
  BY <1>1 DEF Call
<1>5. DataAt' = DataAt /\ FieldsThere' = FieldsThere
  BY <1>1, <1>4 DEF DataAt, FieldsThere
<1> QED
  BY <1>1, <1>2, <1>3, <1>4, <1>5
  DEF RecordInv, AtName, AtTarget, Idle, RecordRead

LEMMA OtherRecordStep ==
  ASSUME RecordInv, OtherRecord
  PROVE  RecordInv'
<1>1. /\ stage = "name" /\ reading = "read" /\ FieldsFit
      /\ saved' = pos + FieldsLength
      /\ length' = At(packet, pos + FieldsLength - 1)
      /\ SkipData(saved', length')
      /\ begin' = begin /\ cname' = cname /\ target' = target
  BY DEF OtherRecord
<1>2. /\ FieldsThere /\ saved' = DataAt /\ DataAt \in 0..Len(packet)
      /\ length' = At(packet, DataAt - 1) /\ length' \in Nat
  <2>1. /\ FieldsThere /\ pos + FieldsLength = DataAt /\ DataAt \in 0..Len(packet)
        /\ pos + FieldsLength - 1 = DataAt - 1 /\ At(packet, DataAt - 1) \in Nat
    BY <1>1, FieldsRead
  <2> QED
    BY <1>1, <2>1
<1>3. cname = FALSE /\ target = NoTarget /\ Len(packet) \in Nat
  BY <1>1, PacketType DEF RecordInv, AtName, NameInv
<1>4. saved' + length' = DataEnd
  BY <1>2 DEF DataEnd
<1>5. CASE DataEnd <= Len(packet)
  <2>1. stage' = "read" /\ Leave(DataEnd)
    BY <1>1, <1>4, <1>5 DEF SkipData
  <2>2. DataEnd \in 0..Len(packet)
    BY <1>2, <1>3, <1>5 DEF DataEnd
  <2>3. NameInv'
    BY <2>1, <2>2, LeaveInv DEF RecordInv
  <2>4. packet' = packet /\ pos' = DataEnd /\ reading' = "idle"
    BY <2>1 DEF Leave
  <2>5. RecordRead'
    BY <1>1, <1>2, <1>3, <1>5, <2>1, <2>4
    DEF RecordRead, DataEnd, DataAt, FieldsThere
  <2> QED
    BY <1>1, <2>1, <2>3, <2>4, <2>5 DEF RecordInv, AtName, AtTarget, Idle
<1>6. CASE ~(DataEnd <= Len(packet))
  <2>1. stage' = "failed" /\ Leave(DataAt)
    BY <1>1, <1>2, <1>4, <1>6 DEF SkipData
  <2>2. NameInv'
    BY <1>2, <2>1, LeaveInv DEF RecordInv
  <2>3. packet' = packet /\ reading' = "idle"
    BY <2>1 DEF Leave
  <2>4. RecordRead'
    BY <1>1, <1>2, <1>6, <2>1, <2>3 DEF RecordRead, DataEnd, DataAt, FieldsThere
  <2> QED
    BY <1>1, <2>1, <2>2, <2>3, <2>4 DEF RecordInv, AtName, AtTarget, Idle
<1> QED
  BY <1>5, <1>6

LEMMA CnameDataStep ==
  ASSUME RecordInv, CnameData
  PROVE  RecordInv'
<1>1. /\ stage = "target" /\ reading \in {"read", "failed"}
      /\ target' = IF reading = "read" THEN labels ELSE NoTarget
      /\ SkipData(saved, length)
      /\ begin' = begin /\ cname' = cname
  BY DEF CnameData
<1>2. /\ FieldsThere /\ saved = DataAt /\ start = DataAt /\ DataAt \in 0..Len(packet)
      /\ length = At(packet, DataAt - 1) /\ length \in Nat
      /\ cname = TRUE
  BY <1>1 DEF RecordInv, AtTarget
<1>3. packet \in Seq(Byte) /\ Len(packet) \in Nat
  BY PacketType DEF RecordInv, NameInv
<1>4. saved + length = DataEnd
  BY <1>2 DEF DataEnd
<1> DEFINE alias == NameAt(packet, DataAt, MaxJumps)
<1>5. target' = IF alias # Unreadable THEN alias.labels ELSE NoTarget
  <2>1. CASE reading = "read"
    <3>1. alias = [labels |-> labels, next |-> pos]
      BY <1>2, <2>1 DEF RecordInv, NameInv, NameRead
    <3>2. alias \in Named
      BY <1>3, <3>1, LabelsType DEF Named, RecordInv, NameInv, NameTypeOK
    <3>3. alias # Unreadable
      BY <3>2, UnreadableAssumption DEF Named, Labels
    <3> QED
      BY <1>1, <2>1, <3>1, <3>3
  <2>2. CASE reading = "failed"
    BY <1>1, <1>2, <2>2 DEF RecordInv, NameInv, NameRead
  <2> QED
    BY <1>1, <2>1, <2>2
<1>6. CASE DataEnd <= Len(packet)
  <2>1. stage' = "read" /\ Leave(DataEnd)
    BY <1>1, <1>4, <1>6 DEF SkipData
  <2>2. DataEnd \in 0..Len(packet)
    BY <1>2, <1>3, <1>6 DEF DataEnd
  <2>3. NameInv'
    BY <2>1, <2>2, LeaveInv DEF RecordInv
  <2>4. packet' = packet /\ pos' = DataEnd /\ reading' = "idle"
    BY <2>1 DEF Leave
  <2>5. RecordRead'
    BY <1>1, <1>2, <1>5, <1>6, <2>1, <2>4
    DEF RecordRead, DataEnd, DataAt, FieldsThere
  <2> QED
    BY <1>1, <2>1, <2>3, <2>4, <2>5 DEF RecordInv, AtName, AtTarget, Idle
<1>7. CASE ~(DataEnd <= Len(packet))
  <2>1. stage' = "failed" /\ Leave(DataAt)
    BY <1>1, <1>2, <1>4, <1>7 DEF SkipData
  <2>2. NameInv'
    BY <1>2, <2>1, LeaveInv DEF RecordInv
  <2>3. packet' = packet /\ reading' = "idle"
    BY <2>1 DEF Leave
  <2>4. RecordRead'
    BY <1>1, <1>2, <1>7, <2>1, <2>3 DEF RecordRead, DataEnd, DataAt, FieldsThere
  <2> QED
    BY <1>1, <2>1, <2>2, <2>3, <2>4 DEF RecordInv, AtName, AtTarget, Idle
<1> QED
  BY <1>6, <1>7

LEMMA NoRecordStep ==
  ASSUME RecordInv, NoRecord
  PROVE  RecordInv'
<1>1. /\ stage = "name" /\ stage' = "failed" /\ Leave(pos)
      /\ reading = "failed" \/ (reading = "read" /\ ~FieldsFit)
      /\ begin' = begin /\ begin = start
  BY DEF NoRecord, RecordInv, AtName
<1>2. pos \in 0..Len(packet)
  BY DEF RecordInv, NameInv, NameTypeOK
<1>3. NameInv'
  BY <1>1, <1>2, LeaveInv DEF RecordInv
<1>4. packet' = packet /\ reading' = "idle"
  BY <1>1 DEF Leave
<1>5. ~FieldsThere
  <2>1. CASE reading = "failed"
    BY <1>1, <2>1 DEF RecordInv, NameInv, NameRead, FieldsThere
  <2>2. CASE reading = "read" /\ ~FieldsFit
    <3>1. NameAt(packet, begin, MaxJumps) = [labels |-> labels, next |-> pos]
      BY <1>1, <2>2 DEF RecordInv, NameInv, NameRead
    <3> QED
      BY <2>2, <3>1 DEF FieldsThere, FieldsFit, DataAt
  <2> QED
    BY <1>1, <2>1, <2>2
<1>6. RecordRead'
  BY <1>1, <1>4, <1>5 DEF RecordRead, FieldsThere, DataAt
<1> QED
  BY <1>1, <1>3, <1>4, <1>6 DEF RecordInv, AtName, AtTarget, Idle

LEMMA RecordStep ==
  ASSUME RecordInv, [RecordNext]_recordVars
  PROVE  RecordInv'
<1>1. CASE RecordNext
  BY <1>1, ReadNameStep, CnameFieldsStep, OtherRecordStep, CnameDataStep, NoRecordStep
  DEF RecordNext
<1>2. CASE UNCHANGED recordVars
  BY <1>2 DEF recordVars, nameVars, RecordInv, NameInv, NameTypeOK, OnTheWay,
     NameRead, Whole, Rest, Completed, AtName, AtTarget, Idle, RecordRead,
     FieldsThere, DataAt
<1> QED
  BY <1>1, <1>2

-----------------------------------------------------------------------------
(* serialize_name writes what parse_name reads *)

\* What is written.
Wire == Seq(Byte)

LEMMA TextsWire ==
  Texts \subseteq Wire
<1>1. 0..127 \subseteq Byte
  BY DEF Byte
<1> QED
  BY <1>1, SeqMonotonic DEF Texts, Wire

\* Label k of ls is written behind position o[k - 1] of w.
HasLabel(w, ls, o, k) ==
    /\ w[o[k - 1] + 1] = Len(ls[k])
    /\ \A i \in 1..Len(ls[k]) : w[o[k - 1] + 1 + i] = ls[k][i]

\* w is the labels one after the other, and a 0; o[k] is where label k ends.
Laid(w, ls, o) ==
    /\ o \in [0..Len(ls) -> Nat] /\ o[0] = 0
    /\ \A k \in 1..Len(ls) :
          o[k] = o[k - 1] + 1 + Len(ls[k]) /\ o[k] < Len(w) /\ HasLabel(w, ls, o, k)
    /\ Len(w) = o[Len(ls)] + 1 /\ w[o[Len(ls)] + 1] = 0

\* Labels as they are read, without dots in them.
IsLabel(l) == l \in Texts /\ Len(l) \in 1..191
Readable(ls) ==
    /\ ls \in Seq(Texts)
    /\ \A k \in 1..Len(ls) : IsLabel(ls[k]) /\ Dotless(ls[k])

LEMMA WrittenIs ==
  ASSUME NEW l, IsLabel(l)
  PROVE  /\ Written(l) \in Wire /\ Len(Written(l)) = 1 + Len(l)
         /\ Written(l)[1] = Len(l)
         /\ \A i \in 1..Len(l) : Written(l)[1 + i] = l[i]
<1> DEFINE m == Len(l)  b == <<m % 256>>
<1>1. l \in Seq(Byte) /\ m \in 1..191
  BY TextsWire DEF IsLabel, Wire
<1>2. m % 256 = m
  <2> HIDE DEF m
  <2> QED
    BY <1>1
<1>3. b \in Seq(Byte) /\ Len(b) = 1 /\ b[1] = m
  <2> HIDE DEF m
  <2>1. m \in Byte
    BY <1>1 DEF Byte
  <2> QED
    BY <1>2, <2>1
<1> HIDE DEF m, b
<1>4. b \o l \in Seq(Byte) /\ Joins(b \o l, b, l)
  BY <1>1, <1>3, Joint
<1>5. Written(l) = b \o l
  BY DEF Written, b, m
<1>6. 1 \in 1..1
  OBVIOUS
<1> QED
  BY <1>3, <1>4, <1>5, <1>6 DEF Joins, Wire, m

\* The text of readable labels is written as the labels one by one.
LEMMA EncodeIs ==
  ASSUME NEW ls, Readable(ls)
  PROVE  \E f \in [0..Len(ls) -> Wire] :
            /\ f[0] = <<>>
            /\ \A k \in 1..Len(ls) : f[k] = f[k - 1] \o Written(ls[k])
            /\ Encode(Joined(ls)) = f[Len(ls)] \o <<0>>
<1> DEFINE n == Len(ls)
           t == Joined(ls)
           ps == Pieces(t)
           part(k) == IF ps[k] = <<>> THEN <<>> ELSE Written(ps[k])
           parts == [k \in DOMAIN ps |-> part(k)]
<1>1. /\ ls \in Seq(Texts) /\ n \in Nat /\ DOMAIN ls = 1..n
      /\ \A k \in 1..n : IsLabel(ls[k]) /\ Dotless(ls[k])
  BY LenProperties DEF Readable
<1>2. Encode(t) = FlattenSeq(parts) \o <<0>>
  BY DEF Encode
<1>3. CASE ls = <<>>
  <2>1. <<>> \in Texts /\ Dotless(<<>>) /\ n = 0
    BY <1>3, EmptySeq DEF Texts, Dotless
  <2>2. t = <<>>
    <3> DEFINE none == [k \in DOMAIN ls |-> IF k = 1 THEN ls[k] ELSE <<Dot>> \o ls[k]]
    <3>1. none = <<>>
      BY <1>1, <2>1
    <3>2. t = FlattenSeq(none)
      BY DEF Joined
    <3>3. FlattenSeq(<<>>) = <<>>
      BY EmptySeq DEF FlattenSeq
    <3> QED
      BY <3>1, <3>2, <3>3
  <2>3. ps = << <<>> >>
    BY <2>1, <2>2, OnePiece
  <2>4. parts \in Seq(Wire) /\ Len(parts) = 1 /\ parts[1] = <<>>
    <3>1. parts = << <<>> >>
      BY <2>3
    <3>2. <<>> \in Wire
      BY DEF Wire
    <3> QED
      BY <3>1, <3>2
  <2> HIDE DEF parts
  <2>5. PICK g \in [0..Len(parts) -> Wire] :
               Puts(g, parts) /\ FlattenSeq(parts) = g[Len(parts)]
    BY <2>4, Flattened DEF Wire
  <2>6. g[1] = g[0] \o <<>> /\ g[0] = <<>>
    <3>1. 1 \in 1..1 /\ 1 - 1 = 0
      OBVIOUS
    <3>2. g[1] = g[1 - 1] \o parts[1]
      BY <2>4, <2>5, <3>1 DEF Puts
    <3> QED
      BY <2>4, <2>5, <3>1, <3>2 DEF Puts
  <2>7. FlattenSeq(parts) = <<>>
    BY <2>1, <2>4, <2>5, <2>6, ConcatEmptySeq DEF Wire
  <2> DEFINE f == [k \in 0..0 |-> <<>>]
  <2>8. /\ f \in [0..n -> Wire] /\ f[0] = <<>> /\ f[n] = <<>>
        /\ \A k \in 1..n : FALSE
    BY <2>1 DEF Wire
  <2> HIDE DEF f
  <2> QED
    BY <1>2, <2>7, <2>8
<1>4. CASE ls # <<>>
  <2>1. ps = ls
    BY <1>1, <1>4, PiecesJoined
  <2>2. \A k \in 1..n : part(k) = Written(ls[k]) /\ part(k) \in Wire
    <3>1. ASSUME NEW k \in 1..n
          PROVE  part(k) = Written(ls[k]) /\ part(k) \in Wire
      <4>1. IsLabel(ls[k])
        BY <1>1
      <4>2. ls[k] # <<>>
        <5>1. Len(<<>>) = 0 /\ 0 \notin 1..191
          OBVIOUS
        <5> QED
          BY <4>1, <5>1 DEF IsLabel
      <4>3. part(k) = Written(ls[k])
        BY <2>1, <4>2
      <4> QED
        BY <4>1, <4>3, WrittenIs
    <3> QED
      BY <3>1
  <2>3. parts = [k \in 1..n |-> part(k)]
    BY <1>1, <2>1
  <2> HIDE DEF part
  <2>4. parts \in Seq(Wire) /\ Len(parts) = n /\ \A k \in 1..n : parts[k] = Written(ls[k])
    BY <1>1, <2>2, <2>3
  <2> HIDE DEF parts
  <2>5. PICK f \in [0..Len(parts) -> Wire] :
               Puts(f, parts) /\ FlattenSeq(parts) = f[Len(parts)]
    BY <2>4, Flattened DEF Wire
  <2> QED
    BY <1>2, <2>4, <2>5 DEF Puts
<1> QED
  BY <1>3, <1>4

\* What is written stays where it is when more is written.
LEMMA LabelStays ==
  ASSUME NEW w \in Wire, NEW v \in Wire, NEW ls, Readable(ls),
         NEW o \in [0..Len(ls) -> Nat], NEW k \in 1..Len(ls),
         o[k] = o[k - 1] + 1 + Len(ls[k]), o[k] <= Len(w), HasLabel(w, ls, o, k)
  PROVE  HasLabel(w \o v, ls, o, k)
<1> DEFINE a == o[k - 1]  m == Len(ls[k])
<1>1. k - 1 \in 0..Len(ls) /\ Len(ls) \in Nat
  BY LenProperties DEF Readable
<1>2. a \in Nat /\ m \in Nat /\ a + 1 + m <= Len(w) /\ Len(w) \in Nat
  BY <1>1, LenProperties DEF Readable, IsLabel, Wire
<1>3. Joins(w \o v, w, v)
  BY Joint DEF Wire
<1>4. w[a + 1] = m /\ \A i \in 1..m : w[a + 1 + i] = ls[k][i]
  BY DEF HasLabel
<1> HIDE DEF a, m
<1>5. a + 1 \in 1..Len(w) /\ \A i \in 1..m : a + 1 + i \in 1..Len(w)
  BY <1>2
<1>6. (w \o v)[a + 1] = m /\ \A i \in 1..m : (w \o v)[a + 1 + i] = ls[k][i]
  BY <1>3, <1>4, <1>5 DEF Joins
<1> QED
  BY <1>6 DEF HasLabel, a, m

LEMMA EncodeLaid ==
  ASSUME NEW ls, Readable(ls)
  PROVE  Encode(Joined(ls)) \in Wire /\ \E o : Laid(Encode(Joined(ls)), ls, o)
<1> DEFINE n == Len(ls)
           w == Encode(Joined(ls))
<1>1. n \in Nat /\ \A k \in 1..n : IsLabel(ls[k])
  BY LenProperties DEF Readable
<1>2. PICK f \in [0..n -> Wire] :
            /\ f[0] = <<>>
            /\ \A k \in 1..n : f[k] = f[k - 1] \o Written(ls[k])
            /\ w = f[n] \o <<0>>
  BY EncodeIs
<1> HIDE DEF w
<1> DEFINE o == [k \in 0..n |-> Len(f[k])]
<1>3. o \in [0..n -> Nat] /\ o[0] = 0 /\ \A k \in 0..n : o[k] = Len(f[k])
  <2>1. \A k \in 0..n : Len(f[k]) \in Nat
    BY <1>2, LenProperties DEF Wire
  <2>2. 0 \in 0..n /\ Len(<<>>) = 0
    BY <1>1
  <2> QED
    BY <1>2, <2>1, <2>2
<1> HIDE DEF o
<1>4. \A k \in 1..n : k - 1 \in 0..n /\ k \in 0..n
  BY <1>1
<1>5. ASSUME NEW k \in 1..n
      PROVE  o[k] = o[k - 1] + 1 + Len(ls[k]) /\ HasLabel(f[k], ls, o, k)
  <2> DEFINE s == f[k - 1]  t == Written(ls[k])  l == ls[k]  a == o[k - 1]
  <2>1. /\ s \in Wire /\ t \in Wire /\ IsLabel(l) /\ f[k] = s \o t
        /\ a = Len(s) /\ o[k] = Len(f[k]) /\ Len(l) \in Nat
    <3>1. k - 1 \in 0..n /\ k \in 0..n
      BY <1>4
    <3>2. f[k - 1] \in Wire /\ f[k] = f[k - 1] \o Written(ls[k])
      BY <1>2, <3>1
    <3>3. o[k - 1] = Len(f[k - 1]) /\ o[k] = Len(f[k])
      BY <1>3, <3>1
    <3>4. IsLabel(ls[k])
      BY <1>1
    <3>5. Written(ls[k]) \in Wire
      BY <3>4, WrittenIs
    <3>6. Len(ls[k]) \in Nat
      BY <3>4 DEF IsLabel
    <3> QED
      BY <3>2, <3>3, <3>4, <3>5, <3>6
  <2>2. Len(t) = 1 + Len(l) /\ t[1] = Len(l) /\ \A i \in 1..Len(l) : t[1 + i] = l[i]
    BY <2>1, WrittenIs
  <2> HIDE DEF s, t, l, a
  <2>3. Joins(s \o t, s, t)
    BY <2>1, Joint DEF Wire
  <2>4. /\ o[k] = a + (1 + Len(l)) /\ a \in Nat
        /\ f[k][a + 1] = Len(l)
    <3>1. 1 \in 1..(1 + Len(l))
      BY <2>1
    <3> QED
      BY <2>1, <2>2, <2>3, <3>1 DEF Joins
  <2>5. ASSUME NEW i \in 1..Len(l)
        PROVE  f[k][a + 1 + i] = l[i]
    <3>1. PICK j \in 1..(1 + Len(l)) : j = 1 + i /\ a + 1 + i = a + j
      BY <2>1, <2>4
    <3>2. f[k][a + j] = t[j]
      BY <2>1, <2>2, <2>3 DEF Joins
    <3> QED
      BY <2>2, <3>1, <3>2
  <2>6. o[k] = a + 1 + Len(l)
    BY <2>1, <2>4
  <2> QED
    BY <2>4, <2>5, <2>6 DEF HasLabel, a, l
<1> DEFINE Good == {m \in 0..n : \A k \in 1..m : o[k] <= o[m] /\ HasLabel(f[m], ls, o, k)}
<1>6. ASSUME NEW m \in 0..(n - 1), m \in Good
      PROVE  m + 1 \in Good
  <2>1. PICK z \in 1..n : z = m + 1 /\ z - 1 = m
    BY <1>1
  <2>2. /\ f[z] = f[m] \o Written(ls[z]) /\ f[m] \in Wire
        /\ Written(ls[z]) \in Wire /\ o[m] = Len(f[m]) /\ o[m] \in Nat
        /\ o[z] = o[m] + 1 + Len(ls[z]) /\ Len(ls[z]) \in Nat /\ o[z] \in Nat
    <3>1. m \in 0..n /\ z \in 0..n
      BY <1>1
    <3>2. f[z] = f[m] \o Written(ls[z]) /\ f[m] \in Wire
      BY <1>2, <2>1, <3>1
    <3>3. o[m] = Len(f[m]) /\ o[m] \in Nat /\ o[z] \in Nat
      BY <1>3, <3>1
    <3>4. o[z] = o[m] + 1 + Len(ls[z])
      BY <1>5, <2>1
    <3>5. Written(ls[z]) \in Wire /\ Len(ls[z]) \in Nat
      <4>1. IsLabel(ls[z])
        BY <1>1
      <4> QED
        BY <4>1, WrittenIs DEF IsLabel
    <3> QED
      BY <3>2, <3>3, <3>4, <3>5
  <2>3. o[m] <= o[z] /\ o[z] <= o[z]
    <3> DEFINE a == o[m]  b == o[z]  c == Len(ls[z])
    <3>1. a \in Nat /\ b \in Nat /\ c \in Nat /\ b = a + 1 + c
      BY <2>2
    <3> HIDE DEF a, b, c
    <3>2. a <= b /\ b <= b
      BY <3>1
    <3> QED
      BY <3>2 DEF a, b
  <2>4. ASSUME NEW k \in 1..z
        PROVE  o[k] <= o[z] /\ HasLabel(f[z], ls, o, k)
    <3>1. CASE k = z
      <4>1. HasLabel(f[z], ls, o, z)
        BY <1>5
      <4> QED
        BY <2>3, <3>1, <4>1
    <3>2. CASE k # z
      <4>1. k \in 1..m /\ k \in 1..n /\ k \in 0..n
        BY <1>1, <2>1, <3>2
      <4>2. o[k] <= o[m] /\ HasLabel(f[m], ls, o, k) /\ o[k] \in Nat
        BY <1>3, <1>6, <4>1
      <4>3. HasLabel(f[m] \o Written(ls[z]), ls, o, k)
        BY <1>3, <1>5, <2>2, <4>1, <4>2, LabelStays
      <4>4. o[k] <= o[z]
        <5> DEFINE a == o[m]  b == o[z]  c == o[k]
        <5>1. a \in Nat /\ b \in Nat /\ c \in Nat /\ c <= a /\ a <= b
          BY <2>2, <2>3, <4>2
        <5> HIDE DEF a, b, c
        <5>2. c <= b
          BY <5>1
        <5> QED
          BY <5>2 DEF b, c
      <4> QED
        BY <2>2, <4>3, <4>4
    <3> QED
      BY <3>1, <3>2
  <2>5. z \in 0..n
    BY <1>1
  <2> QED
    BY <2>1, <2>4, <2>5
<1>7. \A k \in 1..n : o[k] <= o[n] /\ HasLabel(f[n], ls, o, k)
  <2>1. 0 \in Good /\ \A m \in 0..(n - 1) : m \in Good => m + 1 \in Good
    BY <1>1, <1>6
  <2>2. n \in 0..n
    BY <1>1
  <2> HIDE DEF Good
  <2>3. \A m \in 0..n : m \in Good
    BY <1>1, <2>1, Upward
  <2> QED
    BY <2>2, <2>3 DEF Good
<1>8. /\ w \in Wire /\ Len(w) = o[n] + 1 /\ w[o[n] + 1] = 0 /\ o[n] \in Nat
      /\ f[n] \in Wire /\ o[n] = Len(f[n]) /\ <<0>> \in Wire
  <2>1. n \in 0..n
    BY <1>1
  <2>2. f[n] \in Wire /\ o[n] = Len(f[n]) /\ o[n] \in Nat
    BY <1>3, <2>1
  <2>3. <<0>> \in Wire /\ Len(<<0>>) = 1 /\ <<0>>[1] = 0 /\ 1 \in 1..1
    BY DEF Wire
  <2>4. w \in Wire /\ Joins(w, f[n], <<0>>)
    BY <1>2, <2>2, <2>3, Joint DEF Wire
  <2> QED
    BY <2>2, <2>3, <2>4 DEF Joins
<1>9. \A k \in 1..n : o[k] < Len(w) /\ HasLabel(w, ls, o, k)
  <2>1. ASSUME NEW k \in 1..n
        PROVE  o[k] < Len(w) /\ HasLabel(w, ls, o, k)
    <3>1. o[k] <= Len(f[n]) /\ HasLabel(f[n], ls, o, k) /\ o[k] \in Nat
      BY <1>3, <1>4, <1>7, <1>8
    <3>2. HasLabel(f[n] \o <<0>>, ls, o, k)
      BY <1>3, <1>5, <1>8, <3>1, LabelStays
    <3> QED
      BY <1>2, <1>8, <3>1, <3>2
  <2> QED
    BY <2>1
<1>10. Laid(w, ls, o)
  BY <1>3, <1>5, <1>8, <1>9 DEF Laid
<1> QED
  BY <1>8, <1>10 DEF w

\* What is at the place of a label that is laid out.
LEMMA LabelThere ==
  ASSUME NEW ls, Readable(ls), NEW w \in Wire, NEW o, Laid(w, ls, o),
         NEW k \in 1..Len(ls)
  PROVE  /\ o[k - 1] \in Nat /\ o[k] \in Nat /\ o[k - 1] < Len(w)
         /\ ~IsRoot(At(w, o[k - 1])) /\ ~IsPointer(At(w, o[k - 1]))
         /\ LabelEnd(w, o[k - 1]) = o[k] /\ LabelOk(w, o[k - 1])
         /\ Label(w, o[k - 1]) = ls[k]
<1> DEFINE a == o[k - 1]  c == o[k]  l == ls[k]  m == Len(ls[k])  n == Len(w)
<1>1. /\ k - 1 \in 0..Len(ls) /\ k \in 0..Len(ls)
      /\ o \in [0..Len(ls) -> Nat]
  BY LenProperties DEF Readable, Laid
<1>2. /\ a \in Nat /\ c \in Nat /\ c = a + 1 + m /\ c < n
      /\ w[a + 1] = m /\ \A i \in 1..m : w[a + 1 + i] = l[i]
  <2>1. a \in Nat /\ c \in Nat
    BY <1>1
  <2> QED
    BY <2>1 DEF Laid, HasLabel
<1>3. /\ l \in Seq(0..127) /\ l \in Seq(Byte) /\ m \in 1..191
      /\ n \in Nat /\ w \in Seq(Byte)
  BY LenProperties, TextsWire DEF Readable, IsLabel, Texts, Wire
<1>4. m = Len(l)
  OBVIOUS
<1> HIDE DEF a, c, l, m, n
<1>5. /\ a < n /\ m # 0 /\ ~(m >= 192)
      /\ 1 <= a + 2 /\ a + 2 <= c + 1 /\ c <= n /\ a + 2 \in Nat
      /\ c - (a + 2) + 1 = m
  BY <1>2, <1>3
<1>6. LabelEnd(w, a) = c /\ ~IsRoot(At(w, a)) /\ ~IsPointer(At(w, a))
  BY <1>2, <1>5 DEF LabelEnd, At, IsRoot, IsPointer
<1> DEFINE p == Label(w, a)
<1>7. p = SubSeq(w, a + 2, c)
  BY <1>6 DEF Label
<1> HIDE DEF p
<1>8. p \in Seq(Byte) /\ Len(p) = m /\ \A j \in 1..m : p[j] = w[a + 1 + j]
  <2> DEFINE b == a + 1
  <2>1. /\ b \in Nat /\ m \in Nat /\ b + m <= Len(w)
        /\ a + 2 = b + 1 /\ c = b + m
    BY <1>2, <1>3, <1>5 DEF n
  <2> HIDE DEF b
  <2>2. Excerpt(SubSeq(w, b + 1, b + m), Byte, w, b, m)
    BY <1>3, <2>1, ExcerptIs
  <2>3. Excerpt(p, Byte, w, b, m)
    BY <1>7, <2>1, <2>2
  <2> QED
    BY <2>3 DEF Excerpt, b
<1>10. p = l
  BY <1>2, <1>3, <1>4, <1>8, SeqEqual
<1>11. LabelOk(w, a)
  <2>1. \A j \in DOMAIN p : p[j] < 128
    <3>1. p \in Seq(0..127) /\ DOMAIN p = 1..Len(p)
      BY <1>3, <1>8, <1>10, LenProperties
    <3>2. \A j \in 1..Len(p) : p[j] \in 0..127
      BY <3>1, ElementOfSeq
    <3>3. \A b \in 0..127 : b < 128
      OBVIOUS
    <3> QED
      BY <3>1, <3>2, <3>3
  <2> QED
    BY <1>5, <1>6, <2>1 DEF LabelOk, p, n
<1> QED
  BY <1>2, <1>5, <1>6, <1>10, <1>11 DEF a, c, l, n, p

\* The labels behind the k-th one.
Behind(ls, k) == [i \in 1..(Len(ls) - k) |-> ls[k + i]]

LEMMA BehindNext ==
  ASSUME NEW ls \in Labels, NEW k \in 1..Len(ls)
  PROVE  /\ Behind(ls, k) \in Labels
         /\ <<ls[k]>> \o Behind(ls, k) = Behind(ls, k - 1)
<1> DEFINE n == Len(ls)  S == Seq(0..127)
           b == Behind(ls, k)  c == Behind(ls, k - 1)  h == <<ls[k]>>
<1>1. n \in Nat /\ \A i \in 1..n : ls[i] \in S
  BY LenProperties, ElementOfSeq DEF Labels
<1>2. n - k \in Nat /\ n - (k - 1) = n - k + 1
  BY <1>1
<1>3. \A i \in 1..(n - k) : k + i \in 1..n
  BY <1>1
<1>4. \A i \in 1..(n - (k - 1)) : k - 1 + i \in 1..n
  BY <1>1
<1>5. b \in Seq(S) /\ Len(b) = n - k /\ \A i \in 1..(n - k) : b[i] = ls[k + i]
  BY <1>1, <1>2, <1>3 DEF Behind
<1>6. /\ c \in Seq(S) /\ Len(c) = n - k + 1
      /\ \A i \in 1..(n - k + 1) : c[i] = ls[k - 1 + i]
  BY <1>1, <1>2, <1>4 DEF Behind
<1>7. h \in Seq(S) /\ Len(h) = 1 /\ h[1] = ls[k] /\ 1 \in 1..1
  BY <1>1
<1> HIDE DEF b, c, h, S, n
<1>8. h \o b \in Seq(S) /\ Joins(h \o b, h, b)
  BY <1>5, <1>7, Joint
<1>9. ASSUME NEW i \in 1..(n - k + 1)
      PROVE  (h \o b)[i] = c[i]
  <2>1. CASE i = 1
    <3>1. k - 1 + 1 = k
      BY <1>1
    <3> QED
      BY <1>6, <1>7, <1>8, <1>9, <2>1, <3>1 DEF Joins
  <2>2. CASE i # 1
    <3>1. PICK j \in 1..(n - k) : i = 1 + j /\ k - 1 + i = k + j
      <4>1. i - 1 \in 1..(n - k) /\ i = 1 + (i - 1) /\ k - 1 + i = k + (i - 1)
        BY <1>2, <2>2
      <4> QED
        BY <4>1
    <3>2. (h \o b)[1 + j] = b[j]
      BY <1>5, <1>7, <1>8 DEF Joins
    <3> QED
      BY <1>5, <1>6, <1>9, <3>1, <3>2
  <2> QED
    BY <2>1, <2>2
<1>10. Len(h \o b) = n - k + 1
  BY <1>2, <1>5, <1>7, <1>8 DEF Joins
<1>11. h \o b = c
  BY <1>6, <1>8, <1>9, <1>10, SeqEqual
<1> QED
  BY <1>5, <1>11 DEF b, c, h, S, Labels

\* What is laid out is read from its end to its beginning.
LEMMA LaidRead ==
  ASSUME NEW ls, Readable(ls), NEW w \in Wire, NEW o, Laid(w, ls, o)
  PROVE  NameAt(w, 0, 0) = [labels |-> ls, next |-> Len(w)]
<1> DEFINE n == Len(ls)
           N == NamesIn(w, 0)
           Read(k) == N[<<o[k], 0>>] = [labels |-> Behind(ls, k), next |-> Len(w)]
<1>1. ls \in Labels /\ n \in Nat /\ Len(w) \in Nat /\ w \in Seq(Byte)
  BY LenProperties DEF Readable, Texts, Labels, Wire
<1>2. /\ o[0] = 0 /\ o \in [0..n -> Nat]
      /\ Len(w) = o[n] + 1 /\ w[o[n] + 1] = 0
  BY DEF Laid
<1>3. \A i \in Nat : N[<<i, 0>>] = NameFrom(w, N, i, 0)
  BY <1>1, NameAgain
<1> HIDE DEF N
<1>4. Read(n)
  <2>1. o[n] \in Nat /\ n \in 0..n
    BY <1>1, <1>2
  <2>2. ~(o[n] >= Len(w)) /\ IsRoot(At(w, o[n]))
    BY <1>1, <1>2, <2>1 DEF IsRoot, At
  <2>3. N[<<o[n], 0>>] = [labels |-> <<>>, next |-> o[n] + 1]
    BY <1>3, <2>1, <2>2 DEF NameFrom
  <2>4. Behind(ls, n) = <<>>
    <3>1. n - n = 0
      BY <1>1
    <3> QED
      BY <3>1 DEF Behind
  <2> QED
    BY <1>2, <2>3, <2>4
<1>5. ASSUME NEW k \in 1..n, Read(k)
      PROVE  Read(k - 1)
  <2> DEFINE i == o[k - 1]
             rest == [labels |-> Behind(ls, k), next |-> Len(w)]
  <2>1. /\ i \in Nat /\ i < Len(w) /\ ~IsRoot(At(w, i)) /\ ~IsPointer(At(w, i))
        /\ LabelEnd(w, i) = o[k] /\ LabelOk(w, i) /\ Label(w, i) = ls[k]
    BY LabelThere
  <2>2. N[<<o[k], 0>>] = rest
    BY <1>5
  <2>3. /\ Behind(ls, k) \in Labels
        /\ <<ls[k]>> \o Behind(ls, k) = Behind(ls, k - 1)
    BY <1>1, BehindNext
  <2>4. rest # Unreadable /\ rest.labels = Behind(ls, k) /\ rest.next = Len(w)
    BY <1>1, <2>3, UnreadableAssumption DEF Labels
  <2>5. ~(i >= Len(w))
    BY <1>1, <2>1
  <2> HIDE DEF i, rest
  <2>6. N[<<i, 0>>] = NameFrom(w, N, i, 0)
    BY <1>3, <2>1
  <2>7. N[<<i, 0>>] = [labels |-> <<ls[k]>> \o rest.labels, next |-> rest.next]
    BY <2>1, <2>2, <2>4, <2>5, <2>6 DEF NameFrom
  <2> QED
    BY <2>3, <2>4, <2>7 DEF i
<1> DEFINE Good == {j \in 0..n : Read(n - j)}
<1>6. \A j \in 0..(n - 1) : j \in Good => j + 1 \in Good
  <2>1. ASSUME NEW j \in 0..(n - 1), j \in Good
        PROVE  j + 1 \in Good
    <3>1. n - j \in 1..n /\ (n - j) - 1 = n - (j + 1) /\ j + 1 \in 0..n
      BY <1>1
    <3>2. Read(n - j)
      BY <2>1
    <3> HIDE DEF Read
    <3>3. Read((n - j) - 1)
      BY <1>5, <3>1, <3>2
    <3> QED
      BY <3>1, <3>3
  <2> QED
    BY <2>1
<1>7. 0 \in Good
  <2>1. n - 0 = n /\ 0 \in 0..n
    BY <1>1
  <2> HIDE DEF Read
  <2> QED
    BY <1>4, <2>1
<1>8. Read(0)
  <2>1. n \in 0..n /\ n - n = 0
    BY <1>1
  <2>2. n \in Good
    <3> HIDE DEF Good
    <3>1. \A j \in 0..n : j \in Good
      BY <1>1, <1>6, <1>7, Upward
    <3> QED
      BY <2>1, <3>1
  <2> HIDE DEF Read
  <2> QED
    BY <2>1, <2>2
<1>9. Behind(ls, 0) = ls
  <2>1. n - 0 = n /\ \A i \in 1..n : 0 + i = i
    BY <1>1
  <2>2. Behind(ls, 0) = [i \in 1..n |-> ls[i]]
    BY <2>1 DEF Behind
  <2>3. ls = [i \in 1..n |-> ls[i]]
    BY <1>1, LenProperties DEF Labels
  <2> QED
    BY <2>2, <2>3
<1> QED
  BY <1>2, <1>8, <1>9 DEF NameAt, N

-----------------------------------------------------------------------------
(* Labels that are read are short *)

\* A length byte is less than 192.
Short == \A k \in 1..Len(labels) : Len(labels[k]) <= 191

LEMMA TakeLabelShort ==
  ASSUME NameInv, Short, TakeLabel
  PROVE  Short'
<1> DEFINE l == Label(packet, pos)  m == At(packet, pos)  n == Len(labels)
<1>1. /\ reading = "busy" /\ pos < Len(packet)
      /\ IsLength(m) /\ LabelOk(packet, pos)
  BY DEF TakeLabel, HasByte
<1>2. packet \in Seq(Byte) /\ pos \in Nat /\ m \in Byte
  BY <1>1, InLoop, Bytes
<1> HIDE DEF m
<1>3. m \in 1..191
  <2>1. m \in Nat
    BY <1>1, <1>2, InLoop, Bytes DEF m
  <2>2. 0 < m /\ m < 192
    BY <1>1 DEF IsLength
  <2> QED
    BY <2>1, <2>2
<1>4. Len(l) = m
  <2> DEFINE b == pos + 1
  <2>1. /\ b \in Nat /\ m \in Nat /\ b + m <= Len(packet)
        /\ pos + 2 = b + 1 /\ LabelEnd(packet, pos) = b + m
    <3>1. LabelEnd(packet, pos) = pos + 1 + m /\ pos + 1 + m <= Len(packet)
      BY <1>1 DEF LabelOk, LabelEnd, m
    <3> QED
      BY <1>2, <1>3, <3>1
  <2> HIDE DEF b
  <2>2. Excerpt(SubSeq(packet, b + 1, b + m), Byte, packet, b, m)
    BY <1>2, <2>1, ExcerptIs
  <2>3. l = SubSeq(packet, b + 1, b + m)
    BY <2>1 DEF Label
  <2> QED
    BY <2>2, <2>3 DEF Excerpt
<1>5. labels \in Seq(Seq(0..127)) /\ l \in Seq(0..127)
  <2>1. pos < Len(packet) /\ ~IsRoot(m)
    BY <1>1 DEF IsRoot, IsLength
  <2> QED
    BY <1>1, <1>2, <2>1, LabelType, LabelsType DEF m, NameInv, NameTypeOK, Labels
<1>6. labels' = Append(labels, l)
  BY DEF TakeLabel
<1> HIDE DEF l, m
<1>7. /\ n \in Nat /\ Len(labels') = n + 1 /\ labels'[n + 1] = l
      /\ \A k \in 1..n : labels'[k] = labels[k]
  BY <1>5, <1>6, AppendProperties, LenProperties
<1> HIDE DEF n
<1>8. \A k \in 1..(n + 1) : Len(labels'[k]) <= 191
  <2>1. ASSUME NEW k \in 1..(n + 1)
        PROVE  Len(labels'[k]) <= 191
    <3>1. CASE k = n + 1
      <4>1. m <= 191
        BY <1>3
      <4>2. labels'[k] = l
        BY <1>7, <3>1
      <4> QED
        BY <1>4, <4>1, <4>2
    <3>2. CASE k # n + 1
      <4>1. k \in 1..n
        BY <1>7, <3>2
      <4> QED
        BY <1>7, <4>1 DEF Short, n
    <3> QED
      BY <3>1, <3>2
  <2> QED
    BY <2>1
<1> QED
  BY <1>7, <1>8 DEF Short

LEMMA RecordShort ==
  ASSUME RecordInv, Short, [RecordNext]_recordVars
  PROVE  Short'
<1>1. CASE labels' = labels
  BY <1>1 DEF Short
<1>2. CASE labels' = <<>>
  <2>1. 1..Len(labels') = {}
    BY <1>2
  <2> QED
    BY <2>1 DEF Short
<1>3. CASE TakeLabel
  BY <1>3, TakeLabelShort DEF RecordInv
<1>4. labels' = labels \/ labels' = <<>> \/ TakeLabel
  BY DEF RecordNext, recordVars, nameVars, ReadName, NameNext, EndOfData, Root,
     Jump, BadPointer, BadLabel, Fail, CnameFields, OtherRecord, CnameData,
     NoRecord, SkipData, Leave, Call
<1> QED
  BY <1>1, <1>2, <1>3, <1>4

\* What is written is read again, label by label.
LEMMA ReadAgain ==
  ASSUME RecordInv, Short
  PROVE  RoundTrip
<1>1. SUFFICES ASSUME \A k \in DOMAIN labels : Dot \notin ToSet(labels[k])
               PROVE  LET wire == Encode(Joined(labels))
                      IN  NameAt(wire, 0, 0) = [labels |-> labels, next |-> Len(wire)]
  BY DEF RoundTrip
<1>2. labels \in Seq(Texts) /\ DOMAIN labels = 1..Len(labels)
  BY LabelsType, LenProperties DEF RecordInv, NameInv, NameTypeOK, Labels, Texts
<1>3. ASSUME NEW k \in 1..Len(labels)
      PROVE  IsLabel(labels[k]) /\ Dotless(labels[k])
  <2> DEFINE l == labels[k]
  <2>1. l \in Seq(0..127) \ {<<>>}
    BY <1>3, ElementOfSeq DEF RecordInv, NameInv, NameTypeOK
  <2>2. Len(l) \in Nat /\ Len(l) # 0 /\ DOMAIN l = 1..Len(l)
    BY <2>1, LenProperties, EmptySeq
  <2>3. Len(l) <= 191
    BY <1>3 DEF Short
  <2>4. Dot \notin ToSet(l)
    BY <1>1, <1>2, <1>3
  <2> HIDE DEF l
  <2>5. Dotless(l)
    BY <2>2, <2>4 DEF Dotless, ToSet
  <2>6. IsLabel(l)
    <3> DEFINE m == Len(l)
    <3>1. m \in Nat /\ m # 0 /\ m <= 191
      BY <2>2, <2>3
    <3> HIDE DEF m
    <3>2. m \in 1..191
      BY <3>1
    <3>3. l \in Texts
      BY <2>1 DEF Texts
    <3> QED
      BY <3>2, <3>3 DEF IsLabel, m
  <2> QED
    BY <2>5, <2>6 DEF l
<1>4. Readable(labels)
  BY <1>2, <1>3 DEF Readable
<1> QED
  BY <1>4, EncodeLaid, LaidRead

-----------------------------------------------------------------------------
(* Parsing runs out of steps *)

\* A name takes at most one step per byte for each pointer that may be followed,
\* and one more for its end.
Turn == Len(packet) + 1
NameSteps ==
    IF reading = "busy" THEN Left * Turn + (Len(packet) - pos) + 1 ELSE 0
LongestName == MaxJumps * Turn + Turn

\* The most steps that are left: those of the name that is read, of a target
\* that may follow, and of the two fields.
StepsLeft ==
    NameSteps + IF stage = "name" THEN LongestName + 2
                ELSE IF stage = "target" THEN 1 ELSE 0

LEMMA NameStepsType ==
  ASSUME NameTypeOK, reading = "busy" => jumps <= MaxJumps
  PROVE  /\ Turn \in Nat /\ LongestName \in Nat
         /\ NameSteps \in 0..LongestName
<1>1. /\ Len(packet) \in Nat /\ MaxJumps \in Nat /\ pos \in 0..Len(packet)
  BY PacketType, PacketAssumption DEF NameTypeOK
<1>2. Turn \in Nat /\ Len(packet) - pos \in 0..Len(packet)
  BY <1>1 DEF Turn
<1>3. MaxJumps * Turn \in Nat
  BY <1>1, <1>2
<1>4. LongestName \in Nat
  BY <1>2, <1>3 DEF LongestName
<1>5. CASE reading = "busy"
  <2>1. Left \in 0..MaxJumps
    BY <1>1, <1>5 DEF Left, NameTypeOK
  <2>2. Left * Turn \in Nat /\ Left * Turn <= MaxJumps * Turn
    BY SMTT(60), <1>1, <1>2, <2>1
  <2> DEFINE t == Left * Turn
             u == MaxJumps * Turn
  <2>3. NameSteps = t + (Len(packet) - pos) + 1 /\ LongestName = u + Turn
    BY <1>5 DEF NameSteps, LongestName
  <2>4. t \in Nat /\ u \in Nat /\ t <= u
    BY <1>3, <2>2
  <2> HIDE DEF t, u
  <2>5. t + (Len(packet) - pos) + 1 \in 0..(u + (Len(packet) + 1))
    BY <1>1, <1>2, <2>4
  <2> QED
    BY <1>2, <1>4, <2>3, <2>5 DEF Turn
<1>6. CASE reading # "busy"
  BY <1>2, <1>4, <1>6 DEF NameSteps
<1> QED
  BY <1>5, <1>6

LEMMA NameSooner ==
  ASSUME NameInv, NameNext
  PROVE  NameSteps' < NameSteps /\ LongestName' = LongestName
<1> DEFINE n == Len(packet)
           t == Left * Turn
<1>1. reading = "busy" /\ packet' = packet
  BY DEF NameNext, EndOfData, Root, Jump, BadPointer, TakeLabel, BadLabel, Fail, HasByte
<1>2. /\ packet \in Seq(Byte) /\ n \in Nat /\ Left \in Nat
      /\ MaxJumps \in Nat /\ jumps \in 0..MaxJumps /\ pos \in 0..n
  BY <1>1, InLoop DEF NameInv, NameTypeOK
<1>3. Turn = n + 1 /\ Turn' = Turn /\ LongestName' = LongestName /\ t \in Nat
  BY <1>1, <1>2 DEF Turn, LongestName
<1>4. NameSteps = t + (n - pos) + 1
  BY <1>1 DEF NameSteps
<1>5. ASSUME reading' # "busy"
      PROVE  NameSteps' < NameSteps
  <2>1. NameSteps' = 0
    BY <1>5 DEF NameSteps
  <2> HIDE DEF t, n
  <2>2. 0 < t + (n - pos) + 1
    BY <1>2, <1>3
  <2> QED
    BY <1>4, <2>1, <2>2
<1>6. ASSUME TakeLabel
      PROVE  NameSteps' < NameSteps
  <2>1. /\ pos < n /\ IsLength(At(packet, pos)) /\ LabelOk(packet, pos)
        /\ pos' = LabelEnd(packet, pos) /\ reading' = reading /\ jumps' = jumps
    BY <1>6 DEF TakeLabel, HasByte
  <2>2. ~IsRoot(At(packet, pos))
    BY <1>2, <2>1, Bytes DEF IsRoot, IsLength
  <2>3. pos' \in 0..n /\ pos' > pos
    <3>1. /\ LabelEnd(packet, pos) \in Nat /\ LabelEnd(packet, pos) > pos + 1
          /\ LabelEnd(packet, pos) <= n
      BY <1>2, <2>1, <2>2, Bytes DEF LabelOk
    <3> HIDE DEF n
    <3>2. \A e \in Nat : e > pos + 1 /\ e <= n => e \in 0..n /\ e > pos
      BY <1>2
    <3> QED
      BY <2>1, <3>1, <3>2
  <2>4. NameSteps' = t + (n - pos') + 1
    BY <1>1, <1>3, <2>1 DEF NameSteps, Left
  <2> HIDE DEF t, n
  <2>5. \A i, j \in 0..n : i < j => t + (n - j) + 1 < t + (n - i) + 1
    BY <1>2, <1>3
  <2>6. t + (n - pos') + 1 < t + (n - pos) + 1
    <3>1. pos < pos'
      BY <1>2, <2>3
    <3> QED
      BY <1>2, <2>3, <2>5, <3>1
  <2> QED
    BY <1>4, <2>4, <2>6
<1>7. ASSUME Jump, reading' = "busy"
      PROVE  NameSteps' < NameSteps
  <2>1. /\ pos < n /\ IsPointer(At(packet, pos)) /\ PointerOk(packet, pos)
        /\ pos' = Offset(packet, pos) /\ jumps' = jumps + 1 /\ ~(jumps' > MaxJumps)
    BY <1>7 DEF Jump, HasByte
  <2>2. pos' \in 0..n
    BY <1>2, <2>1, Bytes DEF PointerOk
  <2>3. Left' = Left - 1
    BY <1>2, <2>1 DEF Left
  <2>4. (Left - 1) * Turn = t - Turn
    BY SMTT(60), <1>2, <1>3
  <2>5. NameSteps' = (t - Turn) + (n - pos') + 1
    BY <1>1, <1>3, <1>7, <2>3, <2>4 DEF NameSteps
  <2> HIDE DEF t, n
  <2>6. (t - (n + 1)) + (n - pos') + 1 < t + (n - pos) + 1
    BY <1>2, <1>3, <2>1, <2>2
  <2> QED
    BY <1>3, <1>4, <2>5, <2>6
<1>8. reading' # "busy" \/ TakeLabel \/ (Jump /\ reading' = "busy")
  BY DEF NameNext, EndOfData, Root, BadPointer, BadLabel, Fail, Jump
<1> QED
  BY <1>3, <1>5, <1>6, <1>7, <1>8

LEMMA RecordSooner ==
  ASSUME RecordInv, RecordInv', RecordNext
  PROVE  StepsLeft' < StepsLeft
<1>1. /\ NameSteps \in 0..LongestName /\ LongestName \in Nat
      /\ NameSteps' \in 0..LongestName' /\ LongestName' \in Nat
  <2>1. NameTypeOK /\ (reading = "busy" => jumps <= MaxJumps)
    BY DEF RecordInv, NameInv, OnTheWay
  <2>2. NameTypeOK' /\ (reading' = "busy" => jumps' <= MaxJumps)
    BY DEF RecordInv, NameInv, OnTheWay
  <2>3. (NameTypeOK /\ (reading = "busy" => jumps <= MaxJumps)
           => LongestName \in Nat /\ NameSteps \in 0..LongestName)'
    BY NameStepsType, PTL
  <2> QED
    BY <2>1, <2>2, <2>3, NameStepsType
<1> DEFINE l == LongestName
           k == NameSteps
<1>2. CASE ReadName
  <2>1. k' < k /\ l' = l /\ stage' = stage
    BY <1>2, NameSooner DEF ReadName, RecordInv
  <2> HIDE DEF l, k
  <2>2. \A a, b, c \in Nat : a < b => a + c < b + c
    OBVIOUS
  <2>3. k' \in Nat /\ k \in Nat /\ l + 2 \in Nat
    BY <1>1 DEF l, k
  <2>4. k' + (l + 2) < k + (l + 2) /\ k' + 1 < k + 1 /\ k' + 0 < k + 0
    BY <2>1, <2>2, <2>3
  <2> QED
    BY <2>1, <2>4 DEF StepsLeft, l, k
<1>3. CASE CnameFields
  <2>1. stage = "name" /\ stage' = "target" /\ packet' = packet
    BY <1>3 DEF CnameFields, Call
  <2>2. l' = l
    BY <2>1 DEF LongestName, Turn
  <2>3. StepsLeft' = k' + 1 /\ StepsLeft = k + (l + 2)
    BY <2>1 DEF StepsLeft
  <2>4. l \in Nat /\ k \in Nat /\ k' \in 0..l
    BY <1>1, <2>2
  <2> HIDE DEF l, k
  <2>5. \A a \in 0..l, b \in Nat : a + 1 < b + (l + 2)
    BY <2>4
  <2> QED
    BY <2>3, <2>4, <2>5
<1>4. CASE OtherRecord \/ NoRecord \/ CnameData
  <2>1. /\ stage \in {"name", "target"} /\ stage' \in {"read", "failed"}
        /\ reading' = "idle"
    BY <1>4 DEF OtherRecord, NoRecord, CnameData, SkipData, Leave
  <2>2. StepsLeft' = 0 + 0
    BY <2>1 DEF StepsLeft, NameSteps
  <2>3. StepsLeft = k + (l + 2) \/ StepsLeft = k + 1
    BY <2>1 DEF StepsLeft
  <2>4. l \in Nat /\ k \in Nat
    BY <1>1
  <2> HIDE DEF l, k
  <2>5. 0 + 0 < k + (l + 2) /\ 0 + 0 < k + 1
    BY <2>4
  <2> QED
    BY <2>2, <2>3, <2>5
<1> QED
  BY <1>2, <1>3, <1>4 DEF RecordNext

-----------------------------------------------------------------------------
(* The theorems *)

\* The invariant that the theorems below rest on holds while a record is read.
THEOREM RecordInvHolds == RecordSpec => []RecordInv
<1>1. RecordInit => RecordInv
  BY FirstRecord
<1>2. RecordInv /\ [RecordNext]_recordVars => RecordInv'
  BY RecordStep
<1> QED
  BY <1>1, <1>2, PTL DEF RecordSpec

\* Whatever bytes a packet holds, the cursor stays within it or at its end, and
\* no index is out of bounds, for the record's name and a CNAME target
\* (NameTypeOK; parse_name).
THEOREM CursorInBounds == RecordSpec => []NameTypeOK
<1>1. RecordInv => NameTypeOK
  BY DEF RecordInv, NameInv
<1> QED
  BY <1>1, RecordInvHolds, PTL

\* parse_name reads the name that the format defines, for every packet and every
\* limit on the pointers, and leaves the cursor behind the name (NameRead).
THEOREM NamesRead == RecordSpec => []NameRead
<1>1. RecordInv => NameRead
  BY DEF RecordInv, NameInv
<1> QED
  BY <1>1, RecordInvHolds, PTL

\* A record is read exactly if it is there in full; the target is the name that
\* the data begin with, and the cursor ends behind the data, wherever pointers
\* lead (RecordRead; DnsResourceRecord::parse).
THEOREM RecordsRead == RecordSpec => []RecordRead
<1>1. RecordInv => RecordRead
  BY DEF RecordInv
<1> QED
  BY <1>1, RecordInvHolds, PTL

\* A name that was read, without dots in its labels, is the name that is read
\* from what serialize_name writes of it (RoundTrip; parse_name, serialize_name).
THEOREM NamesRoundTrip == RecordSpec => []RoundTrip
<1>1. RecordInit => RecordInv /\ Short
  <2>1. RecordInit => Len(labels) = 0
    BY DEF RecordInit, NameInit
  <2> QED
    BY <2>1, FirstRecord DEF Short
<1>2. RecordInv /\ Short /\ [RecordNext]_recordVars => RecordInv' /\ Short'
  BY RecordStep, RecordShort
<1>3. RecordInv /\ Short => RoundTrip
  BY ReadAgain
<1> QED
  BY <1>1, <1>2, <1>3, PTL DEF RecordSpec

\* Whatever bytes a packet holds, and wherever its pointers lead, parsing a
\* record takes no more than StepsLeft steps: each label moves the cursor on,
\* each pointer uses up a jump (dns.rs:245-301).  What RecordEnds adds is that
\* the loop goes on.
THEOREM StepsRunOut ==
    RecordSpec => [](StepsLeft \in Nat) /\ [][StepsLeft' < StepsLeft]_recordVars
<1>1. RecordInv => StepsLeft \in Nat
  <2>1. RecordInv => NameSteps \in 0..LongestName /\ LongestName \in Nat
    BY NameStepsType DEF RecordInv, NameInv, OnTheWay
  <2> QED
    BY <2>1 DEF StepsLeft
<1>2. RecordInv /\ RecordInv' /\ [RecordNext]_recordVars
         => [StepsLeft' < StepsLeft]_recordVars
  BY RecordSooner
<1> QED
  BY <1>1, <1>2, RecordInvHolds, PTL DEF RecordSpec
=============================================================================
