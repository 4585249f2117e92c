--------------------------- MODULE StatisticsProofs ---------------------------
(***************************************************************************)
(* What `dns-ligase stats` shows: the entries that were logged, as they    *)
(* were logged (ReportFaithful), shared out by outcome (OutcomesAddUp),    *)
(* with the dates of their days (DateRight).                               *)
(*                                                                         *)
(* An entry is followed line by line (Reads): a line adds the place of its *)
(* key and no other, because no text in it ends a line.  What the journal  *)
(* then keeps is, entry by entry, what was logged (JournalInv).            *)
(*                                                                         *)
(* The calendar goes on day by day, and the arithmetic has no memory; what *)
(* ties them together is the number of the day that a date stands for      *)
(* (DayOf).  That the calendar counts right is the inductive invariant     *)
(* (Dated).  The arithmetic is then followed step by step: the number of   *)
(* days since 0000-03-01 falls into years that begin in March (MarchDays), *)
(* and the era, the year in the era and the month are found in turn.       *)
(***************************************************************************)
EXTENDS Calendar, Journal, TextProofs

-----------------------------------------------------------------------------
(* An entry, line by line *)

\* Whole lines.
Lines(e) == e \in Seq(Token) /\ (e # <<>> => e[Len(e)] = LF)

\* What may stand in a line.
Clean == Seq(Token \ {LF})

\* The text stands behind position i of e, and the line ends with it.
Holds(e, i, text) ==
    /\ i \in 1..Len(e) /\ i + Len(text) + 1 <= Len(e)
    /\ \A j \in 1..Len(text) : e[i + j] = text[j]
    /\ e[i + Len(text) + 1] = LF

\* The entry has one line for each of some fields, with what q says there, and
\* none for the others.
Reads(e, fields, q) ==
    /\ Lines(e)
    /\ \A f \in fields : \E i \in Nat : Places(e, Key[f]) = {i} /\ Holds(e, i, q[f])
    /\ \A f \in Field \ fields : Places(e, Key[f]) = {}

\* The line with a key is added to e.
Added(e, key, text) == e \o FieldLine(key, text)

LEMMA Tokens ==
  /\ LF \in Token /\ CR \in Token /\ "_" \in Token /\ "MESSAGE" \in Token
  /\ "_" # LF /\ "MESSAGE" # LF
  /\ \A f \in Field : Key[f] \in Token /\ Key[f] # LF /\ Key[f] # "MESSAGE"
  /\ \A f, g \in Field : Key[f] = Key[g] => f = g
<1>1. \A f \in Field : Key[f] \in Token
  BY LoggedAssumption
<1>2. LF \in Token /\ CR \in Token /\ "_" \in Token /\ "MESSAGE" \in Token
  BY LoggedAssumption
<1>3. /\ \A f \in Field : Key[f] # LF /\ Key[f] # "MESSAGE"
      /\ \A f, g \in Field : Key[f] = Key[g] => f = g
  BY DEF Field, Key, LF
<1> QED
  BY <1>1, <1>2, <1>3 DEF LF

\* A line: its key, its text and its end.
LEMMA LineIs ==
  ASSUME NEW key \in Token, NEW text \in Clean
  PROVE  LET l == FieldLine(key, text)
         IN  /\ l \in Seq(Token) /\ Len(text) \in Nat /\ Len(l) = Len(text) + 2
             /\ l[1] = key /\ l[Len(text) + 2] = LF
             /\ \A j \in 1..Len(text) : l[1 + j] = text[j] /\ text[j] # LF
<1> DEFINE k == <<key>>  f == <<LF>>  n == Len(text)  r == k \o text  l == r \o f
<1>1. k \in Seq(Token) /\ Len(k) = 1 /\ k[1] = key
  OBVIOUS
<1>2. f \in Seq(Token) /\ Len(f) = 1 /\ f[1] = LF
  <2>1. LF \in Token
    BY Tokens
  <2> QED
    BY <2>1
<1>3. text \in Seq(Token) /\ n \in Nat /\ \A j \in 1..n : text[j] # LF
  <2>1. Token \ {LF} \subseteq Token
    OBVIOUS
  <2>2. text \in Seq(Token)
    BY <2>1, SeqMonotonic DEF Clean
  <2>3. n \in Nat /\ \A j \in 1..n : text[j] \in Token \ {LF}
    BY LenProperties, ElementOfSeq DEF Clean
  <2> QED
    BY <2>2, <2>3
<1> HIDE DEF k, f, n
<1>4. r \in Seq(Token) /\ Joins(r, k, text)
  BY <1>1, <1>3, Joint
<1> HIDE DEF r
<1>5. l \in Seq(Token) /\ Joins(l, r, f)
  BY <1>2, <1>4, Joint
<1> HIDE DEF l
<1>6. Len(r) = n + 1 /\ r[1] = key /\ \A j \in 1..n : r[1 + j] = text[j]
  <2>1. 1 \in 1..1 /\ 1 + n = n + 1
    BY <1>3
  <2> QED
    BY <1>1, <1>3, <1>4, <2>1 DEF Joins, n
<1>7. Len(l) = n + 2 /\ l[n + 2] = LF /\ \A j \in 1..(n + 1) : l[j] = r[j]
  <2>1. 1 \in 1..1 /\ n + 1 + 1 = n + 2
    BY <1>3
  <2> QED
    BY <1>2, <1>3, <1>5, <1>6, <2>1 DEF Joins
<1>8. l[1] = key /\ \A j \in 1..n : l[1 + j] = text[j]
  <2>1. 1 \in 1..(n + 1) /\ \A j \in 1..n : 1 + j \in 1..(n + 1)
    BY <1>3
  <2> QED
    BY <1>6, <1>7, <2>1
<1> QED
  BY <1>3, <1>5, <1>7, <1>8 DEF FieldLine, k, f, n, r, l

\* What a line adds: elements.
Longer(d, e, key, text) ==
    /\ Len(e) \in Nat /\ Len(text) \in Nat
    /\ Len(d) = Len(e) + Len(text) + 2
    /\ \A i \in 1..Len(e) : d[i] = e[i]
    /\ d[Len(e) + 1] = key /\ d[Len(e) + Len(text) + 2] = LF
    /\ \A j \in 1..Len(text) : d[Len(e) + 1 + j] = text[j] /\ text[j] # LF

LEMMA AddedIs ==
  ASSUME NEW e, Lines(e), NEW key \in Token, NEW text \in Clean
  PROVE  /\ Lines(Added(e, key, text))
         /\ Longer(Added(e, key, text), e, key, text)
<1> DEFINE l == FieldLine(key, text)  d == Added(e, key, text)
           m == Len(e)  n == Len(text)
<1>1. /\ l \in Seq(Token) /\ n \in Nat /\ Len(l) = n + 2
      /\ l[1] = key /\ l[n + 2] = LF
      /\ \A j \in 1..n : l[1 + j] = text[j] /\ text[j] # LF
  BY LineIs
<1> HIDE DEF l
<1>2. e \in Seq(Token) /\ m \in Nat
  BY LenProperties DEF Lines
<1>3. d \in Seq(Token) /\ Joins(d, e, l)
  BY <1>1, <1>2, Joint DEF Added, l
<1> HIDE DEF d, m, n
<1>4. /\ Len(d) = m + n + 2
      /\ \A i \in 1..m : d[i] = e[i]
      /\ \A i \in 1..(n + 2) : d[m + i] = l[i]
  <2>1. m + (n + 2) = m + n + 2
    BY <1>1, <1>2
  <2> QED
    BY <1>1, <1>3, <2>1 DEF Joins, m
<1>5. d[m + 1] = key /\ d[m + n + 2] = LF
  <2>1. 1 \in 1..(n + 2) /\ n + 2 \in 1..(n + 2) /\ m + (n + 2) = m + n + 2
    BY <1>1, <1>2
  <2> QED
    BY <1>1, <1>4, <2>1
<1>6. \A j \in 1..n : d[m + 1 + j] = text[j]
  <2>1. \A j \in 1..n : 1 + j \in 1..(n + 2) /\ m + (1 + j) = m + 1 + j
    BY <1>1, <1>2
  <2> QED
    BY <1>1, <1>4, <2>1
<1>7. Lines(d)
  BY <1>3, <1>4, <1>5 DEF Lines
<1>8. Longer(d, e, key, text)
  BY <1>1, <1>2, <1>4, <1>5, <1>6 DEF Longer, m, n
<1> QED
  BY <1>7, <1>8 DEF d

\* A line adds the place of its key, and no text in it begins another line.
LEMMA PlacesAdded ==
  ASSUME NEW e, Lines(e), NEW key \in Token, key # LF, NEW text \in Clean,
         NEW k \in Token, k # LF
  PROVE  Places(Added(e, key, text), k) =
            Places(e, k) \cup (IF k = key THEN {Len(e) + 1} ELSE {})
<1> DEFINE d == Added(e, key, text)  m == Len(e)  n == Len(text)
<1>1. /\ m \in Nat /\ n \in Nat /\ Len(d) = m + n + 2
      /\ \A i \in 1..m : d[i] = e[i]
      /\ d[m + 1] = key /\ d[m + n + 2] = LF
      /\ \A j \in 1..n : d[m + 1 + j] = text[j] /\ text[j] # LF
  BY AddedIs DEF Longer
<1>2. DOMAIN d = 1..(m + n + 2) /\ DOMAIN e = 1..m
  BY <1>1, AddedIs, LenProperties DEF Lines
<1>3. m > 0 => e[m] = LF
  BY <1>1, EmptySeq DEF Lines
<1> HIDE DEF d, m, n
<1>4. ASSUME NEW i \in 1..m
      PROVE  i \in Places(d, k) <=> i \in Places(e, k)
  <2>1. i \in DOMAIN d /\ i \in DOMAIN e /\ d[i] = e[i]
    BY <1>1, <1>2
  <2>2. CASE i > 1
    <3>1. i - 1 \in 1..m
      BY <1>1, <2>2
    <3>2. d[i - 1] = e[i - 1]
      BY <1>1, <3>1
    <3> QED
      BY <2>1, <3>2 DEF Places
  <2>3. CASE ~(i > 1)
    BY <2>1, <2>3 DEF Places
  <2> QED
    BY <2>2, <2>3
<1>5. m + 1 \in Places(d, k) <=> k = key
  <2>1. m + 1 \in DOMAIN d
    BY <1>1, <1>2
  <2>2. m + 1 > 1 => d[m + 1 - 1] = LF
    <3>1. m + 1 > 1 => m \in 1..m /\ m > 0 /\ m + 1 - 1 = m
      BY <1>1
    <3> QED
      BY <1>1, <1>3, <3>1
  <2> QED
    BY <1>1, <2>1, <2>2 DEF Places
<1>6. ASSUME NEW j \in 1..n, NEW i, i = m + 1 + j
      PROVE  i \notin Places(d, k)
  <2>1. CASE j = 1
    <3>1. i > 1 /\ i - 1 = m + 1
      BY <1>1, <1>6, <2>1
    <3> QED
      BY <1>1, <3>1 DEF Places
  <2>2. CASE j # 1
    <3>1. PICK h \in 1..n : i > 1 /\ i - 1 = m + 1 + h
      <4>1. j - 1 \in 1..n /\ i > 1 /\ i - 1 = m + 1 + (j - 1)
        BY <1>1, <1>6, <2>2
      <4> QED
        BY <4>1
    <3>2. d[m + 1 + h] # LF
      BY <1>1
    <3>3. d[i - 1] # LF
      BY <3>1, <3>2
    <3> QED
      BY <3>1, <3>3 DEF Places
  <2> QED
    BY <2>1, <2>2
<1>7. m + n + 2 \notin Places(d, k)
  BY <1>1 DEF Places
<1>8. /\ \A i \in 1..(m + n + 2) :
            i \in 1..m \/ i = m + 1 \/ i = m + n + 2 \/ \E j \in 1..n : i = m + 1 + j
      /\ m + 1 \notin 1..m /\ m + 1 \in 1..(m + n + 2)
  <2>1. ASSUME NEW i \in 1..(m + n + 2), i \notin 1..m, i # m + 1, i # m + n + 2
        PROVE  \E j \in 1..n : i = m + 1 + j
    <3>1. i - m - 1 \in 1..n /\ i = m + 1 + (i - m - 1)
      BY <1>1, <2>1
    <3> QED
      BY <3>1
  <2> QED
    BY <1>1, <2>1
<1>9. Places(d, k) \subseteq 1..(m + n + 2) /\ Places(e, k) \subseteq 1..m
  BY <1>2 DEF Places
<1>10. \A i : i \in Places(d, k) <=> i \in Places(e, k) \/ (k = key /\ i = m + 1)
  <2>1. ASSUME NEW i \in Places(d, k)
        PROVE  i \in Places(e, k) \/ (k = key /\ i = m + 1)
    BY <1>4, <1>5, <1>6, <1>7, <1>8, <1>9
  <2>2. \A i \in Places(e, k) : i \in Places(d, k)
    BY <1>4, <1>9
  <2> QED
    BY <1>5, <2>1, <2>2
<1> QED
  BY <1>10 DEF d, m

\* What a line says stays, and the new one says its text.
LEMMA HoldsAdded ==
  ASSUME NEW e, Lines(e), NEW key \in Token, NEW text \in Clean
  PROVE  /\ Len(e) \in Nat /\ Holds(Added(e, key, text), Len(e) + 1, text)
         /\ \A i \in Nat, t \in Clean : Holds(e, i, t) => Holds(Added(e, key, text), i, t)
<1> DEFINE d == Added(e, key, text)  m == Len(e)  n == Len(text)
<1>1. /\ m \in Nat /\ n \in Nat /\ Len(d) = m + n + 2
      /\ \A i \in 1..m : d[i] = e[i]
      /\ d[m + 1] = key /\ d[m + n + 2] = LF
      /\ \A j \in 1..n : d[m + 1 + j] = text[j]
  BY AddedIs DEF Longer
<1> HIDE DEF d, m
<1>2. Holds(d, m + 1, text)
  <2>1. m + 1 + n + 1 = m + n + 2 /\ m + 1 \in 1..(m + n + 2)
    BY <1>1
  <2>2. m + n + 2 <= m + n + 2
    BY <1>1
  <2> QED
    BY <1>1, <2>1, <2>2 DEF Holds, n
<1> HIDE DEF n
<1>3. ASSUME NEW i \in Nat, NEW t \in Clean, Holds(e, i, t)
      PROVE  Holds(d, i, t)
  <2> DEFINE a == Len(t)
  <2>1. a \in Nat
    BY LenProperties DEF Clean
  <2>2. /\ i \in 1..m /\ i + a + 1 <= m /\ e[i + a + 1] = LF
        /\ \A j \in 1..a : e[i + j] = t[j]
    BY <1>3 DEF Holds, m
  <2> HIDE DEF a
  <2>3. /\ i + a + 1 \in 1..m /\ i \in 1..Len(d) /\ i + a + 1 <= Len(d)
        /\ \A j \in 1..a : i + j \in 1..m
    BY <1>1, <2>1, <2>2
  <2>4. d[i + a + 1] = LF /\ \A j \in 1..a : d[i + j] = t[j]
    BY <1>1, <2>2, <2>3
  <2> QED
    BY <2>3, <2>4 DEF Holds, a
<1> QED
  BY <1>1, <1>2, <1>3 DEF d, m

\* What is read where a text stands.
LEMMA ValueIs ==
  ASSUME NEW e \in Seq(Token), NEW i \in Nat, NEW t \in Clean, Holds(e, i, t)
  PROVE  Value(e, i) = t
<1> DEFINE m == Len(e)  n == Len(t)  z == i + n
           End(j) == e[j] = LF /\ \A k \in (i + 1)..(j - 1) : e[k] # LF
<1>1. m \in Nat /\ n \in Nat /\ t \in Seq(Token) /\ \A j \in 1..n : t[j] # LF
  <2>1. Token \ {LF} \subseteq Token
    OBVIOUS
  <2>2. t \in Seq(Token)
    BY <2>1, SeqMonotonic DEF Clean
  <2>3. n \in Nat /\ \A j \in 1..n : t[j] \in Token \ {LF}
    BY LenProperties, ElementOfSeq DEF Clean
  <2> QED
    BY <2>2, <2>3, LenProperties
<1>2. /\ i \in 1..m /\ z + 1 <= m /\ e[z + 1] = LF
      /\ \A j \in 1..n : e[i + j] = t[j]
  BY DEF Holds
<1> HIDE DEF m, n
<1>3. \A k \in (i + 1)..z : e[k] # LF
  <2>1. ASSUME NEW k \in (i + 1)..z
        PROVE  e[k] # LF
    <3>1. k - i \in 1..n /\ i + (k - i) = k
      BY <1>1
    <3> QED
      BY <1>1, <1>2, <3>1
  <2> QED
    BY <2>1
<1>4. z \in Nat /\ z + 1 \in (i + 1)..m /\ z + 1 - 1 = z
  BY <1>1, <1>2
<1>5. End(z + 1)
  BY <1>2, <1>3, <1>4
<1>6. \A j \in (i + 1)..m : End(j) => j = z + 1
  <2>1. ASSUME NEW j \in (i + 1)..m, End(j)
        PROVE  j = z + 1
    <3>1. ~(j < z + 1)
      <4>1. j < z + 1 => j \in (i + 1)..z
        BY <1>4
      <4> QED
        BY <1>3, <2>1, <4>1
    <3>2. ~(z + 1 < j)
      <4>1. z + 1 < j => z + 1 \in (i + 1)..(j - 1)
        BY <1>1, <1>4
      <4> QED
        BY <1>2, <2>1, <4>1
    <3> QED
      BY <1>4, <3>1, <3>2
  <2> QED
    BY <2>1
<1> DEFINE end == CHOOSE j \in (i + 1)..m : End(j)
<1>7. end = z + 1
  <2> HIDE DEF End
  <2>1. end \in (i + 1)..m /\ End(end)
    BY <1>4, <1>5
  <2> QED
    BY <1>6, <2>1
<1>8. Value(e, i) = SubSeq(e, i + 1, end - 1)
  BY DEF Value, m
<1> HIDE DEF end, End
<1>9. Value(e, i) = SubSeq(e, i + 1, i + n)
  <2>1. end - 1 = i + n
    BY <1>4, <1>7
  <2> QED
    BY <1>8, <2>1
<1>10. Excerpt(SubSeq(e, i + 1, i + n), Token, e, i, n)
  <2>1. i + n <= m
    BY <1>1, <1>2
  <2> QED
    BY <1>1, <2>1, ExcerptIs DEF m
<1> DEFINE p == Value(e, i)
<1> HIDE DEF p
<1>11. p \in Seq(Token) /\ Len(p) = n /\ \A j \in 1..n : p[j] = t[j]
  BY <1>2, <1>9, <1>10 DEF Excerpt, p
<1>12. p = t
  BY <1>1, <1>11, SeqEqual DEF n
<1> QED
  BY <1>12 DEF p

\* A line with another key, and one with the key of another field.
LEMMA ReadsMessage ==
  ASSUME NEW e, NEW fields \in SUBSET Field, NEW q \in [Field -> Clean],
         Reads(e, fields, q), NEW text \in Clean
  PROVE  Reads(Added(e, "MESSAGE", text), fields, q)
<1> DEFINE d == Added(e, "MESSAGE", text)
<1>1. Lines(e) /\ "MESSAGE" \in Token /\ "MESSAGE" # LF
  BY Tokens DEF Reads
<1>2. \A f \in Field : Places(d, Key[f]) = Places(e, Key[f])
  <2>1. ASSUME NEW f \in Field
        PROVE  Places(d, Key[f]) = Places(e, Key[f])
    <3>1. Key[f] \in Token /\ Key[f] # LF /\ Key[f] # "MESSAGE"
      BY Tokens
    <3>2. Places(d, Key[f]) = Places(e, Key[f]) \cup
             (IF Key[f] = "MESSAGE" THEN {Len(e) + 1} ELSE {})
      BY <1>1, <3>1, PlacesAdded
    <3> QED
      BY <3>1, <3>2
  <2> QED
    BY <2>1
<1>3. Lines(d) /\ \A i \in Nat, t \in Clean : Holds(e, i, t) => Holds(d, i, t)
  BY <1>1, AddedIs, HoldsAdded
<1> HIDE DEF d
<1>4. Reads(d, fields, q)
  BY <1>2, <1>3 DEF Reads
<1> QED
  BY <1>4 DEF d

LEMMA ReadsNext ==
  ASSUME NEW e, NEW fields \in SUBSET Field, NEW q \in [Field -> Clean],
         Reads(e, fields, q), NEW g \in Field, g \notin fields
  PROVE  Reads(Added(e, Key[g], q[g]), fields \cup {g}, q)
<1> DEFINE key == Key[g]  text == q[g]  d == Added(e, key, text)  m == Len(e)
<1>1. Lines(e) /\ key \in Token /\ key # LF /\ text \in Clean
  BY Tokens DEF Reads
<1>2. \A f \in Field :
         Places(d, Key[f]) = Places(e, Key[f]) \cup (IF f = g THEN {m + 1} ELSE {})
  <2>1. ASSUME NEW f \in Field
        PROVE  Places(d, Key[f]) =
                  Places(e, Key[f]) \cup (IF f = g THEN {m + 1} ELSE {})
    <3>1. Key[f] \in Token /\ Key[f] # LF /\ (Key[f] = key <=> f = g)
      BY Tokens
    <3>2. Places(d, Key[f]) = Places(e, Key[f]) \cup
             (IF Key[f] = key THEN {m + 1} ELSE {})
      BY <1>1, <3>1, PlacesAdded
    <3> QED
      BY <3>1, <3>2
  <2> QED
    BY <2>1
<1>3. /\ Lines(d) /\ m + 1 \in Nat /\ Holds(d, m + 1, text)
      /\ \A i \in Nat, t \in Clean : Holds(e, i, t) => Holds(d, i, t)
  BY <1>1, AddedIs, HoldsAdded
<1> HIDE DEF d, m, key
<1>4. \A f \in Field \ (fields \cup {g}) : Places(d, Key[f]) = {}
  BY <1>2 DEF Reads
<1>5. \A f \in fields : \E i \in Nat : Places(d, Key[f]) = {i} /\ Holds(d, i, q[f])
  BY <1>2, <1>3 DEF Reads
<1>6. Places(d, Key[g]) = {m + 1}
  BY <1>2 DEF Reads
<1>7. Reads(d, fields \cup {g}, q)
  BY <1>3, <1>4, <1>5, <1>6 DEF Reads
<1> QED
  BY <1>7 DEF d, key

LEMMA ReadsNothing ==
  ASSUME NEW q
  PROVE  Reads(<<>>, {}, q)
<1>1. \A k : Places(<<>>, k) = {}
  BY DEF Places
<1>2. Lines(<<>>)
  BY DEF Lines
<1> QED
  BY <1>1, <1>2 DEF Reads

\* A line alone.
LEMMA FirstLine ==
  ASSUME NEW key \in Token, NEW text \in Clean
  PROVE  Added(<<>>, key, text) = FieldLine(key, text)
<1>1. FieldLine(key, text) \in Seq(Token)
  BY LineIs
<1> QED
  BY <1>1, ConcatEmptySeq DEF Added

-----------------------------------------------------------------------------
(* What is logged, and what is read of it *)

\* A query as it is written.
Sanitized(query) == [field \in Field |-> SanitizeField(query[field])]

LEMMA SanitizeIs ==
  ASSUME NEW t \in Seq(Token)
  PROVE  /\ SanitizeField(t) \in Clean /\ Says(SanitizeField(t), t)
         /\ (\A i \in 1..Len(t) : t[i] \notin {LF, CR}) => SanitizeField(t) = t
<1> DEFINE n == Len(t)  s == SanitizeField(t)
<1>1. n \in Nat /\ DOMAIN t = 1..n /\ \A i \in 1..n : t[i] \in Token
  BY LenProperties, ElementOfSeq
<1> DEFINE R(i) == IF t[i] \in {LF, CR} THEN "_" ELSE t[i]
<1>2. s = [i \in 1..n |-> R(i)]
  BY <1>1 DEF SanitizeField
<1>3. \A i \in 1..n : R(i) \in Token \ {LF}
  BY <1>1, Tokens
<1> HIDE DEF s, n, R
<1>4. s \in Clean
  BY <1>1, <1>2, <1>3 DEF Clean
<1>5. DOMAIN s = 1..n /\ Len(s) = n
  BY <1>1, <1>2
<1>6. Says(s, t)
  BY <1>2, <1>5 DEF Says, n, R
<1>7. ASSUME \A i \in 1..n : t[i] \notin {LF, CR}
      PROVE  s = t
  <2>1. s = [i \in 1..n |-> t[i]]
    BY <1>2, <1>7 DEF R
  <2>2. t = [i \in 1..n |-> t[i]]
    BY <1>1
  <2> QED
    BY <2>1, <2>2
<1> QED
  BY <1>4, <1>6, <1>7 DEF s, n

LEMMA QueryType ==
  ASSUME NEW q \in Logged
  PROVE  /\ \A f \in Field : q[f] \in Seq(Token)
         /\ Sanitized(q) \in [Field -> Clean]
<1>1. q \in [Field -> Seq(Token)]
  BY LoggedAssumption
<1>2. \A f \in Field : q[f] \in Seq(Token)
  BY <1>1
<1>3. \A f \in Field : SanitizeField(q[f]) \in Clean
  BY <1>2, SanitizeIs
<1> QED
  BY <1>2, <1>3 DEF Sanitized

LEMMA CleanJoined ==
  ASSUME NEW s \in Clean, NEW t \in Clean
  PROVE  s \o t \in Clean
  BY ConcatProperties DEF Clean

\* The datagram says what is logged, field by field.
LEMMA DatagramReads ==
  ASSUME NEW q \in Logged
  PROVE  Reads(Datagram(q), Field, Sanitized(q))
<1> DEFINE s == Sanitized(q)
           text == s.action \o s.domain \o s.qtype \o s.source \o s.rule
           e0 == FieldLine("MESSAGE", text)
           e1 == Added(e0, Key["source"], s["source"])
           e2 == Added(e1, Key["domain"], s["domain"])
           e3 == Added(e2, Key["qtype"], s["qtype"])
           e4 == Added(e3, Key["action"], s["action"])
           e5 == Added(e4, Key["rule"], s["rule"])
<1>1. Datagram(q) = e5
  BY DEF Datagram, Added, Sanitized
<1>2. s \in [Field -> Clean]
  BY QueryType
<1> HIDE DEF s
<1>3. text \in Clean
  <2>1. /\ s.action \in Clean /\ s.domain \in Clean /\ s.qtype \in Clean
        /\ s.source \in Clean /\ s.rule \in Clean
    BY <1>2 DEF Field
  <2> HIDE DEF s
  <2> QED
    BY <2>1, CleanJoined
<1> HIDE DEF text
<1>4. Reads(e0, {}, s)
  <2>1. Reads(Added(<<>>, "MESSAGE", text), {}, s)
    BY <1>2, <1>3, ReadsNothing, ReadsMessage
  <2> QED
    BY <1>3, <2>1, FirstLine, Tokens
<1> DEFINE F1 == {} \cup {"source"}  F2 == F1 \cup {"domain"}
           F3 == F2 \cup {"qtype"}   F4 == F3 \cup {"action"}
           F5 == F4 \cup {"rule"}
<1>5. /\ F1 \in SUBSET Field /\ F2 \in SUBSET Field /\ F3 \in SUBSET Field
      /\ F4 \in SUBSET Field /\ F5 = Field
      /\ "source" \in Field /\ "domain" \in Field /\ "qtype" \in Field
      /\ "action" \in Field /\ "rule" \in Field
      /\ "domain" \notin F1 /\ "qtype" \notin F2 /\ "action" \notin F3
      /\ "rule" \notin F4
  BY DEF Field
<1> HIDE DEF e0
<1>6. Reads(e1, F1, s)
  BY <1>2, <1>4, <1>5, ReadsNext
<1> HIDE DEF e1, F1
<1>7. Reads(e2, F2, s)
  BY <1>2, <1>5, <1>6, ReadsNext
<1> HIDE DEF e2, F2
<1>8. Reads(e3, F3, s)
  BY <1>2, <1>5, <1>7, ReadsNext
<1> HIDE DEF e3, F3
<1>9. Reads(e4, F4, s)
  BY <1>2, <1>5, <1>8, ReadsNext
<1> HIDE DEF e4, F4
<1>10. Reads(e5, F5, s)
  BY <1>2, <1>5, <1>9, ReadsNext
<1> QED
  BY <1>1, <1>5, <1>10 DEF s

\* parse_entries keeps the entry of a query, and takes from it what was logged.
LEMMA DatagramKept ==
  ASSUME NEW q \in Logged
  PROVE  /\ Parses(Datagram(q)) /\ IsQueryLog(Datagram(q))
         /\ Fields(Datagram(q)) = Sanitized(q)
<1> DEFINE d == Datagram(q)  s == Sanitized(q)
<1>1. /\ d \in Seq(Token)
      /\ \A f \in Field : \E i \in Nat : Places(d, Key[f]) = {i} /\ Holds(d, i, s[f])
  BY DatagramReads DEF Reads, Lines
<1>2. s \in [Field -> Clean]
  BY QueryType
<1> HIDE DEF d, s
<1>3. \A f \in Field : Cardinality(Places(d, Key[f])) = 1 /\ Places(d, Key[f]) # {}
  BY <1>1, FS_Singleton
<1>4. Parses(d)
  <2>1. 1 <= 1
    OBVIOUS
  <2> QED
    BY <1>3, <2>1 DEF Parses
<1>5. IsQueryLog(d)
  <2>1. "action" \in Field
    BY DEF Field
  <2> QED
    BY <1>3, <2>1 DEF IsQueryLog
<1> DEFINE Read(f) == IF Places(d, Key[f]) = {} THEN <<>>
                      ELSE Value(d, CHOOSE i \in Places(d, Key[f]) : TRUE)
<1>6. ASSUME NEW f \in Field
      PROVE  Read(f) = s[f]
  <2>1. PICK i \in Nat : Places(d, Key[f]) = {i} /\ Holds(d, i, s[f])
    BY <1>1
  <2>2. (CHOOSE j \in Places(d, Key[f]) : TRUE) = i
    BY <2>1
  <2>3. s[f] \in Clean
    BY <1>2
  <2>4. Value(d, i) = s[f]
    BY <1>1, <2>1, <2>3, ValueIs
  <2> QED
    BY <1>3, <2>2, <2>4
<1>7. Fields(d) = [f \in Field |-> Read(f)]
  BY DEF Fields
<1> HIDE DEF Read
<1>8. Fields(d) = s
  BY <1>2, <1>6, <1>7
<1> QED
  BY <1>4, <1>5, <1>8 DEF d, s

\* It passes over an operational message.
LEMMA MessageSkipped ==
  ASSUME NEW text \in Message
  PROVE  ~IsQueryLog(FieldLine("MESSAGE", text)) /\ FieldLine("MESSAGE", text) \in Seq(Token)
<1> DEFINE q == [f \in Field |-> <<>>]
<1>1. text \in Clean /\ q \in [Field -> Clean]
  <2>1. text \in Clean
    BY LoggedAssumption DEF Clean
  <2>2. <<>> \in Clean
    BY DEF Clean
  <2> QED
    BY <2>1, <2>2
<1> HIDE DEF q
<1>2. Reads(FieldLine("MESSAGE", text), {}, q)
  <2>1. Reads(Added(<<>>, "MESSAGE", text), {}, q)
    BY <1>1, ReadsNothing, ReadsMessage
  <2> QED
    BY <1>1, <2>1, FirstLine, Tokens
<1>3. "action" \in Field /\ "domain" \in Field
  BY DEF Field
<1> QED
  BY <1>2, <1>3 DEF Reads, Lines, IsQueryLog

-----------------------------------------------------------------------------
(* The journal keeps what is logged *)

\* What parse_entries keeps is what was logged, entry by entry.
JournalInv ==
    /\ journal \in Seq(Seq(Token)) /\ written \in Seq(Logged)
    /\ Cardinality(Kept) = Len(written)
    /\ \A n \in 1..Len(written) : journal[Nth(Kept, n)] = Datagram(written[n])

LEMMA KeptType ==
  ASSUME journal \in Seq(Seq(Token))
  PROVE  /\ Len(journal) \in Nat /\ DOMAIN journal = 1..Len(journal)
         /\ Kept \subseteq Nat /\ IsFiniteSet(Kept) /\ Kept \subseteq 1..Len(journal)
<1>1. Len(journal) \in Nat /\ DOMAIN journal = 1..Len(journal)
  BY LenProperties
<1>2. Kept \subseteq 1..Len(journal) /\ IsFiniteSet(1..Len(journal))
  BY <1>1, FS_Interval DEF Kept
<1>3. 1..Len(journal) \subseteq Nat
  BY <1>1
<1> QED
  BY <1>1, <1>2, <1>3, FS_Subset

\* An entry more.
LEMMA EntryAdded ==
  ASSUME journal \in Seq(Seq(Token)), NEW e \in Seq(Token),
         journal' = Append(journal, e)
  PROVE  /\ journal' \in Seq(Seq(Token))
         /\ \A i \in Kept : journal'[i] = journal[i]
         /\ journal'[Len(journal) + 1] = e
         /\ Kept' = Kept \cup
               (IF Parses(e) /\ IsQueryLog(e) THEN {Len(journal) + 1} ELSE {})
<1> DEFINE m == Len(journal)
<1>1. /\ m \in Nat /\ DOMAIN journal = 1..m
      /\ journal' \in Seq(Seq(Token)) /\ Len(journal') = m + 1
      /\ \A i \in 1..m : journal'[i] = journal[i]
      /\ journal'[m + 1] = e
  BY AppendProperties, LenProperties
<1>2. DOMAIN journal' = 1..(m + 1)
  BY <1>1, LenProperties
<1> HIDE DEF m
<1>3. m + 1 \in 1..(m + 1) /\ \A i : i \in 1..(m + 1) <=> i \in 1..m \/ i = m + 1
  BY <1>1
<1> DEFINE Is(x) == Parses(x) /\ IsQueryLog(x)
<1>4. Kept = {i \in 1..m : Is(journal[i])}
  BY <1>1 DEF Kept
<1>5. Kept' = {i \in 1..(m + 1) : Is(journal'[i])}
  BY <1>2 DEF Kept, Parses, IsQueryLog, Places
<1> HIDE DEF Is
<1>6. \A i : i \in Kept' <=> i \in Kept \/ (Is(e) /\ i = m + 1)
  <2>1. \A i : i \in Kept' <=> (i \in 1..m \/ i = m + 1) /\ Is(journal'[i])
    BY <1>3, <1>5
  <2>2. \A i \in 1..m : Is(journal'[i]) <=> Is(journal[i])
    BY <1>1
  <2>3. Is(journal'[m + 1]) <=> Is(e)
    BY <1>1
  <2> QED
    BY <1>4, <2>1, <2>2, <2>3
<1>7. Kept' = Kept \cup (IF Is(e) THEN {m + 1} ELSE {})
  BY <1>6
<1> QED
  BY <1>1, <1>4, <1>7 DEF m, Is

LEMMA LogQueryStep ==
  ASSUME JournalInv, NEW q \in Logged, LogQuery(q)
  PROVE  JournalInv'
<1> DEFINE d == Datagram(q)  m == Len(journal)  C == Kept  k == Len(written)
<1>1. /\ journal' = Append(journal, d) /\ written' = Append(written, q)
      /\ journal \in Seq(Seq(Token)) /\ written \in Seq(Logged)
  BY DEF LogQuery, JournalInv
<1>2. d \in Seq(Token) /\ Parses(d) /\ IsQueryLog(d)
  BY DatagramReads, DatagramKept DEF Reads, Lines
<1>3. /\ k \in Nat /\ written' \in Seq(Logged) /\ Len(written') = k + 1
      /\ \A n \in 1..k : written'[n] = written[n]
      /\ written'[k + 1] = q
  BY <1>1, AppendProperties, LenProperties
<1> HIDE DEF d
<1>4. /\ journal' \in Seq(Seq(Token))
      /\ \A i \in C : journal'[i] = journal[i]
      /\ journal'[m + 1] = d /\ Kept' = C \cup {m + 1}
  BY <1>1, <1>2, EntryAdded
<1>5. /\ m \in Nat /\ C \subseteq Nat /\ IsFiniteSet(C) /\ C \subseteq 1..m
  BY <1>1, KeptType
<1>6. Cardinality(C) = k /\ \A n \in 1..k : journal[Nth(C, n)] = Datagram(written[n])
  BY DEF JournalInv
<1> HIDE DEF C, m, k
<1>7. m + 1 \in Nat /\ \A c \in C : c < m + 1
  BY <1>5
<1> DEFINE z == m + 1
<1> HIDE DEF z
<1>8. /\ Cardinality(C \cup {z}) = k + 1
      /\ \A n \in 1..k : Nth(C \cup {z}, n) = Nth(C, n)
      /\ Nth(C \cup {z}, k + 1) = z
  <2>1. z \in Nat /\ \A c \in C : c < z
    BY <1>7 DEF z
  <2> QED
    BY <1>5, <1>6, <2>1, NthNext
<1>9. Cardinality(Kept') = k + 1
  BY <1>4, <1>8 DEF z
<1>10. ASSUME NEW n \in 1..(k + 1)
       PROVE  journal'[Nth(Kept', n)] = Datagram(written'[n])
  <2>1. CASE n = k + 1
    BY <1>3, <1>4, <1>8, <2>1 DEF d, z
  <2>2. CASE n # k + 1
    <3>1. n \in 1..k
      BY <1>3, <2>2
    <3>2. Nth(C, n) \in C
      BY <1>5, <1>6, <3>1, NthRank
    <3> QED
      BY <1>3, <1>4, <1>6, <1>8, <3>1, <3>2 DEF z
  <2> QED
    BY <2>1, <2>2
<1> QED
  BY <1>3, <1>4, <1>9, <1>10 DEF JournalInv

LEMMA LogMessageStep ==
  ASSUME JournalInv, NEW text \in Message, LogMessage(text)
  PROVE  JournalInv'
<1> DEFINE e == FieldLine("MESSAGE", text)
<1>1. /\ journal' = Append(journal, e) /\ written' = written
      /\ journal \in Seq(Seq(Token)) /\ written \in Seq(Logged)
  BY DEF LogMessage, JournalInv
<1>2. e \in Seq(Token) /\ ~IsQueryLog(e)
  BY MessageSkipped
<1> HIDE DEF e
<1>3. /\ journal' \in Seq(Seq(Token)) /\ Kept' = Kept
      /\ \A i \in Kept : journal'[i] = journal[i]
  BY <1>1, <1>2, EntryAdded
<1>4. \A n \in 1..Len(written) : Nth(Kept, n) \in Kept
  BY <1>1, KeptType, NthRank DEF JournalInv
<1> QED
  BY <1>1, <1>3, <1>4 DEF JournalInv

LEMMA FirstJournal ==
  ASSUME JournalInit
  PROVE  JournalInv
<1>1. journal = <<>> /\ written = <<>>
  BY DEF JournalInit
<1>2. Kept = {} /\ Len(written) = 0
  BY <1>1 DEF Kept
<1>3. Cardinality({}) = 0
  BY FS_EmptySet
<1>4. journal \in Seq(Seq(Token)) /\ written \in Seq(Logged)
  BY <1>1
<1> QED
  BY <1>2, <1>3, <1>4 DEF JournalInv

LEMMA JournalStep ==
  ASSUME JournalInv, [JournalNext]_journalVars
  PROVE  JournalInv'
<1>1. CASE UNCHANGED <<journal, written>>
  BY ZenonT(60), <1>1 DEF JournalInv, Kept, Parses, IsQueryLog, Places
<1>2. CASE \E q \in Logged : LogQuery(q)
  BY <1>2, LogQueryStep
<1>3. CASE \E text \in Message : LogMessage(text)
  BY <1>3, LogMessageStep
<1> QED
  BY <1>1, <1>2, <1>3 DEF JournalNext, LoseQuery, Appear, journalVars

-----------------------------------------------------------------------------
(* The reports *)

LEMMA EntriesAre ==
  ASSUME JournalInv
  PROVE  /\ Len(written) \in Nat /\ Len(ParseEntries) = Len(written)
         /\ DOMAIN ParseEntries = 1..Len(written)
         /\ \A n \in 1..Len(written) :
               written[n] \in Logged /\ ParseEntries[n] = Sanitized(written[n])
<1> DEFINE k == Len(written)
           P == [n \in 1..k |-> Fields(journal[Nth(Kept, n)])]
<1>1. k \in Nat /\ \A n \in 1..k : written[n] \in Logged
  BY LenProperties, ElementOfSeq DEF JournalInv
<1>2. ParseEntries = P
  BY DEF ParseEntries, JournalInv
<1>3. \A n \in 1..k : Fields(journal[Nth(Kept, n)]) = Sanitized(written[n])
  BY <1>1, DatagramKept DEF JournalInv
<1>4. DOMAIN P = 1..k /\ Len(P) = k /\ \A n \in 1..k : P[n] = Sanitized(written[n])
  <2> DEFINE R(n) == Fields(journal[Nth(Kept, n)])
  <2>1. P = [n \in 1..k |-> R(n)]
    OBVIOUS
  <2>2. \A n \in 1..k : R(n) = Sanitized(written[n])
    BY <1>3
  <2> HIDE DEF R, P, k
  <2> QED
    BY <1>1, <2>1, <2>2
<1> QED
  BY <1>1, <1>2, <1>4

LEMMA EntriesFaithful ==
  ASSUME JournalInv
  PROVE  ReportFaithful
<1>1. DOMAIN written = 1..Len(written)
  BY LenProperties DEF JournalInv
<1>2. ASSUME NEW n \in 1..Len(written), NEW field \in Field
      PROVE  Says(ParseEntries[n][field], written[n][field])
  <2>1. written[n] \in Logged /\ ParseEntries[n] = Sanitized(written[n])
    BY EntriesAre
  <2>2. ParseEntries[n][field] = SanitizeField(written[n][field])
    BY <2>1 DEF Sanitized
  <2>3. written[n][field] \in Seq(Token)
    BY <2>1, QueryType
  <2> QED
    BY <2>2, <2>3, SanitizeIs
<1> QED
  BY <1>1, <1>2, EntriesAre DEF ReportFaithful

\* The outcome that is read is one of the three.
LEMMA OutcomeRead ==
  ASSUME JournalInv, NEW n \in 1..Len(written)
  PROVE  ParseEntries[n].action \in Outcome
<1> DEFINE q == written[n]  a == q["action"]
<1>1. q \in Logged /\ ParseEntries[n] = Sanitized(q)
  BY EntriesAre
<1>2. "action" \in Field
  BY DEF Field
<1>3. a \in Outcome /\ a \in Seq(Token)
  BY <1>1, <1>2, LoggedAssumption, QueryType
<1>4. ParseEntries[n]["action"] = SanitizeField(a)
  BY <1>1, <1>2 DEF Sanitized
<1> HIDE DEF a, q
<1>5. \A i \in 1..Len(a) : a[i] \notin {LF, CR}
  BY <1>3 DEF Outcome, LF, CR
<1> QED
  BY <1>3, <1>4, <1>5, SanitizeIs

\* The entries that flags select.
Chosen(f, flags) ==
    {n \in 1..Len(written) : Selected(ParseEntries[n], [f EXCEPT !.flags = flags])}

LEMMA ReportLength ==
  ASSUME JournalInv, NEW f \in Filter, NEW flags
  PROVE  /\ IsFiniteSet(Chosen(f, flags)) /\ Chosen(f, flags) \subseteq Nat
         /\ Len(Report([f EXCEPT !.flags = flags])) = Cardinality(Chosen(f, flags))
<1> DEFINE C == Chosen(f, flags)  P == ParseEntries
           r == [k \in 1..Cardinality(C) |-> P[Nth(C, k)]]
<1>1. Report([f EXCEPT !.flags = flags]) = r
  BY EntriesAre DEF Report, Retain, Chosen
<1>2. C \subseteq 1..Len(written) /\ Len(written) \in Nat
  BY EntriesAre DEF Chosen
<1>3. IsFiniteSet(C) /\ C \subseteq Nat
  <2> DEFINE k == Len(written)
  <2>1. IsFiniteSet(1..k) /\ 1..k \subseteq Nat
    BY <1>2, FS_Interval
  <2> HIDE DEF C, k
  <2>2. C \subseteq 1..k
    BY <1>2 DEF k
  <2> QED
    BY <2>1, <2>2, FS_Subset
<1>4. Cardinality(C) \in Nat
  BY <1>3, FS_CardinalityType
<1> HIDE DEF C, P
<1>5. Len(r) = Cardinality(C)
  BY <1>4
<1> QED
  BY <1>1, <1>3, <1>5 DEF C

\* The entries that are selected: by what else is asked for, and by outcome.
LEMMA ChosenBy ==
  ASSUME JournalInv, NEW f \in Filter, NEW flags
  PROVE  Chosen(f, flags) = {n \in Chosen(f, {}) :
                               flags # {} => ParseEntries[n].action \in flags}
<1>1. f \in [flags : SUBSET Outcome, domain : Seq(Token), src : Seq(Token)]
  BY LoggedAssumption
<1>2. \A x : LET g == [f EXCEPT !.flags = x]
             IN  g.flags = x /\ g.domain = f.domain /\ g.src = f.src
  BY <1>1
<1>3. \A x, e : Selected(e, [f EXCEPT !.flags = x])
                  <=> /\ x # {} => e.action \in x
                      /\ Within(f.domain, e.domain) /\ Within(f.src, e.source)
  BY <1>2 DEF Selected
<1> QED
  BY <1>3 DEF Chosen

LEMMA OutcomesCounted ==
  ASSUME JournalInv, NEW f \in Filter
  PROVE  LET count(flags) == Cardinality(Chosen(f, flags))
         IN  /\ count({}) = count({<<"blocked">>}) + count({<<"allowed">>})
                              + count({<<"forwarded">>})
             /\ count({}) = count(Outcome)
<1> DEFINE b == <<"blocked">>  a == <<"allowed">>  w == <<"forwarded">>
           X == Chosen(f, {})
           B == Chosen(f, {b})  A == Chosen(f, {a})  W == Chosen(f, {w})
           Action(n) == ParseEntries[n].action
<1>1. b # a /\ a # w /\ b # w /\ Outcome = {b, a, w}
  BY DEF Outcome
<1> HIDE DEF a, b, w
<1>2. \A n \in X : Action(n) \in {b, a, w}
  BY <1>1, OutcomeRead DEF Chosen
<1>3. /\ B = {n \in X : Action(n) = b} /\ A = {n \in X : Action(n) = a}
      /\ W = {n \in X : Action(n) = w}
      /\ Chosen(f, Outcome) = {n \in X : Action(n) \in Outcome}
  <2>1. \A flags : flags # {} =>
           Chosen(f, flags) = {n \in X : Action(n) \in flags}
    BY ChosenBy
  <2>2. \A c : Chosen(f, {c}) = {n \in X : Action(n) = c}
    <3>1. ASSUME NEW c
          PROVE  Chosen(f, {c}) = {n \in X : Action(n) = c}
      <4>1. Chosen(f, {c}) = {n \in X : Action(n) \in {c}}
        BY <2>1
      <4> HIDE DEF X, Action
      <4> QED
        BY <4>1
    <3> QED
      BY <3>1
  <2>3. Chosen(f, Outcome) = {n \in X : Action(n) \in Outcome}
    <3>1. Outcome # {}
      BY <1>1
    <3> QED
      BY <2>1, <3>1
  <2> QED
    BY <2>2, <2>3
<1>4. IsFiniteSet(B) /\ IsFiniteSet(A) /\ IsFiniteSet(W)
  BY ReportLength
<1> HIDE DEF X, A, B, W, Action
<1>5. /\ X = (B \cup A) \cup W /\ B \cap A = {} /\ (B \cup A) \cap W = {}
      /\ Chosen(f, Outcome) = X
  BY <1>1, <1>2, <1>3
<1>6. /\ IsFiniteSet(B \cup A)
      /\ Cardinality(B \cup A) = Cardinality(B) + Cardinality(A) - Cardinality({})
  BY <1>4, <1>5, FS_Union
<1>7. Cardinality(X) = Cardinality(B \cup A) + Cardinality(W) - Cardinality({})
  BY <1>4, <1>5, <1>6, FS_Union
<1>8. /\ Cardinality({}) = 0 /\ Cardinality(A) \in Nat /\ Cardinality(B) \in Nat
      /\ Cardinality(W) \in Nat
  BY <1>4, FS_EmptySet, FS_CardinalityType
<1>9. Cardinality(X) = Cardinality(B) + Cardinality(A) + Cardinality(W)
  <2> DEFINE x == Cardinality(X)  y == Cardinality(B)  z == Cardinality(A)
             v == Cardinality(W)  u == Cardinality(B \cup A)
  <2>1. /\ u = y + z - 0 /\ x = u + v - 0 /\ y \in Nat /\ z \in Nat /\ v \in Nat
    BY <1>6, <1>7, <1>8
  <2> HIDE DEF x, y, z, u, v
  <2>2. x = y + z + v
    BY <2>1
  <2> QED
    BY <2>2 DEF x, y, z, v
<1> QED
  BY <1>5, <1>9 DEF X, A, B, W, a, b, w

\* A report by outcome shows entries with these outcomes.
LEMMA OutcomesShown ==
  ASSUME JournalInv, NEW f \in Filter, f.flags # {}, NEW n \in DOMAIN Report(f)
  PROVE  Report(f)[n].action \in f.flags
<1> DEFINE C == Chosen(f, f.flags)  P == ParseEntries
<1>1. f = [f EXCEPT !.flags = f.flags]
  BY LoggedAssumption
<1>2. Report(f) = [k \in 1..Cardinality(C) |-> P[Nth(C, k)]]
  <2>1. C = {k \in DOMAIN P : Selected(P[k], f)}
    BY <1>1, EntriesAre DEF Chosen
  <2> QED
    BY <2>1 DEF Report, Retain
<1>3. IsFiniteSet(C) /\ C \subseteq Nat
  BY ReportLength
<1>4. \A k \in C : P[k].action \in f.flags
  BY <1>1 DEF Chosen, Selected
<1> HIDE DEF C, P
<1>5. n \in 1..Cardinality(C) /\ Report(f)[n] = P[Nth(C, n)]
  BY <1>2
<1>6. Nth(C, n) \in C
  BY <1>3, <1>5, NthRank
<1> QED
  BY <1>4, <1>5, <1>6

LEMMA ReportsAddUp ==
  ASSUME JournalInv
  PROVE  OutcomesAddUp
<1>1. \A f \in Filter : \A flags :
         Len(Report([f EXCEPT !.flags = flags])) = Cardinality(Chosen(f, flags))
  BY ReportLength
<1> QED
  BY <1>1, OutcomesCounted, OutcomesShown DEF OutcomesAddUp

-----------------------------------------------------------------------------
(* The days of a year that begins in March *)

\* The year, and the place of the month in it, that a date falls into.
MarchYear(y, m) == IF m <= 2 THEN y - 1 ELSE y
MarchMonth(m) == IF m <= 2 THEN m + 9 ELSE m - 3

\* The days from 0000-03-01 to the beginning of such a year, and of a month.
MarchDays(y) == 365 * y + y \div 4 - y \div 100 + y \div 400
MonthDays(mp) == (153 * mp + 2) \div 5

\* The day of the year, and the day since 0000-03-01, counted from 0.
DayOfYear(m, d) == MonthDays(MarchMonth(m)) + d - 1
Place(y, doy) == MarchDays(y) + doy

\* The day of the era that is day doy of its year r.
PlaceInEra(r, doy) == 365 * r + (r \div 4) - (r \div 100) + doy

\* Day doy is there in year r of the era: the leap day is the last one, with
\* number 365.
IsDay(r, doy) ==
    /\ doy \in Nat /\ doy <= 365
    /\ doy = 365 => r % 4 = 3 /\ (r % 100 = 99 => r = 399)

\* The number of a day, as the calendar counts: 719468 days before it begins.
DayOf(y, m, d) == Place(MarchYear(y, m), DayOfYear(m, d)) - 719468

Date == {t \in Nat \X (1..12) \X (1..31) :
            t[1] >= 1970 /\ t[3] <= MonthLength(t[1], t[2])}

\* The calendar shows a date, and it is that of the day.
Dated == day \in Nat /\ date \in Date /\ day = DayOf(date[1], date[2], date[3])

-----------------------------------------------------------------------------
(* The calendar counts right *)

LEMMA MonthLengths ==
  ASSUME NEW y \in Nat, NEW m \in 1..12
  PROVE  /\ m = 2 => MonthLength(y, m) = IF Leap(y) THEN 29 ELSE 28
         /\ m \in {4, 6, 9, 11} => MonthLength(y, m) = 30
         /\ m \in {1, 3, 5, 7, 8, 10, 12} => MonthLength(y, m) = 31
  BY DEF MonthLength

\* A year begins on the day that follows the one before.
LEMMA NewYearDay ==
  ASSUME NEW y \in Nat, y >= 1970
  PROVE  NewYear(y) \in Nat /\ NewYear(y) = DayOf(y, 1, 1)
  BY SMTT(60) DEF NewYear, LeapsBefore, DayOf, Place, DayOfYear, MarchYear, MarchMonth, MarchDays, MonthDays

\* The date after a date is one, and that of the next day.
LEMMA DateGoesOn ==
  ASSUME NEW t \in Date
  PROVE  LET n == NextDate(t)
         IN  n \in Date /\ DayOf(n[1], n[2], n[3]) = DayOf(t[1], t[2], t[3]) + 1
<1> DEFINE y == t[1]  m == t[2]  d == t[3]
<1>1. /\ y \in Nat /\ y >= 1970 /\ m \in 1..12 /\ d \in 1..31
      /\ t = <<y, m, d>> /\ d <= MonthLength(y, m)
  BY DEF Date
<1>2. CASE d < MonthLength(y, m)
  <2>1. NextDate(t) = <<y, m, d + 1>>
    BY <1>2 DEF NextDate
  <2> QED
    BY <1>1, <1>2, <2>1, MonthLengths DEF Date, DayOf, Place, DayOfYear, MarchYear, MarchMonth, MarchDays, MonthDays
<1>3. CASE d = MonthLength(y, m) /\ m < 12
  <2>1. NextDate(t) = <<y, m + 1, 1>>
    BY <1>1, <1>3, MonthLengths DEF NextDate
  <2>2. <<y, m + 1, 1>> \in Date
    BY <1>1, <1>3, MonthLengths DEF Date
  <2>3. DayOf(y, m + 1, 1) = DayOf(y, m, d) + 1
    <3>1. CASE m = 2
      BY <1>1, <1>3, <3>1, MonthLengths, SMTT(60) DEF Leap, DayOf, Place, DayOfYear, MarchYear, MarchMonth, MarchDays, MonthDays
    <3>2. CASE m # 2
      BY <1>1, <1>3, <3>2, MonthLengths, SMTT(60) DEF DayOf, Place, DayOfYear, MarchYear, MarchMonth, MarchDays, MonthDays
    <3> QED
      BY <3>1, <3>2
  <2> QED
    BY <2>1, <2>2, <2>3
<1>4. CASE d = MonthLength(y, m) /\ m = 12
  <2>1. NextDate(t) = <<y + 1, 1, 1>>
    BY <1>1, <1>4, MonthLengths DEF NextDate
  <2>2. <<y + 1, 1, 1>> \in Date
    BY <1>1, MonthLengths DEF Date
  <2>3. DayOf(y + 1, 1, 1) = DayOf(y, m, d) + 1
    BY <1>1, <1>4, MonthLengths DEF DayOf, Place, DayOfYear, MarchYear, MarchMonth, MarchDays, MonthDays
  <2> QED
    BY <2>1, <2>2, <2>3
<1> QED
  <2>1. MonthLength(y, m) \in Nat
    BY <1>1, MonthLengths
  <2> QED
    BY <1>1, <1>2, <1>3, <1>4, <2>1

LEMMA FirstDated ==
  ASSUME DateInit
  PROVE  Dated
<1>1. PICK y \in 1970..LastYear : day = NewYear(y) /\ date = <<y, 1, 1>>
  BY DEF DateInit
<1>2. y \in Nat /\ y >= 1970
  BY LastYearAssumption
<1>3. date \in Date
  BY <1>1, <1>2, MonthLengths DEF Date
<1> QED
  BY <1>1, <1>2, <1>3, NewYearDay DEF Dated

LEMMA NextDated ==
  ASSUME Dated, [NextDay]_dateVars
  PROVE  Dated'
<1>1. CASE NextDay
  BY <1>1, DateGoesOn DEF Dated, NextDay
<1>2. CASE UNCHANGED dateVars
  BY <1>2 DEF Dated, dateVars
<1> QED
  BY <1>1, <1>2

-----------------------------------------------------------------------------
(* The arithmetic *)

LEMMA Division ==
  ASSUME NEW n \in Nat
  PROVE  /\ 400 * (n \div 400) + (n % 400) = n
         /\ n % 400 \in Nat /\ n % 400 < 400 /\ n \div 400 \in Nat
  OBVIOUS

\* A year is divided by 4 and by 100 as its number in the era is.
LEMMA YearInEra ==
  ASSUME NEW e \in Nat, NEW r \in Nat, r < 400, NEW y \in Nat, 400 * e + r = y
  PROVE  /\ y \div 4 = 100 * e + (r \div 4) /\ y % 4 = r % 4
         /\ y \div 100 = 4 * e + (r \div 100) /\ y % 100 = r % 100
  BY SMTT(60)

\* The days of an era are fewer than 146097.
LEMMA EraLength ==
  ASSUME NEW r \in Nat, r < 400, NEW doy, IsDay(r, doy)
  PROVE  PlaceInEra(r, doy) \in Nat /\ PlaceInEra(r, doy) < 146097
  BY SMTT(60) DEF IsDay, PlaceInEra

\* A day falls into the era of its year.
LEMMA EraFound ==
  ASSUME NEW y \in Nat, NEW doy, IsDay(y % 400, doy)
  PROVE  /\ Era(Place(y, doy)) = y \div 400
         /\ DayOfEra(Place(y, doy)) = PlaceInEra(y % 400, doy)
<1> DEFINE e == y \div 400
           r == y % 400
           doe == PlaceInEra(r, doy)
           z == Place(y, doy)
<1>1. e \in Nat /\ r \in Nat /\ r < 400 /\ 400 * e + r = y
  BY Division
<1>2. y \div 4 = 100 * e + (r \div 4) /\ y \div 100 = 4 * e + (r \div 100)
  BY <1>1, YearInEra
<1>3. z \in Nat /\ 146097 * e + doe = z
  BY <1>1, <1>2 DEF Place, MarchDays, PlaceInEra, IsDay
<1>4. doe \in Nat /\ doe < 146097
  BY <1>1, EraLength
<1> HIDE DEF e, doe, z
<1>5. z \div 146097 = e /\ z - e * 146097 = doe
  BY <1>1, <1>3, <1>4
<1> QED
  BY <1>5 DEF Era, DayOfEra, doe, z, e

\* The leap days that the era has had by then are taken off.
LEMMA YearFound ==
  ASSUME NEW r \in Nat, r < 400, NEW doy, IsDay(r, doy)
  PROVE  YearOfEra(PlaceInEra(r, doy)) = r
  BY SMTT(60) DEF YearOfEra, PlaceInEra, IsDay

\* Months of 30 and 31 days in turn, five to 153 days.
LEMMA MonthFound ==
  ASSUME NEW mp \in 0..11, NEW d \in 1..31,
         mp \in {1, 3, 6, 8} => d <= 30,
         mp = 11 => d <= 29
  PROVE  (5 * (MonthDays(mp) + d - 1) + 2) \div 153 = mp
  BY SMTT(60) DEF MonthDays

LEMMA DateFound ==
  ASSUME NEW t \in Date
  PROVE  DaysToYmd(DayOf(t[1], t[2], t[3])) = t
<1> DEFINE year == t[1]  month == t[2]  dom == t[3]
           my == MarchYear(year, month)
           mm == MarchMonth(month)
           doyr == DayOfYear(month, dom)
           r == my % 400
           z0 == Place(my, doyr)
<1>1. /\ year \in Nat /\ year >= 1970 /\ month \in 1..12 /\ dom \in 1..31
      /\ t = <<year, month, dom>> /\ dom <= MonthLength(year, month)
  BY DEF Date
<1>2. my \in Nat /\ mm \in 0..11
  BY <1>1 DEF MarchYear, MarchMonth
<1>3. /\ mm \in {1, 3, 6, 8} => dom <= 30
      /\ mm = 11 => dom <= 29
      /\ mm = 11 /\ dom = 29 => Leap(my + 1)
  BY <1>1, MonthLengths DEF MarchYear, MarchMonth
<1>4. doyr \in Nat /\ doyr <= 365 /\ (doyr = 365 => mm = 11 /\ dom = 29)
  BY <1>1, <1>2, <1>3 DEF DayOfYear, MonthDays
<1>5. r \in Nat /\ r < 400 /\ 400 * (my \div 400) + r = my
  BY <1>2, Division
<1>6. IsDay(r, doyr)
  <2>1. doyr = 365 => (my % 4 = 3 /\ (my % 100 = 99 => r = 399))
    BY <1>2, <1>3, <1>4 DEF Leap
  <2>2. r % 4 = my % 4 /\ r % 100 = my % 100
    BY <1>2, <1>5, Division, YearInEra
  <2> QED
    BY <1>4, <2>1, <2>2 DEF IsDay
<1>7. Era(z0) = my \div 400 /\ DayOfEra(z0) = PlaceInEra(r, doyr)
  BY <1>2, <1>6, EraFound
<1>8. YearOfEra(DayOfEra(z0)) = r
  BY <1>5, <1>6, <1>7, YearFound
<1>9. (5 * doyr + 2) \div 153 = mm
  BY <1>1, <1>2, <1>3, MonthFound DEF DayOfYear
<1>10. DayOf(year, month, dom) + 719468 = z0
  <2>1. z0 \in Nat
    BY <1>2, <1>4, Division DEF Place, MarchDays
  <2> QED
    BY <2>1 DEF DayOf
<1>11. doyr - ((153 * mm + 2) \div 5) + 1 = dom
  BY <1>1, <1>2 DEF DayOfYear, MonthDays
<1>12. (IF mm < 10 THEN mm + 3 ELSE mm - 9) = month
  BY <1>1 DEF MarchMonth
<1>13. (IF month <= 2 THEN my + 1 ELSE my) = year
  BY <1>1 DEF MarchYear
<1>14. DayOfEra(z0) - (365 * r + (r \div 4) - (r \div 100)) = doyr
  BY <1>4, <1>5, <1>7 DEF PlaceInEra
<1> HIDE DEF r, z0, my, mm, doyr
<1>15. r + Era(z0) * 400 = my
  BY <1>2, <1>5, <1>7
<1> QED
  BY <1>1, <1>8, <1>9, <1>10, <1>11, <1>12, <1>13, <1>14, <1>15 DEF DaysToYmd

-----------------------------------------------------------------------------
(* The theorems *)

\* The date that stats prints for a day is the date that a calendar shows which
\* has gone on day by day from any new year since 1970, however far
\* (DateRight; days_to_ymd).
THEOREM DatesRight == DateSpec => []DateRight
<1>1. DateInit => Dated
  BY FirstDated
<1>2. Dated /\ [NextDay]_dateVars => Dated'
  BY NextDated
<1>3. Dated => DateRight
  BY DateFound DEF Dated, DateRight
<1> QED
  BY <1>1, <1>2, <1>3, PTL DEF DateSpec

\* What the journal keeps as query logs is what was logged, entry by entry.
THEOREM JournalInvHolds == JournalSpec => []JournalInv
<1>1. JournalInit => JournalInv
  BY FirstJournal
<1>2. JournalInv /\ [JournalNext]_journalVars => JournalInv'
  BY JournalStep
<1> QED
  BY <1>1, <1>2, PTL DEF JournalSpec

\* stats reads one entry for each query that was logged, in order and with what
\* was logged but for line ends, whatever keys and line ends stand in names and
\* rules, and none for operational messages (ReportFaithful; sanitize_field,
\* log_query, parse_entries).
THEOREM ReportsFaithful == JournalSpec => []ReportFaithful
<1>1. JournalInv => ReportFaithful
  BY EntriesFaithful
<1> QED
  BY <1>1, JournalInvHolds, PTL

\* The reports by outcome share out the report without one, whatever else is
\* asked for (OutcomesAddUp; filter_entries).
THEOREM OutcomesAlwaysAddUp == JournalSpec => []OutcomesAddUp
<1>1. JournalInv => OutcomesAddUp
  BY ReportsAddUp
<1> QED
  BY <1>1, JournalInvHolds, PTL
=============================================================================
