------------------------- MODULE UpstreamPoolProofs -------------------------
(* Theorems about UpstreamPool, for every value of its constants. *)
EXTENDS UpstreamPool, SequenceTheorems, TLAPS

\* The last element is popped off a sequence.
LEMMA Popped ==
    ASSUME NEW S, NEW s \in Seq(S), s # <<>>
    PROVE  LET r == SubSeq(s, 1, Len(s) - 1)
           IN  /\ r \in Seq(S) /\ Len(r) = Len(s) - 1 /\ Len(s) \in DOMAIN s
               /\ s[Len(s)] \in S
               /\ DOMAIN r = DOMAIN s \ {Len(s)}
               /\ \A i \in DOMAIN r : r[i] = s[i]
<1> DEFINE n == Len(s) - 1
           r == SubSeq(s, 1, n)
<1>1. Len(s) \in Nat \ {0} /\ DOMAIN s = 1..Len(s) /\ \A i \in 1..Len(s) : s[i] \in S
  BY EmptySeq, LenProperties, ElementOfSeq
<1>2. n \in Int /\ 1 \in Int /\ \A i \in 1..n : s[i] \in S
  BY <1>1
<1> HIDE DEF n
<1>3. /\ r \in Seq(S) /\ Len(r) = IF 1 <= n THEN n - 1 + 1 ELSE 0
      /\ \A i \in 1..(n - 1 + 1) : r[i] = s[1 + i - 1]
  BY <1>2, SubSeqProperties
<1>4. DOMAIN r = 1..Len(r)
  BY <1>3, LenProperties
<1> QED
  BY <1>1, <1>3, <1>4 DEF n

\* An element is pushed onto a sequence.
LEMMA Pushed ==
    ASSUME NEW S, NEW s \in Seq(S), NEW e \in S
    PROVE  LET r == Append(s, e)
           IN  /\ r \in Seq(S) /\ Len(s) \in Nat /\ Len(r) = Len(s) + 1
               /\ Len(s) + 1 \notin DOMAIN s
               /\ DOMAIN r = DOMAIN s \cup {Len(s) + 1}
               /\ \A i \in DOMAIN s : r[i] = s[i]
               /\ r[Len(s) + 1] = e
<1>1. Len(s) \in Nat /\ DOMAIN s = 1..Len(s)
  BY LenProperties
<1>2. /\ Append(s, e) \in Seq(S) /\ Len(Append(s, e)) = Len(s) + 1
      /\ DOMAIN Append(s, e) = 1..(Len(s) + 1)
  BY AppendProperties, LenProperties
<1> QED
  BY <1>1, <1>2, AppendProperties

\* The first element is read off a sequence.
LEMMA ReadOff ==
    ASSUME NEW S, NEW s \in Seq(S), s # <<>>
    PROVE  /\ Tail(s) \in Seq(S) /\ Head(s) \in S
           /\ 1 \in DOMAIN s /\ Head(s) = s[1]
           /\ \A i \in DOMAIN Tail(s) :
                 /\ i \in Nat \ {0} /\ i + 1 \in DOMAIN s
                 /\ Tail(s)[i] = s[i + 1]
<1>1. Len(s) \in Nat \ {0} /\ DOMAIN s = 1..Len(s)
  BY EmptySeq, LenProperties
<1>2. /\ Tail(s) \in Seq(S) /\ Head(s) \in S /\ Len(Tail(s)) = Len(s) - 1
      /\ \A i \in 1..Len(Tail(s)) : Tail(s)[i] = s[i + 1]
  BY HeadTailProperties
<1>3. DOMAIN Tail(s) = 1..Len(Tail(s))
  BY <1>2, LenProperties
<1>4. Head(s) = s[1]
  OBVIOUS
<1> QED
  BY <1>1, <1>2, <1>3, <1>4

-----------------------------------------------------------------------------
(* The inductive invariant *)

Pooled(g, t, c) == \E i \in DOMAIN pool[g][t] : pool[g][t][i] = c

\* A query holds a connection exactly while it exchanges a message on it.
Holding ==
    \A q \in Query : held[q] # NoConn <=> pc[q] \in {"send", "recv", "return"}

\* What is held and what is pooled has not been closed.
Alive ==
    /\ \A q \in Query : held[q] # NoConn => held[q] \in open
    /\ \A g \in Upstream, t \in Transport :
          \A i \in DOMAIN pool[g][t] : pool[g][t][i] \in open

\* The reply of r is on its way to c, or waits there to be read.
Carries(c, r) == r \in sent[c] \/ \E i \in DOMAIN inbox[c] : inbox[c][i] = r

Awaits(r, c) == held[r] = c /\ pc[r] = "recv"

\* A UDP query with the ID of a duplicated reply: the queries whose replies
\* may be left over on a socket.
Stained(r) ==
    /\ via[r] = "udp" /\ pc[r] # "new"
    /\ \E d \in twice : IdOf[d] = IdOf[r]

\* A reply is awaited by its query, on the connection it comes in on, or it
\* is left over from a duplicated one; closed connections carry nothing.
Awaited ==
    \A c \in Conn, r \in Query :
       Carries(c, r) => c \in open /\ (Awaits(r, c) \/ Stained(r))

\* Left-over replies are on UDP sockets only.
OnSockets ==
    \A c \in Conn, r \in Query :
       Carries(c, r) /\ Stained(r) =>
          /\ \A q \in Query : held[q] = c => via[q] = "udp"
          /\ \A g \in Upstream : ~Pooled(g, "tcp", c)

\* A reply that has no duplicate is in one place.
Once ==
    \A c \in Conn, r \in Query :
       Stained(r) \/
          /\ r \in sent[c] => \A i \in DOMAIN inbox[c] : inbox[c][i] # r
          /\ \A i, j \in DOMAIN inbox[c] :
                inbox[c][i] = r /\ inbox[c][j] = r => i = j

\* Only replies of Dup are duplicated, and only those of UDP queries.
Twice == \A d \in twice : d \in Dup /\ via[d] = "udp" /\ pc[d] # "new"

\* What a query can be answered with at all: its own reply or, over UDP, one
\* that carries its ID after a reply with that ID was duplicated.
AnswersInId ==
    \A q \in Query :
       \/ answer[q] \in {q, NoAnswer}
       \/ Stained(q) /\ answer[q] \in Query /\ IdOf[answer[q]] = IdOf[q]

-----------------------------------------------------------------------------
(* Type correctness: what a query returns to a pool is a connection *)

\* What a query works on has its type.
LEMMA QueryType ==
    ASSUME TypeOK, NEW q \in Query
    PROVE  /\ up[q] \in Upstream /\ via[q] \in Transport
           /\ Idle(q) \in Seq(Conn)
           /\ held[q] # NoConn => held[q] \in Conn
BY DEF TypeOK, Idle

\* A connection is dropped.
LEMMA DropType ==
    ASSUME TypeOK, NEW q \in Query, Drop(q)
    PROVE  /\ open' \subseteq Conn /\ peer' = peer
           /\ sent' \in [Conn -> SUBSET Query] /\ inbox' \in [Conn -> Seq(Query)]
           /\ held' \in [Query -> Conn \cup {NoConn}]
<1>1. <<>> \in Seq(Query)
  OBVIOUS
<1>2. inbox' = [inbox EXCEPT ![held[q]] = <<>>] /\ inbox \in [Conn -> Seq(Query)]
  BY DEF Drop, TypeOK
<1>3. inbox' \in [Conn -> Seq(Query)]
  BY <1>1, <1>2
<1> QED
  BY <1>3 DEF TypeOK, Drop

\* A pool is replaced.
LEMMA PoolType ==
    ASSUME TypeOK, NEW g \in Upstream, NEW t \in Transport, NEW s \in Seq(Conn)
    PROVE  [pool EXCEPT ![g][t] = s] \in [Upstream -> [Transport -> Seq(Conn)]]
BY DEF TypeOK

\* A step of a query, one lemma for each group of steps.
LEMMA CheckoutType ==
    ASSUME TypeOK, Holding, NEW q \in Query, Checkout(q) PROVE TypeOK' /\ Holding'
<1> DEFINE s == Idle(q)
<1>1. s \in Seq(Conn) /\ s # <<>> /\ s = pool[up[q]][via[q]]
  BY QueryType DEF Checkout, Idle
<1>2. s[Len(s)] \in Conn /\ SubSeq(s, 1, Len(s) - 1) \in Seq(Conn)
  BY <1>1, Popped
<1>3. pool' \in [Upstream -> [Transport -> Seq(Conn)]]
  BY <1>2, PoolType, QueryType DEF Checkout
<1>4. /\ held' = [held EXCEPT ![q] = s[Len(s)]]
      /\ pc[q] = "checkout" /\ pc' = [pc EXCEPT ![q] = "send"]
      /\ UNCHANGED <<current, open, peer, sent, inbox, twice, via, up, fresh, answer>>
  BY DEF Checkout, Goto, conns
<1> QED
  BY <1>2, <1>3, <1>4, NullAssumption DEF TypeOK, Holding, Label

LEMMA ConnectType ==
    ASSUME TypeOK, Holding, NEW q \in Query, Connect(q) PROVE TypeOK' /\ Holding'
<1> USE NullAssumption
<1>1. PICK c \in Conn \ open :
         /\ open' = open \cup {c}
         /\ peer' = [peer EXCEPT ![c] = up[q]]
         /\ held' = [held EXCEPT ![q] = c]
  BY DEF Connect
<1>2. /\ pc[q] \in {"checkout", "connect"} /\ pc' = [pc EXCEPT ![q] = "send"]
      /\ fresh' = [fresh EXCEPT ![q] = TRUE]
      /\ UNCHANGED <<current, pool, sent, inbox, twice, via, up, answer>>
  BY DEF Connect, Goto
<1> QED
  BY <1>1, <1>2 DEF TypeOK, Holding, Label

LEMMA SendType ==
    ASSUME TypeOK, Holding, NEW q \in Query, Start(q) \/ ConnectFails(q) \/ Send(q)
    PROVE  TypeOK' /\ Holding'
<1>1. CASE Start(q)
  BY ZenonT(60), <1>1 DEF Start, Goto, conns, TypeOK, Holding, Label
<1>2. CASE ConnectFails(q)
  BY <1>2 DEF ConnectFails, Goto, conns, TypeOK, Holding, Label
<1>3. CASE Send(q)
  <2>1. held[q] \in Conn
    BY <1>3 DEF Send, TypeOK, Holding
  <2> QED
    BY <1>3, <2>1 DEF Send, Goto, TypeOK, Holding, Label
<1> QED
  BY <1>1, <1>2, <1>3

\* A step that ends in Drop.
LEMMA GivesUp ==
    ASSUME TypeOK, Holding, NEW q \in Query, NEW l \in Label,
           l \notin {"send", "recv", "return"},
           Drop(q), Goto(q, l),
           UNCHANGED <<current, pool, twice, via, up, fresh, answer>>
    PROVE  TypeOK' /\ Holding'
<1>1. /\ pc' = [pc EXCEPT ![q] = l] /\ held' = [held EXCEPT ![q] = NoConn]
  BY DEF Goto, Drop
<1> QED
  BY <1>1, DropType DEF TypeOK, Holding

LEMMA ExchangeFailsType ==
    ASSUME TypeOK, Holding, NEW q \in Query,
           ExchangeFails(q) \/ Mismatch(q) \/ ReturnFull(q)
    PROVE  TypeOK' /\ Holding'
BY GivesUp DEF ExchangeFails, Mismatch, ReturnFull, Label

LEMMA ReceiveType ==
    ASSUME TypeOK, Holding, NEW q \in Query, Receive(q) PROVE TypeOK' /\ Holding'
<1>1. held[q] \in Conn /\ inbox[held[q]] \in Seq(Query) /\ inbox[held[q]] # <<>>
  BY DEF Receive, TypeOK, Holding
<1>2. Head(inbox[held[q]]) \in Query /\ Tail(inbox[held[q]]) \in Seq(Query)
  BY <1>1, ReadOff
<1> QED
  BY <1>1, <1>2 DEF Receive, Goto, TypeOK, Holding, Label

LEMMA ReturnType ==
    ASSUME TypeOK, Holding, NEW q \in Query, Return(q) PROVE TypeOK' /\ Holding'
<1>1. held[q] \in Conn /\ Idle(q) \in Seq(Conn)
  BY QueryType DEF Return, Holding
<1>2. Append(Idle(q), held[q]) \in Seq(Conn)
  BY <1>1, Pushed
<1>3. pool' = [pool EXCEPT ![up[q]][via[q]] = Append(Idle(q), held[q])]
  BY QueryType DEF Return, Idle, TypeOK
<1>4. pool' \in [Upstream -> [Transport -> Seq(Conn)]]
  BY <1>2, <1>3, QueryType, PoolType
<1> QED
  BY <1>4 DEF Return, Goto, conns, TypeOK, Holding, Label

\* A reply arrives.
LEMMA ArriveType ==
    ASSUME TypeOK, Holding, NEW c \in Conn, NEW q \in Query,
           Deliver(c, q) \/ Duplicate(c, q)
    PROVE  TypeOK' /\ Holding'
<1>1. Append(inbox[c], q) \in Seq(Query)
  BY Pushed DEF TypeOK
<1>2. inbox' = [inbox EXCEPT ![c] = Append(inbox[c], q)]
  BY DEF Deliver, Duplicate, Arrive
<1>3. inbox' \in [Conn -> Seq(Query)]
  BY <1>1, <1>2 DEF TypeOK
<1>4. /\ sent' \in [Conn -> SUBSET Query] /\ twice' \subseteq Query
      /\ UNCHANGED <<current, pool, open, peer, query>>
  BY DEF Deliver, Duplicate, TypeOK
<1> QED
  BY <1>3, <1>4 DEF TypeOK, Holding, query

LEMMA TypeInit == Init => TypeOK /\ Holding
BY EmptySeq, CapAssumption, NullAssumption
DEF Init, TypeOK, Holding, Upstream, Transport, Label

LEMMA TypeStep == TypeOK /\ Holding /\ [Next]_vars => TypeOK' /\ Holding'
<1> SUFFICES ASSUME TypeOK, Holding, [Next]_vars PROVE TypeOK' /\ Holding'
  OBVIOUS
<1>1. CASE Swap
  BY SMTT(60), <1>1, CapAssumption DEF Swap, TypeOK, Holding, conns, query, Upstream
<1>2. ASSUME NEW q \in Query, Start(q) \/ Step(q) PROVE TypeOK' /\ Holding'
  BY <1>2, CheckoutType, ConnectType, SendType, ExchangeFailsType, ReceiveType,
     ReturnType DEF Step
<1>3. CASE UNCHANGED vars
  BY <1>3 DEF vars, conns, query, TypeOK, Holding
<1> QED
  BY <1>1, <1>2, <1>3, ArriveType DEF Next

\* Every variable stays in its type: what returns to a pool is a connection,
\* because a query holds one as long as it exchanges a message (TypeOK).
THEOREM TypeCorrect == Spec => [](TypeOK /\ Holding)
BY TypeInit, TypeStep, PTL DEF Spec

-----------------------------------------------------------------------------
(* Where connections are *)

\* Checkout takes one connection out of the place it has in the pool ...
LEMMA PoolPopped ==
    ASSUME TypeOK, NEW q \in Query, Checkout(q)
    PROVE  \E n \in DOMAIN pool[up[q]][via[q]] :
              /\ held' = [held EXCEPT ![q] = pool[up[q]][via[q]][n]]
              /\ \A g \in Upstream, t \in Transport :
                    \A i \in DOMAIN pool'[g][t] :
                       /\ i \in DOMAIN pool[g][t]
                       /\ <<g, t, i>> # <<up[q], via[q], n>>
                       /\ pool'[g][t][i] = pool[g][t][i]
<1> DEFINE s == Idle(q)
<1>1. /\ s \in Seq(Conn) /\ s # <<>> /\ s = pool[up[q]][via[q]]
      /\ up[q] \in Upstream /\ via[q] \in Transport
  BY QueryType DEF Checkout, Idle
<1> DEFINE r == SubSeq(s, 1, Len(s) - 1)
<1>2. /\ Len(s) \in DOMAIN s /\ DOMAIN r = DOMAIN s \ {Len(s)}
      /\ \A i \in DOMAIN r : r[i] = s[i]
  BY SMTT(60), <1>1, Popped
<1>3. /\ held' = [held EXCEPT ![q] = s[Len(s)]]
      /\ pool' = [pool EXCEPT ![up[q]][via[q]] = r]
  BY DEF Checkout
<1>4. pool \in [Upstream -> [Transport -> Seq(Conn)]]
  BY DEF TypeOK
<1>5. ASSUME NEW g \in Upstream, NEW t \in Transport, NEW i \in DOMAIN pool'[g][t]
      PROVE  /\ i \in DOMAIN pool[g][t]
             /\ <<g, t, i>> # <<up[q], via[q], Len(s)>>
             /\ pool'[g][t][i] = pool[g][t][i]
  <2> HIDE DEF r
  <2>1. pool'[g][t] = IF g = up[q] /\ t = via[q] THEN r ELSE pool[g][t]
    BY <1>1, <1>3, <1>4
  <2> HIDE DEF s
  <2> QED
    BY <1>1, <1>2, <1>5, <2>1
<1>6. /\ Len(s) \in DOMAIN pool[up[q]][via[q]]
      /\ held' = [held EXCEPT ![q] = pool[up[q]][via[q]][Len(s)]]
  BY SMTT(60), <1>1, <1>2, <1>3
<1> HIDE DEF s
<1> QED
  BY <1>5, <1>6

\* ... and Return puts one into a new place.
LEMMA PoolPushed ==
    ASSUME TypeOK, Holding, NEW q \in Query, Return(q)
    PROVE  \E n \in Nat :
              /\ n \notin DOMAIN pool[up[q]][via[q]]
              /\ \A g \in Upstream, t \in Transport :
                    \A i \in DOMAIN pool'[g][t] :
                       \/ <<g, t, i>> = <<up[q], via[q], n>> /\ pool'[g][t][i] = held[q]
                       \/ i \in DOMAIN pool[g][t] /\ pool'[g][t][i] = pool[g][t][i]
<1> DEFINE s == Idle(q)
           r == Append(s, held[q])
<1>1. /\ s \in Seq(Conn) /\ s = pool[up[q]][via[q]] /\ held[q] \in Conn
      /\ up[q] \in Upstream /\ via[q] \in Transport
  BY QueryType DEF Idle, Return, Holding
<1>2. /\ Len(s) + 1 \in Nat /\ Len(s) + 1 \notin DOMAIN s
      /\ DOMAIN r = DOMAIN s \cup {Len(s) + 1}
      /\ \A i \in DOMAIN s : r[i] = s[i]
      /\ r[Len(s) + 1] = held[q]
  BY SMTT(60), <1>1, Pushed
<1>4. pool \in [Upstream -> [Transport -> Seq(Conn)]]
  BY DEF TypeOK
<1>3. pool' = [pool EXCEPT ![up[q]][via[q]] = r]
  <2>1. pool' = [pool EXCEPT ![up[q]][via[q]] = Append(@, held[q])]
    BY DEF Return
  <2> QED
    BY <1>1, <1>4, <2>1
<1>5. ASSUME NEW g \in Upstream, NEW t \in Transport, NEW i \in DOMAIN pool'[g][t]
      PROVE  \/ <<g, t, i>> = <<up[q], via[q], Len(s) + 1>> /\ pool'[g][t][i] = held[q]
             \/ i \in DOMAIN pool[g][t] /\ pool'[g][t][i] = pool[g][t][i]
  <2> HIDE DEF r
  <2>1. pool'[g][t] = IF g = up[q] /\ t = via[q] THEN r ELSE pool[g][t]
    BY <1>1, <1>3, <1>4
  <2> HIDE DEF s
  <2> QED
    BY <1>1, <1>2, <1>5, <2>1
<1> HIDE DEF s
<1> QED
  BY <1>1, <1>2, <1>5

Places == TypeOK /\ Holding /\ Alive /\ Exclusive /\ NoCrossing

LEMMA PlacesInit == Init => Alive /\ Exclusive /\ NoCrossing
BY DEF Init, Alive, Exclusive, NoCrossing

LEMMA CheckoutPlaces ==
    ASSUME Places, NEW q \in Query, Checkout(q)
    PROVE  Alive' /\ Exclusive' /\ NoCrossing'
<1>0. Alive /\ Exclusive /\ NoCrossing /\ TypeOK
  BY DEF Places
<1>1. PICK n \in DOMAIN pool[up[q]][via[q]] :
         /\ held' = [held EXCEPT ![q] = pool[up[q]][via[q]][n]]
         /\ \A g \in Upstream, t \in Transport :
               \A i \in DOMAIN pool'[g][t] :
                  /\ i \in DOMAIN pool[g][t]
                  /\ <<g, t, i>> # <<up[q], via[q], n>>
                  /\ pool'[g][t][i] = pool[g][t][i]
  BY <1>0, PoolPopped
<1> DEFINE c == pool[up[q]][via[q]][n]
<1>2. UNCHANGED <<open, peer, up>> /\ up[q] \in Upstream /\ via[q] \in Transport
  BY <1>0 DEF Checkout, conns, TypeOK
<1>3. \A r \in Query : held'[r] = IF r = q THEN c ELSE held[r]
  BY <1>0, <1>1 DEF TypeOK
<1>4. c \in open /\ peer[c] = up[q] /\ \A r \in Query : held[r] # c
  BY <1>0, <1>2 DEF Alive, NoCrossing, Exclusive
<1>5. \A g \in Upstream, t \in Transport : \A i \in DOMAIN pool'[g][t] :
         pool[g][t][i] # c
  BY <1>0, <1>1, <1>2 DEF Exclusive
<1> HIDE DEF c
<1>6. Alive'
  BY <1>0, <1>1, <1>2, <1>3, <1>4 DEF Alive
<1>7. NoCrossing'
  BY <1>0, <1>1, <1>2, <1>3, <1>4 DEF NoCrossing
<1>8. Exclusive'
  BY <1>0, <1>1, <1>3, <1>4, <1>5 DEF Exclusive
<1> QED
  BY <1>6, <1>7, <1>8

LEMMA ConnectPlaces ==
    ASSUME Places, NEW q \in Query, Connect(q)
    PROVE  Alive' /\ Exclusive' /\ NoCrossing'
<1>0. Alive /\ Exclusive /\ NoCrossing /\ TypeOK /\ Holding
  BY DEF Places
<1>1. PICK c \in Conn \ open :
         /\ open' = open \cup {c}
         /\ peer' = [peer EXCEPT ![c] = up[q]]
         /\ held' = [held EXCEPT ![q] = c]
  BY DEF Connect
<1>2. UNCHANGED <<pool, up>>
  BY DEF Connect
<1>3. /\ \A r \in Query : held'[r] = IF r = q THEN c ELSE held[r]
      /\ peer'[c] = up[q] /\ \A d \in Conn : d # c => peer'[d] = peer[d]
      /\ open \subseteq Conn
  BY <1>0, <1>1 DEF TypeOK
<1>4. Alive'
  BY <1>0, <1>1, <1>2, <1>3 DEF Alive
<1>5. NoCrossing'
  BY <1>0, <1>1, <1>2, <1>3 DEF NoCrossing, Alive
<1>6. Exclusive'
  BY <1>0, <1>1, <1>2, <1>3 DEF Exclusive, Alive
<1> QED
  BY <1>4, <1>5, <1>6

\* The dropped connection was in one place only, so nothing else is closed.
LEMMA DropPlaces ==
    ASSUME Places, NEW q \in Query, pc[q] \in {"send", "recv", "return"},
           Drop(q), UNCHANGED <<pool, up>>
    PROVE  Alive' /\ Exclusive' /\ NoCrossing'
<1>0. Alive /\ Exclusive /\ NoCrossing /\ TypeOK /\ held[q] # NoConn
  BY DEF Places, Holding
<1>1. \A r \in Query : held'[r] = IF r = q THEN NoConn ELSE held[r]
  BY <1>0 DEF Drop, TypeOK
<1>2. open' = open \ {held[q]} /\ peer' = peer
  BY DEF Drop
<1>3. Alive'
  BY <1>0, <1>1, <1>2 DEF Alive, Exclusive
<1>4. NoCrossing'
  BY <1>0, <1>1, <1>2 DEF NoCrossing
<1>5. Exclusive'
  <2>1. \A r, s \in Query : r # s /\ held'[r] = held'[s] => held'[r] = NoConn
    BY <1>0, <1>1 DEF Exclusive
  <2>2. \A g \in Upstream, t \in Transport : \A i \in DOMAIN pool[g][t] :
           \A r \in Query : pool[g][t][i] # held'[r]
    BY SMTT(60), <1>0, <1>1, NullAssumption DEF Exclusive, Alive, TypeOK
  <2> QED
    BY <1>0, <2>1, <2>2 DEF Exclusive
<1> QED
  BY <1>3, <1>4, <1>5

LEMMA ReturnPlaces ==
    ASSUME Places, NEW q \in Query, Return(q)
    PROVE  Alive' /\ Exclusive' /\ NoCrossing'
<1>0. Alive /\ Exclusive /\ NoCrossing /\ TypeOK /\ Holding
  BY DEF Places
<1>1. PICK n \in Nat :
         /\ n \notin DOMAIN pool[up[q]][via[q]]
         /\ \A g \in Upstream, t \in Transport :
               \A i \in DOMAIN pool'[g][t] :
                  \/ <<g, t, i>> = <<up[q], via[q], n>> /\ pool'[g][t][i] = held[q]
                  \/ i \in DOMAIN pool[g][t] /\ pool'[g][t][i] = pool[g][t][i]
  BY <1>0, PoolPushed
<1>2. /\ UNCHANGED <<open, peer, up>>
      /\ held[q] # NoConn /\ held[q] \in open /\ peer[held[q]] = up[q]
  BY <1>0 DEF Return, conns, Holding, Alive, NoCrossing
<1>3. \A r \in Query : held'[r] = IF r = q THEN NoConn ELSE held[r]
  BY <1>0 DEF Return, TypeOK
<1>4. Alive'
  BY <1>0, <1>1, <1>2, <1>3 DEF Alive
<1>5. NoCrossing'
  BY <1>0, <1>1, <1>2, <1>3 DEF NoCrossing
<1>6. Exclusive'
  <2>1. \A r, s \in Query : r # s /\ held'[r] = held'[s] => held'[r] = NoConn
    BY <1>0, <1>3 DEF Exclusive
  <2>2. NoConn \notin open
    BY <1>0, NullAssumption DEF TypeOK
  <2>3. \A r \in Query : r # q => held[r] # held[q]
    BY <1>0, <1>2 DEF Exclusive
  <2>4. ASSUME NEW g \in Upstream, NEW t \in Transport, NEW i \in DOMAIN pool'[g][t],
               NEW r \in Query
        PROVE  pool'[g][t][i] # held'[r]
    BY <1>0, <1>1, <1>2, <1>3, <2>2, <2>3 DEF Exclusive, Alive
  <2>5. ASSUME NEW g \in Upstream, NEW h \in Upstream,
               NEW s \in Transport, NEW t \in Transport,
               NEW i \in DOMAIN pool'[g][s], NEW j \in DOMAIN pool'[h][t],
               pool'[g][s][i] = pool'[h][t][j]
        PROVE  <<g, s, i>> = <<h, t, j>>
    BY <1>0, <1>1, <2>5 DEF Exclusive
  <2> QED
    BY <2>1, <2>4, <2>5 DEF Exclusive
<1> QED
  BY <1>4, <1>5, <1>6

\* The other steps leave every connection where it is; Start comes before a
\* query holds one.
LEMMA StayPlaces ==
    ASSUME Places, UNCHANGED <<pool, open, peer, held>>,
           \A q \in Query : held[q] # NoConn => up'[q] = up[q]
    PROVE  Alive' /\ Exclusive' /\ NoCrossing'
BY DEF Places, Alive, Exclusive, NoCrossing

LEMMA PlacesStep == Places /\ [Next]_vars => Places'
<1> SUFFICES ASSUME Places, [Next]_vars PROVE Alive' /\ Exclusive' /\ NoCrossing'
  BY TypeStep DEF Places
<1>1. ASSUME NEW q \in Query, Start(q) PROVE Alive' /\ Exclusive' /\ NoCrossing'
  BY <1>1, StayPlaces DEF Places, Start, Holding, TypeOK, conns
<1>2. ASSUME NEW q \in Query, ConnectFails(q) \/ Send(q) \/ Receive(q)
      PROVE  Alive' /\ Exclusive' /\ NoCrossing'
  BY <1>2, StayPlaces DEF ConnectFails, Send, Receive, conns
<1>3. ASSUME NEW q \in Query, ExchangeFails(q) \/ Mismatch(q) \/ ReturnFull(q)
      PROVE  Alive' /\ Exclusive' /\ NoCrossing'
  BY <1>3, DropPlaces DEF ExchangeFails, Mismatch, ReturnFull
<1>4. ASSUME NEW c \in Conn, NEW q \in Query, Deliver(c, q) \/ Duplicate(c, q)
      PROVE  Alive' /\ Exclusive' /\ NoCrossing'
  BY <1>4, StayPlaces DEF Deliver, Duplicate, query
<1>5. CASE Swap \/ UNCHANGED vars
  BY <1>5, StayPlaces DEF Swap, vars, conns, query
<1> QED
  BY <1>1, <1>2, <1>3, <1>4, <1>5, CheckoutPlaces, ConnectPlaces, ReturnPlaces
  DEF Next, Step

LEMMA PlacesHold == Spec => [](Exclusive /\ NoCrossing)
<1>1. Init => Places
  BY TypeInit, PlacesInit DEF Places
<1>2. Places => Exclusive /\ NoCrossing
  BY DEF Places
<1> QED
  BY <1>1, <1>2, PlacesStep, PTL DEF Spec

\* A connection is held by one query or is in one pool, once, through every
\* interleaving of checkouts, returns, failures and swaps (Exclusive).
THEOREM OneHolder == Spec => []Exclusive
<1>1. [](Exclusive /\ NoCrossing) => []Exclusive
  BY PTL
<1> QED
  BY <1>1, PlacesHold

\* A connection leads to the upstream of the query or pool that has it, however
\* a swap of the handle comes between (NoCrossing).
THEOREM NoneCrosses == Spec => []NoCrossing
<1>1. [](Exclusive /\ NoCrossing) => []NoCrossing
  BY PTL
<1> QED
  BY <1>1, PlacesHold

-----------------------------------------------------------------------------
(* Where replies are *)

Flow == Awaited /\ OnSockets /\ Once /\ Twice /\ AnswersInId

LEMMA FlowInit == Init => Flow
BY DEF Init, Flow, Awaited, OnSockets, Once, Twice, AnswersInId, Carries

\* A step that starts no query and duplicates no reply stains none.
LEMMA StainSame ==
    ASSUME UNCHANGED <<via, twice>>,
           \A r \in Query : pc'[r] = "new" <=> pc[r] = "new"
    PROVE  \A r \in Query : Stained(r)' <=> Stained(r)
BY DEF Stained

\* A query starts: no reply to it is anywhere.
LEMMA StartFlow ==
    ASSUME Places, Flow, NEW q \in Query, Start(q) PROVE Flow'
<1>0. /\ TypeOK /\ Holding /\ Awaited /\ OnSockets /\ Once /\ Twice /\ AnswersInId
      /\ pc[q] = "new" /\ held[q] = NoConn
  BY DEF Places, Flow, Start, Holding
<1>1. /\ \A r \in Query : r # q => via'[r] = via[r] /\ pc'[r] = pc[r]
      /\ pc'[q] = "checkout"
      /\ UNCHANGED <<pool, open, sent, inbox, twice, held, answer>>
  BY <1>0 DEF Start, Goto, conns, TypeOK
<1>2. ~Stained(q) /\ \A c \in Conn : ~Carries(c, q)
  BY <1>0 DEF Awaited, Awaits, Stained
<1>3. \A r \in Query : r # q => (Stained(r)' <=> Stained(r))
  BY <1>1 DEF Stained
<1>4. \A c \in Conn, r \in Query :
         Carries(c, r)' <=> Carries(c, r)
  BY <1>1 DEF Carries
<1>5. Awaited'
  BY <1>0, <1>1, <1>2, <1>3, <1>4 DEF Awaited, Awaits
<1>6. OnSockets'
  <2>1. \A c \in Conn, g \in Upstream : Pooled(g, "tcp", c)' <=> Pooled(g, "tcp", c)
    BY <1>1 DEF Pooled
  <2>2. \A c \in Conn : held[q] # c
    BY <1>0, NullAssumption
  <2> QED
    BY <1>0, <1>1, <1>2, <1>3, <1>4, <2>1, <2>2 DEF OnSockets
<1>7. Once'
  BY <1>0, <1>1, <1>2, <1>3 DEF Once, Carries
<1>8. Twice'
  BY <1>0, <1>1 DEF Twice, TypeOK
<1>9. AnswersInId'
  BY <1>0, <1>1, <1>2, <1>3 DEF AnswersInId
<1> QED
  BY <1>5, <1>6, <1>7, <1>8, <1>9 DEF Flow

\* A query that has no reply under way moves on, or gets a connection that
\* carries none or is of its own transport.
LEMMA MoveFlow ==
    ASSUME Places, Flow, NEW q \in Query, NEW l \in Label \ {"new", "recv"},
           pc[q] \notin {"new", "recv"}, Goto(q, l),
           UNCHANGED <<sent, inbox, twice, via, answer>>, open \subseteq open',
           \A r \in Query : r # q => held'[r] = held[r],
           \A c \in Conn : held'[q] = c => \/ held[q] = c
                                           \/ Pooled(up[q], via[q], c)
                                           \/ c \notin open,
           \A g \in Upstream, c \in Conn : Pooled(g, "tcp", c)' =>
               Pooled(g, "tcp", c) \/ (held[q] = c /\ via[q] = "tcp")
    PROVE  Flow'
<1>0. TypeOK /\ Awaited /\ OnSockets /\ Once /\ Twice /\ AnswersInId
  BY DEF Places, Flow
<1>1. /\ \A r \in Query : r # q => pc'[r] = pc[r]
      /\ pc'[q] = l
      /\ up[q] \in Upstream /\ via[q] \in Transport
  BY <1>0 DEF Goto, TypeOK
<1>2. \A r \in Query : Stained(r)' <=> Stained(r)
  BY <1>1, StainSame
<1>3. \A c \in Conn, r \in Query : Carries(c, r)' <=> Carries(c, r)
  BY DEF Carries
<1>4. Awaited'
  BY <1>0, <1>1, <1>2, <1>3 DEF Awaited, Awaits
<1>5. OnSockets'
  <2> SUFFICES ASSUME NEW c \in Conn, NEW r \in Query, Carries(c, r), Stained(r)
               PROVE  /\ \A s \in Query : held'[s] = c => via[s] = "udp"
                      /\ \A g \in Upstream : ~Pooled(g, "tcp", c)'
    BY <1>2, <1>3 DEF OnSockets
  <2>1. /\ \A s \in Query : held[s] = c => via[s] = "udp"
        /\ \A g \in Upstream : ~Pooled(g, "tcp", c)
        /\ c \in open
    BY <1>0 DEF OnSockets, Awaited
  <2>2. held'[q] = c => via[q] = "udp"
    BY <1>1, <2>1 DEF Transport
  <2> QED
    BY <2>1, <2>2
<1>6. Once'
  BY <1>0, <1>2 DEF Once
<1>7. Twice'
  BY <1>0, <1>1 DEF Twice, TypeOK
<1>8. AnswersInId'
  BY <1>0, <1>2 DEF AnswersInId
<1> QED
  BY <1>4, <1>5, <1>6, <1>7, <1>8 DEF Flow

LEMMA CheckoutFlow ==
    ASSUME Places, Flow, NEW q \in Query, Checkout(q) PROVE Flow'
<1>0. TypeOK
  BY DEF Places
<1>1. PICK n \in DOMAIN pool[up[q]][via[q]] :
         /\ held' = [held EXCEPT ![q] = pool[up[q]][via[q]][n]]
         /\ \A g \in Upstream, t \in Transport :
               \A i \in DOMAIN pool'[g][t] :
                  /\ i \in DOMAIN pool[g][t]
                  /\ <<g, t, i>> # <<up[q], via[q], n>>
                  /\ pool'[g][t][i] = pool[g][t][i]
  BY <1>0, PoolPopped
<1>2. \A c \in Conn : held'[q] = c => Pooled(up[q], via[q], c)
  BY <1>0, <1>1 DEF Pooled, TypeOK
<1>3. \A r \in Query : r # q => held'[r] = held[r]
  BY <1>0, <1>1 DEF TypeOK
<1>4. \A g \in Upstream, c \in Conn :
         Pooled(g, "tcp", c)' => Pooled(g, "tcp", c)
  BY <1>1 DEF Pooled, Transport
<1>5. /\ pc[q] = "checkout" /\ Goto(q, "send")
      /\ UNCHANGED <<open, sent, inbox, twice, via, answer>>
  BY DEF Checkout, conns
<1> QED
  BY <1>2, <1>3, <1>4, <1>5, MoveFlow DEF Label

LEMMA ConnectFlow ==
    ASSUME Places, Flow, NEW q \in Query, Connect(q) \/ ConnectFails(q)
    PROVE  Flow'
<1>0. TypeOK
  BY DEF Places
<1>1. CASE Connect(q)
  <2>1. PICK c \in Conn \ open :
           /\ open' = open \cup {c}
           /\ held' = [held EXCEPT ![q] = c]
    BY <1>1 DEF Connect
  <2>2. /\ held'[q] = c /\ \A r \in Query : r # q => held'[r] = held[r]
    BY <1>0, <2>1 DEF TypeOK
  <2>3. /\ pc[q] \in {"checkout", "connect"} /\ Goto(q, "send")
        /\ UNCHANGED <<pool, sent, inbox, twice, via, answer>>
    BY <1>1 DEF Connect
  <2>4. \A g \in Upstream, d \in Conn : Pooled(g, "tcp", d)' => Pooled(g, "tcp", d)
    BY <2>3 DEF Pooled
  <2> QED
    BY <2>1, <2>2, <2>3, <2>4, MoveFlow DEF Label
<1>2. CASE ConnectFails(q)
  <2>1. /\ pc[q] \in {"checkout", "connect"} /\ Goto(q, "failed")
        /\ UNCHANGED <<pool, open, sent, inbox, twice, via, held, answer>>
    BY <1>2 DEF ConnectFails, conns
  <2>2. \A g \in Upstream, d \in Conn : Pooled(g, "tcp", d)' => Pooled(g, "tcp", d)
    BY <2>1 DEF Pooled
  <2> QED
    BY <2>1, <2>2, MoveFlow DEF Label
<1> QED
  BY <1>1, <1>2

LEMMA ReturnFlow ==
    ASSUME Places, Flow, NEW q \in Query, Return(q) PROVE Flow'
<1>0. TypeOK /\ Holding
  BY DEF Places
<1>1. PICK n \in Nat :
         \A g \in Upstream, t \in Transport : \A i \in DOMAIN pool'[g][t] :
            \/ <<g, t, i>> = <<up[q], via[q], n>> /\ pool'[g][t][i] = held[q]
            \/ i \in DOMAIN pool[g][t] /\ pool'[g][t][i] = pool[g][t][i]
  BY <1>0, PoolPushed
<1>2. \A g \in Upstream, c \in Conn : Pooled(g, "tcp", c)' =>
         Pooled(g, "tcp", c) \/ (held[q] = c /\ via[q] = "tcp")
  BY <1>1 DEF Pooled, Transport
<1>3. /\ pc[q] = "return" /\ Goto(q, "done")
      /\ held' = [held EXCEPT ![q] = NoConn]
      /\ UNCHANGED <<open, sent, inbox, twice, via, answer>>
  BY DEF Return, conns
<1>4. /\ \A r \in Query : r # q => held'[r] = held[r]
      /\ \A c \in Conn : held'[q] # c
  BY <1>0, <1>3, NullAssumption DEF TypeOK
<1> QED
  BY <1>2, <1>3, <1>4, MoveFlow DEF Label

\* A dropped connection takes its replies with it.
LEMMA DropFlow ==
    ASSUME Places, Flow, NEW q \in Query, NEW l \in Label \ {"new", "recv"},
           pc[q] \in {"send", "recv", "return"}, Drop(q), Goto(q, l),
           UNCHANGED <<pool, twice, via, answer>>
    PROVE  Flow'
<1>0. TypeOK /\ Awaited /\ OnSockets /\ Once /\ Twice /\ AnswersInId
  BY DEF Places, Flow
<1>1. /\ \A r \in Query : pc'[r] = IF r = q THEN l ELSE pc[r]
      /\ \A r \in Query : held'[r] = IF r = q THEN NoConn ELSE held[r]
      /\ held[q] \in Conn /\ open' = open \ {held[q]}
  BY <1>0 DEF Goto, Drop, Places, Holding, TypeOK
<1>2. \A r \in Query : Stained(r)' <=> Stained(r)
  BY <1>1, StainSame
<1>3. /\ \A c \in Conn : sent'[c] = IF c = held[q] THEN {} ELSE sent[c]
      /\ \A c \in Conn : inbox'[c] = IF c = held[q] THEN <<>> ELSE inbox[c]
  BY <1>0 DEF Drop, TypeOK
<1>4. \A c \in Conn, r \in Query : Carries(c, r)' => c # held[q] /\ Carries(c, r)
  BY <1>3 DEF Carries
<1>5. Awaited'
  BY <1>0, <1>1, <1>2, <1>4 DEF Awaited, Awaits
<1>6. OnSockets'
  <2>1. \A g \in Upstream, c \in Conn : Pooled(g, "tcp", c)' <=> Pooled(g, "tcp", c)
    BY DEF Pooled
  <2> QED
    BY <1>0, <1>1, <1>2, <1>4, <2>1, NullAssumption DEF OnSockets
<1>7. Once'
  <2> SUFFICES ASSUME NEW c \in Conn, NEW r \in Query, ~Stained(r)
               PROVE  /\ r \in sent'[c] => \A i \in DOMAIN inbox'[c] : inbox'[c][i] # r
                      /\ \A i, j \in DOMAIN inbox'[c] :
                            inbox'[c][i] = r /\ inbox'[c][j] = r => i = j
    BY <1>2 DEF Once
  <2>1. CASE c = held[q]
    BY <1>3, <2>1
  <2>2. CASE c # held[q]
    BY <1>0, <1>3, <2>2 DEF Once
  <2> QED
    BY <2>1, <2>2
<1>8. Twice'
  BY <1>0, <1>1 DEF Twice, TypeOK
<1>9. AnswersInId'
  BY <1>0, <1>2 DEF AnswersInId
<1> QED
  BY <1>5, <1>6, <1>7, <1>8, <1>9 DEF Flow

\* A query that sends has no reply under way, unless it is stained.
LEMMA SendFlow ==
    ASSUME Places, Flow, NEW q \in Query, Send(q) PROVE Flow'
<1>0. TypeOK /\ Awaited /\ OnSockets /\ Once /\ Twice /\ AnswersInId
  BY DEF Places, Flow
<1>1. /\ \A r \in Query : pc'[r] = IF r = q THEN "recv" ELSE pc[r]
      /\ pc[q] = "send" /\ held[q] \in Conn /\ held[q] \in open
      /\ UNCHANGED <<pool, open, inbox, twice, via, held, answer>>
  BY <1>0 DEF Send, Goto, Places, Holding, Alive, TypeOK
<1>2. \A r \in Query : Stained(r)' <=> Stained(r)
  BY <1>1, StainSame
<1>3. \A c \in Conn : sent'[c] = IF c = held[q] THEN sent[c] \cup {q} ELSE sent[c]
  BY <1>0 DEF Send, TypeOK
<1>4. \A c \in Conn, r \in Query :
         Carries(c, r)' => Carries(c, r) \/ (c = held[q] /\ r = q)
  BY ZenonT(60), <1>1, <1>3 DEF Carries
<1>5. Awaited'
  BY <1>0, <1>1, <1>2, <1>4 DEF Awaited, Awaits
<1>6. OnSockets'
  <2>1. \A g \in Upstream, c \in Conn : Pooled(g, "tcp", c)' <=> Pooled(g, "tcp", c)
    BY <1>1 DEF Pooled
  <2>2. ASSUME Stained(q)
        PROVE  /\ \A r \in Query : held[r] = held[q] => via[r] = "udp"
               /\ \A g \in Upstream : ~Pooled(g, "tcp", held[q])
    <3>1. via[q] = "udp" /\ held[q] # NoConn
      BY <1>1, <2>2, NullAssumption DEF Stained
    <3>2. \A r \in Query : held[r] = held[q] => r = q
      BY <3>1 DEF Places, Exclusive
    <3>3. \A g \in Upstream : ~Pooled(g, "tcp", held[q])
      BY DEF Places, Exclusive, Pooled, Transport
    <3> QED
      BY <3>1, <3>2, <3>3
  <2> QED
    BY <1>0, <1>1, <1>2, <1>4, <2>1, <2>2 DEF OnSockets
<1>7. Once'
  <2>1. \A c \in Conn : Carries(c, q) => Stained(q)
    BY <1>0, <1>1 DEF Awaited, Awaits
  <2>2. \A r \in Query, c \in Conn :
           r \in sent'[c] => r \in sent[c] \/ (r = q /\ c = held[q])
    BY <1>3
  <2> QED
    BY <1>0, <1>1, <1>2, <2>1, <2>2 DEF Once, Carries
<1>8. Twice'
  BY <1>0, <1>1 DEF Twice, TypeOK
<1>9. AnswersInId'
  BY <1>0, <1>1, <1>2 DEF AnswersInId
<1> QED
  BY <1>5, <1>6, <1>7, <1>8, <1>9 DEF Flow

\* A query that reads a reply other than its own, on UDP, is stained itself;
\* one that reads its own has no other on its connection, unless stained.
LEMMA ReceiveFlow ==
    ASSUME Places, Flow, NEW q \in Query, Receive(q) PROVE Flow'
<1>0. TypeOK /\ Awaited /\ OnSockets /\ Once /\ Twice /\ AnswersInId
  BY DEF Places, Flow
<1>h. PICK c \in Conn : c = held[q]
  BY <1>0 DEF Receive, Places, Holding, TypeOK
<1> DEFINE r == Head(inbox[c])
           rest == Tail(inbox[c])
<1>1. /\ \A s \in Query : pc'[s] = IF s = q THEN "return" ELSE pc[s]
      /\ pc[q] = "recv" /\ c \in Conn /\ Accepts(q, r)
      /\ inbox[c] \in Seq(Query) /\ inbox[c] # <<>>
      /\ UNCHANGED <<pool, open, sent, twice, via, held>>
  BY <1>0, <1>h DEF Receive, Goto, Places, Holding, TypeOK
<1>2. \A s \in Query : Stained(s)' <=> Stained(s)
  BY <1>1, StainSame
<1>3. /\ \A d \in Conn : inbox'[d] = IF d = c THEN rest ELSE inbox[d]
      /\ \A s \in Query : answer'[s] = IF s = q THEN r ELSE answer[s]
  BY <1>0, <1>1, <1>h DEF Receive, TypeOK
<1>4. /\ r \in Query /\ 1 \in DOMAIN inbox[c] /\ r = inbox[c][1]
      /\ \A i \in DOMAIN rest :
            /\ i \in Nat \ {0} /\ i + 1 \in DOMAIN inbox[c]
            /\ rest[i] = inbox[c][i + 1]
  BY <1>1, ReadOff
<1> HIDE DEF r, rest
<1>5. Carries(c, r)
  BY <1>1, <1>4 DEF Carries
<1>6. \A d \in Conn, s \in Query : Carries(d, s)' => Carries(d, s)
  <2>1. \A d \in Conn : \A i \in DOMAIN inbox'[d] :
           \E j \in DOMAIN inbox[d] : inbox[d][j] = inbox'[d][i]
    BY <1>3, <1>4
  <2> QED
    BY <1>1, <2>1 DEF Carries
\* The reply that is read, and what stays behind it.
<1>7. r = q \/ (Stained(q) /\ IdOf[r] = IdOf[q])
  <2> SUFFICES ASSUME r # q PROVE Stained(q) /\ IdOf[r] = IdOf[q]
    OBVIOUS
  <2>1. Stained(r)
    BY <1>0, <1>1, <1>4, <1>5, <1>h, NullAssumption DEF Awaited, Awaits, Places, Exclusive
  <2>2. via[q] = "udp"
    BY <1>0, <1>1, <1>4, <1>5, <1>h, <2>1 DEF OnSockets
  <2> QED
    BY <1>1, <2>1, <2>2 DEF Accepts, Stained
<1>8. Carries(c, q)' => Stained(q)
  <2> SUFFICES ASSUME ~Stained(q), Carries(c, q)' PROVE FALSE
    OBVIOUS
  <2>1. r = q /\ q = inbox[c][1]
    BY <1>4, <1>7
  <2>2. q \notin sent[c]
    BY <1>0, <1>1, <1>4, <2>1 DEF Once
  <2>3. \A i \in DOMAIN rest : rest[i] # q
    <3> SUFFICES ASSUME NEW i \in DOMAIN rest, rest[i] = q
                 PROVE  FALSE
      OBVIOUS
    <3>1. i \in Nat \ {0} /\ i + 1 \in DOMAIN inbox[c] /\ inbox[c][i + 1] = q
      BY <1>4
    <3>2. 1 = i + 1
      BY <1>0, <1>1, <1>4, <2>1, <3>1 DEF Once
    <3> QED
      BY <3>1, <3>2
  <2> QED
    BY <1>1, <1>3, <2>2, <2>3 DEF Carries
<1>9. Awaited'
  BY <1>0, <1>1, <1>2, <1>6, <1>8, <1>h DEF Awaited, Awaits
<1>10. OnSockets'
  <2>1. \A g \in Upstream, d \in Conn : Pooled(g, "tcp", d)' <=> Pooled(g, "tcp", d)
    BY <1>1 DEF Pooled
  <2> QED
    BY <1>0, <1>1, <1>2, <1>6, <2>1 DEF OnSockets
<1>11. Once'
  <2> SUFFICES ASSUME NEW d \in Conn, NEW s \in Query, ~Stained(s)
               PROVE  /\ s \in sent[d] => \A i \in DOMAIN inbox'[d] : inbox'[d][i] # s
                      /\ \A i, j \in DOMAIN inbox'[d] :
                            inbox'[d][i] = s /\ inbox'[d][j] = s => i = j
    BY <1>1, <1>2 DEF Once
  <2>1. /\ s \in sent[d] => \A i \in DOMAIN inbox[d] : inbox[d][i] # s
        /\ \A i, j \in DOMAIN inbox[d] : inbox[d][i] = s /\ inbox[d][j] = s => i = j
    BY <1>0 DEF Once
  <2>2. CASE d # c
    BY <1>3, <2>1, <2>2
  <2>3. CASE d = c
    <3>1. inbox'[d] = rest
      BY <1>3, <2>3
    <3>2. s \in sent[d] => \A i \in DOMAIN inbox'[d] : inbox'[d][i] # s
      BY <1>4, <2>1, <2>3, <3>1
    <3>3. ASSUME NEW i \in DOMAIN inbox'[d], NEW j \in DOMAIN inbox'[d],
                 inbox'[d][i] = s, inbox'[d][j] = s
          PROVE  i = j
      <4>1. /\ i \in Nat /\ j \in Nat
            /\ i + 1 \in DOMAIN inbox[d] /\ inbox[d][i + 1] = s
            /\ j + 1 \in DOMAIN inbox[d] /\ inbox[d][j + 1] = s
        BY <1>4, <2>3, <3>1, <3>3
      <4>2. i + 1 = j + 1
        BY <2>1, <4>1
      <4> QED
        BY <4>1, <4>2
    <3> QED
      BY <3>2, <3>3
  <2> QED
    BY <2>2, <2>3
<1>12. Twice'
  BY <1>0, <1>1 DEF Twice, TypeOK
<1>13. AnswersInId'
  BY <1>0, <1>2, <1>3, <1>4, <1>7 DEF AnswersInId
<1> QED
  BY <1>9, <1>10, <1>11, <1>12, <1>13 DEF Flow

\* A reply that arrives was already under way to the connection.
LEMMA ArriveFlow ==
    ASSUME Places, Flow, NEW c \in Conn, NEW q \in Query, Arrive(c, q),
           UNCHANGED <<pool, open, query>>,
           \A d \in Conn : sent'[d] \subseteq sent[d]
    PROVE  /\ \A d \in Conn, s \in Query : Carries(d, s)' => Carries(d, s)
           /\ Carries(c, q)
           /\ \A d \in Conn, s \in Query : s # q =>
                 Stained(s) \/
                    /\ s \in sent'[d] => \A i \in DOMAIN inbox'[d] : inbox'[d][i] # s
                    /\ \A i, j \in DOMAIN inbox'[d] :
                          inbox'[d][i] = s /\ inbox'[d][j] = s => i = j
<1>1. /\ q \in sent[c] /\ inbox \in [Conn -> Seq(Query)] /\ inbox[c] \in Seq(Query)
      /\ inbox' = [inbox EXCEPT ![c] = Append(inbox[c], q)]
  BY DEF Arrive, Places, TypeOK
<1> DEFINE more == Append(inbox[c], q)
           n == Len(inbox[c]) + 1
<1>2. /\ DOMAIN more = DOMAIN inbox[c] \cup {n}
      /\ \A i \in DOMAIN inbox[c] : more[i] = inbox[c][i]
      /\ more[n] = q
  BY <1>1, Pushed
<1>3. \A d \in Conn : inbox'[d] = IF d = c THEN more ELSE inbox[d]
  BY <1>1
<1> HIDE DEF more, n
<1>4. \A d \in Conn : \A i \in DOMAIN inbox'[d] :
         (i \in DOMAIN inbox[d] /\ inbox'[d][i] = inbox[d][i]) \/ inbox'[d][i] = q
  BY <1>2, <1>3
<1>5. \A d \in Conn : d # c => inbox'[d] = inbox[d]
  BY <1>3
<1>6. \A d \in Conn, s \in Query : Carries(d, s)' => Carries(d, s)
  BY <1>1, <1>4, <1>5 DEF Carries
<1>7. ASSUME NEW d \in Conn, NEW s \in Query, s # q, ~Stained(s)
      PROVE  /\ s \in sent'[d] => \A i \in DOMAIN inbox'[d] : inbox'[d][i] # s
             /\ \A i, j \in DOMAIN inbox'[d] :
                   inbox'[d][i] = s /\ inbox'[d][j] = s => i = j
  BY <1>4, <1>7 DEF Flow, Once
<1> QED
  BY <1>1, <1>6, <1>7 DEF Carries

LEMMA DeliverFlow ==
    ASSUME Places, Flow, NEW c \in Conn, NEW q \in Query, Deliver(c, q)
    PROVE  Flow'
<1>0. TypeOK /\ Awaited /\ OnSockets /\ Once /\ Twice /\ AnswersInId
  BY DEF Places, Flow
<1>1. /\ Arrive(c, q) /\ q \in sent[c]
      /\ UNCHANGED <<pool, open, peer, twice, query>>
      /\ UNCHANGED <<pool, open, twice, pc, via, held, answer>>
      /\ \A d \in Conn : sent'[d] = IF d = c THEN sent[c] \ {q} ELSE sent[d]
  BY <1>0 DEF Deliver, Arrive, TypeOK, query
<1>2. \A s \in Query : Stained(s)' <=> Stained(s)
  BY <1>1, StainSame
<1>3. /\ \A d \in Conn, s \in Query : Carries(d, s)' => Carries(d, s)
      /\ \A d \in Conn, s \in Query : s # q =>
            Stained(s) \/
               /\ s \in sent'[d] => \A i \in DOMAIN inbox'[d] : inbox'[d][i] # s
               /\ \A i, j \in DOMAIN inbox'[d] :
                     inbox'[d][i] = s /\ inbox'[d][j] = s => i = j
  BY <1>1, ArriveFlow
<1>4. Awaited'
  BY <1>0, <1>1, <1>2, <1>3 DEF Awaited, Awaits
<1>5. OnSockets'
  <2>1. \A g \in Upstream, d \in Conn : Pooled(g, "tcp", d)' <=> Pooled(g, "tcp", d)
    BY <1>1 DEF Pooled
  <2> QED
    BY <1>0, <1>1, <1>2, <1>3, <2>1 DEF OnSockets
<1>6. Once'
  <2>1. ASSUME NEW d \in Conn, ~Stained(q)
        PROVE  /\ q \in sent'[d] => \A i \in DOMAIN inbox'[d] : inbox'[d][i] # q
               /\ \A i, j \in DOMAIN inbox'[d] :
                     inbox'[d][i] = q /\ inbox'[d][j] = q => i = j
    <3>1. /\ q \in sent[d] => \A i \in DOMAIN inbox[d] : inbox[d][i] # q
          /\ \A i, j \in DOMAIN inbox[d] : inbox[d][i] = q /\ inbox[d][j] = q => i = j
      BY <1>0, <2>1 DEF Once
    <3>2. CASE d # c
      <4>1. inbox'[d] = inbox[d] /\ sent'[d] = sent[d]
        BY <1>0, <1>1, <3>2 DEF Arrive, TypeOK
      <4> QED
        BY <3>1, <4>1
    <3>3. CASE d = c
      <4> DEFINE more == Append(inbox[c], q)
                 n == Len(inbox[c]) + 1
      <4>1. inbox[c] \in Seq(Query) /\ inbox'[c] = more
        BY <1>0, <1>1 DEF Arrive, TypeOK
      <4>2. /\ DOMAIN more = DOMAIN inbox[c] \cup {n}
            /\ \A i \in DOMAIN inbox[c] : more[i] = inbox[c][i]
        BY <4>1, Pushed
      <4> HIDE DEF more, n
      <4>3. q \notin sent'[d]
        BY <1>1, <3>3
      <4>4. \A i \in DOMAIN inbox[c] : inbox[c][i] # q
        BY <1>1, <3>1, <3>3
      <4>5. \A i \in DOMAIN more : more[i] = q => i = n
        BY <4>2, <4>4
      <4> QED
        BY <3>3, <4>1, <4>3, <4>5
    <3> QED
      BY <3>2, <3>3
  <2> QED
    BY <1>2, <1>3, <2>1 DEF Once
<1>7. Twice'
  BY <1>0, <1>1 DEF Twice, TypeOK
<1>8. AnswersInId'
  BY <1>0, <1>1, <1>2 DEF AnswersInId
<1> QED
  BY <1>4, <1>5, <1>6, <1>7, <1>8 DEF Flow

\* A duplicate stains the queries with the ID of the reply; what they await
\* is on sockets that they alone hold.
LEMMA DuplicateFlow ==
    ASSUME Places, Flow, NEW c \in Conn, NEW q \in Query, Duplicate(c, q)
    PROVE  Flow'
<1>0. TypeOK /\ Awaited /\ OnSockets /\ Once /\ Twice /\ AnswersInId
  BY DEF Places, Flow
<1>1. /\ Arrive(c, q) /\ q \in Dup /\ via[q] = "udp" /\ twice' = twice \cup {q}
      /\ UNCHANGED <<pool, open, peer, sent, query>>
      /\ UNCHANGED <<pool, open, sent, pc, via, held, answer>>
  BY DEF Duplicate, query
<1>2. /\ \A d \in Conn, s \in Query : Carries(d, s)' => Carries(d, s)
      /\ Carries(c, q)
      /\ \A d \in Conn, s \in Query : s # q =>
            Stained(s) \/
               /\ s \in sent'[d] => \A i \in DOMAIN inbox'[d] : inbox'[d][i] # s
               /\ \A i, j \in DOMAIN inbox'[d] :
                     inbox'[d][i] = s /\ inbox'[d][j] = s => i = j
  BY <1>1, ArriveFlow
<1>3. pc[q] # "new"
  BY <1>0, <1>2 DEF Awaited, Awaits, Stained
<1>4. Stained(q)' /\ \A s \in Query : Stained(s) => Stained(s)'
  BY <1>1, <1>3 DEF Stained
<1>5. Awaited'
  BY <1>0, <1>1, <1>2, <1>4 DEF Awaited, Awaits
<1>6. OnSockets'
  <2> SUFFICES ASSUME NEW d \in Conn, NEW s \in Query, Carries(d, s), Stained(s)'
               PROVE  /\ \A r \in Query : held[r] = d => via[r] = "udp"
                      /\ \A g \in Upstream : ~Pooled(g, "tcp", d)
    <3>1. \A g \in Upstream, d \in Conn : Pooled(g, "tcp", d)' <=> Pooled(g, "tcp", d)
      BY <1>1 DEF Pooled
    <3> QED
      BY <1>1, <1>2, <3>1 DEF OnSockets
  <2>1. CASE Stained(s)
    BY <1>0, <2>1 DEF OnSockets
  <2>2. CASE Awaits(s, d)
    <3>1. held[s] = d /\ held[s] # NoConn /\ via[s] = "udp"
      BY <1>1, <2>2, NullAssumption DEF Awaits, Stained
    <3>2. \A r \in Query : held[r] = d => r = s
      BY <3>1 DEF Places, Exclusive
    <3>3. \A g \in Upstream : ~Pooled(g, "tcp", d)
      BY <3>1 DEF Places, Exclusive, Pooled, Transport
    <3> QED
      BY <3>1, <3>2, <3>3
  <2> QED
    BY <1>0, <2>1, <2>2 DEF Awaited
<1>7. Once'
  BY <1>2, <1>4 DEF Once
<1>8. Twice'
  BY <1>0, <1>1, <1>3 DEF Twice
<1>9. AnswersInId'
  BY <1>0, <1>1, <1>4 DEF AnswersInId
<1> QED
  BY <1>5, <1>6, <1>7, <1>8, <1>9 DEF Flow

LEMMA FlowStep == Places /\ Flow /\ [Next]_vars => Flow'
<1> SUFFICES ASSUME Places, Flow, [Next]_vars PROVE Flow'
  OBVIOUS
<1>1. CASE Swap \/ UNCHANGED vars
  <2>1. UNCHANGED <<pool, open, sent, inbox, twice, pc, via, held, answer>>
    BY <1>1 DEF Swap, vars, conns, query
  <2>2. \A r \in Query : Stained(r)' <=> Stained(r)
    BY <2>1, StainSame
  <2> QED
    BY <2>1, <2>2 DEF Flow, Awaited, Awaits, OnSockets, Once, Twice, AnswersInId,
                      Carries, Pooled
<1>2. ASSUME NEW q \in Query, ExchangeFails(q) \/ Mismatch(q) \/ ReturnFull(q)
      PROVE  Flow'
  BY <1>2, DropFlow DEF ExchangeFails, Mismatch, ReturnFull, Label
<1> QED
  BY <1>1, <1>2, StartFlow, CheckoutFlow, ConnectFlow, SendFlow, ReceiveFlow,
     ReturnFlow, DeliverFlow, DuplicateFlow DEF Next, Step

\* A query is given its own reply, except over UDP once the reply to a query
\* with the same ID has been duplicated: then it may be any with that ID.
\* TCP queries, whose replies are not compared with their IDs, only ever get
\* their own (tcp_exchange has no check that could see another one).
THEOREM RepliesInId == Spec => []AnswersInId
<1>1. Init => Places /\ Flow
  BY TypeInit, PlacesInit, FlowInit DEF Places
<1>2. Flow => AnswersInId
  BY DEF Flow
<1> QED
  BY <1>1, <1>2, PlacesStep, FlowStep, PTL DEF Spec

\* The queries whose reply may arrive twice share their IDs with none.
DupIdsOwn == \A d \in Dup, r \in Query : IdOf[r] = IdOf[d] => r = d

\* If the replies that the network may duplicate have IDs of their own, no
\* query is ever given the reply to another one, however late, on whichever
\* connection and after whichever failures replies arrive (AnswersOwn).
THEOREM NoMixUp == ASSUME DupIdsOwn PROVE Spec => []AnswersOwn
<1>1. Init => Places /\ Flow
  BY TypeInit, PlacesInit, FlowInit DEF Places
<1>2. Places /\ Flow => AnswersOwn
  <2> SUFFICES ASSUME Flow, NEW q \in Query, answer[q] \notin {q, NoAnswer}
               PROVE  FALSE
    BY DEF AnswersOwn
  <2>1. Stained(q) /\ answer[q] \in Query /\ IdOf[answer[q]] = IdOf[q]
    BY DEF Flow, AnswersInId
  <2>2. PICK d \in twice : IdOf[d] = IdOf[q]
    BY <2>1 DEF Stained
  <2>3. d \in Dup
    BY DEF Flow, Twice
  <2> QED
    BY <2>1, <2>2, <2>3 DEF DupIdsOwn
<1> QED
  BY <1>1, <1>2, PlacesStep, FlowStep, PTL DEF Spec

-----------------------------------------------------------------------------
(* Caps and retries *)

LEMMA BoundedStep == TypeOK /\ Holding /\ Bounded /\ [Next]_vars => Bounded'
<1> SUFFICES ASSUME TypeOK, Holding, Bounded, [Next]_vars PROVE Bounded'
  OBVIOUS
<1>0. pool \in [Upstream -> [Transport -> Seq(Conn)]] /\ Cap \in Nat
  BY CapAssumption DEF TypeOK
<1>1. ASSUME NEW q \in Query, NEW s \in Seq(Conn), Len(s) <= Cap,
             pool' = [pool EXCEPT ![up[q]][via[q]] = s]
      PROVE  Bounded'
  <2>1. \A g \in Upstream, t \in Transport :
           pool'[g][t] = s \/ pool'[g][t] = pool[g][t]
    BY <1>0, <1>1, QueryType
  <2> QED
    BY <1>1, <2>1 DEF Bounded
<1>2. ASSUME NEW q \in Query, Checkout(q) PROVE Bounded'
  <2>1. PICK s \in Seq(Conn) :
           s = Idle(q) /\ s = pool[up[q]][via[q]] /\ s # <<>>
    BY <1>2, QueryType DEF Checkout, Idle
  <2>2. PICK r : r = SubSeq(s, 1, Len(s) - 1)
    OBVIOUS
  <2>3. r \in Seq(Conn) /\ Len(r) = Len(s) - 1 /\ Len(s) \in Nat
    BY <2>1, <2>2, Popped, LenProperties
  <2>4. Len(s) <= Cap
    BY <2>1, QueryType DEF Bounded
  <2>5. Len(r) <= Cap
    BY <1>0, <2>3, <2>4
  <2>6. pool' = [pool EXCEPT ![up[q]][via[q]] = r]
    BY <1>2, <2>1, <2>2 DEF Checkout
  <2> QED
    BY <1>1, <2>3, <2>5, <2>6
<1>3. ASSUME NEW q \in Query, Return(q) PROVE Bounded'
  <2>1. PICK s \in Seq(Conn) : s = Idle(q) /\ s = pool[up[q]][via[q]]
    BY QueryType DEF Idle
  <2>2. held[q] \in Conn /\ Len(s) < Cap
    BY <1>3, <2>1, QueryType DEF Return, Holding
  <2>3. PICK r : r = Append(s, held[q])
    OBVIOUS
  <2>4. r \in Seq(Conn) /\ Len(r) = Len(s) + 1 /\ Len(s) \in Nat
    BY <2>2, <2>3, Pushed
  <2>5. Len(r) <= Cap
    BY <1>0, <2>2, <2>4
  <2>6. pool' = [pool EXCEPT ![up[q]][via[q]] = Append(@, held[q])]
    BY <1>3 DEF Return
  <2>7. pool' = [pool EXCEPT ![up[q]][via[q]] = r]
    BY <1>0, <2>1, <2>3, <2>6, QueryType
  <2> QED
    BY <1>1, <2>4, <2>5, <2>7
<1>4. ASSUME UNCHANGED pool PROVE Bounded'
  BY <1>4 DEF Bounded
<1> QED
  BY <1>2, <1>3, <1>4 DEF Next, Step, Swap, Start, Connect, ConnectFails, Send,
     ExchangeFails, Receive, Mismatch, ReturnFull, Deliver, Duplicate, vars

\* No number of queries that return at once makes a pool outgrow its cap: the
\* room is looked for and taken in one step (Bounded).
THEOREM CapsKept == Spec => []Bounded
<1>1. Init => TypeOK /\ Holding /\ Bounded
  BY TypeInit, CapAssumption, EmptySeq DEF Init, Bounded
<1> QED
  BY <1>1, TypeStep, BoundedStep, PTL DEF Spec

LEMMA RetriedStep == TypeOK /\ RetriedFresh /\ [Next]_vars => RetriedFresh'
<1> SUFFICES ASSUME TypeOK, RetriedFresh, [Next]_vars PROVE RetriedFresh'
  OBVIOUS
<1>1. ASSUME NEW q \in Query, NEW l \in Label, Goto(q, l), UNCHANGED <<via, fresh>>,
             l = "failed" /\ via[q] = "tcp" => fresh[q]
      PROVE  RetriedFresh'
  BY <1>1 DEF RetriedFresh, Goto, TypeOK
<1>2. ASSUME NEW q \in Query, NEW l \in Label, Goto(q, l), UNCHANGED via,
             fresh' = [fresh EXCEPT ![q] = TRUE]
      PROVE  RetriedFresh'
  BY <1>2 DEF RetriedFresh, Goto, TypeOK
<1>3. ASSUME NEW q \in Query, Start(q) PROVE RetriedFresh'
  BY <1>3 DEF RetriedFresh, Start, Goto, TypeOK
<1>4. ASSUME NEW q \in Query, Connect(q) \/ ConnectFails(q) PROVE RetriedFresh'
  BY <1>2, <1>4 DEF Connect, ConnectFails, Label
<1>5. ASSUME NEW q \in Query, ExchangeFails(q) PROVE RetriedFresh'
  <2>1. PICK l \in Label :
           /\ l = IF via[q] = "tcp" /\ ~fresh[q] THEN "connect" ELSE "failed"
           /\ Goto(q, l)
    BY <1>5 DEF ExchangeFails, Label
  <2>2. fresh[q] \in BOOLEAN
    BY DEF TypeOK
  <2>3. l = "failed" /\ via[q] = "tcp" => fresh[q]
    BY <2>1
  <2> QED
    BY <1>1, <1>5, <2>1, <2>3 DEF ExchangeFails
<1>6. ASSUME NEW q \in Query, Mismatch(q) PROVE RetriedFresh'
  BY <1>1, <1>6 DEF Mismatch, Accepts, Label
<1>7. ASSUME NEW q \in Query,
             Checkout(q) \/ Send(q) \/ Receive(q) \/ Return(q) \/ ReturnFull(q)
      PROVE  RetriedFresh'
  BY <1>1, <1>7 DEF Checkout, Send, Receive, Return, ReturnFull, Label
<1>8. ASSUME UNCHANGED <<pc, via, fresh>> PROVE RetriedFresh'
  BY <1>8 DEF RetriedFresh
<1> QED
  BY <1>3, <1>4, <1>5, <1>6, <1>7, <1>8
  DEF Next, Step, Swap, Deliver, Duplicate, vars, query

\* A TCP query that fails has tried a connection of its own making, whatever
\* became of the pooled one it was given (RetriedFresh).
THEOREM FreshTried == Spec => []RetriedFresh
<1>1. Init => TypeOK /\ Holding /\ RetriedFresh
  BY TypeInit DEF Init, RetriedFresh
<1> QED
  BY <1>1, TypeStep, RetriedStep, PTL DEF Spec

-----------------------------------------------------------------------------
(* The retry comes once *)

\* The most steps that are left to a query, with the retry on a connection of
\* its own while it may still come to that.
StepsLeft(q) ==
    IF pc[q] = "new" THEN 8
    ELSE IF pc[q] = "checkout" THEN 7
    ELSE IF pc[q] = "send" THEN IF fresh[q] THEN 3 ELSE 6
    ELSE IF pc[q] = "recv" THEN IF fresh[q] THEN 2 ELSE 5
    ELSE IF pc[q] = "connect" THEN 4
    ELSE IF pc[q] = "return" THEN 1
    ELSE 0

\* Each step of a query brings it nearer to its end, and nothing that others do
\* sets it back.
NearerEnd(q) ==
    /\ StepsLeft(q)' <= StepsLeft(q)
    /\ Start(q) \/ Step(q) => StepsLeft(q)' < StepsLeft(q)

LEMMA StepNearer ==
    ASSUME TypeOK, NEW q \in Query, Start(q) \/ Step(q)
    PROVE  StepsLeft(q)' < StepsLeft(q)
<1>1. fresh[q] \in BOOLEAN
  BY DEF TypeOK
<1>2. CASE Start(q) \/ Checkout(q) \/ Send(q)
  BY <1>1, <1>2 DEF Start, Checkout, Send, Goto, TypeOK, StepsLeft
<1>3. CASE Connect(q) \/ ConnectFails(q)
  <2>1. pc[q] \in {"checkout", "connect"} /\ fresh'[q]
        /\ pc'[q] \in {"send", "failed"}
    BY <1>3 DEF Connect, ConnectFails, Goto, TypeOK
  <2> QED
    BY <2>1 DEF StepsLeft
<1>4. CASE ExchangeFails(q)
  <2>1. /\ pc[q] \in {"send", "recv"} /\ fresh'[q] = fresh[q]
        /\ pc'[q] = IF via[q] = "tcp" /\ ~fresh[q] THEN "connect" ELSE "failed"
    BY <1>4 DEF ExchangeFails, Goto, TypeOK
  <2> QED
    BY <1>1, <2>1 DEF StepsLeft
<1>5. CASE Receive(q) \/ Mismatch(q)
  <2>1. pc[q] = "recv" /\ pc'[q] \in {"return", "failed"}
    BY <1>5 DEF Receive, Mismatch, Goto, TypeOK
  <2> QED
    BY <1>1, <2>1 DEF StepsLeft
<1>6. CASE Return(q) \/ ReturnFull(q)
  BY <1>6 DEF Return, ReturnFull, Goto, TypeOK, StepsLeft
<1> QED
  BY <1>2, <1>3, <1>4, <1>5, <1>6 DEF Step

LEMMA OthersStay ==
    ASSUME TypeOK, NEW q \in Query, NEW r \in Query, r # q,
           Start(r) \/ Step(r)
    PROVE  pc'[q] = pc[q] /\ fresh'[q] = fresh[q]
<1>1. CASE Connect(r) \/ ConnectFails(r)
  BY <1>1 DEF Connect, ConnectFails, Goto, TypeOK
<1>2. CASE ExchangeFails(r)
  BY <1>2 DEF ExchangeFails, Goto, TypeOK
<1>3. CASE Start(r) \/ Checkout(r) \/ Send(r) \/ Receive(r)
  BY <1>3 DEF Start, Checkout, Send, Receive, Goto, TypeOK
<1>4. CASE Mismatch(r) \/ Return(r) \/ ReturnFull(r)
  BY <1>4 DEF Mismatch, Return, ReturnFull, Goto, TypeOK
<1> QED
  BY <1>1, <1>2, <1>3, <1>4 DEF Step

LEMMA NearerStep ==
    TypeOK /\ [Next]_vars => \A q \in Query : NearerEnd(q)
<1> SUFFICES ASSUME TypeOK, [Next]_vars, NEW q \in Query PROVE NearerEnd(q)
  OBVIOUS
<1>1. StepsLeft(q) \in 0..8 /\ StepsLeft(q)' \in 0..8
  BY DEF StepsLeft
<1>2. CASE Start(q) \/ Step(q)
  BY <1>1, <1>2, StepNearer DEF NearerEnd
<1>3. CASE ~(Start(q) \/ Step(q))
  <2>1. pc'[q] = pc[q] /\ fresh'[q] = fresh[q]
    <3>1. ASSUME NEW r \in Query, Start(r) \/ Step(r)
          PROVE  pc'[q] = pc[q] /\ fresh'[q] = fresh[q]
      BY <1>3, <3>1, OthersStay
    <3>2. CASE UNCHANGED query
      BY <3>2 DEF query
    <3> QED
      BY <3>1, <3>2 DEF Next, Swap, Deliver, Duplicate, vars
  <2>2. StepsLeft(q)' = StepsLeft(q)
    BY <2>1 DEF StepsLeft
  <2> QED
    BY <1>1, <1>3, <2>2 DEF NearerEnd
<1> QED
  BY <1>2, <1>3

\* A query makes at most eight steps: a pooled connection that fails it is
\* replaced once, and no answer, timeout or reload sends it back
\* (upstream.rs:140-185).  What QueryEnds adds is that the steps are made.
THEOREM RetriesOnce == Spec => [][\A q \in Query : NearerEnd(q)]_vars
BY TypeCorrect, NearerStep, PTL DEF Spec
=============================================================================
