---------------------------- MODULE UpstreamPool ----------------------------
(***************************************************************************)
(* The connection pools of one upstream resolver (upstream.rs, Upstream)   *)
(* and the handle that a SIGHUP reload swaps (UpstreamHandle).  A query    *)
(* clones the handle, checks a connection out of the pool of its           *)
(* transport, exchanges one message on it and returns it, or drops it if   *)
(* anything goes wrong.  UDP replies may be lost, delayed and, for the     *)
(* queries of Dup, delivered twice.                                        *)
(*                                                                         *)
(* Data abstracted: a reply is the query it answers, a query's wire form   *)
(* is its 16-bit ID.  A socket that is opened is never given the port of   *)
(* an earlier one.                                                         *)
(***************************************************************************)
EXTENDS Naturals, Sequences

CONSTANTS
    Query,    \* queries, of clients and of resolve_a
    Id,       \* message IDs
    IdOf,     \* IdOf[q]: the ID of q, chosen by its client
    Dup,      \* the queries whose UDP reply may arrive twice
    Conn,     \* sockets and streams
    NoConn,
    NoAnswer,
    Swaps,    \* how often a reload changes the upstream address
    Cap       \* UDP_POOL_CAP, TCP_POOL_CAP

ASSUME IdAssumption == IdOf \in [Query -> Id] /\ Dup \subseteq Query
ASSUME CapAssumption == Swaps \in Nat /\ Cap \in Nat \ {0}
ASSUME NullAssumption == NoConn \notin Conn /\ NoAnswer \notin Query

Upstream == 0..Swaps       \* the Upstreams the handle holds, one after another
Transport == {"udp", "tcp"}

VARIABLES
    current,  \* the Upstream in the handle
    pool,     \* pool[g][t]: udp_pool and tcp_pool of Upstream g
    open,     \* the connections that exist
    peer,     \* the Upstream whose address a connection is connected to
    sent,     \* the queries whose reply is on its way to a connection
    inbox,    \* the replies a connection has received and nobody has read
    twice,    \* the queries whose reply has been duplicated
    pc,       \* where each query is
    via,      \* the transport it uses
    up,       \* the Upstream it has cloned out of the handle
    held,     \* the connection it has checked out
    fresh,    \* it is past its attempt on a pooled connection
    answer    \* the reply it returned

conns == <<open, peer, sent, inbox>>
query == <<pc, via, up, held, fresh, answer>>
vars == <<current, pool, conns, twice, query>>

Init ==
    /\ current = 0
    /\ pool = [g \in Upstream |-> [t \in Transport |-> <<>>]]
    /\ open = {} /\ peer = [c \in Conn |-> 0]
    /\ sent = [c \in Conn |-> {}] /\ inbox = [c \in Conn |-> <<>>]
    /\ twice = {}
    /\ pc = [q \in Query |-> "new"]
    /\ via = [q \in Query |-> "udp"] /\ up = [q \in Query |-> 0]
    /\ held = [q \in Query |-> NoConn]
    /\ fresh = [q \in Query |-> FALSE]
    /\ answer = [q \in Query |-> NoAnswer]

-----------------------------------------------------------------------------
(* The reload: a new Upstream with empty pools replaces the one in the     *)
(* handle; queries in flight keep theirs.                                  *)
Swap ==
    /\ current < Swaps
    /\ current' = current + 1
    /\ UNCHANGED <<pool, conns, twice, query>>

-----------------------------------------------------------------------------
(* Queries *)

Goto(q, label) == pc' = [pc EXCEPT ![q] = label]

\* A handler clones the Arc out of the handle and calls udp_query or tcp_query.
Start(q) ==
    /\ pc[q] = "new"
    /\ up' = [up EXCEPT ![q] = current]
    /\ \E t \in Transport : via' = [via EXCEPT ![q] = t]
    /\ Goto(q, "checkout")
    /\ UNCHANGED <<current, pool, conns, twice, held, fresh, answer>>

Idle(q) == pool[up[q]][via[q]]

\* Mutant of Checkout: the connection stays in the pool while it is used.
CheckoutLeavesIt(q) ==
    /\ pc[q] = "checkout" /\ Idle(q) # <<>>
    /\ held' = [held EXCEPT ![q] = Idle(q)[Len(Idle(q))]]
    /\ Goto(q, "send")
    /\ UNCHANGED <<current, pool, conns, twice, via, up, fresh, answer>>

\* Pop the connection that was returned last.
Checkout(q) ==
    /\ pc[q] = "checkout" /\ Idle(q) # <<>>
    /\ held' = [held EXCEPT ![q] = Idle(q)[Len(Idle(q))]]
    /\ pool' = [pool EXCEPT ![up[q]][via[q]] =
                    SubSeq(Idle(q), 1, Len(Idle(q)) - 1)]
    /\ Goto(q, "send")
    /\ UNCHANGED <<current, conns, twice, via, up, fresh, answer>>

\* With an empty pool, or for the TCP retry, bind or connect a new one ...
Connect(q) ==
    /\ (pc[q] = "checkout" /\ Idle(q) = <<>>) \/ pc[q] = "connect"
    /\ \E c \in Conn \ open :
          /\ open' = open \cup {c}
          /\ peer' = [peer EXCEPT ![c] = up[q]]
          /\ held' = [held EXCEPT ![q] = c]
    /\ fresh' = [fresh EXCEPT ![q] = TRUE]
    /\ Goto(q, "send")
    /\ UNCHANGED <<current, pool, sent, inbox, twice, via, up, answer>>

\* ... which fails, or times out.
ConnectFails(q) ==
    /\ (pc[q] = "checkout" /\ Idle(q) = <<>>) \/ pc[q] = "connect"
    /\ fresh' = [fresh EXCEPT ![q] = TRUE]
    /\ Goto(q, "failed")
    /\ UNCHANGED <<current, pool, conns, twice, via, up, held, answer>>

Send(q) ==
    /\ pc[q] = "send"
    /\ sent' = [sent EXCEPT ![held[q]] = @ \cup {q}]
    /\ Goto(q, "recv")
    /\ UNCHANGED <<current, pool, open, peer, inbox, twice, via, up, held,
                   fresh, answer>>

\* The connection goes out of scope: the kernel closes it and drops what it
\* holds and what is still on its way to it.
Drop(q) ==
    /\ open' = open \ {held[q]}
    /\ sent' = [sent EXCEPT ![held[q]] = {}]
    /\ inbox' = [inbox EXCEPT ![held[q]] = <<>>]
    /\ held' = [held EXCEPT ![q] = NoConn]
    /\ UNCHANGED peer

\* Mutant of ExchangeFails: a connection that timed out is pooled again.
FailureIsPooled(q) ==
    /\ pc[q] \in {"send", "recv"} /\ Len(Idle(q)) < Cap
    /\ pool' = [pool EXCEPT ![up[q]][via[q]] = Append(@, held[q])]
    /\ held' = [held EXCEPT ![q] = NoConn]
    /\ Goto(q, "failed")
    /\ UNCHANGED <<current, conns, twice, via, up, fresh, answer>>

\* Mutant of ExchangeFails: a stale TCP connection is not retried.
FailureIsFinal(q) ==
    /\ pc[q] \in {"send", "recv"}
    /\ Drop(q)
    /\ Goto(q, "failed")
    /\ UNCHANGED <<current, pool, twice, via, up, fresh, answer>>

\* Mutant of ExchangeFails: the wait for the reply has no timeout.
FailureOnlyInSend(q) ==
    /\ pc[q] = "send"
    /\ Drop(q)
    /\ Goto(q, IF via[q] = "tcp" /\ ~fresh[q] THEN "connect" ELSE "failed")
    /\ UNCHANGED <<current, pool, twice, via, up, fresh, answer>>

\* An I/O error or a timeout drops the connection.  A TCP query whose
\* connection came from the pool tries once more on a new one.
ExchangeFails(q) ==
    /\ pc[q] \in {"send", "recv"}
    /\ Drop(q)
    /\ Goto(q, IF via[q] = "tcp" /\ ~fresh[q] THEN "connect" ELSE "failed")
    /\ UNCHANGED <<current, pool, twice, via, up, fresh, answer>>

\* UDP accepts a reply with the query's ID, TCP any reply.
Accepts(q, r) == via[q] = "udp" => IdOf[r] = IdOf[q]

Receive(q) ==
    /\ pc[q] = "recv" /\ inbox[held[q]] # <<>>
    /\ Accepts(q, Head(inbox[held[q]]))
    /\ answer' = [answer EXCEPT ![q] = Head(inbox[held[q]])]
    /\ inbox' = [inbox EXCEPT ![held[q]] = Tail(@)]
    /\ Goto(q, "return")
    /\ UNCHANGED <<current, pool, open, peer, sent, twice, via, up, held, fresh>>

\* Any other reply fails the query, and its socket is not pooled.
Mismatch(q) ==
    /\ pc[q] = "recv" /\ inbox[held[q]] # <<>>
    /\ ~Accepts(q, Head(inbox[held[q]]))
    /\ Drop(q)
    /\ Goto(q, "failed")
    /\ UNCHANGED <<current, pool, twice, via, up, fresh, answer>>

\* Mutant of Return: the socket is taken out of its slot before it is pooled.
ReturnTaken(q) ==
    /\ pc[q] = "return" /\ Len(Idle(q)) < Cap
    /\ held' = [held EXCEPT ![q] = NoConn]
    /\ pool' = [pool EXCEPT ![up[q]][via[q]] = Append(@, held'[q])]
    /\ Goto(q, "done")
    /\ UNCHANGED <<current, conns, twice, via, up, fresh, answer>>

\* Mutant of Return: the pool is that of the upstream now in the handle.
ReturnToCurrent(q) ==
    /\ pc[q] = "return" /\ Len(pool[current][via[q]]) < Cap
    /\ pool' = [pool EXCEPT ![current][via[q]] = Append(@, held[q])]
    /\ held' = [held EXCEPT ![q] = NoConn]
    /\ Goto(q, "done")
    /\ UNCHANGED <<current, conns, twice, via, up, fresh, answer>>

\* Mutant of Return: one connection too many.
ReturnOverCap(q) ==
    /\ pc[q] = "return" /\ Len(Idle(q)) <= Cap
    /\ pool' = [pool EXCEPT ![up[q]][via[q]] = Append(@, held[q])]
    /\ held' = [held EXCEPT ![q] = NoConn]
    /\ Goto(q, "done")
    /\ UNCHANGED <<current, conns, twice, via, up, fresh, answer>>

\* Back to the pool of the Upstream it came from, if there is room.
Return(q) ==
    /\ pc[q] = "return" /\ Len(Idle(q)) < Cap
    /\ pool' = [pool EXCEPT ![up[q]][via[q]] = Append(@, held[q])]
    /\ held' = [held EXCEPT ![q] = NoConn]
    /\ Goto(q, "done")
    /\ UNCHANGED <<current, conns, twice, via, up, fresh, answer>>

ReturnFull(q) ==
    /\ pc[q] = "return" /\ Len(Idle(q)) >= Cap
    /\ Drop(q)
    /\ Goto(q, "done")
    /\ UNCHANGED <<current, pool, twice, via, up, fresh, answer>>

-----------------------------------------------------------------------------
(* The upstream resolver and the network *)

Arrive(c, q) ==
    /\ q \in sent[c]
    /\ inbox' = [inbox EXCEPT ![c] = Append(@, q)]

Deliver(c, q) ==
    /\ Arrive(c, q)
    /\ sent' = [sent EXCEPT ![c] = @ \ {q}]
    /\ UNCHANGED <<current, pool, open, peer, twice, query>>

\* A first copy of a UDP reply arrives, another is on its way.
Duplicate(c, q) ==
    /\ q \in Dup \ twice /\ via[q] = "udp"
    /\ Arrive(c, q)
    /\ twice' = twice \cup {q}
    /\ UNCHANGED <<current, pool, open, peer, sent, query>>

-----------------------------------------------------------------------------
(* Specification *)

\* Every step of a query but its start; the timeouts keep ExchangeFails and
\* ConnectFails enabled while it waits.
Step(q) ==
    \/ Checkout(q) \/ Connect(q) \/ ConnectFails(q) \/ Send(q)
    \/ ExchangeFails(q) \/ Receive(q) \/ Mismatch(q) \/ Return(q)
    \/ ReturnFull(q)

Next ==
    \/ Swap
    \/ \E q \in Query : Start(q) \/ Step(q)
    \/ \E c \in Conn, q \in Query : Deliver(c, q) \/ Duplicate(c, q)

\* tokio schedules each query that can run and its timers fire; nothing is
\* assumed of the upstream.
Fairness == \A q \in Query : WF_vars(Step(q))

Spec == Init /\ [][Next]_vars /\ Fairness

-----------------------------------------------------------------------------
(* Properties *)

Label == {"new", "checkout", "connect", "send", "recv", "return", "done",
          "failed"}

\* Every variable stays in its type (upstream.rs:48-62, 213).
TypeOK ==
    /\ current \in Upstream
    /\ pool \in [Upstream -> [Transport -> Seq(Conn)]]
    /\ open \subseteq Conn /\ peer \in [Conn -> Upstream]
    /\ sent \in [Conn -> SUBSET Query] /\ inbox \in [Conn -> Seq(Query)]
    /\ twice \subseteq Query
    /\ pc \in [Query -> Label]
    /\ via \in [Query -> Transport] /\ up \in [Query -> Upstream]
    /\ held \in [Query -> Conn \cup {NoConn}]
    /\ fresh \in [Query -> BOOLEAN]
    /\ answer \in [Query -> Query \cup {NoAnswer}]

\* A query is never given the reply to another one: a connection that timed
\* out or failed is dropped, so a late reply has no reader (upstream.rs:38-40).
\* Needs that a reply delivered twice has an ID that no other query uses.
AnswersOwn == \A q \in Query : answer[q] \in {q, NoAnswer}

\* A connection is in one place: held by one query, or in one pool once; so
\* no two queries read from one socket (upstream.rs:42-44).
Exclusive ==
    /\ \A q, r \in Query : q # r /\ held[q] = held[r] => held[q] = NoConn
    /\ \A g, h \in Upstream, s, t \in Transport :
          \A i \in DOMAIN pool[g][s], j \in DOMAIN pool[h][t] :
             /\ \A q \in Query : pool[g][s][i] # held[q]
             /\ pool[g][s][i] = pool[h][t][j] => <<g, s, i>> = <<h, t, j>>

\* A query talks to the upstream that was configured when it started, also
\* after a swap (upstream.rs:207-213, main.rs:502-515).
NoCrossing ==
    /\ \A q \in Query : held[q] # NoConn => peer[held[q]] = up[q]
    /\ \A g \in Upstream, t \in Transport :
          \A i \in DOMAIN pool[g][t] : peer[pool[g][t][i]] = g

\* The pools never outgrow their caps, however many queries return at once
\* (upstream.rs:128-132, 180-185).
Bounded ==
    \A g \in Upstream, t \in Transport : Len(pool[g][t]) <= Cap

\* A TCP query fails only after it tried a new connection: a pooled one that
\* died while idle does not fail it (upstream.rs:140-142).
RetriedFresh ==
    \A q \in Query : pc[q] = "failed" /\ via[q] = "tcp" => fresh[q]

\* Every query ends, although the upstream may never answer.
QueryEnds ==
    \A q \in Query : pc[q] = "checkout" ~> pc[q] \in {"done", "failed"}

=============================================================================
