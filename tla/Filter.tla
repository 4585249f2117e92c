-------------------------------- MODULE Filter --------------------------------
(***************************************************************************)
(* What dns-ligase promises a client about one query, whatever transport   *)
(* it comes on and however the handler goes about it: its name is sent     *)
(* upstream only if a blocklist in force since it came lets the name       *)
(* pass, and what came back is relayed only if every name it redirects to  *)
(* is let pass by a blocklist in force since it came back.  It is refused  *)
(* (NXDOMAIN) only for a name that such a blocklist blocks.  It is         *)
(* answered at most once.  The queries of a TCP stream are taken up one    *)
(* after the other, and none after one that got no answer.                 *)
(***************************************************************************)
CONSTANTS
    Query,
    Earlier,  \* Earlier[q]: the queries before q, if q comes on a stream
    Name,
    NoName,   \* the name of a query without a question
    Version,  \* blocklists that come into force
    Verdict   \* Verdict[v][n]: what v says of the name n

VARIABLES
    active,   \* the blocklist in force
    stage,    \* how far each query has come
    onStream, \* the queries that came on a stream
    name,     \* what a query asks for
    targets,  \* the names its reply redirects to
    seen,     \* the blocklists in force since it came, or since its reply did
    answer    \* what the client got

vars == <<active, stage, onStream, name, targets, seen, answer>>

Init ==
    /\ active \in Version
    /\ stage = [q \in Query |-> "idle"]
    /\ onStream = {}
    /\ name = [q \in Query |-> NoName]
    /\ targets = [q \in Query |-> {}]
    /\ seen = [q \in Query |-> {}]
    /\ answer = [q \in Query |-> "none"]

InHand(q) == stage[q] \in {"asked", "upstream", "back"}

Passes(q, n) == n = NoName \/ \E v \in seen[q] : Verdict[v][n] # "blocked"
Blocked(q, n) == n # NoName /\ \E v \in seen[q] : Verdict[v][n] = "blocked"

Install(v) ==
    /\ active' = v
    /\ seen' = [q \in Query |-> IF InHand(q) THEN seen[q] \cup {v} ELSE seen[q]]
    /\ UNCHANGED <<stage, onStream, name, targets, answer>>

\* q comes on its own, or on a stream on which all before it was answered.
Turn(q) ==
    \/ UNCHANGED onStream
    \/ /\ \A p \in Earlier[q] : p \in onStream /\ stage[p] = "answered"
       /\ onStream' = onStream \cup {q}

Ask(q) ==
    /\ stage[q] = "idle"
    /\ stage' = [stage EXCEPT ![q] = "asked"]
    /\ Turn(q)
    /\ \E n \in Name \cup {NoName} : name' = [name EXCEPT ![q] = n]
    /\ seen' = [seen EXCEPT ![q] = {active}]
    /\ UNCHANGED <<active, targets, answer>>

Forward(q) ==
    /\ stage[q] = "asked" /\ Passes(q, name[q])
    /\ stage' = [stage EXCEPT ![q] = "upstream"]
    /\ UNCHANGED <<active, onStream, name, targets, seen, answer>>

Return(q) ==
    /\ stage[q] = "upstream"
    /\ stage' = [stage EXCEPT ![q] = "back"]
    /\ \E T \in SUBSET Name : targets' = [targets EXCEPT ![q] = T]
    /\ seen' = [seen EXCEPT ![q] = {active}]
    /\ UNCHANGED <<active, onStream, name, answer>>

Finish(q, a) ==
    /\ stage' = [stage EXCEPT ![q] = "answered"]
    /\ answer' = [answer EXCEPT ![q] = a]
    /\ UNCHANGED <<active, onStream, name, targets, seen>>

Relay(q) ==
    /\ stage[q] = "back"
    /\ \A n \in targets[q] : Passes(q, n)
    /\ Finish(q, "reply")

Refuse(q) ==
    /\ \/ stage[q] = "asked" /\ Blocked(q, name[q])
       \/ stage[q] = "back" /\ \E n \in targets[q] : Blocked(q, n)
    /\ Finish(q, "nxdomain")

\* The query gets no answer; the client may ask again, as another query.
Abandon(q) ==
    /\ InHand(q)
    /\ stage' = [stage EXCEPT ![q] = "failed"]
    /\ UNCHANGED <<active, onStream, name, targets, seen, answer>>

\* A message that is not a DNS query: it ends its stream.
Discard(q) ==
    /\ stage[q] = "idle"
    /\ stage' = [stage EXCEPT ![q] = "failed"]
    /\ Turn(q)
    /\ UNCHANGED <<active, name, targets, seen, answer>>

Next ==
    \/ \E v \in Version : Install(v)
    \/ \E q \in Query :
          \/ Ask(q) \/ Forward(q) \/ Return(q)
          \/ Relay(q) \/ Refuse(q) \/ Abandon(q) \/ Discard(q)

Spec == Init /\ [][Next]_vars
===============================================================================
