---------------------------- MODULE MCQueryHandler ----------------------------
(* Instances of QueryHandler for TLC: a tracker t that an alias a leads to. *)
EXTENDS QueryHandler, TLC

CONSTANTS q1, q2, a, t, v1, v2

\* Two queries that a client may send on one stream.
OneAfterOther == (q1 :> {}) @@ (q2 :> {q1})

\* A query with a name, followed by one without a question.
NamedThenEmpty == (q1 :> {a, t}) @@ (q2 :> {NoName})

\* v1 blocks t; v2 blocks a and allows t.
TwoLists == (v1 :> ((a :> "none") @@ (t :> "blocked")))
            @@ (v2 :> ((a :> "blocked") @@ (t :> "allowed")))

\* A reply without CNAMEs, an alias, one that is too big for UDP, and one that
\* is too big and does not parse.
Answers ==
    {[parses |-> TRUE, big |-> FALSE, targets |-> <<>>],
     [parses |-> TRUE, big |-> FALSE, targets |-> <<a, t>>],
     [parses |-> TRUE, big |-> TRUE, targets |-> <<a, t>>],
     [parses |-> FALSE, big |-> TRUE, targets |-> <<>>]}
===============================================================================
