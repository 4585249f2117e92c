----------------------------- MODULE QueryHandler -----------------------------
(***************************************************************************)
(* handle_udp_query and handle_tcp_query (upstream.rs).  Each UDP packet   *)
(* has a task of its own; the queries of a TCP stream are taken up one     *)
(* after the other by the task of the stream.  A handler checks the name   *)
(* of the first question, asks the upstream, checks the CNAME targets of   *)
(* the reply one by one, and relays it or answers NXDOMAIN.  Each check    *)
(* takes the read lock of the blocklist anew, and each log entry that of   *)
(* the logging flag: rebuilds and reloads may come in between.             *)
(*                                                                         *)
(* Data abstracted: a message is its name and, for a reply, what the       *)
(* handler looks at; a blocklist is the verdict it gives on each name;     *)
(* the pools behind udp_query and tcp_query are in UpstreamPool.           *)
(***************************************************************************)
EXTENDS Naturals, Sequences, SequencesExt

CONSTANTS
    Query,
    Earlier,  \* Earlier[q]: the queries before q, if q comes on a stream
    Name,
    NoName,   \* the name of a query without a question
    Asks,     \* Asks[q]: the names q may be about, NoName among them or not
    Version,  \* blocklists that rebuilds install
    Verdict,  \* Verdict[v][n]: MatchOutcome of v on n
    Reply,    \* replies of the upstream: parses, big, targets
    NoReply

Outcome == {"blocked", "allowed", "none"}

ASSUME EarlierAssumption ==
    /\ Earlier \in [Query -> SUBSET Query]
    /\ \A q \in Query : q \notin Earlier[q]
ASSUME AsksAssumption == Asks \in [Query -> SUBSET (Name \cup {NoName})]
ASSUME VerdictAssumption ==
    /\ Version # {} /\ NoName \notin Name
    /\ Verdict \in [Version -> [Name -> Outcome]]
\* Nothing is known of the targets of a reply that does not parse.
ASSUME ReplyAssumption ==
    /\ NoReply \notin Reply
    /\ \A r \in Reply :
          /\ r \in [parses : BOOLEAN, big : BOOLEAN, targets : Seq(Name)]
          /\ r.parses \/ r.targets = <<>>

VARIABLES
    active,   \* the blocklist in force
    logging,  \* log_queries
    pc,       \* where the handler of each query is
    via,      \* the transport the query came on
    name,     \* the name of its first question
    reply,    \* resp, the upstream's last word
    todo,     \* the CNAME targets still to be checked
    answer,   \* what was sent to the client
    log,      \* the actions of the journald entries for the query
    seen,     \* history: blocklists in force since the query or its reply came
    flags     \* history: values of the logging flag since the query came

handler == <<pc, via, name, reply, todo, answer, log>>
vars == <<active, logging, handler, seen, flags>>

Init ==
    /\ active \in Version /\ logging \in BOOLEAN
    /\ pc = [q \in Query |-> "new"]
    /\ via = [q \in Query |-> "udp"]
    /\ name = [q \in Query |-> NoName]
    /\ reply = [q \in Query |-> NoReply]
    /\ todo = [q \in Query |-> <<>>]
    /\ answer = [q \in Query |-> "none"]
    /\ log = [q \in Query |-> <<>>]
    /\ seen = [q \in Query |-> {}]
    /\ flags = [q \in Query |-> {}]

Running(q) == pc[q] \notin {"new", "done", "failed"}

-----------------------------------------------------------------------------
(* Rebuilds and reloads *)

\* A rebuild swaps the blocklist under the write lock.
Install(v) ==
    /\ v # active
    /\ active' = v
    /\ seen' = [q \in Query |->
                  IF Running(q) /\ answer[q] = "none" THEN seen[q] \cup {v}
                                                      ELSE seen[q]]
    /\ UNCHANGED <<logging, handler, flags>>

\* A reload turns query logging on or off.
ToggleLogging ==
    /\ logging' = ~logging
    /\ flags' = [q \in Query |->
                   IF Running(q) THEN flags[q] \cup {logging'} ELSE flags[q]]
    /\ UNCHANGED <<active, handler, seen>>

-----------------------------------------------------------------------------
(* The handlers *)

Goto(q, label) == pc' = [pc EXCEPT ![q] = label]

\* A UDP packet comes when it likes.  The task of a stream reads a query when
\* it is done with the ones before; after an error it is gone.
Arrives(q, t) ==
    /\ pc[q] = "new"
    /\ t = "tcp" => \A p \in Earlier[q] : via[p] = "tcp" /\ pc[p] = "done"
    /\ via' = [via EXCEPT ![q] = t]

\* The message parses; n is the name of its first question, if it has any.
Receive(q, t, n) ==
    /\ Arrives(q, t)
    /\ name' = [name EXCEPT ![q] = n]
    /\ Goto(q, "check")
    /\ seen' = [seen EXCEPT ![q] = {active}]
    /\ flags' = [flags EXCEPT ![q] = {logging}]
    /\ UNCHANGED <<active, logging, reply, todo, answer, log>>

\* The message does not parse, or the rest of it does not follow in time.
Reject(q, t) ==
    /\ Arrives(q, t)
    /\ Goto(q, "failed")
    /\ UNCHANGED <<active, logging, name, reply, todo, answer, log, seen, flags>>

\* A refusal is logged and then sent, but for that of a name asked over TCP,
\* which is sent and then logged: there, no reply has come yet.
LogsFirst(q) == via[q] = "udp" \/ reply[q] # NoReply

FirstOfRefusal(q) == IF LogsFirst(q) THEN "logRefusal" ELSE "refuse"

\* What the blocklist in force says of n.
Ruling(n) == IF n = NoName THEN "none" ELSE Verdict[active][n]

\* check on the name.
Check(q) ==
    /\ pc[q] = "check"
    /\ Goto(q, CASE Ruling(name[q]) = "blocked" -> FirstOfRefusal(q)
                 [] Ruling(name[q]) = "allowed" -> "logAllowed"
                 [] OTHER -> "upstream")
    /\ UNCHANGED <<active, logging, via, name, reply, todo, answer, log,
                   seen, flags>>

\* An entry in the journal, if logging is on now and there is a name to log.
Log(q, action, next) ==
    /\ log' = IF logging /\ name[q] # NoName
              THEN [log EXCEPT ![q] = Append(@, action)] ELSE log
    /\ Goto(q, next)
    /\ UNCHANGED <<active, logging, via, name, reply, todo, answer, seen, flags>>

LogAllowed(q) == pc[q] = "logAllowed" /\ Log(q, "allowed", "upstream")

LogRefusal(q) ==
    /\ pc[q] = "logRefusal"
    /\ Log(q, "blocked", IF LogsFirst(q) THEN "refuse" ELSE "done")

\* Mutant of LogForwarded: the entry is what the blocklist says of the name.
LogForwardedVerdict(q) ==
    pc[q] = "logForwarded" /\ Log(q, Ruling(name[q]), "done")

LogForwarded(q) == pc[q] = "logForwarded" /\ Log(q, "forwarded", "done")

\* Mutant of Refuse: the TCP loop goes on with the next query at once.
RefuseUnlogged(q) ==
    /\ pc[q] = "refuse"
    /\ answer' = [answer EXCEPT ![q] = "nxdomain"]
    /\ Goto(q, "done")
    /\ UNCHANGED <<active, logging, via, name, reply, todo, log, seen, flags>>

\* build_nxdomain and its sending; what was logged before is done with then.
Refuse(q) ==
    /\ pc[q] = "refuse"
    /\ answer' = [answer EXCEPT ![q] = "nxdomain"]
    /\ Goto(q, IF LogsFirst(q) THEN "done" ELSE "logRefusal")
    /\ UNCHANGED <<active, logging, via, name, reply, todo, log, seen, flags>>

\* Mutant of FallBack: a reply over TCP that has TC, too, starts all over.
FallBackAgain(q) ==
    /\ pc[q] \in {"upstream", "retry"} /\ via[q] = "udp"
    /\ Goto(q, IF pc[q] = "retry" THEN "upstream" ELSE "retry")
    /\ UNCHANGED <<active, logging, via, name, reply, todo, answer, log,
                   seen, flags>>

\* The reply to udp_query has the TC bit: the handler asks again over TCP.
FallBack(q) ==
    /\ pc[q] = "upstream" /\ via[q] = "udp"
    /\ Goto(q, "retry")
    /\ UNCHANGED <<active, logging, via, name, reply, todo, answer, log,
                   seen, flags>>

\* Mutant of Return: the entry is made when the reply comes.
ReturnLogged(q, r) ==
    /\ pc[q] \in {"upstream", "retry"}
    /\ reply' = [reply EXCEPT ![q] = r]
    /\ todo' = [todo EXCEPT ![q] = IF name[q] = NoName THEN <<>> ELSE r.targets]
    /\ seen' = [seen EXCEPT ![q] = {active}]
    /\ log' = IF logging THEN [log EXCEPT ![q] = Append(@, "forwarded")] ELSE log
    /\ Goto(q, "targets")
    /\ UNCHANGED <<active, logging, via, name, answer, flags>>

\* Mutant of Return: only the first CNAME is checked.
ReturnFirst(q, r) ==
    /\ pc[q] \in {"upstream", "retry"}
    /\ reply' = [reply EXCEPT ![q] = r]
    /\ todo' = [todo EXCEPT ![q] = IF name[q] = NoName \/ r.targets = <<>>
                                  THEN <<>> ELSE <<Head(r.targets)>>]
    /\ seen' = [seen EXCEPT ![q] = {active}]
    /\ Goto(q, "targets")
    /\ UNCHANGED <<active, logging, via, name, answer, log, flags>>

\* The reply to keep.  Its targets are checked if it parses and the query has
\* a question.
Return(q, r) ==
    /\ pc[q] \in {"upstream", "retry"}
    /\ reply' = [reply EXCEPT ![q] = r]
    /\ todo' = [todo EXCEPT ![q] = IF name[q] = NoName THEN <<>> ELSE r.targets]
    /\ seen' = [seen EXCEPT ![q] = {active}]
    /\ Goto(q, "targets")
    /\ UNCHANGED <<active, logging, via, name, answer, log, flags>>

\* udp_query or tcp_query fails.
UpstreamFails(q) ==
    /\ pc[q] \in {"upstream", "retry"}
    /\ Goto(q, "failed")
    /\ UNCHANGED <<active, logging, via, name, reply, todo, answer, log,
                   seen, flags>>

\* check on the next CNAME target.
CheckTarget(q) ==
    /\ pc[q] = "targets" /\ todo[q] # <<>>
    /\ IF Ruling(Head(todo[q])) = "blocked"
       THEN Goto(q, FirstOfRefusal(q)) /\ UNCHANGED todo
       ELSE UNCHANGED pc /\ todo' = [todo EXCEPT ![q] = Tail(@)]
    /\ UNCHANGED <<active, logging, via, name, reply, answer, log, seen, flags>>

\* The reply is larger than what the UDP client takes.
TooBig(q) == via[q] = "udp" /\ reply[q].big

\* Mutant of Relay: the limit of UDP is applied to TCP clients.
RelayCut(q) ==
    /\ pc[q] = "targets" /\ todo[q] = <<>>
    /\ TooBig(q) => reply[q].parses
    /\ answer' = [answer EXCEPT ![q] =
                    IF reply[q].big THEN "truncated" ELSE "whole"]
    /\ Goto(q, "logForwarded")
    /\ UNCHANGED <<active, logging, via, name, reply, todo, log, seen, flags>>

\* All targets pass: the reply goes to the client, cut down if it is too big.
\* truncate_response must parse it for that.
Relay(q) ==
    /\ pc[q] = "targets" /\ todo[q] = <<>>
    /\ TooBig(q) => reply[q].parses
    /\ answer' = [answer EXCEPT ![q] =
                    IF TooBig(q) THEN "truncated" ELSE "whole"]
    /\ Goto(q, "logForwarded")
    /\ UNCHANGED <<active, logging, via, name, reply, todo, log, seen, flags>>

TruncateFails(q) ==
    /\ pc[q] = "targets" /\ todo[q] = <<>>
    /\ TooBig(q) /\ ~reply[q].parses
    /\ Goto(q, "failed")
    /\ UNCHANGED <<active, logging, via, name, reply, todo, answer, log,
                   seen, flags>>

\* Sending fails, or a TCP client does not take the answer within the timeout.
SendFails(q) ==
    /\ \/ pc[q] = "refuse"
       \/ pc[q] = "targets" /\ todo[q] = <<>> /\ (TooBig(q) => reply[q].parses)
    /\ Goto(q, "failed")
    /\ UNCHANGED <<active, logging, via, name, reply, todo, answer, log,
                   seen, flags>>

-----------------------------------------------------------------------------
(* Specification *)

\* The steps of the handler of q; the timeouts towards upstream and client
\* keep UpstreamFails and SendFails enabled while it waits.
Step(q) ==
    \/ Check(q) \/ LogAllowed(q) \/ LogRefusal(q) \/ LogForwarded(q)
    \/ Refuse(q) \/ FallBack(q) \/ UpstreamFails(q)
    \/ \E r \in Reply : Return(q, r)
    \/ CheckTarget(q) \/ Relay(q) \/ TruncateFails(q) \/ SendFails(q)

Next ==
    \/ \E v \in Version : Install(v)
    \/ ToggleLogging
    \/ \E q \in Query, t \in {"udp", "tcp"} :
          \/ \E n \in Asks[q] : Receive(q, t, n)
          \/ Reject(q, t)
    \/ \E q \in Query : Step(q)

\* tokio schedules each handler that can run, its timers fire, and its RwLock
\* is fair, so that a reader is not kept out by rebuilds.
Fairness == \A q \in Query : WF_vars(Step(q))

Spec == Init /\ [][Next]_vars /\ Fairness

-----------------------------------------------------------------------------
(* Properties *)

\* Every variable stays in its type (upstream.rs:331-592).
TypeOK ==
    /\ active \in Version /\ logging \in BOOLEAN
    /\ pc \in [Query -> {"new", "check", "logAllowed", "logRefusal", "refuse",
                         "upstream", "retry", "targets", "logForwarded",
                         "done", "failed"}]
    /\ via \in [Query -> {"udp", "tcp"}]
    /\ name \in [Query -> Name \cup {NoName}]
    /\ reply \in [Query -> Reply \cup {NoReply}]
    /\ todo \in [Query -> Seq(Name)]
    /\ answer \in [Query -> {"none", "nxdomain", "whole", "truncated"}]
    /\ log \in [Query -> Seq({"blocked", "allowed", "forwarded"})]
    /\ seen \in [Query -> SUBSET Version]
    /\ flags \in [Query -> SUBSET BOOLEAN]

Relayed(q) == answer[q] \in {"whole", "truncated"}

\* The journal never tells the opposite of what the client got: a query logged
\* as forwarded was relayed, one logged as blocked was not, also if a refusal
\* that was logged could not be sent, over UDP or for a CNAME target over TCP,
\* or the flag was toggled on the way (README.md:99; upstream.rs:352-363,
\* 429-440, 511-520, 560-570).
LogTruthful ==
    \A q \in Query :
       /\ "forwarded" \in ToSet(log[q]) => Relayed(q)
       /\ "blocked" \in ToSet(log[q]) => ~Relayed(q)

\* While logging is on, every answered query has its outcome sent to journald;
\* while it is off, none leaves a trace (upstream.rs:352, 366, 429, 459 for UDP,
\* 512, 524, 560, 579 for TCP, where a refused name is logged after the answer).
LogComplete ==
    \A q \in Query : pc[q] = "done" /\ name[q] # NoName =>
       /\ flags[q] = {FALSE} => log[q] = <<>>
       /\ flags[q] = {TRUE} =>
             /\ log[q] # <<>>
             /\ Last(log[q]) = IF Relayed(q) THEN "forwarded" ELSE "blocked"

\* A UDP client gets no more than it takes, also when the reply came through
\* the TCP fallback; only a reply that is too big is cut (upstream.rs:409-455).
FitsClient ==
    \A q \in Query :
       /\ answer[q] = "whole" => ~TooBig(q)
       /\ answer[q] = "truncated" => TooBig(q)

\* Every query that comes is dealt with, whatever upstream and client do
\* (upstream.rs:632-633 of clients; the timeouts of udp_query and tcp_query).
QueryHandled == \A q \in Query : Running(q) ~> pc[q] \in {"done", "failed"}

\* Each query counts once in the statistics, which print the number of journal
\* entries as "Total queries" (stats.rs:184).
OneEntry == \A q \in Query : Len(log[q]) <= 1

-----------------------------------------------------------------------------
(* The handlers keep the promise of Filter.  A query has been let through to *)
(* the upstream as soon as its name is checked, and is back with the reply   *)
(* that the handler keeps: a UDP reply with TC is still upstream.            *)

StageOf(q) ==
    IF pc[q] = "new" THEN "idle"
    ELSE IF pc[q] = "failed" THEN "failed"
    ELSE IF answer[q] # "none" THEN "answered"
    ELSE IF pc[q] \in {"logAllowed", "upstream", "retry"} THEN "upstream"
    ELSE IF reply[q] # NoReply THEN "back"
    ELSE "asked"

TargetsOf(q) ==
    IF name[q] = NoName \/ reply[q] = NoReply THEN {}
    ELSE ToSet(reply[q].targets)

AnswerOf(q) == IF Relayed(q) THEN "reply" ELSE answer[q]

Promise == INSTANCE Filter WITH
    stage    <- [q \in Query |-> StageOf(q)],
    onStream <- {q \in Query : via[q] = "tcp"},
    targets  <- [q \in Query |-> TargetsOf(q)],
    answer   <- [q \in Query |-> AnswerOf(q)]

\* A blocked name is never sent upstream, and no reply with a blocked target is
\* relayed, by the blocklists in force at the time (README.md:3, 51, 66); see
\* Filter.  Two checks of one query may go by two blocklists.
KeepsPromise == Promise!Spec
===============================================================================
