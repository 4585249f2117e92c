------------------------- MODULE QueryHandlerProofs -------------------------
(* Theorems about QueryHandler, for every value of its constants. *)
EXTENDS QueryHandler, SequenceTheorems, TLAPS

-----------------------------------------------------------------------------
(* The inductive invariant *)

\* Before a query comes nothing is known of it.
Blank(q) == pc[q] = "new" =>
    /\ via[q] = "udp" /\ name[q] = NoName /\ reply[q] = NoReply
    /\ answer[q] = "none" /\ log[q] = <<>>

\* When there is an answer, and which.
Answered(q) ==
    /\ pc[q] \in {"check", "logAllowed", "upstream", "retry", "targets",
                  "refuse", "failed"} => answer[q] = "none"
    /\ pc[q] = "logRefusal" =>
          answer[q] = IF LogsFirst(q) THEN "none" ELSE "nxdomain"
    /\ pc[q] = "logForwarded" => Relayed(q)
    /\ pc[q] = "done" => answer[q] # "none"
    /\ answer[q] = "whole" => ~TooBig(q)
    /\ answer[q] = "truncated" => TooBig(q)

\* When there is a reply; what is refused has a name.
Replied(q) ==
    /\ pc[q] \in {"check", "logAllowed", "upstream", "retry"} =>
          reply[q] = NoReply
    /\ pc[q] \in {"targets", "logForwarded"} => reply[q] \in Reply
    /\ pc[q] \in {"logRefusal", "refuse"} => name[q] # NoName
    /\ pc[q] = "targets" /\ name[q] = NoName => todo[q] = <<>>

\* An outcome is in the journal only where the rest of the handler agrees.
Logged(q) ==
    /\ "forwarded" \in ToSet(log[q]) => pc[q] = "done" /\ Relayed(q)
    /\ "blocked" \in ToSet(log[q]) =>
          /\ pc[q] \in {"done", "failed"} \/ (pc[q] = "refuse" /\ LogsFirst(q))
          /\ ~Relayed(q)

\* A query that runs has seen the present value of the flag; it has entries
\* only if the flag was set, and has its outcome if the flag always was.
Flagged(q) ==
    /\ Running(q) => logging \in flags[q]
    /\ log[q] # <<>> => TRUE \in flags[q]
    /\ pc[q] = "refuse" /\ LogsFirst(q) /\ flags[q] = {TRUE} =>
          log[q] # <<>> /\ Last(log[q]) = "blocked"
    /\ pc[q] = "done" /\ name[q] # NoName /\ flags[q] = {TRUE} =>
          /\ log[q] # <<>>
          /\ Last(log[q]) = IF Relayed(q) THEN "forwarded" ELSE "blocked"

\* A query that waits for its answer has seen the blocklist in force.
Current(q) == Running(q) /\ answer[q] = "none" => active \in seen[q]

\* What is refused is blocked by a blocklist that was in force.
Justified(q) ==
    pc[q] \in {"logRefusal", "refuse"} /\ answer[q] = "none" =>
       \E n \in IF reply[q] = NoReply THEN {name[q]} ELSE TargetsOf(q) :
          n # NoName /\ \E v \in seen[q] : Verdict[v][n] = "blocked"

\* The targets that are not to do any more have passed one.
Cleared(q) == pc[q] = "targets" =>
    /\ ToSet(todo[q]) \subseteq TargetsOf(q)
    /\ \A n \in TargetsOf(q) :
          n \in ToSet(todo[q]) \/ \E v \in seen[q] : Verdict[v][n] # "blocked"

Orderly(q) ==
    /\ Blank(q) /\ Answered(q) /\ Replied(q) /\ Logged(q) /\ Flagged(q)
    /\ Current(q) /\ Justified(q) /\ Cleared(q)

HandlerInv == TypeOK /\ \A q \in Query : Orderly(q)

-----------------------------------------------------------------------------
(* Sequences *)

\* An entry is appended to a journal.
LEMMA Entered ==
    ASSUME NEW S, NEW s \in Seq(S), NEW e \in S
    PROVE  /\ Append(s, e) \in Seq(S) /\ Append(s, e) # <<>>
           /\ ToSet(Append(s, e)) = ToSet(s) \cup {e}
           /\ Last(Append(s, e)) = e
<1> DEFINE r == Append(s, e)
<1>1. Len(s) \in Nat /\ DOMAIN s = 1..Len(s)
  BY LenProperties
<1>2. /\ r \in Seq(S) /\ r # <<>> /\ Len(r) = Len(s) + 1
      /\ \A i \in 1..Len(s) : r[i] = s[i]
      /\ r[Len(s) + 1] = e
  BY AppendProperties
<1>3. DOMAIN r = 1..(Len(s) + 1)
  BY <1>2, LenProperties
<1> HIDE DEF r
<1>4. Last(r) = e
  BY <1>2 DEF Last
<1>5. ToSet(r) = ToSet(s) \cup {e}
  <2>1. 1..(Len(s) + 1) = 1..Len(s) \cup {Len(s) + 1}
    BY <1>1
  <2> QED
    BY <1>1, <1>2, <1>3, <2>1 DEF ToSet
<1> QED
  BY <1>2, <1>4, <1>5 DEF r

\* A target is taken off the list.
LEMMA TakenOff ==
    ASSUME NEW S, NEW s \in Seq(S), s # <<>>
    PROVE  /\ Head(s) \in S /\ Head(s) \in ToSet(s) /\ Tail(s) \in Seq(S)
           /\ ToSet(s) \subseteq ToSet(Tail(s)) \cup {Head(s)}
           /\ ToSet(Tail(s)) \subseteq ToSet(s)
<1>1. Len(s) \in Nat \ {0} /\ DOMAIN s = 1..Len(s) /\ Head(s) = s[1]
  BY EmptySeq, LenProperties
<1>2. /\ Tail(s) \in Seq(S) /\ Head(s) \in S /\ Len(Tail(s)) = Len(s) - 1
      /\ \A i \in 1..Len(Tail(s)) : Tail(s)[i] = s[i + 1]
  BY HeadTailProperties
<1>3. DOMAIN Tail(s) = 1..(Len(s) - 1)
  BY <1>2, LenProperties
<1>4. ASSUME NEW i \in DOMAIN s PROVE s[i] \in ToSet(Tail(s)) \cup {Head(s)}
  <2>1. CASE i = 1
    BY <1>1, <2>1
  <2>2. CASE i # 1
    <3>1. i - 1 \in DOMAIN Tail(s) /\ Tail(s)[i - 1] = s[i]
      BY <1>1, <1>2, <1>3, <2>2
    <3> QED
      BY <3>1 DEF ToSet
  <2> QED
    BY <2>1, <2>2
<1>5. ASSUME NEW i \in DOMAIN Tail(s) PROVE Tail(s)[i] \in ToSet(s)
  <2>1. i + 1 \in DOMAIN s /\ Tail(s)[i] = s[i + 1]
    BY <1>1, <1>2, <1>3
  <2> QED
    BY <2>1 DEF ToSet
<1>6. \A i \in DOMAIN s : s[i] \in ToSet(Tail(s)) \cup {Head(s)}
  BY <1>4
<1>7. ToSet(s) \subseteq ToSet(Tail(s)) \cup {Head(s)}
  BY <1>6 DEF ToSet
<1>8. ToSet(Tail(s)) \subseteq ToSet(s)
  BY <1>5 DEF ToSet
<1>9. Head(s) \in ToSet(s)
  BY <1>1 DEF ToSet
<1> QED
  BY <1>2, <1>7, <1>8, <1>9

\* The set of a sequence has its elements, and the empty sequence has none.
LEMMA Members ==
    /\ ToSet(<<>>) = {}
    /\ \A S : \A s \in Seq(S) : ToSet(s) \subseteq S
<1>1. ASSUME NEW S, NEW s \in Seq(S) PROVE ToSet(s) \subseteq S
  BY <1>1, LenProperties, ElementOfSeq DEF ToSet
<1> QED
  BY <1>1 DEF ToSet

-----------------------------------------------------------------------------
(* Type correctness *)

\* What an upstream can reply.
LEMMA ReplyType ==
    ASSUME NEW r \in Reply
    PROVE  /\ r # NoReply /\ r.targets \in Seq(Name)
           /\ r.parses \in BOOLEAN /\ r.big \in BOOLEAN
BY ReplyAssumption

\* A journal entry, whether it is made or not.
LEMMA LogType ==
    ASSUME TypeOK, NEW q \in Query,
           NEW action \in {"blocked", "allowed", "forwarded"},
           NEW next \in {"upstream", "refuse", "done"}, Log(q, action, next)
    PROVE  TypeOK'
<1>1. log[q] \in Seq({"blocked", "allowed", "forwarded"})
  BY DEF TypeOK
<1>2. Append(log[q], action) \in Seq({"blocked", "allowed", "forwarded"})
  BY <1>1, Entered
<1>3. log' = log \/ log' = [log EXCEPT ![q] = Append(log[q], action)]
  BY DEF Log
<1>4. log' \in [Query -> Seq({"blocked", "allowed", "forwarded"})]
  BY <1>2, <1>3 DEF TypeOK
<1> QED
  BY <1>4 DEF Log, Goto, TypeOK

\* A step that only moves on, or also answers.
LEMMA MoveType ==
    ASSUME TypeOK, NEW q \in Query,
           \/ Check(q) \/ Refuse(q) \/ FallBack(q) \/ UpstreamFails(q)
           \/ Relay(q) \/ TruncateFails(q) \/ SendFails(q)
    PROVE  TypeOK'
<1>1. CASE Check(q)
  BY <1>1 DEF Check, Goto, FirstOfRefusal, TypeOK
<1>2. CASE Refuse(q)
  BY <1>2 DEF Refuse, Goto, TypeOK
<1>3. CASE FallBack(q) \/ UpstreamFails(q) \/ TruncateFails(q) \/ SendFails(q)
  BY <1>3 DEF FallBack, UpstreamFails, TruncateFails, SendFails, Goto, TypeOK
<1>4. CASE Relay(q)
  BY <1>4 DEF Relay, Goto, TypeOK
<1> QED
  BY <1>1, <1>2, <1>3, <1>4

\* A reply is kept, or one of its targets is checked.
LEMMA TargetsType ==
    ASSUME TypeOK, NEW q \in Query,
           (\E r \in Reply : Return(q, r)) \/ CheckTarget(q)
    PROVE  TypeOK'
<1>1. ASSUME NEW r \in Reply, Return(q, r) PROVE TypeOK'
  <2>1. r.targets \in Seq(Name) /\ <<>> \in Seq(Name)
    BY ReplyType
  <2> QED
    BY <1>1, <2>1 DEF Return, Goto, TypeOK
<1>2. CASE CheckTarget(q)
  <2>1. todo[q] \in Seq(Name) /\ Tail(todo[q]) \in Seq(Name)
    BY <1>2, TakenOff DEF CheckTarget, TypeOK
  <2>2. todo' \in [Query -> Seq(Name)]
    BY ZenonT(60), <1>2, <2>1 DEF CheckTarget, TypeOK
  <2> QED
    BY <1>2, <2>2 DEF CheckTarget, Goto, FirstOfRefusal, TypeOK
<1> QED
  BY <1>1, <1>2

\* A query comes.
LEMMA ReceiveType ==
    ASSUME TypeOK, NEW q \in Query, NEW t \in {"udp", "tcp"},
           (\E n \in Asks[q] : Receive(q, t, n)) \/ Reject(q, t)
    PROVE  TypeOK'
<1>1. ASSUME NEW n \in Asks[q], Receive(q, t, n) PROVE TypeOK'
  <2>1. n \in Name \cup {NoName}
    BY AsksAssumption
  <2> QED
    BY <1>1, <2>1 DEF Receive, Arrives, Goto, TypeOK
<1>2. CASE Reject(q, t)
  BY <1>2 DEF Reject, Arrives, Goto, TypeOK
<1> QED
  BY <1>1, <1>2

LEMMA TypeInit == Init => TypeOK
BY EmptySeq DEF Init, TypeOK

LEMMA TypeStep == TypeOK /\ [Next]_vars => TypeOK'
<1> SUFFICES ASSUME TypeOK, [Next]_vars PROVE TypeOK'
  OBVIOUS
<1>1. ASSUME NEW v \in Version, Install(v) PROVE TypeOK'
  BY <1>1 DEF Install, handler, TypeOK
<1>2. CASE ToggleLogging
  BY <1>2 DEF ToggleLogging, handler, TypeOK
<1>3. ASSUME NEW q \in Query, LogAllowed(q) \/ LogRefusal(q) \/ LogForwarded(q)
      PROVE  TypeOK'
  BY <1>3, LogType DEF LogAllowed, LogRefusal, LogForwarded
<1>4. CASE UNCHANGED vars
  BY <1>4 DEF vars, handler, TypeOK
<1> QED
  BY <1>1, <1>2, <1>3, <1>4, MoveType, TargetsType, ReceiveType DEF Next, Step

\* Every variable stays in its type (TypeOK).
THEOREM TypeCorrect == Spec => []TypeOK
BY TypeInit, TypeStep, PTL DEF Spec

-----------------------------------------------------------------------------
(* The steps of one query leave the others alone *)

Same(r) ==
    /\ pc'[r] = pc[r] /\ via'[r] = via[r] /\ name'[r] = name[r]
    /\ reply'[r] = reply[r] /\ todo'[r] = todo[r] /\ answer'[r] = answer[r]
    /\ log'[r] = log[r] /\ seen'[r] = seen[r] /\ flags'[r] = flags[r]

\* A step of q, or its coming.
StepOf(q) ==
    \/ Step(q)
    \/ \E t \in {"udp", "tcp"} : Reject(q, t) \/ \E n \in Asks[q] : Receive(q, t, n)

OnlyOf(q) ==
    /\ \A r \in Query : r # q => Same(r)
    /\ UNCHANGED <<active, logging>>

LEMMA OthersSame ==
    ASSUME TypeOK, NEW q \in Query, StepOf(q)
    PROVE  OnlyOf(q)
<1>1. CASE Check(q) \/ FallBack(q) \/ UpstreamFails(q) \/ TruncateFails(q) \/ SendFails(q)
  BY <1>1 DEF Check, FallBack, UpstreamFails, TruncateFails, SendFails, Goto,
              OnlyOf, Same, TypeOK
<1>2. CASE LogAllowed(q) \/ LogRefusal(q) \/ LogForwarded(q)
  BY <1>2 DEF LogAllowed, LogRefusal, LogForwarded, Log, Goto, OnlyOf, Same, TypeOK
<1>3. CASE Refuse(q) \/ Relay(q)
  BY <1>3 DEF Refuse, Relay, Goto, OnlyOf, Same, TypeOK
<1>4. ASSUME NEW p \in Reply, Return(q, p)
      PROVE  OnlyOf(q)
  BY <1>4 DEF Return, Goto, OnlyOf, Same, TypeOK
<1>5. CASE CheckTarget(q)
  BY <1>5 DEF CheckTarget, Goto, OnlyOf, Same, TypeOK
<1>6. ASSUME NEW t \in {"udp", "tcp"}, Reject(q, t)
      PROVE  OnlyOf(q)
  BY <1>6 DEF Reject, Arrives, Goto, OnlyOf, Same, TypeOK
<1>7. ASSUME NEW t \in {"udp", "tcp"}, NEW n \in Asks[q], Receive(q, t, n)
      PROVE  OnlyOf(q)
  BY <1>7 DEF Receive, Arrives, Goto, OnlyOf, Same, TypeOK
<1> QED
  BY <1>1, <1>2, <1>3, <1>4, <1>5, <1>6, <1>7 DEF StepOf, Step

LEMMA SameOrderly ==
    ASSUME NEW r \in Query, Orderly(r), Same(r), UNCHANGED <<active, logging>>
    PROVE  Orderly(r)'
<1>1. Blank(r)' /\ Answered(r)' /\ Replied(r)'
  BY DEF Orderly, Same, Blank, Answered, Replied, Relayed, TooBig, LogsFirst
<1>2. Logged(r)' /\ Flagged(r)'
  BY DEF Orderly, Same, Logged, Flagged, Running, Relayed, LogsFirst
<1>3. Current(r)' /\ Justified(r)' /\ Cleared(r)'
  BY DEF Orderly, Same, Current, Justified, Cleared, Running, TargetsOf
<1> QED
  BY <1>1, <1>2, <1>3 DEF Orderly

-----------------------------------------------------------------------------
(* The inductive invariant is kept *)

LEMMA OrderlyInit == Init => \A q \in Query : Orderly(q)
BY Members DEF Init, Orderly, Blank, Answered, Replied, Logged, Flagged, Current,
   Justified, Cleared, Running, Relayed

LEMMA InstallOrderly ==
    ASSUME HandlerInv, NEW v \in Version, Install(v), NEW q \in Query
    PROVE  Orderly(q)'
<1>1. /\ UNCHANGED <<pc, via, name, reply, todo, answer, log, flags, logging>>
      /\ active' = v
      /\ seen'[q] = IF Running(q) /\ answer[q] = "none" THEN seen[q] \cup {v}
                                                        ELSE seen[q]
  BY DEF Install, handler
<1>2. Orderly(q)
  BY DEF HandlerInv
<1>3. /\ Blank(q)' /\ Answered(q)' /\ Replied(q)' /\ Logged(q)' /\ Flagged(q)'
  BY ZenonT(60), <1>1, <1>2 DEF Orderly, Blank, Answered, Replied, Logged, Flagged, Running,
                    Relayed, TooBig, LogsFirst
<1>4. Current(q)'
  BY <1>1, <1>2 DEF Orderly, Current, Running
<1>5. TargetsOf(q)' = TargetsOf(q)
  BY <1>1 DEF TargetsOf
<1>6. Justified(q)' /\ Cleared(q)'
  BY <1>1, <1>2, <1>5 DEF Orderly, Justified, Cleared
<1> QED
  BY <1>3, <1>4, <1>6 DEF Orderly

LEMMA ToggleOrderly ==
    ASSUME HandlerInv, ToggleLogging, NEW q \in Query
    PROVE  Orderly(q)'
<1>1. /\ UNCHANGED <<pc, via, name, reply, todo, answer, log, seen, active>>
      /\ logging' = ~logging /\ logging \in BOOLEAN
      /\ flags'[q] = IF Running(q) THEN flags[q] \cup {logging'} ELSE flags[q]
  BY DEF ToggleLogging, handler, HandlerInv, TypeOK
<1>2. Orderly(q)
  BY DEF HandlerInv
<1>3. /\ Blank(q)' /\ Answered(q)' /\ Replied(q)' /\ Logged(q)'
      /\ Current(q)' /\ Justified(q)' /\ Cleared(q)'
  BY <1>1, <1>2 DEF Orderly, Blank, Answered, Replied, Logged, Running, Relayed,
                    TooBig, LogsFirst, Current, Justified, Cleared, TargetsOf
<1>4. Flagged(q)'
  <2>1. CASE Running(q)
    <3>1. flags'[q] # {TRUE}
      BY <1>1, <1>2, <2>1 DEF Orderly, Flagged
    <3> QED
      BY <1>1, <1>2, <2>1, <3>1 DEF Orderly, Flagged, Running, LogsFirst
  <2>2. CASE ~Running(q)
    BY <1>1, <1>2, <2>2 DEF Orderly, Flagged, Running, Relayed, LogsFirst
  <2> QED
    BY <2>1, <2>2
<1> QED
  BY <1>3, <1>4 DEF Orderly

LEMMA ComingOrderly ==
    ASSUME HandlerInv, NEW q \in Query, NEW t \in {"udp", "tcp"},
           Reject(q, t) \/ \E n \in Asks[q] : Receive(q, t, n)
    PROVE  Orderly(q)'
<1>0. /\ pc[q] = "new" /\ Orderly(q) /\ reply[q] = NoReply /\ answer[q] = "none"
      /\ log[q] = <<>> /\ ToSet(log[q]) = {} /\ TypeOK
  BY Members DEF HandlerInv, Orderly, Blank, Reject, Receive, Arrives
<1>1. CASE Reject(q, t)
  <2>1. /\ pc'[q] = "failed"
        /\ UNCHANGED <<active, logging, name, reply, todo, answer, log, seen, flags>>
    BY <1>0, <1>1 DEF Reject, Goto, TypeOK
  <2> QED
    BY <1>0, <2>1 DEF Orderly, Blank, Answered, Replied, Logged, Flagged, Running,
                      Current, Justified, Cleared, Relayed
<1>2. ASSUME NEW n \in Asks[q], Receive(q, t, n) PROVE Orderly(q)'
  <2>1. /\ pc'[q] = "check" /\ seen'[q] = {active} /\ flags'[q] = {logging}
        /\ UNCHANGED <<active, logging, reply, todo, answer, log>>
    BY <1>0, <1>2 DEF Receive, Goto, TypeOK
  <2> QED
    BY <1>0, <2>1 DEF Orderly, Blank, Answered, Replied, Logged, Flagged, Running,
                      Current, Justified, Cleared, Relayed
<1> QED
  BY <1>1, <1>2

\* check on the name: the blocklist in force is one the query has seen.
LEMMA CheckOrderly ==
    ASSUME HandlerInv, NEW q \in Query, Check(q) PROVE Orderly(q)'
<1>0. /\ pc[q] = "check" /\ Orderly(q) /\ TypeOK
      /\ UNCHANGED <<active, logging, via, name, reply, todo, answer, log,
                     seen, flags>>
  BY DEF Check, HandlerInv
<1>1. /\ reply[q] = NoReply /\ answer[q] = "none"
      /\ "forwarded" \notin ToSet(log[q]) /\ "blocked" \notin ToSet(log[q])
      /\ logging \in flags[q] /\ active \in seen[q]
  BY <1>0 DEF Orderly, Answered, Replied, Logged, Flagged, Current, Running
<1>2. pc'[q] = CASE Ruling(name[q]) = "blocked" -> FirstOfRefusal(q)
                 [] Ruling(name[q]) = "allowed" -> "logAllowed"
                 [] OTHER -> "upstream"
  BY <1>0 DEF Check, Goto, TypeOK
<1>3. CASE Ruling(name[q]) = "blocked"
  <2>1. name[q] # NoName /\ Verdict[active][name[q]] = "blocked"
    BY <1>3 DEF Ruling
  <2>2. /\ pc'[q] = IF LogsFirst(q) THEN "logRefusal" ELSE "refuse"
        /\ LogsFirst(q)' = LogsFirst(q)
    BY <1>0, <1>2, <1>3 DEF FirstOfRefusal, LogsFirst
  <2>3. Justified(q)'
    BY <1>0, <1>1, <2>1, <2>2 DEF Justified
  <2>4. Flagged(q)'
    BY <1>0, <1>1, <2>2 DEF Orderly, Flagged
  <2> QED
    BY <1>0, <1>1, <2>1, <2>2, <2>3, <2>4
    DEF Orderly, Blank, Answered, Replied, Logged, Current, Cleared, Relayed
<1>4. CASE Ruling(name[q]) # "blocked"
  <2>1. pc'[q] \in {"logAllowed", "upstream"}
    BY <1>2, <1>4
  <2> QED
    BY <1>0, <1>1, <2>1
    DEF Orderly, Blank, Answered, Replied, Logged, Flagged, Current, Justified,
        Cleared, Relayed
<1> QED
  BY <1>3, <1>4

\* What a log step does, in one query.
LEMMA LogStep ==
    ASSUME HandlerInv, NEW q \in Query,
           NEW action \in {"blocked", "allowed", "forwarded"}, NEW next,
           Log(q, action, next)
    PROVE  /\ pc'[q] = next
           /\ UNCHANGED <<active, logging, via, name, reply, todo, answer, seen,
                          flags>>
           /\ \/ UNCHANGED log /\ (~logging \/ name[q] = NoName)
              \/ /\ logging /\ log'[q] # <<>> /\ Last(log'[q]) = action
                 /\ ToSet(log'[q]) = ToSet(log[q]) \cup {action}
<1>0. TypeOK
  BY DEF HandlerInv
<1>1. CASE logging /\ name[q] # NoName
  <2>1. log'[q] = Append(log[q], action)
    BY <1>0, <1>1 DEF Log, TypeOK
  <2>2. /\ log'[q] # <<>> /\ Last(log'[q]) = action
        /\ ToSet(log'[q]) = ToSet(log[q]) \cup {action}
    <3>1. PICK S : log[q] \in Seq(S) /\ action \in S
      BY <1>0 DEF TypeOK
    <3> QED
      BY <2>1, <3>1, Entered
  <2> QED
    BY <1>0, <1>1, <2>2 DEF Log, Goto, TypeOK
<1>2. CASE ~(logging /\ name[q] # NoName)
  BY <1>0, <1>2 DEF Log, Goto, TypeOK
<1> QED
  BY <1>1, <1>2

LEMMA LogOrderly ==
    ASSUME HandlerInv, NEW q \in Query,
           LogAllowed(q) \/ LogRefusal(q) \/ LogForwarded(q)
    PROVE  Orderly(q)'
<1>0. Orderly(q) /\ TypeOK /\ logging \in BOOLEAN
  BY DEF HandlerInv, TypeOK
<1>1. CASE LogAllowed(q)
  <2>1. /\ pc[q] = "logAllowed" /\ pc'[q] = "upstream"
        /\ UNCHANGED <<active, logging, via, name, reply, todo, answer, seen, flags>>
        /\ \/ UNCHANGED log
           \/ logging /\ ToSet(log'[q]) = ToSet(log[q]) \cup {"allowed"}
    BY <1>1, LogStep DEF LogAllowed
  <2>2. Logged(q)' /\ Flagged(q)'
    BY <1>0, <2>1 DEF Orderly, Logged, Flagged, Running, Relayed
  <2> QED
    BY <1>0, <2>1, <2>2 DEF Orderly, Blank, Answered, Replied, Current, Justified,
                            Cleared, Running, Relayed, TooBig
<1>2. CASE LogRefusal(q)
  <2>1. /\ pc[q] = "logRefusal"
        /\ pc'[q] = IF LogsFirst(q) THEN "refuse" ELSE "done"
        /\ LogsFirst(q)' = LogsFirst(q)
        /\ UNCHANGED <<active, logging, via, name, reply, todo, answer, seen, flags>>
        /\ \/ UNCHANGED log /\ (~logging \/ name[q] = NoName)
           \/ /\ logging /\ log'[q] # <<>> /\ Last(log'[q]) = "blocked"
              /\ ToSet(log'[q]) = ToSet(log[q]) \cup {"blocked"}
    BY <1>2, LogStep DEF LogRefusal, LogsFirst
  <2>2. ~Relayed(q) /\ name[q] # NoName /\ logging \in flags[q]
    BY <1>0, <2>1 DEF Orderly, Answered, Replied, Flagged, Running, Relayed
  <2>3. Logged(q)'
    BY <1>0, <2>1, <2>2 DEF Orderly, Logged, Relayed
  <2>4. Flagged(q)'
    BY <1>0, <2>1, <2>2 DEF Orderly, Flagged, Running, Relayed
  <2>5. TargetsOf(q)' = TargetsOf(q)
    BY <2>1 DEF TargetsOf
  <2> QED
    BY <1>0, <2>1, <2>3, <2>4, <2>5 DEF Orderly, Blank, Answered, Replied, Current,
                            Justified, Cleared, Running, Relayed, TooBig
<1>3. CASE LogForwarded(q)
  <2>1. /\ pc[q] = "logForwarded" /\ pc'[q] = "done"
        /\ UNCHANGED <<active, logging, via, name, reply, todo, answer, seen, flags>>
        /\ \/ UNCHANGED log /\ (~logging \/ name[q] = NoName)
           \/ /\ logging /\ log'[q] # <<>> /\ Last(log'[q]) = "forwarded"
              /\ ToSet(log'[q]) = ToSet(log[q]) \cup {"forwarded"}
    BY <1>3, LogStep DEF LogForwarded
  <2>2. Relayed(q) /\ logging \in flags[q] /\ "blocked" \notin ToSet(log[q])
    BY <1>0, <2>1 DEF Orderly, Answered, Flagged, Logged, Running
  <2>3. Logged(q)'
    BY <1>0, <2>1, <2>2 DEF Orderly, Logged, Relayed
  <2>4. Flagged(q)'
    BY <1>0, <2>1, <2>2 DEF Orderly, Flagged, Running, Relayed
  <2> QED
    BY <1>0, <2>1, <2>2, <2>3, <2>4 DEF Orderly, Blank, Answered, Replied, Current,
                            Justified, Cleared, Running, Relayed, TooBig
<1> QED
  BY <1>1, <1>2, <1>3

\* The handler only moves on, or sends an answer.
LEMMA SendOrderly ==
    ASSUME HandlerInv, NEW q \in Query,
           \/ Refuse(q) \/ FallBack(q) \/ UpstreamFails(q) \/ Relay(q)
           \/ TruncateFails(q) \/ SendFails(q)
    PROVE  Orderly(q)'
<1>0. Orderly(q) /\ TypeOK
  BY DEF HandlerInv
<1>1. CASE Refuse(q)
  <2>1. /\ pc[q] = "refuse" /\ answer'[q] = "nxdomain"
        /\ pc'[q] = IF LogsFirst(q) THEN "done" ELSE "logRefusal"
        /\ LogsFirst(q)' = LogsFirst(q)
        /\ UNCHANGED <<active, logging, via, name, reply, todo, log, seen, flags>>
    BY <1>0, <1>1 DEF Refuse, Goto, LogsFirst, TypeOK
  <2>2. /\ name[q] # NoName /\ logging \in flags[q]
        /\ "forwarded" \notin ToSet(log[q])
        /\ ~LogsFirst(q) => "blocked" \notin ToSet(log[q])
    BY <1>0, <2>1 DEF Orderly, Replied, Flagged, Running, Logged
  <2>3. Logged(q)'
    BY <1>0, <2>1, <2>2 DEF Orderly, Logged, Relayed
  <2> QED
    BY <1>0, <2>1, <2>2, <2>3 DEF Orderly, Blank, Answered, Replied, Flagged,
                 Current, Justified, Cleared, Running, Relayed
<1>2. CASE FallBack(q)
  <2>1. /\ pc[q] = "upstream" /\ pc'[q] = "retry"
        /\ UNCHANGED <<active, logging, via, name, reply, todo, answer, log,
                       seen, flags>>
    BY <1>0, <1>2 DEF FallBack, Goto, TypeOK
  <2> QED
    BY <1>0, <2>1 DEF Orderly, Blank, Answered, Replied, Logged, Flagged, Current,
                      Justified, Cleared, Running, Relayed, TooBig
<1>3. CASE UpstreamFails(q) \/ TruncateFails(q) \/ SendFails(q)
  <2>1. /\ pc[q] \in {"upstream", "retry", "targets", "refuse"}
        /\ pc'[q] = "failed"
        /\ UNCHANGED <<active, logging, via, name, reply, todo, answer, log,
                       seen, flags>>
    BY <1>0, <1>3 DEF UpstreamFails, TruncateFails, SendFails, Goto, TypeOK
  <2> QED
    BY <1>0, <2>1 DEF Orderly, Blank, Answered, Replied, Logged, Flagged, Current,
                      Justified, Cleared, Running, Relayed, TooBig
<1>4. CASE Relay(q)
  <2>1. /\ pc[q] = "targets" /\ pc'[q] = "logForwarded"
        /\ answer'[q] = IF TooBig(q) THEN "truncated" ELSE "whole"
        /\ UNCHANGED <<active, logging, via, name, reply, todo, log, seen, flags>>
    BY <1>0, <1>4 DEF Relay, Goto, TypeOK
  <2>2. TooBig(q)' = TooBig(q)
    BY <2>1 DEF TooBig
  <2> QED
    BY <1>0, <2>1, <2>2 DEF Orderly, Blank, Answered, Replied, Logged, Flagged,
                      Current, Justified, Cleared, Running, Relayed
<1> QED
  BY <1>1, <1>2, <1>3, <1>4

\* A reply is kept: all its targets are still to be checked.
LEMMA ReturnOrderly ==
    ASSUME HandlerInv, NEW q \in Query, NEW r \in Reply, Return(q, r)
    PROVE  Orderly(q)'
<1>0. Orderly(q) /\ TypeOK /\ r # NoReply /\ ToSet(<<>>) = {}
  BY ReplyType, Members DEF HandlerInv
<1>1. /\ pc[q] \in {"upstream", "retry"} /\ pc'[q] = "targets"
      /\ reply'[q] = r /\ seen'[q] = {active}
      /\ todo'[q] = IF name[q] = NoName THEN <<>> ELSE r.targets
      /\ UNCHANGED <<active, logging, via, name, answer, log, flags>>
  BY <1>0 DEF Return, Goto, TypeOK
<1>2. Cleared(q)'
  BY <1>0, <1>1 DEF Cleared, TargetsOf
<1> QED
  BY <1>0, <1>1, <1>2 DEF Orderly, Blank, Answered, Replied, Logged, Flagged,
                    Current, Justified, Running, Relayed

\* check on a target: one that passes has passed a blocklist in force.
LEMMA TargetOrderly ==
    ASSUME HandlerInv, NEW q \in Query, CheckTarget(q) PROVE Orderly(q)'
<1>0. /\ Orderly(q) /\ TypeOK /\ pc[q] = "targets"
      /\ todo[q] \in Seq(Name) /\ todo[q] # <<>>
      /\ UNCHANGED <<active, logging, via, name, reply, answer, log, seen, flags>>
  BY DEF HandlerInv, TypeOK, CheckTarget
<1>1. /\ answer[q] = "none" /\ reply[q] \in Reply /\ reply[q] # NoReply
      /\ name[q] # NoName /\ active \in seen[q] /\ logging \in flags[q]
      /\ "blocked" \notin ToSet(log[q]) /\ "forwarded" \notin ToSet(log[q])
  BY <1>0, ReplyAssumption
  DEF Orderly, Answered, Replied, Current, Flagged, Logged, Running
<1>2. PICK n \in Name : n = Head(todo[q])
  BY <1>0, TakenOff
<1>3. n # NoName /\ TargetsOf(q)' = TargetsOf(q)
  BY <1>0, VerdictAssumption DEF TargetsOf
<1>4. CASE Verdict[active][n] = "blocked"
  <2>1. /\ pc'[q] = "logRefusal" /\ UNCHANGED todo
        /\ LogsFirst(q)'
    BY <1>0, <1>1, <1>2, <1>3, <1>4
    DEF CheckTarget, Ruling, Goto, FirstOfRefusal, LogsFirst, TypeOK
  <2>2. n \in TargetsOf(q)
    BY <1>0, <1>2, TakenOff DEF Orderly, Cleared
  <2>3. Justified(q)'
    BY <1>0, <1>1, <1>3, <1>4, <2>1, <2>2 DEF Justified
  <2>4. Flagged(q)'
    BY <1>0, <1>1, <2>1 DEF Orderly, Flagged
  <2> QED
    BY <1>0, <1>1, <2>1, <2>3, <2>4
    DEF Orderly, Blank, Answered, Replied, Logged, Current, Cleared, Relayed
<1>5. CASE Verdict[active][n] # "blocked"
  <2>1. UNCHANGED pc /\ todo'[q] = Tail(todo[q])
    BY <1>0, <1>2, <1>3, <1>5 DEF CheckTarget, Ruling, TypeOK
  <2>2. /\ ToSet(todo[q]) \subseteq ToSet(todo'[q]) \cup {n}
        /\ ToSet(todo'[q]) \subseteq ToSet(todo[q])
    BY <1>0, <1>2, <2>1, TakenOff
  <2>3. Cleared(q)'
    BY <1>0, <1>1, <1>3, <1>5, <2>1, <2>2 DEF Orderly, Cleared
  <2> QED
    BY <1>0, <1>1, <2>1, <2>3
    DEF Orderly, Blank, Answered, Replied, Logged, Flagged, Current, Justified,
        Relayed, Running
<1> QED
  BY <1>4, <1>5

LEMMA HandlerInvInit == Init => HandlerInv
BY TypeInit, OrderlyInit DEF HandlerInv

LEMMA HandlerInvStep == HandlerInv /\ [Next]_vars => HandlerInv'
<1> SUFFICES ASSUME HandlerInv, [Next]_vars PROVE \A q \in Query : Orderly(q)'
  BY TypeStep DEF HandlerInv
<1>0. TypeOK /\ \A q \in Query : Orderly(q)
  BY DEF HandlerInv
<1>1. ASSUME NEW q \in Query, StepOf(q), Orderly(q)' PROVE \A r \in Query : Orderly(r)'
  BY <1>0, <1>1, OthersSame, SameOrderly DEF OnlyOf
<1>2. ASSUME NEW q \in Query, Step(q) PROVE \A r \in Query : Orderly(r)'
  <2>1. Orderly(q)'
    BY <1>2, CheckOrderly, LogOrderly, SendOrderly, ReturnOrderly, TargetOrderly
    DEF Step
  <2> QED
    BY <1>1, <1>2, <2>1 DEF StepOf
<1>3. ASSUME NEW q \in Query, NEW t \in {"udp", "tcp"},
             Reject(q, t) \/ \E n \in Asks[q] : Receive(q, t, n)
      PROVE  \A r \in Query : Orderly(r)'
  BY <1>1, <1>3, ComingOrderly DEF StepOf
<1>4. CASE UNCHANGED vars
  BY <1>0, <1>4, SameOrderly DEF vars, handler, Same
<1> QED
  BY <1>2, <1>3, <1>4, InstallOrderly, ToggleOrderly DEF Next

\* The invariant that the theorems below rest on: what the handlers know, have
\* seen, answered and logged fits together for each query, whatever is swapped
\* or toggled in between.
THEOREM HandlerInvHolds == Spec => []HandlerInv
BY HandlerInvInit, HandlerInvStep, PTL DEF Spec

\* A query in the journal as forwarded was relayed, one in it as blocked was
\* not, however the handler ended and whatever was toggled (LogTruthful).
THEOREM TruthLogged == Spec => []LogTruthful
<1>1. HandlerInv => LogTruthful
  BY DEF HandlerInv, Orderly, Logged, LogTruthful
<1> QED
  BY <1>1, HandlerInvHolds, PTL

\* A query that ran under one value of the logging flag has its outcome in the
\* journal if that was TRUE, and nothing if it was FALSE (LogComplete).
THEOREM AllLogged == Spec => []LogComplete
<1>1. HandlerInv => LogComplete
  BY DEF HandlerInv, Orderly, Flagged, LogComplete
<1> QED
  BY <1>1, HandlerInvHolds, PTL

\* A UDP client gets a reply that it takes, and only a reply that is too big
\* for it is cut (FitsClient).
THEOREM ClientFits == Spec => []FitsClient
<1>1. HandlerInv => FitsClient
  BY DEF HandlerInv, Orderly, Answered, FitsClient
<1> QED
  BY <1>1, HandlerInvHolds, PTL

-----------------------------------------------------------------------------
(* The handlers implement Filter *)

LEMMA PromiseInit == Init => Promise!Init
<1> SUFFICES ASSUME Init PROVE Promise!Init
  OBVIOUS
<1>1. \A q \in Query : StageOf(q) = "idle" /\ TargetsOf(q) = {} /\ AnswerOf(q) = "none"
  BY DEF Init, StageOf, TargetsOf, AnswerOf, Relayed
<1>2. {q \in Query : via[q] = "tcp"} = {}
  BY DEF Init
<1> QED
  BY <1>1, <1>2 DEF Init, Promise!Init

\* A step of q changes the mapped state of q only.
LEMMA MappedStep ==
    ASSUME TypeOK, TypeOK', NEW q \in Query, StepOf(q)
    PROVE  /\ [r \in Query |-> StageOf(r)]' =
                 [[r \in Query |-> StageOf(r)] EXCEPT ![q] = StageOf(q)']
           /\ [r \in Query |-> TargetsOf(r)]' =
                 [[r \in Query |-> TargetsOf(r)] EXCEPT ![q] = TargetsOf(q)']
           /\ [r \in Query |-> AnswerOf(r)]' =
                 [[r \in Query |-> AnswerOf(r)] EXCEPT ![q] = AnswerOf(q)']
           /\ name' = [name EXCEPT ![q] = name'[q]]
           /\ seen' = [seen EXCEPT ![q] = seen'[q]]
           /\ active' = active
<1>1. (\A r \in Query : r # q => Same(r)) /\ active' = active
  BY OthersSame DEF OnlyOf
<1>2. \A r \in Query : r # q =>
         /\ StageOf(r)' = StageOf(r)
         /\ TargetsOf(r)' = TargetsOf(r)
         /\ AnswerOf(r)' = AnswerOf(r)
  BY <1>1 DEF Same, StageOf, TargetsOf, AnswerOf, Relayed
<1>3. name' = [name EXCEPT ![q] = name'[q]] /\ seen' = [seen EXCEPT ![q] = seen'[q]]
  <2>1. /\ name \in [Query -> Name \cup {NoName}] /\ seen \in [Query -> SUBSET Version]
        /\ name' \in [Query -> Name \cup {NoName}] /\ seen' \in [Query -> SUBSET Version]
    BY DEF TypeOK
  <2>2. \A r \in Query : r # q => name'[r] = name[r] /\ seen'[r] = seen[r]
    BY <1>1 DEF Same
  <2> QED
    BY <2>1, <2>2
<1> QED
  BY <1>1, <1>2, <1>3

\* A step that changes nothing of it at q is a stuttering step of Filter.
LEMMA Stutter ==
    ASSUME TypeOK, TypeOK', NEW q \in Query, StepOf(q),
           StageOf(q)' = StageOf(q), TargetsOf(q)' = TargetsOf(q),
           AnswerOf(q)' = AnswerOf(q),
           UNCHANGED <<via, name, seen>>
    PROVE  UNCHANGED Promise!vars
<1>1. /\ \A r \in Query : /\ StageOf(r)' = StageOf(r)
                          /\ TargetsOf(r)' = TargetsOf(r)
                          /\ AnswerOf(r)' = AnswerOf(r)
      /\ active' = active
  <2>1. (\A r \in Query : r # q => Same(r)) /\ active' = active
    BY OthersSame DEF OnlyOf
  <2>2. \A r \in Query : r # q =>
           /\ StageOf(r)' = StageOf(r)
           /\ TargetsOf(r)' = TargetsOf(r)
           /\ AnswerOf(r)' = AnswerOf(r)
    BY <2>1 DEF Same, StageOf, TargetsOf, AnswerOf, Relayed
  <2> QED
    BY <2>1, <2>2
<1> QED
  BY <1>1 DEF Promise!vars

\* The task of a stream takes up a query when those before are answered.
LEMMA ArrivesTurn ==
    ASSUME HandlerInv, NEW q \in Query, NEW t \in {"udp", "tcp"}, Arrives(q, t)
    PROVE  Promise!Turn(q)
<1>0. TypeOK /\ \A r \in Query : Orderly(r)
  BY DEF HandlerInv
<1>1. via[q] = "udp" /\ \A r \in Query : via'[r] = IF r = q THEN t ELSE via[r]
  BY <1>0 DEF Arrives, Orderly, Blank, TypeOK
<1>2. CASE t = "udp"
  <2>1. {r \in Query : via[r] = "tcp"}' = {r \in Query : via[r] = "tcp"}
    BY <1>1, <1>2
  <2> QED
    BY <2>1 DEF Promise!Turn
<1>3. CASE t = "tcp"
  <2>1. {r \in Query : via[r] = "tcp"}' = {r \in Query : via[r] = "tcp"} \cup {q}
    BY <1>1, <1>3
  <2>2. \A p \in Earlier[q] : p \in Query /\ via[p] = "tcp" /\ pc[p] = "done"
    BY <1>3, EarlierAssumption DEF Arrives
  <2>3. \A p \in Earlier[q] : p \in Query /\ via[p] = "tcp" /\ StageOf(p) = "answered"
    BY <1>0, <2>2 DEF Orderly, Answered, StageOf
  <2> QED
    BY <2>1, <2>3 DEF Promise!Turn
<1> QED
  BY <1>2, <1>3

LEMMA ComingPromise ==
    ASSUME HandlerInv, TypeOK', NEW q \in Query, NEW t \in {"udp", "tcp"},
           Reject(q, t) \/ \E n \in Asks[q] : Receive(q, t, n)
    PROVE  Promise!Ask(q) \/ Promise!Discard(q)
<1>0. TypeOK /\ Orderly(q) /\ StepOf(q) /\ Arrives(q, t) /\ pc[q] = "new"
  BY DEF HandlerInv, StepOf, Reject, Receive, Arrives
<1>1. reply[q] = NoReply /\ answer[q] = "none"
  BY <1>0 DEF Orderly, Blank
<1>2. StageOf(q) = "idle" /\ Promise!Turn(q)
  BY <1>0, ArrivesTurn DEF StageOf
<1>3. CASE Reject(q, t)
  <2>1. /\ pc'[q] = "failed"
        /\ UNCHANGED <<active, name, reply, answer, seen>>
    BY <1>0, <1>3 DEF Reject, Goto, TypeOK
  <2>2. /\ StageOf(q)' = "failed" /\ TargetsOf(q)' = TargetsOf(q)
        /\ AnswerOf(q)' = AnswerOf(q)
    BY <2>1 DEF StageOf, TargetsOf, AnswerOf, Relayed
  <2> QED
    BY <1>0, <1>2, <2>1, <2>2, MappedStep DEF Promise!Discard
<1>4. ASSUME NEW n \in Asks[q], Receive(q, t, n) PROVE Promise!Ask(q)
  <2>1. /\ pc'[q] = "check" /\ name' = [name EXCEPT ![q] = n]
        /\ seen' = [seen EXCEPT ![q] = {active}]
        /\ UNCHANGED <<active, reply, answer>>
    BY <1>0, <1>4 DEF Receive, Goto, TypeOK
  <2>2. /\ StageOf(q)' = "asked" /\ TargetsOf(q)' = TargetsOf(q)
        /\ AnswerOf(q)' = AnswerOf(q)
    BY <1>1, <2>1 DEF StageOf, TargetsOf, AnswerOf, Relayed
  <2>3. n \in Name \cup {NoName}
    BY AsksAssumption
  <2> QED
    BY <1>0, <1>2, <2>1, <2>2, <2>3, MappedStep DEF Promise!Ask
<1> QED
  BY <1>3, <1>4

\* A name that the blocklist in force does not block may go upstream.
LEMMA CheckPromise ==
    ASSUME HandlerInv, TypeOK', NEW q \in Query, Check(q)
    PROVE  Promise!Forward(q) \/ UNCHANGED Promise!vars
<1>0. /\ TypeOK /\ Orderly(q) /\ StepOf(q) /\ pc[q] = "check"
      /\ UNCHANGED <<active, via, name, reply, answer, seen>>
  BY DEF HandlerInv, StepOf, Step, Check
<1>1. reply[q] = NoReply /\ answer[q] = "none" /\ active \in seen[q]
  BY <1>0 DEF Orderly, Answered, Replied, Current, Running
<1>2. /\ StageOf(q) = "asked" /\ TargetsOf(q)' = TargetsOf(q)
      /\ AnswerOf(q)' = AnswerOf(q)
  BY <1>0, <1>1 DEF StageOf, TargetsOf, AnswerOf, Relayed
<1>3. pc'[q] = CASE Ruling(name[q]) = "blocked" -> FirstOfRefusal(q)
                 [] Ruling(name[q]) = "allowed" -> "logAllowed"
                 [] OTHER -> "upstream"
  BY <1>0 DEF Check, Goto, TypeOK
<1>4. CASE Ruling(name[q]) = "blocked"
  <2>1. StageOf(q)' = "asked"
    BY <1>0, <1>1, <1>3, <1>4 DEF StageOf, FirstOfRefusal
  <2> QED
    BY <1>0, <1>2, <2>1, Stutter
<1>5. CASE Ruling(name[q]) # "blocked"
  <2>1. pc'[q] \in {"logAllowed", "upstream"}
    BY <1>3, <1>5
  <2>2. StageOf(q)' = "upstream"
    BY <1>0, <1>1, <2>1 DEF StageOf
  <2>3. Promise!Passes(q, name[q])
    BY <1>1, <1>5 DEF Ruling, Promise!Passes
  <2>4. {r \in Query : via[r] = "tcp"}' = {r \in Query : via[r] = "tcp"}
    BY <1>0
  <2> QED
    BY <1>0, <1>2, <2>2, <2>3, <2>4, MappedStep DEF Promise!Forward
<1> QED
  BY <1>4, <1>5

\* Asking, waiting and writing to the journal are not steps of Filter, giving
\* up is: the query is in hand.
LEMMA MovePromise ==
    ASSUME HandlerInv, TypeOK', NEW q \in Query,
           \/ LogAllowed(q) \/ LogRefusal(q) \/ LogForwarded(q) \/ FallBack(q)
           \/ UpstreamFails(q) \/ TruncateFails(q) \/ SendFails(q)
    PROVE  Promise!Abandon(q) \/ UNCHANGED Promise!vars
<1>0. TypeOK /\ Orderly(q) /\ StepOf(q)
  BY DEF HandlerInv, StepOf, Step
<1>1. CASE LogAllowed(q) \/ LogRefusal(q) \/ LogForwarded(q) \/ FallBack(q)
  <2>1. /\ UNCHANGED <<via, name, reply, answer, seen>>
        /\ \/ pc[q] = "logAllowed" /\ pc'[q] = "upstream"
           \/ pc[q] = "logRefusal" /\ pc'[q] \in {"refuse", "done"}
           \/ pc[q] = "logForwarded" /\ pc'[q] = "done"
           \/ pc[q] = "upstream" /\ pc'[q] = "retry"
    BY <1>0, <1>1
    DEF LogAllowed, LogRefusal, LogForwarded, Log, FallBack, Goto, TypeOK
  <2>2. StageOf(q)' = StageOf(q)
    BY <1>0, <2>1 DEF StageOf
  <2>3. TargetsOf(q)' = TargetsOf(q) /\ AnswerOf(q)' = AnswerOf(q)
    BY <2>1 DEF TargetsOf, AnswerOf, Relayed
  <2> QED
    BY <1>0, <2>1, <2>2, <2>3, Stutter
<1>2. CASE UpstreamFails(q) \/ TruncateFails(q) \/ SendFails(q)
  <2>1. /\ UNCHANGED <<active, via, name, reply, answer, seen>>
        /\ pc[q] \in {"upstream", "retry", "targets", "refuse"}
        /\ pc'[q] = "failed"
    BY <1>0, <1>2 DEF UpstreamFails, TruncateFails, SendFails, Goto, TypeOK
  <2>2. answer[q] = "none"
    BY <1>0, <2>1 DEF Orderly, Answered
  <2>3. StageOf(q) \in {"asked", "upstream", "back"} /\ StageOf(q)' = "failed"
    BY <2>1, <2>2 DEF StageOf
  <2>4. TargetsOf(q)' = TargetsOf(q) /\ AnswerOf(q)' = AnswerOf(q)
    BY <2>1 DEF TargetsOf, AnswerOf, Relayed
  <2>5. {r \in Query : via[r] = "tcp"}' = {r \in Query : via[r] = "tcp"}
    BY <2>1
  <2> QED
    BY ZenonT(60), <1>0, <2>1, <2>3, <2>4, <2>5, MappedStep
    DEF Promise!Abandon, Promise!InHand
<1> QED
  BY <1>1, <1>2

\* The reply that is kept comes back.
LEMMA ReturnPromise ==
    ASSUME HandlerInv, TypeOK', NEW q \in Query, NEW r \in Reply, Return(q, r)
    PROVE  Promise!Return(q)
<1>0. TypeOK /\ Orderly(q) /\ StepOf(q) /\ r # NoReply /\ r.targets \in Seq(Name)
  BY ReplyType DEF HandlerInv, StepOf, Step
<1>1. /\ pc[q] \in {"upstream", "retry"} /\ pc'[q] = "targets"
      /\ reply'[q] = r /\ seen' = [seen EXCEPT ![q] = {active}]
      /\ UNCHANGED <<active, via, name, answer>>
  BY <1>0 DEF Return, Goto, TypeOK
<1>2. answer[q] = "none"
  BY <1>0, <1>1 DEF Orderly, Answered
<1>3. StageOf(q) = "upstream" /\ StageOf(q)' = "back"
  BY <1>0, <1>1, <1>2 DEF StageOf
<1>4. AnswerOf(q)' = AnswerOf(q)
  BY <1>1 DEF AnswerOf, Relayed
<1>5. TargetsOf(q)' \in SUBSET Name
  BY <1>0, <1>1, Members DEF TargetsOf
<1>6. {p \in Query : via[p] = "tcp"}' = {p \in Query : via[p] = "tcp"}
  BY <1>1
<1> QED
  BY <1>0, <1>1, <1>3, <1>4, <1>5, <1>6, MappedStep DEF Promise!Return

\* A target that passes is no step of Filter, and neither is the decision to
\* refuse because of one that does not.
LEMMA TargetPromise ==
    ASSUME HandlerInv, TypeOK', NEW q \in Query, CheckTarget(q)
    PROVE  UNCHANGED Promise!vars
<1>0. TypeOK /\ Orderly(q) /\ StepOf(q)
  BY DEF HandlerInv, StepOf, Step
<1>1. /\ pc[q] = "targets" /\ pc'[q] \in {"targets", "logRefusal", "refuse"}
      /\ UNCHANGED <<via, name, reply, answer, seen>>
  BY <1>0 DEF CheckTarget, Goto, FirstOfRefusal, TypeOK
<1>2. StageOf(q)' = StageOf(q)
  BY <1>1 DEF StageOf
<1>3. TargetsOf(q)' = TargetsOf(q) /\ AnswerOf(q)' = AnswerOf(q)
  BY <1>1 DEF TargetsOf, AnswerOf, Relayed
<1> QED
  BY <1>0, <1>1, <1>2, <1>3, Stutter

\* What is relayed has no target that every blocklist in force blocked.
LEMMA RelayPromise ==
    ASSUME HandlerInv, TypeOK', NEW q \in Query, Relay(q)
    PROVE  Promise!Relay(q)
<1>0. TypeOK /\ Orderly(q) /\ StepOf(q)
  BY DEF HandlerInv, StepOf, Step
<1>1. /\ pc[q] = "targets" /\ todo[q] = <<>> /\ pc'[q] = "logForwarded"
      /\ answer'[q] \in {"truncated", "whole"}
      /\ UNCHANGED <<active, via, name, reply, seen>>
  BY <1>0 DEF Relay, Goto, TypeOK
<1>2. answer[q] = "none" /\ reply[q] # NoReply
  BY <1>0, <1>1, ReplyAssumption DEF Orderly, Answered, Replied
<1>3. StageOf(q) = "back" /\ StageOf(q)' = "answered"
  BY <1>1, <1>2 DEF StageOf
<1>4. TargetsOf(q)' = TargetsOf(q) /\ AnswerOf(q)' = "reply"
  BY <1>1 DEF TargetsOf, AnswerOf, Relayed
<1>5. \A n \in TargetsOf(q) : Promise!Passes(q, n)
  BY <1>0, <1>1, Members DEF Orderly, Cleared, Promise!Passes
<1>6. {p \in Query : via[p] = "tcp"}' = {p \in Query : via[p] = "tcp"}
  BY <1>1
<1> QED
  BY <1>0, <1>1, <1>3, <1>4, <1>5, <1>6, MappedStep
  DEF Promise!Relay, Promise!Finish

\* What is refused is, or redirects to, a name that one of them blocked.
LEMMA RefusePromise ==
    ASSUME HandlerInv, TypeOK', NEW q \in Query, Refuse(q)
    PROVE  Promise!Refuse(q)
<1>0. TypeOK /\ Orderly(q) /\ StepOf(q)
  BY DEF HandlerInv, StepOf, Step
<1>1. /\ pc[q] = "refuse" /\ pc'[q] \in {"done", "logRefusal"}
      /\ answer'[q] = "nxdomain"
      /\ UNCHANGED <<active, via, name, reply, seen>>
  BY <1>0 DEF Refuse, Goto, TypeOK
<1>2. answer[q] = "none"
  BY <1>0, <1>1 DEF Orderly, Answered
<1>3. /\ StageOf(q) = IF reply[q] # NoReply THEN "back" ELSE "asked"
      /\ StageOf(q)' = "answered"
  BY <1>1, <1>2 DEF StageOf
<1>4. TargetsOf(q)' = TargetsOf(q) /\ AnswerOf(q)' = "nxdomain"
  BY <1>1 DEF TargetsOf, AnswerOf, Relayed
<1>5. \/ StageOf(q) = "asked" /\ Promise!Blocked(q, name[q])
      \/ StageOf(q) = "back" /\ \E n \in TargetsOf(q) : Promise!Blocked(q, n)
  BY <1>0, <1>1, <1>2, <1>3 DEF Orderly, Justified, Promise!Blocked
<1>6. {p \in Query : via[p] = "tcp"}' = {p \in Query : via[p] = "tcp"}
  BY <1>1
<1> QED
  BY <1>0, <1>1, <1>3, <1>4, <1>5, <1>6, MappedStep
  DEF Promise!Refuse, Promise!Finish

\* A blocklist comes into force for the queries in hand.
LEMMA InstallPromise ==
    ASSUME HandlerInv, NEW v \in Version, Install(v)
    PROVE  Promise!Install(v)
<1>0. \A q \in Query : Orderly(q)
  BY DEF HandlerInv
<1>1. UNCHANGED <<pc, via, name, reply, answer>> /\ active' = v
  BY DEF Install, handler
<1>2. \A q \in Query : Running(q) /\ answer[q] = "none" <=> Promise!InHand(q)
  BY <1>0 DEF Orderly, Answered, Running, StageOf, Promise!InHand
<1>3. seen' = [q \in Query |-> IF Promise!InHand(q) THEN seen[q] \cup {v} ELSE seen[q]]
  BY <1>2 DEF Install
<1>4. \A q \in Query : /\ StageOf(q)' = StageOf(q) /\ TargetsOf(q)' = TargetsOf(q)
                       /\ AnswerOf(q)' = AnswerOf(q)
  BY <1>1 DEF StageOf, TargetsOf, AnswerOf, Relayed
<1> QED
  BY <1>1, <1>3, <1>4 DEF Promise!Install

LEMMA PromiseStep ==
    HandlerInv /\ HandlerInv' /\ [Next]_vars => [Promise!Next]_(Promise!vars)
<1> SUFFICES ASSUME HandlerInv, HandlerInv', [Next]_vars
             PROVE  Promise!Next \/ UNCHANGED Promise!vars
  OBVIOUS
<1>0. TypeOK'
  BY DEF HandlerInv
<1>1. CASE ToggleLogging \/ UNCHANGED vars
  <2>1. UNCHANGED <<active, pc, via, name, reply, answer, seen>>
    BY <1>1 DEF ToggleLogging, vars, handler
  <2>2. \A q \in Query : /\ StageOf(q)' = StageOf(q) /\ TargetsOf(q)' = TargetsOf(q)
                         /\ AnswerOf(q)' = AnswerOf(q)
    BY <2>1 DEF StageOf, TargetsOf, AnswerOf, Relayed
  <2> QED
    BY <2>1, <2>2 DEF Promise!vars
<1>2. ASSUME NEW q \in Query, Step(q)
      PROVE  Promise!Next \/ UNCHANGED Promise!vars
  BY <1>0, <1>2, CheckPromise, MovePromise, ReturnPromise, TargetPromise,
     RelayPromise, RefusePromise DEF Step, Promise!Next
<1>3. ASSUME NEW q \in Query, NEW t \in {"udp", "tcp"},
             Reject(q, t) \/ \E n \in Asks[q] : Receive(q, t, n)
      PROVE  Promise!Next
  BY <1>0, <1>3, ComingPromise DEF Promise!Next
<1>4. ASSUME NEW v \in Version, Install(v) PROVE Promise!Next
  BY <1>4, InstallPromise DEF Promise!Next
<1> QED
  BY <1>1, <1>2, <1>3, <1>4 DEF Next

\* The handlers keep the promise: a blocked name is not sent upstream, and no
\* reply with a blocked target is relayed, by the blocklists in force at the
\* time, through every interleaving with rebuilds (KeepsPromise).
THEOREM PromiseKept == Spec => KeepsPromise
<1>1. Spec => []HandlerInv
  BY HandlerInvHolds
<1> QED
  BY <1>1, PromiseInit, PromiseStep, PTL DEF Spec, KeepsPromise, Promise!Spec

-----------------------------------------------------------------------------
(* The fallback comes once *)

\* How far the handler still has to go, whichever of the two steps of a refusal
\* comes first.
Phase(q) ==
    IF pc[q] = "new" THEN 8
    ELSE IF pc[q] = "check" THEN 7
    ELSE IF pc[q] = "logAllowed" THEN 6
    ELSE IF pc[q] = "upstream" THEN 5
    ELSE IF pc[q] = "retry" THEN 4
    ELSE IF pc[q] = "targets" THEN 3
    ELSE IF pc[q] = "refuse" THEN IF LogsFirst(q) THEN 1 ELSE 2
    ELSE IF pc[q] = "logRefusal" THEN IF LogsFirst(q) THEN 2 ELSE 1
    ELSE IF pc[q] = "logForwarded" THEN 1
    ELSE 0

\* Each step of a handler takes it to a later phase, or leaves it where it is
\* with fewer targets to check; nobody else moves it.
MovesOn(q) ==
    /\ StepOf(q) =>
          \/ Phase(q)' < Phase(q)
          \/ /\ pc[q] = "targets" /\ pc'[q] = "targets"
             /\ Len(todo'[q]) < Len(todo[q])
    /\ ~StepOf(q) => /\ pc'[q] = pc[q] /\ Phase(q)' = Phase(q)
                     /\ todo'[q] = todo[q]

LEMMA StepMoves ==
    ASSUME TypeOK, NEW q \in Query, StepOf(q)
    PROVE  \/ Phase(q)' < Phase(q)
           \/ /\ pc[q] = "targets" /\ pc'[q] = "targets"
              /\ Len(todo'[q]) < Len(todo[q])
<1>1. CASE Check(q)
  <2>1. /\ pc[q] = "check"
        /\ pc'[q] \in {"logRefusal", "refuse", "logAllowed", "upstream"}
    BY <1>1 DEF Check, Goto, FirstOfRefusal, TypeOK
  <2> QED
    BY <2>1 DEF Phase
<1>2. CASE LogAllowed(q) \/ LogForwarded(q)
  <2>1. \/ pc[q] = "logAllowed" /\ pc'[q] = "upstream"
        \/ pc[q] = "logForwarded" /\ pc'[q] = "done"
    BY <1>2 DEF LogAllowed, LogForwarded, Log, Goto, TypeOK
  <2> QED
    BY <2>1 DEF Phase
<1>3. CASE LogRefusal(q)
  <2>1. /\ pc[q] = "logRefusal" /\ LogsFirst(q)' = LogsFirst(q)
        /\ pc'[q] = IF LogsFirst(q) THEN "refuse" ELSE "done"
    BY <1>3 DEF LogRefusal, Log, Goto, LogsFirst, TypeOK
  <2> QED
    BY <2>1 DEF Phase
<1>4. CASE Refuse(q)
  <2>1. /\ pc[q] = "refuse" /\ LogsFirst(q)' = LogsFirst(q)
        /\ pc'[q] = IF LogsFirst(q) THEN "done" ELSE "logRefusal"
    BY <1>4 DEF Refuse, Goto, LogsFirst, TypeOK
  <2> QED
    BY <2>1 DEF Phase
<1>5. CASE FallBack(q) \/ UpstreamFails(q) \/ \E r \in Reply : Return(q, r)
  <2>1. \/ pc[q] = "upstream" /\ pc'[q] \in {"retry", "failed", "targets"}
        \/ pc[q] = "retry" /\ pc'[q] \in {"failed", "targets"}
    BY <1>5 DEF FallBack, UpstreamFails, Return, Goto, TypeOK
  <2> QED
    BY <2>1 DEF Phase
<1>6. CASE CheckTarget(q)
  <2>1. CASE Ruling(Head(todo[q])) = "blocked"
    <3>1. pc[q] = "targets" /\ pc'[q] \in {"logRefusal", "refuse"}
      BY <1>6, <2>1 DEF CheckTarget, Goto, FirstOfRefusal, TypeOK
    <3> QED
      BY <3>1 DEF Phase
  <2>2. CASE Ruling(Head(todo[q])) # "blocked"
    <3>1. /\ pc[q] = "targets" /\ pc'[q] = "targets"
          /\ todo[q] # <<>> /\ todo'[q] = Tail(todo[q])
      BY <1>6, <2>2 DEF CheckTarget, TypeOK
    <3>2. todo[q] \in Seq(Name)
      BY DEF TypeOK
    <3>3. Len(Tail(todo[q])) = Len(todo[q]) - 1 /\ Len(todo[q]) \in Nat
      BY <3>1, <3>2, HeadTailProperties, LenProperties
    <3> QED
      BY <3>1, <3>3
  <2> QED
    BY <2>1, <2>2
<1>7. CASE Relay(q) \/ TruncateFails(q) \/ SendFails(q)
  <2>1. \/ pc[q] = "targets" /\ pc'[q] \in {"logForwarded", "failed"}
        \/ pc[q] = "refuse" /\ pc'[q] = "failed"
    BY <1>7 DEF Relay, TruncateFails, SendFails, Goto, TypeOK
  <2> QED
    BY <2>1 DEF Phase
<1>8. CASE \E t \in {"udp", "tcp"} : Reject(q, t) \/ \E n \in Asks[q] : Receive(q, t, n)
  <2>1. pc[q] = "new" /\ pc'[q] \in {"check", "failed"}
    BY <1>8 DEF Reject, Receive, Arrives, Goto, TypeOK
  <2> QED
    BY <2>1 DEF Phase
<1> QED
  BY <1>1, <1>2, <1>3, <1>4, <1>5, <1>6, <1>7, <1>8 DEF StepOf, Step

LEMMA MovesOnStep ==
    TypeOK /\ [Next]_vars => \A q \in Query : MovesOn(q)
<1> SUFFICES ASSUME TypeOK, [Next]_vars, NEW q \in Query PROVE MovesOn(q)
  OBVIOUS
<1>1. ASSUME ~StepOf(q)
      PROVE  pc'[q] = pc[q] /\ Phase(q)' = Phase(q) /\ todo'[q] = todo[q]
  <2> DEFINE Still == /\ pc'[q] = pc[q] /\ via'[q] = via[q]
                      /\ reply'[q] = reply[q] /\ todo'[q] = todo[q]
  <2>1. ASSUME NEW r \in Query, StepOf(r) PROVE Still
    BY <1>1, <2>1, OthersSame DEF OnlyOf, Same
  <2>2. ASSUME UNCHANGED handler PROVE Still
    BY <2>2 DEF handler
  <2>3. (\E r \in Query : StepOf(r)) \/ UNCHANGED handler
    BY DEF Next, StepOf, Install, ToggleLogging, vars
  <2>4. Still
    BY <2>1, <2>2, <2>3
  <2> QED
    BY <2>4 DEF Phase, LogsFirst
<1> QED
  BY <1>1, StepMoves DEF MovesOn

\* A handler never goes back: it asks again over TCP at most once and checks
\* each target once, whatever rebuilds, reloads and other queries do in between
\* (upstream.rs:331-592).  What QueryHandled adds is that the steps are made.
THEOREM HandlersMoveOn == Spec => [][\A q \in Query : MovesOn(q)]_vars
BY TypeCorrect, MovesOnStep, PTL DEF Spec
=============================================================================
