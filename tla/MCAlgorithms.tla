----------------------------- MODULE MCAlgorithms -----------------------------
(* Instances of DnsRecord, Matcher, DnsMessage, Journal and Calendar for TLC.    *)
(* They share no state: a behaviour is one of one of them.                     *)
EXTENDS DnsRecord, Matcher, DnsMessage, Journal, Calendar, TLC

CONSTANTS ads, bad, empty,      \* patterns
          qa, qb, ans, tsig,    \* questions and records
          id, cookie

VARIABLE bench   \* which of them the behaviour is one of

-----------------------------------------------------------------------------
(* DnsRecord: all packets of up to 5 bytes that may be roots, lengths (or      *)
(* characters), dots or pointers; and a chain of three pointers.              *)

Packets ==
    SeqOf({0, 1, 2, 46, 192}, 5) \cup {<<0, 192, 0, 192, 1, 192, 3>>}

-----------------------------------------------------------------------------
(* Matcher: names around a.c, with a subdomain, its parent, one that ends in  *)
(* the same letters, one that begins with it, and the root.                   *)

ac == <<97, 46, 99>>                 \* a.c
ACdot == <<65, 46, 67, 46>>          \* A.C.
bac == <<98, 46, 97, 46, 99>>        \* b.a.c
cbac == <<99, 46, 98, 46, 97, 46, 99>>
baac == <<98, 97, 46, 99>>           \* ba.c
acb == <<97, 46, 99, 46, 98>>        \* a.c.b
c == <<99>>
loc == <<108>>                       \* a local name, l
Loc == <<76, 46>>                    \* L.
dot == <<46>>

Names == {ac, <<65, 46, 99>>, bac, cbac, baac, acb, c, loc, <<>>}
LocalNames == {loc}

Row(source, form, at, words, pattern) ==
    [source |-> source, form |-> form, at |-> at, words |-> words,
     pattern |-> pattern]

Lines ==
    {Row(s, "names", at, w, empty) : s \in {"urls"}, at \in BOOLEAN,
        w \in {<<ac>>, <<c, ACdot>>, <<Loc>>, <<dot>>}}
    \cup {Row("allowlist_urls", "names", FALSE, <<bac>>, empty),
          Row("manual_block", "names", FALSE, <<cbac>>, empty)}
    \cup {Row("manual_allow", "names", FALSE, <<w>>, empty) : w \in {ACdot, loc}}
    \cup {Row("urls", "anchored", at, <<w>>, empty) :
            at \in BOOLEAN, w \in {ac, bac, c, dot}}
    \cup {Row("allowlist_urls", "anchored", at, <<w>>, empty) :
            at \in BOOLEAN, w \in {ACdot, bac}}
    \cup {Row("urls", "pattern", at, <<>>, p) :
            at \in BOOLEAN, p \in {ads, bad, empty}}
    \cup {Row(s, "pattern", FALSE, <<>>, p) : p \in {ads, empty},
            s \in {"regex_block_urls", "regex_allow_urls", "regex_block"}}
    \cup {Row("urls", "ignored", FALSE, <<>>, empty),
          Row("urls", "slash", FALSE, <<>>, empty)}

Matching ==
    (ads :> {ac, baac}) @@ (bad :> {}) @@ (empty :> {Lower(n) : n \in Names})

-----------------------------------------------------------------------------
(* DnsMessage: queries with up to two questions and up to two OPT or other    *)
(* records; replies of sizes around the limits that these offer.              *)

Plain(data) == [opt |-> FALSE, size |-> 0, do |-> FALSE, data |-> data]

Questions == {Plain(qa), Plain(qb)}

Wire(flags, q, a, n, x) ==
    <<[id |-> id, flags |-> flags, questions |-> Len(q), answers |-> Len(a),
       authorities |-> Len(n), additionals |-> Len(x)]>> \o q \o a \o n \o x

Offers ==
    {Plain(tsig), Opt(0, FALSE, cookie), Opt(300, FALSE, empty),
     Opt(1400, TRUE, cookie), Opt(8000, FALSE, empty)}

ClientPackets ==
    {Wire({"RD"}, q, <<>>, <<>>, x) : q \in SeqOf(Questions, 2),
                                      x \in SeqOf(Offers, 2)}
    \cup {SubSeq(Wire({}, <<Plain(qa)>>, <<Plain(ans)>>, <<>>, <<>>), 1, 2)}

Replies ==
    {[wire |-> Wire({"QR"}, <<Plain(qa)>>, a, n, x), bytes |-> b] :
        a \in SeqOf({Plain(ans)}, 1), n \in SeqOf({Plain(ans)}, 1),
        x \in {<<>>, <<Plain(tsig), Opt(1232, TRUE, empty)>>},
        b \in {200, 400, 1000, 2000}}
    \cup {[wire |-> <<>>, bytes |-> b] : b \in {200, 2000}}

-----------------------------------------------------------------------------
(* Journal: names and rules with line ends, alone and before a key.           *)

Entry(domain, action, rule) ==
    [source |-> <<"s">>, domain |-> domain, qtype |-> <<"A">>,
     action |-> <<action>>, rule |-> rule]

Entries ==
    {Entry(d, "forwarded", <<>>) : d \in {<<>>, <<"d", LF>>}}
    \cup {Entry(<<"d", LF, "QUERY_ACTION", "allowed">>, "blocked", <<"r">>),
          Entry(<<"QUERY_DOMAIN", "e">>, "allowed", <<"r", CR, LF>>)}

Messages == {<<"m">>, <<"QUERY_ACTION", "blocked">>}

Tokens ==
    {LF, CR, "_", "MESSAGE", "QUERY_SOURCE", "QUERY_DOMAIN", "QUERY_QTYPE",
     "QUERY_ACTION", "QUERY_RULE", "blocked", "allowed", "forwarded",
     "s", "A", "d", "e", "r", "m"}

Filters ==
    [flags : SUBSET Outcome, domain : {<<>>, <<"d", "_">>}, src : {<<>>}]

-----------------------------------------------------------------------------
(* One of the five *)

NoRecordRead ==
    /\ stage = "failed" /\ begin = 0 /\ cname = FALSE /\ saved = 0
    /\ length = 0 /\ target = NoTarget
    /\ packet = <<>> /\ start = 0 /\ pos = 0 /\ labels = <<>>
    /\ jumps = 0 /\ jumped = FALSE /\ jumpPos = 0 /\ reading = "idle"

NoJournal ==
    there = FALSE /\ socket = "unset" /\ journal = <<>> /\ written = <<>>

FirstDay == day = 0 /\ date = <<1970, 1, 1>>

Init ==
    /\ bench \in {"records", "rules", "messages", "entries", "dates"}
    /\ IF bench = "records" THEN RecordInit ELSE NoRecordRead
    /\ RulesInit /\ MessageInit
    /\ IF bench = "entries" THEN JournalInit ELSE NoJournal
    /\ IF bench = "dates" THEN DateInit ELSE FirstDay

vars == <<bench, recordVars, ruleVars, messageVars, journalVars, dateVars>>

ReadRecord ==
    /\ bench = "records" /\ RecordNext
    /\ UNCHANGED <<bench, ruleVars, messageVars, journalVars, dateVars>>

Next ==
    \/ ReadRecord
    \/ /\ bench = "rules" /\ RulesNext
       /\ UNCHANGED <<bench, recordVars, messageVars, journalVars, dateVars>>
    \/ /\ bench = "messages" /\ MessageNext
       /\ UNCHANGED <<bench, recordVars, ruleVars, journalVars, dateVars>>
    \/ /\ bench = "entries" /\ JournalNext
       /\ UNCHANGED <<bench, recordVars, ruleVars, messageVars, dateVars>>
    \/ /\ bench = "dates" /\ NextDay
       /\ UNCHANGED <<bench, recordVars, ruleVars, messageVars, journalVars>>

Spec == Init /\ [][Next]_vars /\ WF_vars(ReadRecord)
=============================================================================
