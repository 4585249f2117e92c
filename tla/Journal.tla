-------------------------------- MODULE Journal --------------------------------
(***************************************************************************)
(* Query log entries on their way from log_query (journald.rs) through     *)
(* journald to the report of `dns-ligase stats` (stats.rs).  What log_query *)
(* sends is one text of lines KEY=value, and names and rules may hold any  *)
(* text, line ends and keys included.                                      *)
(*                                                                         *)
(* A text is a sequence of tokens; a key as a token stands for KEY=.  All  *)
(* text is printable but for line ends.  Times are left out.               *)
(***************************************************************************)
EXTENDS Text

CONSTANTS
    Token,       \* what texts are made of
    Logged,      \* what log_query may be called with
    Message,     \* operational messages
    Filter,      \* the flags that `stats` may be called with
    MaxEntries   \* the journal is full with that many

LF == "LF"
CR == "CR"
Outcome == {<<"blocked">>, <<"allowed">>, <<"forwarded">>}
Field == {"source", "domain", "qtype", "action", "rule"}
Key == [source |-> "QUERY_SOURCE", domain |-> "QUERY_DOMAIN",
        qtype |-> "QUERY_QTYPE", action |-> "QUERY_ACTION", rule |-> "QUERY_RULE"]

ASSUME LoggedAssumption ==
    /\ {LF, CR, "_", "MESSAGE"} \cup {Key[field] : field \in Field} \subseteq Token
    /\ Logged \subseteq [Field -> Seq(Token)]
    /\ \A q \in Logged : q.action \in Outcome
    /\ Message \subseteq Seq(Token \ {LF})
    /\ Filter \subseteq [flags : SUBSET Outcome, domain : Seq(Token), src : Seq(Token)]
    /\ MaxEntries \in Nat

VARIABLES
    there,    \* journald listens on its socket
    socket,   \* JOURNAL_SOCK: "unset", "none" or "open"
    journal,  \* what journald has been sent, in order
    written   \* history: what those entries of it that are query logs say

journalVars == <<there, socket, journal, written>>

JournalInit ==
    /\ there \in BOOLEAN
    /\ socket = "unset"
    /\ journal = <<>> /\ written = <<>>

-----------------------------------------------------------------------------
(* log_query *)

\* Mutant of SanitizeField: only the first line end is replaced.
SanitizeFirst(text) ==
    [i \in DOMAIN text |->
       IF text[i] \in {LF, CR} /\ \A j \in 1..(i - 1) : text[j] \notin {LF, CR}
       THEN "_" ELSE text[i]]

\* sanitize_field.
SanitizeField(text) ==
    [i \in DOMAIN text |-> IF text[i] \in {LF, CR} THEN "_" ELSE text[i]]

FieldLine(key, text) == <<key>> \o text \o <<LF>>

\* The datagram for a query.
Datagram(query) ==
    LET q == [field \in Field |-> SanitizeField(query[field])]
        line(field) == FieldLine(Key[field], q[field])
    IN  FieldLine("MESSAGE", q.action \o q.domain \o q.qtype \o q.source \o q.rule)
          \o line("source") \o line("domain") \o line("qtype")
          \o line("action") \o line("rule")

\* The socket is opened for the first entry, or never.
Opened == IF socket = "unset" THEN IF there THEN "open" ELSE "none" ELSE socket

LogQuery(q) ==
    /\ Opened = "open" /\ Len(journal) < MaxEntries
    /\ socket' = Opened
    /\ journal' = Append(journal, Datagram(q))
    /\ written' = Append(written, q)
    /\ UNCHANGED there

\* There is no socket, or sending fails: the entry is lost.
LoseQuery(q) ==
    /\ socket' = Opened
    /\ UNCHANGED <<there, journal, written>>

-----------------------------------------------------------------------------
(* journald *)

\* Operational logs come through stderr.
LogMessage(text) ==
    /\ there /\ Len(journal) < MaxEntries
    /\ journal' = Append(journal, FieldLine("MESSAGE", text))
    /\ UNCHANGED <<there, socket, written>>

Appear == there' = TRUE /\ UNCHANGED <<socket, journal, written>>

JournalNext ==
    \/ \E q \in Logged : LogQuery(q) \/ LoseQuery(q)
    \/ \E text \in Message : LogMessage(text)
    \/ Appear

JournalSpec == JournalInit /\ [][JournalNext]_journalVars

\* Where lines with a key begin in an entry, and what follows the key there.
Places(entry, key) ==
    {i \in DOMAIN entry : entry[i] = key /\ (i > 1 => entry[i - 1] = LF)}
Value(entry, i) ==
    LET end == CHOOSE j \in (i + 1)..Len(entry) :
                  entry[j] = LF /\ \A k \in (i + 1)..(j - 1) : entry[k] # LF
    IN  SubSeq(entry, i + 1, end - 1)

-----------------------------------------------------------------------------
(* stats *)

\* A key that an entry has twice comes as an array, which is not a String.
Parses(entry) == \A field \in Field : Cardinality(Places(entry, Key[field])) <= 1

IsQueryLog(entry) ==
    Places(entry, Key["action"]) # {} \/ Places(entry, Key["domain"]) # {}

\* The entries that parse_entries keeps, and what it takes from one of them:
\* absent fields are empty.
Kept == {i \in DOMAIN journal : Parses(journal[i]) /\ IsQueryLog(journal[i])}

Fields(entry) ==
    [field \in Field |->
       LET at == Places(entry, Key[field])
       IN  IF at = {} THEN <<>> ELSE Value(entry, CHOOSE i \in at : TRUE)]

ParseEntries == [n \in 1..Cardinality(Kept) |-> Fields(journal[Nth(Kept, n)])]

\* str::contains.
Within(part, text) ==
    \E i \in 0..Len(text) : IsPrefix(part, SubSeq(text, i + 1, Len(text)))

\* Mutant of Selected: forwarded alone does not count as a flag.
SelectedByVerdict(e, f) ==
    /\ f.flags \cap {<<"blocked">>, <<"allowed">>} # {} => e.action \in f.flags
    /\ Within(f.domain, e.domain) /\ Within(f.src, e.source)

\* What filter_entries keeps; no filter and the empty one are the same.
Selected(e, f) ==
    /\ f.flags # {} => e.action \in f.flags
    /\ Within(f.domain, e.domain) /\ Within(f.src, e.source)

Report(f) ==
    Retain(ParseEntries,
           {n \in DOMAIN ParseEntries : Selected(ParseEntries[n], f)})

-----------------------------------------------------------------------------
(* Properties *)

\* text is what was logged but for its line ends.
Says(text, logged) ==
    /\ Len(text) = Len(logged)
    /\ \A i \in DOMAIN text : logged[i] \notin {LF, CR} => text[i] = logged[i]

\* stats reads one entry for each query that was logged, in order, with the
\* outcome and the names that were logged, whatever line ends and keys stand in
\* them, and none for operational messages (journald.rs:39-42; stats.rs:64).
ReportFaithful ==
    /\ Len(ParseEntries) = Len(written)
    /\ \A n \in DOMAIN written, field \in Field :
          Says(ParseEntries[n][field], written[n][field])

\* The reports by outcome share out the report without one: no query is counted
\* in two of them or in none (stats.rs:122-134).
OutcomesAddUp ==
    \A f \in Filter :
       LET count(flags) == Len(Report([f EXCEPT !.flags = flags]))
       IN  /\ count({}) = count({<<"blocked">>}) + count({<<"allowed">>})
                            + count({<<"forwarded">>})
           /\ count({}) = count(Outcome)
           /\ f.flags # {} =>
                 \A n \in DOMAIN Report(f) : Report(f)[n].action \in f.flags
=============================================================================
