-------------------------------- MODULE Matcher --------------------------------
(***************************************************************************)
(* The rules of a blocklist: how create_blocklist (main.rs) and the line   *)
(* parsers (blocklist.rs) make them of the lines of the configuration and  *)
(* of the lists, and how Blocklist::check goes by them.                    *)
(*                                                                         *)
(* A line is a record: the source it stands in, its form, whether it       *)
(* begins with @@, and its words or its pattern, without the marks that    *)
(* its form consists of (||, ^, $options, /.../, comments).  A pattern is  *)
(* the set of names that it matches.                                       *)
(***************************************************************************)
EXTENDS Text, FiniteSets

CONSTANTS
    Line,       \* the lines that sources may hold
    MaxLines,   \* how many of them a blocklist is made of
    Name,       \* names that clients ask for
    Local,      \* the names that clean_domain_static leaves out
    Pattern,
    Valid,      \* the patterns that Regex::new accepts
    Matches,    \* Matches[p]: the names in lower case that p matches
    EmptyPattern

\* Keys of the configuration.  The first three are read by parse_line_mode and
\* parse_auto_mode, which tell forms apart in the same way; the next four hold
\* nothing but patterns; entries of manual_allow are taken as they stand.
ListSource == {"urls", "allowlist_urls", "manual_block"}
RegexSource == {"regex_block", "regex_allow",
                "regex_block_urls", "regex_allow_urls"}
Form == {"ignored", "names", "anchored", "pattern", "slash"}
Side == {"allow", "block"}
Shape == {"domains", "suffixes", "regex"}

ASSUME LineAssumption ==
    /\ \A l \in Line :
          /\ l.source \in ListSource \cup RegexSource \cup {"manual_allow"}
          /\ l.form \in Form /\ l.at \in BOOLEAN
          /\ l.words \in Seq(Seq(0..127)) /\ l.pattern \in Pattern
          /\ l.form \in {"names", "anchored"} => l.words # <<>>
          /\ l.source \in RegexSource =>
                l.form \in {"ignored", "pattern"} /\ ~l.at
          /\ l.source = "manual_allow" =>
                l.form = "names" /\ Len(l.words) = 1 /\ ~l.at
    /\ MaxLines \in Nat
ASSUME NameAssumption == Name \subseteq Seq(0..127) /\ Local \subseteq Seq(0..127)
ASSUME PatternAssumption ==
    /\ Valid \subseteq Pattern /\ EmptyPattern \in Pattern
    /\ Matches \in [Pattern -> SUBSET Seq(0..127)]

VARIABLES
    rules,    \* rules[side][shape]: allow_domains, block_suffixes, ...
    lines,    \* history: the lines parsed so far
    aborted   \* the parser has panicked, and the rules with it

ruleVars == <<rules, lines, aborted>>

NoRules == [side \in Side |-> [shape \in Shape |-> {}]]

RulesInit ==
    /\ rules = NoRules
    /\ lines = {}
    /\ aborted = FALSE

-----------------------------------------------------------------------------
(* Parsing: one action per branch *)

\* Mutant of SideOf: an allowlist decides for itself, by @@.
SideByMark(l) ==
    IF l.at \/ l.source \in {"regex_allow", "regex_allow_urls", "manual_allow"}
    THEN "allow" ELSE "block"

\* as_allow, or @@, or a source of its own.
SideOf(l) ==
    IF l.at \/ l.source \in {"allowlist_urls", "regex_allow",
                             "regex_allow_urls", "manual_allow"}
    THEN "allow" ELSE "block"

Insert(l, shape, rule) ==
    /\ rules' = [rules EXCEPT ![SideOf(l)][shape] = @ \cup {rule}]
    /\ UNCHANGED aborted

Ignore == UNCHANGED <<rules, aborted>>

\* Mutant of Domain: the name as it is written.
DomainAsWritten(l) == TrimDots(Last(l.words))

\* clean_domain_static: the last word counts, without trailing dots.
Domain(l) == Lower(TrimDots(Last(l.words)))
IsDomain(l) == Domain(l) # <<>> /\ Domain(l) \notin Local

\* A hosts line or a bare name.
AddDomain(l) ==
    /\ l.form = "names" /\ l.source \in ListSource
    /\ IsDomain(l)
    /\ Insert(l, "domains", Domain(l))

SkipDomain(l) ==
    /\ l.form = "names" /\ l.source \in ListSource
    /\ ~IsDomain(l)
    /\ Ignore

\* An entry of manual_allow, whatever it looks like.
AddLiteral(l) ==
    /\ l.source = "manual_allow"
    /\ Insert(l, "domains", Domain(l))

\* A rule of the form ||name^.
AddSuffix(l) ==
    /\ l.form = "anchored" /\ Domain(l) # <<>>
    /\ Insert(l, "suffixes", Domain(l))

SkipSuffix(l) == l.form = "anchored" /\ Domain(l) = <<>> /\ Ignore

\* Files of patterns leave out an empty one.
IsPattern(l) ==
    /\ l.pattern \in Valid
    /\ l.source \in {"regex_block_urls", "regex_allow_urls"} =>
          l.pattern # EmptyPattern

AddPattern(l) ==
    /\ l.form = "pattern" /\ IsPattern(l)
    /\ Insert(l, "regex", l.pattern)

SkipPattern(l) == l.form = "pattern" /\ ~IsPattern(l) /\ Ignore

\* Blank lines, comments and cosmetic rules.
SkipLine(l) == l.form = "ignored" /\ Ignore

\* The line '/': its slice panics.
Abort(l) ==
    /\ l.form = "slash"
    /\ aborted' = TRUE
    /\ UNCHANGED rules

Parse(l) ==
    /\ ~aborted /\ l \notin lines /\ Cardinality(lines) < MaxLines
    /\ lines' = lines \cup {l}
    /\ \/ AddDomain(l) \/ SkipDomain(l) \/ AddLiteral(l)
       \/ AddSuffix(l) \/ SkipSuffix(l)
       \/ AddPattern(l) \/ SkipPattern(l)
       \/ SkipLine(l) \/ Abort(l)

RulesNext == \E l \in Line : Parse(l)

RulesSpec == RulesInit /\ [][RulesNext]_ruleVars

-----------------------------------------------------------------------------
(* Blocklist::check *)

\* Mutant of Tails: the walk goes byte by byte.
TailsAnywhere(d) == {SubSeq(d, i, Len(d)) : i \in DOMAIN d}

\* The name and what is behind each of its dots.
Tails(d) ==
    {SubSeq(d, i, Len(d)) : i \in {1} \cup {k + 1 : k \in {j \in DOMAIN d : d[j] = Dot}}}

\* Mutant of SuffixMatch: the walk begins at the last label.
ShortestMatch(set, d) ==
    {s \in set \cap Tails(d) : \A r \in set \cap Tails(d) : Len(r) >= Len(s)}

\* suffix_match: of the tails that are rules, the first one on the walk.
SuffixMatch(set, d) ==
    {s \in set \cap Tails(d) : \A r \in set \cap Tails(d) : Len(r) <= Len(s)}

\* The rules of one of the six sets that match d and may be reported for it.
Hits(side, shape, d) ==
    IF shape = "domains" THEN rules[side].domains \cap {d}
    ELSE IF shape = "suffixes" THEN SuffixMatch(rules[side].suffixes, d)
    ELSE {p \in rules[side].regex : d \in Matches[p]}

\* Mutant of Order: exact rules first, whatever their side.
OrderByShape ==
    <<<<"allow", "domains">>, <<"block", "domains">>, <<"allow", "regex">>,
      <<"allow", "suffixes">>, <<"block", "suffixes">>, <<"block", "regex">>>>

\* The order in which check goes through the sets.
Order ==
    <<<<"allow", "domains">>, <<"allow", "regex">>, <<"allow", "suffixes">>,
      <<"block", "domains">>, <<"block", "suffixes">>, <<"block", "regex">>>>

Forwarded == [side |-> "none", shape |-> "none", found |-> {}]

\* check: the first set with a rule that matches, and what it may report.
Check(n) ==
    LET hits(k) == Hits(Order[k][1], Order[k][2], Lower(n))
        hit == {k \in DOMAIN Order : hits(k) # {}}
    IN  IF hit = {} THEN Forwarded
        ELSE [side |-> Order[Min(hit)][1], shape |-> Order[Min(hit)][2],
              found |-> hits(Min(hit))]

-----------------------------------------------------------------------------
(* Properties *)

\* The labels of the name in a line; a name ends in no dot.
LabelsIn(l) == Pieces(Domain(l))

\* Line l is a rule about n: the name itself, the name and its subdomains, or
\* a pattern (README.md:42-46, 63).
Covers(l, n) ==
    LET labels == Pieces(Lower(n)) IN
    \/ /\ l.form = "names" /\ labels = LabelsIn(l)
       /\ l.source = "manual_allow" \/ IsDomain(l)
    \/ /\ l.form = "anchored" /\ Domain(l) # <<>>
       /\ IsSuffix(LabelsIn(l), labels)
    \/ /\ l.form = "pattern" /\ IsPattern(l)
       /\ Lower(n) \in Matches[l.pattern]

\* rule is the one that line l gives.
StandsIn(rule, l) ==
    IF l.form = "pattern" THEN rule = l.pattern ELSE rule = Domain(l)

\* What lines the rules of a set come from.
Origin == [domains |-> "names", suffixes |-> "anchored", regex |-> "pattern"]

About(n, side) == {l \in lines : SideOf(l) = side /\ Covers(l, n)}

\* A name is allowed if some line allows it, else blocked if some line blocks
\* it, whatever sources the lines are from and in whatever order they are
\* parsed; a suffix rule ends at a label (README.md:38-48, 65).
VerdictRight ==
    \A n \in Name :
       Check(n).side = IF About(n, "allow") # {} THEN "allow"
                       ELSE IF About(n, "block") # {} THEN "block" ELSE "none"

\* The rule that is logged for a name stands in a line about that name; of the
\* suffix rules on its side it is the closest one (blocklist.rs:156-157).
RuleNamed ==
    \A n \in Name : LET c == Check(n) IN
       /\ c.side # "none" => c.found # {}
       /\ \A rule \in c.found : \E l \in About(n, c.side) :
             l.form = Origin[c.shape] /\ StandsIn(rule, l)
       /\ c.shape = "suffixes" => \A rule \in c.found, l \in About(n, c.side) :
             l.form = "anchored" => Len(Domain(l)) <= Len(rule)

\* No line of an allowlist makes a name blocked, and no line that blocks makes
\* one pass that was blocked or allowed (README.md:54, 65; blocklist.rs:44-46).
OneSided ==
    [][\A l \in lines' \ lines, n \in Name :
          IF l.source \in {"allowlist_urls", "regex_allow_urls", "regex_allow",
                           "manual_allow"}
          THEN Check(n)'.side = "block" => Check(n).side = "block"
          ELSE ~l.at => /\ Check(n).side = "allow" => Check(n)'.side = "allow"
                        /\ Check(n).side = "block" => Check(n)'.side = "block"]_ruleVars

\* Every variable stays in its type; rules are in lower case and without
\* trailing dots, as check expects them (blocklist.rs:14-22, 68, 86-91, 108).
RulesTypeOK ==
    /\ DOMAIN rules = Side
    /\ \A side \in Side :
          /\ DOMAIN rules[side] = Shape
          /\ rules[side].regex \subseteq Valid
          /\ \A d \in rules[side].domains \cup rules[side].suffixes :
                d = Lower(TrimDots(d))
    /\ lines \subseteq Line /\ aborted \in BOOLEAN
=============================================================================
