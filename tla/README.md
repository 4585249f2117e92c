# dns-ligase: verification project

TLA+ modules that model dns-ligase (`src/`), TLC configurations that check them
on small instances, and theorems about them checked by TLAPS. Line numbers
refer to the files of `src/src/` unless a path is given. `PROJECT.json` maps
every definition to the lines it models and lists components, runs, mutants,
findings, hazards and theorems.

## 1. Inventory of the system

dns-ligase is a DNS forwarder: it answers clients on UDP and TCP, blocks names
by lists that it downloads, and forwards the rest to one upstream resolver. It
is one process of tokio tasks (`main.rs`) that share four objects: the
configuration, the blocklist, the list cache and the upstream handle.

| Component | State | Operations | Interacts with | What is hard |
| --- | --- | --- | --- | --- |
| List cache (`CachedLists`, blocklist.rs:327-759) | `map` (URL to fetch time, ETag, file), `dirty`; on disk `cache.json` and body files in `cache.d` | load, plan, download, merge, prune, save | HTTP servers, file system; behind one tokio mutex | downloads run without the mutex, so rebuilds interleave; crashes and write errors between two steps; stale ETags |
| Rebuild (`create_blocklist`, main.rs:174-285) | local: configuration, jobs, bodies, rules | plan, download, merge, parse, prune, save, install | list cache, upstream (to resolve list hosts) | several rebuilds at once, with different configurations |
| Lifecycle (main.rs:22-111, 287-536, systemd unit) | configuration, blocklist, log flag, upstream handle | start, refresh timer, SIGHUP, SIGTERM, crash, restart | all | signals in the middle of a rebuild; an old rebuild that ends after a new one |
| Upstream pools (`Upstream`, upstream.rs:36-213) | two pools of idle connections | `udp_query`, `tcp_query`, `return_tcp`, swap of the handle | upstream resolver, query handlers, `resolve_a` | timeouts against late replies; dead idle streams; caps; swaps in flight |
| Query handlers (upstream.rs:248-670) | one task per query or client stream | check, block, forward, CNAME check, truncate, log | blocklist, upstream, journald | blocklist swapped during a query; order of checks; partial failures |
| Matcher and rule parser (blocklist.rs:14-325) | sets of domains, suffixes, regexes | `check`, `suffix_match`, `parse_*` | handlers, rebuild | precedence, label boundaries, odd lines |
| DNS wire format (dns.rs) | the cursor of a reader; the four counts of a header | parse, serialize, names with compression, OPT record | handlers | loops of pointers, cursor after a jump, counts that go with sections, 16-bit lengths |
| Statistics (stats.rs) | none | parse, filter, summarise | journald | calendar arithmetic; one entry per query |
| Journald logging (journald.rs) | one socket, opened once or never | send | handlers, journald, statistics | line ends in names; a blocking socket |
| Configuration (config.rs) | plain data | deserialize | lifecycle | none of its own |

What makes each correct:

- *List cache and rebuild*: metadata, ETags and body files agree; a clear dirty
  flag means the metadata is on disk; a good copy on disk is used whatever a
  server answers; no half-written list is served.
- *Lifecycle*: a reload takes effect in the end; SIGTERM always ends the
  process and loses nothing; a bad configuration file changes nothing.
- *Upstream pools*: every query gets the answer to itself or none; a connection
  is in one place; none crosses from one upstream to another; the caps hold;
  each query ends.
- *Query handlers*: one reply per query at most; a blocked name is never
  forwarded; allow rules take precedence; each query is logged as what it was.
- *Matcher*: an allow rule beats every block rule, wherever either comes from;
  a suffix ends at a label; the logged rule is one about the name.
- *Wire format*: a name or record is read where it is and the reader goes on
  behind it; every message that is composed is read as what it was meant to be.
- *Logging and statistics*: `stats` reads what was logged, once each, with the
  right date.

The hazards, with the lines where they bite and the properties that cover
them, are in `PROJECT.json` under `hazards`.

## 2. Modules

| Module | Models |
| --- | --- |
| `ListRefresh` | list cache, rebuilds, lifecycle, with files, servers and crashes |
| `ListRefreshProofs` | theorems about `ListRefresh` |
| `MCListRefresh`, `Lists*.cfg` | instances of `ListRefresh` for TLC |
| `UpstreamPool` | the pools of the upstream and the swap of the handle |
| `UpstreamPoolProofs` | theorems about `UpstreamPool` |
| `MCUpstreamPool`, `Pool.cfg` | instance of `UpstreamPool` for TLC |
| `Filter` | what a client is promised about a query |
| `QueryHandler` | the UDP and TCP handlers, which implement `Filter` |
| `QueryHandlerProofs` | theorems about `QueryHandler`: it implements `Filter` |
| `MCQueryHandler`, `Handler*.cfg` | instances of `QueryHandler` for TLC |
| `Matcher` | the lines of lists and configuration made into rules; `Blocklist::check` |
| `DnsName` | `parse_name`, step by step, and `serialize_name` |
| `DnsRecord` | a record read from a packet, with its CNAME target; extends `DnsName` |
| `DnsMessage` | the messages composed for one UDP query, and their counts |
| `Journal` | log entries from `log_query` through journald to the report of `stats` |
| `Calendar` | `days_to_ymd` against a calendar that goes on day by day |
| `Text` | names as text, parts of sequences, numbers in order; for `Matcher`, `DnsName`, `DnsMessage`, `Journal` |
| `TextProofs` | lemmas about `Text`, for the next four |
| `MatcherProofs` | theorems about `Matcher` |
| `DnsRecordProofs` | theorems about `DnsName` and `DnsRecord` |
| `DnsMessageProofs` | theorems about `DnsMessage` |
| `StatisticsProofs` | theorems about `Journal` and `Calendar` |
| `MCAlgorithms`, `Algorithms.cfg` | instances of the six modules above `Text` for TLC |

A definition whose comment begins with "Mutant of" is a plausible bug of the
definition it names; no specification uses it. Each checked property has one
mutant in `PROJECT.json` under which TLC finds it violated.

### ListRefresh

The variables are the shared state (`map`, `dirty`, `config`, the configuration
`active` and the bodies `served` of the blocklist being served), the disk
(`bodies`, `meta`, `file`), the servers (`server`), the mutex (`lock`) and, for
each task, where it is (`pc`) and its local variables (`cfg`, `job`, `lists`).
The tasks are the initial load, the refresh loop, the SIGHUP task and the
SIGTERM task. An action is what a task does between two points where another
task may come in between: lock acquisitions, awaits, and the two halves of a
file write.

- `Boot`, `RefreshStart`, `ReloadStart` begin a rebuild; `Plan` is
  `plan_fetches` under the mutex.
- `AnswerOk`, `AnswerNotModified`, `CheckBody`, `AnswerError`, `AnswerCut`,
  `AnswerPage` are the branches of `download_one`, run without the mutex and
  concurrently for all jobs. The body file is read when the fallback or the
  304 looks at it.
- `MergeStart` .. `MergeEnd` are `merge_downloads`: the mutex is held, results
  are merged in any order (they come from a `JoinSet`), and a body file is
  truncated (`MergeOpen`) before it is written (`MergeWrite`).
- `Parse`/`ParsePanics`, `Prune`, `SaveClean`/`SaveOpen`/`SaveWrite`/
  `SaveFails`, `Install` finish the rebuild. `Prune` and the save share one
  hold of the mutex, as in main.rs:275-282.
- `SigtermLock` and `Save("sigterm")` are the SIGTERM task; `Saved` ends the
  process.
- The environment edits the file, signals, publishes new contents, lets entries
  age and kills the process. `Events` switches faults on per instance, so that
  a property can be stated where it holds and refuted where it does not.

Abstractions. A list body is the content published, or `Torn` (a truncated
file), or `ErrorPage`. An ETag is the content it tags. A configuration is a name with its set of URLs, whatever else
differs in it; a URL listed twice counts once. `fetched_at` is kept as
"within `cache_ttl` or not". `load_config` failing and an upstream address
that does not parse are one case, `NoConfig`. A file being written is always
readable, as `Torn`. The removals of one `prune` are one step, and `remove_file`
does not fail. What was written survives a kill of the process; power loss is
left out. A redirect, DNS lookup and TLS are part of "the request fails or is
answered". A signal that arrives before its handler is registered kills the
process, as `Crash` does.

### UpstreamPool

Each query goes through `new`, `checkout`, (`connect`), `send`, `recv`,
`return` and ends in `done` or `failed`. `Checkout` pops the connection
returned last; `Return`/`ReturnFull` are the push under the pool's mutex;
`ExchangeFails` is any I/O error or timeout. Locking a pool, looking at it and
popping or pushing is one step, as the code awaits nothing but the binding of a
local socket (upstream.rs:85-92) while it holds the guard. That it drops the
guard before the exchange, and that the check of the cap and the push share one
guard (131-137, 180-185), is taken from the code and cannot fail in this model:
`QueryEnds` and `Bounded` rest on it and do not show it. The
network delivers replies at any time, in any order, or never, and may deliver
the UDP replies of `Dup` twice. A dropped connection loses what it holds and
what is on its way to it, because a socket opened later is not given the same
port in this model. The reply's content is the query it answers, so that a
query that gets somebody else's reply shows in `answer`.

### Filter and QueryHandler

`Filter` states the promise in seven steps of a query (`Ask`, `Forward`,
`Return`, `Relay`, `Refuse`, `Abandon`, `Discard`) and one of the blocklist
(`Install`). Its core is `seen`, the blocklists in force since the query came
or, once the reply is there, since the reply came: what passes must be passed
by one of them, what is refused must be blocked by one.

`QueryHandler` has the two handlers. `Receive` and `Reject` are the arrival of
a message; `Check` is the check of the name, `CheckTarget` that of one CNAME
target; `FallBack` and `Return` are the replies of the upstream; `Relay`,
`TruncateFails`, `Refuse` and `SendFails` the answer; `LogAllowed`,
`LogRefusal`, `LogForwarded` the log entries. `LogsFirst` says which of the two
steps of a refusal comes first: it is logged and then sent, over UDP and, for a
CNAME target, over TCP; a name that is refused over TCP is answered and then
logged (upstream.rs:509-521 against 558-571). So a refusal may be logged and
not reach the client on either transport, or reach it and not be in the log
yet. Each step reads the blocklist or the flag that is current. A step of the handler reaches from one await to
the next; the wait for a lock and the step under it are one.

`KeepsPromise` is the refinement: `StageOf`, `TargetsOf` and `AnswerOf` map the
state, and `seen`, `active` and `name` map to themselves. A query counts as
sent upstream from its check on, and as back when the handler has the reply it
keeps. `Filter` allows that the name and its targets are checked against
different blocklists, and that an alias of a blocked name is refused although
an allow rule matches the alias itself: the code does both.

Abstractions. A message is its first question; a reply is whether it parses,
whether it exceeds the limit of this client, and its CNAME targets in order. A
blocklist is its verdict on each name. A log entry is its action, and counts
when `log_query` is called; a datagram that journald loses or does not read is
not in the model. The bytes of the answer are left out, the OPT record and the
DO bit with them. An answer that a TCP client has received in part, or in full
just before the timeout, counts as not sent.

### Matcher

`rules[side][shape]` are the six sets of `Blocklist`. `Parse(l)` handles one
line as its source does: `parse_auto_mode` and `parse_line_mode` for lists and
`manual_block`, `parse_lines_into_regex` and `Regex::new` for patterns, a plain
insertion for `manual_allow`. Lines come in any order, which includes the
code's. `Check` is `Blocklist::check`: the first set in `Order` with a hit, and
the rules it may report. The properties compare it with `Covers`, which says
label by label what a line is about, and with nothing that `check` uses but the
name that stands in a line.

A line is its source, form, mark and words. What marks are stripped (`||`, `^`,
`$options`, comments, `/.../`) is part of the form. Of a hosts line with
several names only the last counts, as in the code. Patterns are the sets of
names that they match: an empty one matches all, and is left out in files of
patterns but not in other sources. The line `/` ends the parser (`Abort`).
Names are ASCII.

### DnsName and DnsRecord

`DnsName` has one action per branch of the loop of `parse_name`; `pos` is the
position of the reader. `NameAt` says recursively what name stands at a
position and where it ends. `RoundTrip` holds of names without a dot inside a
label: `parse_name` joins labels with dots, and the label `a.b` comes out as
two. Lengths of 64 to 191 are taken for lengths, as in the code. Packets have no
bytes from 194 to 244, with which characters of UTF-8 begin that are not ASCII:
without them a byte above 127 is in no text, and `LabelOk` is exact. The
instance has two jumps for the code's 64.

`DnsRecord` calls `parse_name` once for the name of a record and once for the
target of a CNAME, as `DnsResourceRecord::parse` does with one cursor. The ten
bytes of fixed fields are one byte in the instance, the length of the data; the
type is chosen freely.

### DnsMessage

A wire form is a header and the sequence of questions and records behind it.
`Readable` says which ones `parse` accepts: all sections are there, and each item
is what its section holds (`WireAssumption`: no question is a record). `Read`
cuts it into sections by the counts of its header, `Serialize` writes
the counts as they stand except for the last. `Forward`, `Refuse`, `Truncate`
and `Relay` are the places where the UDP handler composes a message. When they
happen is in `QueryHandler`; here a query may be refused before or after it was
forwarded. A record is a value, of an OPT record with its size, DO bit and
options. The refusal of a query with several questions counts one and still
writes them all; `RefusalReads` says that the first is read and what trails
behind it only then.

### Journal

`Datagram` is the entry that `log_query` writes, a line `KEY=value` per field;
a text is a sequence of tokens, of which `LF`, `CR` and the keys matter.
journald splits the datagram at line ends, which is external, as are the
messages on stderr and the socket, which may appear while the process runs.
`socket` is opened at the first entry or never. `PRIORITY`,
`SYSLOG_IDENTIFIER` and the time stamp are left out. `Kept` are the entries that
`parse_entries` does not pass over, `Fields` is what it takes from one, and
`Report` what `filter_entries` leaves of them.

### Calendar

The state is a day and its date; `NextDay` is the Gregorian calendar.
`DaysToYmd` is the arithmetic of the code in natural numbers: the days are
not negative, so the code's branch for negative eras is never taken.

## 3. Runs

| Run | Shows | Instance |
| --- | --- | --- |
| `lists_faulty` | `TypeOK`, `CleanMeansSaved`, `KeepsGoodCopies` under crashes, panics, broken files | 2 configurations with the same list, 2 contents, one of them makes the parser panic |
| `lists_clean` | `CacheConsistent` with rebuilds of different configurations, prunes under a running download and error pages | one configuration adds the list that the other does not have |
| `lists_live` | `ReloadTakesEffect` | the same, 1 content, no ETags |
| `lists_disk` | `SigtermExits` with write errors, crashes and silent servers | 1 configuration, 1 content |
| `lists_cut` | *violation* of `KeepsGoodCopies` | broken connections |
| `lists_partial` | *violation* of `NoPartialList` | no faults at all |
| `lists_save` | *violation* of `CleanMeansSaved` | write errors |
| `lists_poison` | *violation* of `RebuildsSurvive` | a list with the line `/` |
| `pool` | the safety properties of the pools and `QueryEnds` | 3 queries, 2 with one ID; 2 connections; caps of 1; 1 swap |
| `handler` | `KeepsPromise`, the log, the limit of UDP clients and `QueryHandled` | 2 queries, a tracker and an alias of it, 2 blocklists, 4 replies |
| `handler_totals` | *violation* of `OneEntry` | the same |
| `algorithms` | names and records are read right (`NameRead`, `RecordRead`, `RecordEnds`, `RoundTrip`); verdicts and named rules (`VerdictRight`, `RuleNamed`, `OneSided`); composed messages (`QueryFaithful`, `CutReads`, `RefusalReads`, `WithinOffer`); reports (`ReportFaithful`, `OutcomesAddUp`); dates (`DateRight`) | see below |

Bounds. One URL is enough for the properties of a list: each is about one URL
at a time, and rebuilds meet on one URL through the mutex, the file and the
entry. What a second URL adds, merges of several results under one hold of the
mutex, is covered by the theorems, which hold for any set of URLs. Two
contents let an old and a new version meet; a third would take the part of one
of them. Two configurations let a reload differ from a refresh. No counter is
unbounded: restarts, refreshes, reloads and publications go on for ever in
finitely many states. `Hangup` keeps one pending signal, as the kernel and
tokio's `signal` stream do. In `pool` a cap of 1 makes the pools full and empty within three
queries, one swap puts connections of both upstreams in play, and two
connections make queries wait. In `handler` one query has a name and any course, the other has
no question and comes on UDP or after the first on its stream: queries meet only
on the stream. One blocklist blocks what the other allows, and vice versa, so
that a swap in between matters; a reply with two targets makes the order of
checks matter. Swaps and toggles go on for ever. `CHECK_DEADLOCK FALSE` stands in the pool's
configurations because queries are finitely many and the instance ends when
all have.

`algorithms` runs the modules side by side: `bench` says which one a behaviour is
about, and they share no state. Packets are all those of up to 5 bytes that
may be ends, lengths, dots or pointers, so that names overlap, point backward,
forward and to themselves, and are cut at every place, and one of 7 bytes with
a chain of pointers that is too long. Rules are up to 3 of about 30 lines
around one name, its parent, subdomains and names that share its letters: a
verdict takes an allow line, a block line and one that interferes. Queries
have up to 2 questions and 2 records with offers on both sides of every limit.
The journal has up to 3 entries. The dates are all from 1970 to 2410, which
has a century of each kind and the change of an era (2000-03-01).
`CHECK_DEADLOCK FALSE` stands there because each of these algorithms ends.

Symmetry: configurations with equal lists (`lists_faulty`), and contents where
none is special (`lists_clean`); never with a liveness property.

Fairness. `ListRefresh` asks strong fairness of each task's own steps: tokio
runs every task that can run, its mutex is a FIFO queue (so a waiting task is
served although others keep coming: weak fairness would not say so), and the
refresh timer fires. It asks nothing of HTTP servers: `reqwest` clients have no
timeout here, and a request may stay open for ever. `SigtermExits` holds all
the same, as no task holds the mutex over the network. `ReloadTakesEffect`
needs the servers, and says so: `ServersAnswer` is its hypothesis. It also
needs that the rebuild tasks live on, so its instance has no list that panics.
`UpstreamPool` asks weak fairness of each query: the timeouts of 2 s keep
`ExchangeFails` and `ConnectFails` enabled while it waits, so the upstream may
be silent. `QueryHandler` asks weak fairness of each handler, for the same
reason, and because tokio's `RwLock` is fair: a writer that waits is not
overtaken, nor is a reader by later writers. `DnsRecord` asks weak fairness of
its steps: parsing does not pause.

## 4. What the violations say

- `lists_cut` (blocklist.rs:541-542): a connection that breaks after the
  status line gives `Failed` without a look at the disk; `src/README.md:74` and
  blocklist.rs:496-497 promise the copy on disk for any failure.
- `lists_partial` (blocklist.rs:568, 509): body files are written in place and
  read without the mutex. A refresh whose request fails while a reload writes
  the file serves the part written so far; `src/README.md:51` excludes it.
- `lists_save` (blocklist.rs:742): `dirty` is cleared before the write; after
  an error, the next saves do nothing, SIGTERM's included.
- `lists_poison` (blocklist.rs:98, 132): the line `/` panics. The task that
  parses it ends; main.rs:177-179 says that bad lines of remote lists are
  skipped.
- `handler_totals` (upstream.rs:460): an allowed query is logged as allowed and,
  once answered, as forwarded; stats.rs:184 counts entries as queries.

## 5. Proofs

Every theorem holds for any value of the constants that satisfies the `ASSUME`
of its module. Those say how special values differ from others and which types
the data have: that texts are ASCII (`PacketAssumption`, `NameAssumption`,
`LineAssumption`), that a value standing for "none" is not one of the rest,
that a wire form begins with a header (`WireAssumption`), that an operational
message is one line and an outcome one of three (`LoggedAssumption`). A theorem
that needs more says so itself.

### Lists (`ListRefreshProofs`)

For any sets of URLs, configurations, contents and events:

- `TypeCorrect`: `Spec => []TypeOK`. `TypeOK` is inductive.
- `SavedCorrect`: `Spec => []CleanMeansSaved` if writes succeed. The property
  alone is not inductive: while one task saves, another must not change the
  metadata. The invariant adds `Mutex` (a task inside a critical section holds
  the lock).
- `ConsistentCorrect`: `Spec => []CacheConsistent` if writes succeed and the
  process is not killed, by a signal or by a panic at startup. The invariant
  adds to the above `Life` (a process that is down has no task under way, one
  that is up has a configuration, and so has every rebuild) and `JobsSound`
  (only a rebuild that merges is writing a file; the ETag of a result is the
  one of its body). `CleanMeansSaved` is what carries it over the SIGTERM exit.
- `CopiesKept`: `Spec => []KeepsGoodCopies` if reloads change no list of URLs,
  writes succeed and no connection breaks within a body. Crashes, panics,
  error pages and concurrent rebuilds are allowed. The invariant `Kept` says of
  each list that had a copy at the plan what the rebuild's phase promises: a
  job that will end in a body, or a body.

The assumptions are needed: `lists_cut` and `lists_save` break the properties
without them, a kill between a file and its metadata breaks `CacheConsistent`,
and a reload that drops a URL takes the file from under a running refresh.

### Pools (`UpstreamPoolProofs`)

For any queries, connections, IDs, caps and number of swaps.

- `TypeCorrect`: `[](TypeOK /\ Holding)`. `TypeOK` alone is not inductive:
  `Return` pushes what the query holds, and that it holds a connection then is
  `Holding`.
- `OneHolder`, `NoneCrosses`: `[]Exclusive`, `[]NoCrossing`. Together with
  `Alive` (what is held or pooled has not been closed) they are inductive:
  `Connect` takes a closed connection, which therefore is in nobody's hands.
- `RepliesInId`: a query is given its own reply, or, over UDP and only after a
  reply with its ID was duplicated, one with its ID. This is what the ID check
  of upstream.rs:115-127 gives. The invariant (`Flow`) follows the replies: one that
  is on its way or waits in a socket is awaited by its query on that very
  connection, or is left over from a duplicate (`Awaited`); left-over replies
  are never on a TCP connection, pooled or held (`OnSockets`); a reply that was
  not duplicated is in one place (`Once`).
- `NoMixUp`: `[]AnswersOwn` if no ID of a duplicated reply is shared
  (`DupIdsOwn`). Without that it is false, in the model as in the code.
- `CapsKept`: `[]Bounded`, and `FreshTried`: `[]RetriedFresh`. Each is inductive
  with `TypeOK`.
- `RetriesOnce`: each step of a query lowers `StepsLeft`, which is 8 at most,
  and nothing others do raises it: a query tries a second connection once and
  never goes back.

### Handlers (`QueryHandlerProofs`)

For any queries, names, blocklists, replies and order on streams.

- `TypeCorrect`, `TruthLogged`, `AllLogged`, `ClientFits`: `TypeOK`,
  `LogTruthful`, `LogComplete`, `FitsClient`. They follow from one invariant,
  `HandlerInv`: for each query, what is answered, known of the reply, logged
  and seen of flags fits the place where its handler is. Which answer and which
  entry there may be at `logRefusal` and `refuse` depends on `LogsFirst`.
- `PromiseKept`: `Spec => KeepsPromise`, the refinement of `Filter`. Each
  action is shown to be one step of `Filter` or none. The invariant's parts
  that carry it are `Current` (a waiting query has seen the blocklist in force),
  `Justified` (who refuses has a blocklist that blocks) and `Cleared` (each
  target that was checked passed under a blocklist seen since).
- `HandlersMoveOn`: each step of a handler lowers `Phase`, or shortens the list
  of targets, and nobody else moves it. The number of targets is the upstream's
  choice, so the measure is a pair.

### Matcher (`MatcherProofs`)

For any lines, in any order, names of any length and patterns.

- `RulesTyped`: `[]RulesTypeOK`. `VerdictsRight`: `[]VerdictRight`.
  `RulesNamed`: `[]RuleNamed`. `SidesKept`: `RulesSpec => OneSided`, an action
  property. The invariant `RulesInv` gives the sets of rules as a function of
  the lines parsed so far. The rest is about text: the tails of a name that
  `suffix_match` cuts off at dots are exactly the names whose labels are last
  in its labels (`TailsAreSuffixes`, from the order of the cuts in `TextProofs`).

### Wire format (`DnsRecordProofs`, `DnsMessageProofs`)

For any packet and any limit on jumps:

- `CursorInBounds`: `[]NameTypeOK`. `NamesRead`: `[]NameRead`. `RecordsRead`:
  `[]RecordRead`. The name at a position is defined by recursion over positions,
  and pointers may lead back: that there is such a function is proved first, by
  induction over the number of pointers left and the bytes to the end. The
  invariant `OnTheWay` says that the labels read so far, with those of the name
  at the place where the loop is, are the labels of the name asked for.
  `RecordInv` adds where the cursor is at each stage of the record.
- `StepsRunOut`: each step of parsing lowers `StepsLeft`, a natural number that
  depends on the bytes left and the jumps left. With `RecordInv` it bounds the
  loop of `parse_name` for every packet, with pointers that lead back, too.
- `NamesRoundTrip`: `[]RoundTrip`, for names of any number of labels. Joining
  labels and cutting the text at its dots gives the labels back
  (`PiecesJoined`); what `serialize_name` writes of them has each label where the
  one before it ends (`EncodeLaid`), and is read from its end to its beginning
  (`LaidRead`). That no label is longer than 191 bytes, so that its length is no
  pointer, is an invariant of its own (`Short`).

For messages with any numbers of questions and records:

- `QueriesFaithful`, `CutsRead`, `RefusalsRead`, `OffersKept`: the four
  properties of `DnsMessage`. `ReadType` shows that a message that was parsed
  counts its sections right, `Written` that a message is read as itself after
  it has been serialized if its counts are right. The refusal of a query with several
  questions counts one of them, so that it does not fall under `Written`;
  `RefusalRead` looks at its layout. The invariant `MessageInv` says which
  message each wire form was made of.

### Statistics (`StatisticsProofs`)

- `ReportsFaithful`, `OutcomesAlwaysAddUp`: `[]ReportFaithful` and
  `[]OutcomesAddUp`, for texts of any tokens and length, keys and line ends
  included, and journals of any length. An entry is followed line by line:
  `Reads` says which fields have one line in it, with which text, and that the
  others have none. A line keeps that for the lines before it, and adds the
  place of its key and no other, because `SanitizeField` leaves no line end in
  its text (`PlacesAdded`). The invariant `JournalInv` says that the entries
  that are kept are those that were logged, in order.
- `DatesRight`: `DateSpec => []DateRight`, for every day up to any last year.
  The calendar goes day by day; the invariant `Dated` says which number of day
  a date has, and the arithmetic is shown to invert that.

### What is only model-checked

Liveness under fairness, which the prover cannot do: `SigtermExits`,
`ReloadTakesEffect`, `QueryEnds`, `QueryHandled`, `RecordEnds`. For the last three
one half is proved, that steps run out (`RetriesOnce`, `HandlersMoveOn`,
`StepsRunOut`); that there is a step to take, and that it is taken, is what TLC
adds. Every other property of a passing run is a theorem. The violation runs
refute properties that have no theorem, or one with a hypothesis that fails there.

Induction over data is done by least counterexample (`LeastNumber`, `Upward` in
`TextProofs`), which needs no operator as a parameter. `Text`, `DnsName`,
`DnsMessage` and `Journal` say by number what stands where (`Nth`, `Cuts`,
`Retain`), where the code splits and filters: the library's `SelectSeq` is a
recursive operator, of which nothing can be proved. Its `FlattenSeq` is a
recursive function, and `Flattened` shows what it does.

## 6. Not modelled

Left out for good: the text of log lines and of the
statistics, the time of day, argument parsing, the encoding of single DNS
fields (`DnsHeader`, the fields of questions and records), TLS and HTTP with
the choice of addresses for list hosts (`resolve_a`, `client_for_url`; a
failure there is one of the request), the names of body files,
regular expressions as such, packaging. `config.rs` is data with defaults. `Blocklist::fetch_and_parse`, `clear`, `matches`, `merge_blocklist`
are unused code.

One sentence of the documentation is contradicted by the code and refuted by no
run: `src/README.md:84` says that a reply too large for the client's UDP path
is replaced by "a header-only response with the TC bit set". `truncate_response`
(upstream.rs:657-669) keeps the question and the OPT record, as its own comment
says; `CutReads` states what that comment says.

A kill between the write of a body file and the save of the metadata, or within
the former, may leave an ETag that is not the one of the body, or half a body,
until the next 200. `ListRefresh` has these states; `CacheConsistent`, which
they break, is checked and proved without kills, and `KeepsGoodCopies` counts
half a body as a copy.

Known limits: a restart with a changed `cache.path` and the fact that
`cache.path` and a running sleep of the refresh loop ignore a reload are not in the model; nor is systemd's limit on
restarts. The 16-bit ID is all that tells a UDP reply from a stray one: the
instance of `pool` duplicates replies only of a query whose ID no other shares,
and `AnswersOwn` fails without that. journalctl prints a value with control characters other than
line ends as an array, and `parse_entries` then leaves the entry out; `Journal`
has printable text only. Data of records are copied when a message is
serialized again, so that a compressed name inside them would point elsewhere;
queries seldom have such records.

## 7. Plan

1. Done: `ListRefresh`, its proofs, `UpstreamPool`.
2. Done: `Filter` and `QueryHandler`, checked by TLC.
3. Done: `Matcher`, `DnsName`, `DnsRecord`, `DnsMessage`, `Journal`,
   `Calendar`, checked by TLC in one run.
4. Done: proofs of all safety properties that the passing runs check, with the
   refinement of `Filter`.
5. Open: `cache.path` in the lifecycle; characters other than ASCII in names.

Check a module with `tlc -config ListsClean.cfg MCListRefresh` and the proofs
with `tlapm ListRefreshProofs.tla`, and so on for each module of proofs.
