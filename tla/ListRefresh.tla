---------------------------- MODULE ListRefresh ----------------------------
(***************************************************************************)
(* The remote-list pipeline of dns-ligase: the metadata cache in memory    *)
(* (CachedLists), the body files and cache.json on disk, the HTTP servers  *)
(* the lists come from, and the tasks that rebuild the blocklist: the      *)
(* initial load, the periodic refresh, the SIGHUP reload and the SIGTERM   *)
(* save.  The tasks share the cache behind one mutex that no task holds    *)
(* while it downloads, so the phases of two rebuilds interleave.           *)
(*                                                                         *)
(* Data abstracted: a list body is the content the server published        *)
(* (or Torn, ErrorPage), an ETag is the content it tags, a configuration   *)
(* is a name with the URLs it lists, and fetched_at is kept as whether the *)
(* entry is still within cache_ttl.                                        *)
(***************************************************************************)

CONSTANTS
    Url,         \* URLs that some configuration lists
    Config,      \* configuration files that parse
    UrlsOf,      \* UrlsOf[c]: the URLs of c's four lists of URLs
    NoConfig,    \* a file that load_config rejects; no configuration in force
    Content,     \* what a server can publish under a URL
    Tagged,      \* the URLs whose server sends ETags and honours them
    Poison,      \* contents with a line on which the rule parser panics
    Torn,        \* a body file cut short while it was being written
    ErrorPage,   \* the body of a 4xx or 5xx answer
    NoBody,      \* no file, nothing fetched
    NoTag,       \* no ETag
    NoEntry,     \* a URL the cache holds no metadata for
    NoMeta,      \* a cache.json that is absent or does not parse
    Free,        \* the cache mutex is not held
    Events       \* what the environment may do beside what it always may

Builder == {"startup", "refresh", "reload"}
Task == Builder \cup {"sigterm"}
Body == Content \cup {Torn, ErrorPage}
Tag == Content \cup {NoTag}

ASSUME ConfigAssumption == UrlsOf \in [Config -> SUBSET Url]
ASSUME ServerAssumption == Tagged \subseteq Url /\ Poison \subseteq Content
\* crash: the process is killed; disk: a write fails; cut: a connection breaks
\* while a body is read; page: a refetch is answered with an error page;
\* badfile: the configuration file is made unparsable; expire: cache_ttl runs
\* out while the process is up.  Servers may always publish, refuse or never answer, and
\* the administrator may always edit and signal.
ASSUME EventsAssumption ==
    Events \subseteq {"crash", "disk", "cut", "page", "badfile", "expire"}
ASSUME DistinctAssumption ==
    /\ NoConfig \notin Config
    /\ {Torn, ErrorPage, NoBody, NoTag} \cap Content = {}
    /\ Torn # NoBody /\ ErrorPage # NoBody /\ Torn # ErrorPage
    /\ Free \notin Task

\* One cached list's metadata: still within cache_ttl or not, and its ETag.
Entry == [fresh : BOOLEAN, etag : Tag]
CacheMap == [Url -> Entry \cup {NoEntry}]

ASSUME EntryAssumption ==
    NoEntry \notin Entry \cup Tag /\ NoMeta \notin CacheMap

\* A download job: "get" awaits the answer to the conditional GET, "304" has
\* that answer but has not looked for the body file, "refetch" awaits the
\* unconditional GET, "writing" is a Fresh result half way into its file; the
\* rest are the DownloadResults, and "none" is no job or a merged one.
Job == [st : {"none", "get", "304", "refetch", "fresh", "writing", "notmod",
              "stale", "failed"},
        body : Body \cup {NoBody}, etag : Tag]
Pending == {"get", "304", "refetch"}
NoJob == [st |-> "none", body |-> NoBody, etag |-> NoTag]
Done(st, body, etag) == [st |-> st, body |-> body, etag |-> etag]

VARIABLES
    proc,     \* "up" or "down"
    file,     \* the configuration file on disk, NoConfig if it does not parse
    config,   \* Arc<RwLock<Config>>: the configuration in force
    hup,      \* a SIGHUP waits to be received
    server,   \* what each URL's server publishes
    map,      \* CachedLists.map
    dirty,    \* CachedLists.dirty
    bodies,   \* the body files under cache.d
    meta,     \* cache.json
    lock,     \* holder of the cache mutex
    pc,       \* where each task is
    cfg,      \* the configuration each rebuild works from
    job,      \* each rebuild's downloads
    lists,    \* each rebuild's bodies so far
    had,      \* history: the URLs with a body file when the rebuild planned
    active,   \* configuration of the blocklist being served
    served    \* the bodies it was parsed from

conf == <<file, config, hup>>
cache == <<map, dirty, bodies, meta>>
build == <<cfg, job, lists, had>>
serving == <<active, served>>
vars == <<proc, conf, server, cache, lock, pc, build, serving>>

EmptyMap == [u \in Url |-> NoEntry]
NoLists == [u \in Url |-> NoBody]
NoJobs == [u \in Url |-> NoJob]

\* What CachedLists::load_from_disk(..).unwrap_or_else(default) yields.
Loaded == IF meta = NoMeta THEN EmptyMap ELSE meta

Expired(m, S) == [u \in Url |-> IF u \in S /\ m[u] # NoEntry
                                THEN [m[u] EXCEPT !.fresh = FALSE] ELSE m[u]]

-----------------------------------------------------------------------------
(* Process life: everything that is not on disk goes when the process does. *)

Halt ==
    /\ proc' = "down"
    /\ config' = NoConfig /\ hup' = FALSE
    /\ map' = EmptyMap /\ dirty' = FALSE
    /\ lock' = Free
    /\ pc' = [t \in Task |-> "idle"]
    /\ cfg' = [b \in Builder |-> NoConfig]
    /\ job' = [b \in Builder |-> NoJobs]
    /\ lists' = [b \in Builder |-> NoLists]
    /\ had' = [b \in Builder |-> {}]
    /\ active' = NoConfig /\ served' = NoLists

Init ==
    /\ proc = "down"
    /\ file \in Config /\ config = NoConfig /\ hup = FALSE
    /\ server \in [Url -> Content]
    /\ map = EmptyMap /\ dirty = FALSE
    /\ bodies = NoLists /\ meta = NoMeta
    /\ lock = Free
    /\ pc = [t \in Task |-> "idle"]
    /\ cfg = [b \in Builder |-> NoConfig]
    /\ job = [b \in Builder |-> NoJobs]
    /\ lists = [b \in Builder |-> NoLists]
    /\ had = [b \in Builder |-> {}]
    /\ active = NoConfig /\ served = NoLists

Begin(b, c) ==
    /\ pc[b] = "idle"
    /\ pc' = [pc EXCEPT ![b] = "plan"]
    /\ cfg' = [cfg EXCEPT ![b] = c]
    /\ UNCHANGED <<job, lists, had>>

\* main() up to the first create_blocklist.  While the process was down some
\* entries may have outlived cache_ttl.
Boot ==
    /\ proc = "down" /\ file # NoConfig
    /\ proc' = "up" /\ config' = file
    /\ \E S \in SUBSET Url : map' = Expired(Loaded, S)
    /\ Begin("startup", file)
    /\ UNCHANGED <<file, hup, server, dirty, bodies, meta, lock, serving>>

\* Mutant of RefreshStart: it rebuilds what is being served.
RefreshStartStale ==
    /\ active # NoConfig
    /\ Begin("refresh", active)
    /\ UNCHANGED <<proc, conf, server, cache, lock, serving>>

\* The timer of the refresh loop fires.
RefreshStart ==
    /\ active # NoConfig
    /\ Begin("refresh", config)
    /\ UNCHANGED <<proc, conf, server, cache, lock, serving>>

\* The SIGHUP task takes the signal; a file that does not parse changes
\* nothing.
ReloadStart ==
    /\ hup /\ pc["reload"] = "idle"
    /\ hup' = FALSE
    /\ IF file = NoConfig
       THEN UNCHANGED <<config, pc, build>>
       ELSE config' = file /\ Begin("reload", file)
    /\ UNCHANGED <<proc, file, server, cache, lock, serving>>

-----------------------------------------------------------------------------
(* create_blocklist, phase 1: plan_fetches under the lock. *)

GetIfFresh(u) ==
    IF map[u] # NoEntry /\ map[u].fresh THEN bodies[u] ELSE NoBody

\* Mutant of StoredTag: an absent entry is not turned into "no ETag".
StoredTagUnwrapped(u) == IF map[u] = NoEntry THEN NoEntry ELSE map[u].etag

StoredTag(u) == IF map[u] = NoEntry THEN NoTag ELSE map[u].etag

\* GetIfFresh is tried first; what it does not give is downloaded.
Plan(b) ==
    /\ pc[b] = "plan" /\ lock = Free
    /\ lists' = [lists EXCEPT ![b] = [u \in Url |->
           IF u \in UrlsOf[cfg[b]] THEN GetIfFresh(u) ELSE NoBody]]
    /\ job' = [job EXCEPT ![b] = [u \in Url |->
           IF u \in UrlsOf[cfg[b]] /\ GetIfFresh(u) = NoBody
           THEN Done("get", NoBody, StoredTag(u)) ELSE NoJob]]
    /\ had' = [had EXCEPT ![b] =
           {u \in Url : u \in UrlsOf[cfg[b]] /\ bodies[u] # NoBody}]
    /\ pc' = [pc EXCEPT ![b] = "download"]
    /\ UNCHANGED <<proc, conf, server, cache, lock, cfg, serving>>

-----------------------------------------------------------------------------
(* Phase 2: download_one for each job, without the lock. *)

Settle(b, u, j) ==
    /\ pc[b] = "download"
    /\ job' = [job EXCEPT ![b][u] = j]
    /\ UNCHANGED <<proc, conf, server, cache, lock, pc, cfg, lists, had,
                   serving>>

TagSent(u) == IF u \in Tagged THEN server[u] ELSE NoTag

\* 200 OK with the whole body: to the conditional GET or to the refetch.
AnswerOk(b, u) ==
    /\ job[b][u].st \in {"get", "refetch"}
    /\ Settle(b, u, Done("fresh", server[u], TagSent(u)))

\* 304: only to a request that carried the ETag of what is published now.
AnswerNotModified(b, u) ==
    /\ job[b][u].st = "get"
    /\ u \in Tagged /\ job[b][u].etag = server[u]
    /\ Settle(b, u, Done("304", NoBody, NoTag))

\* After a 304, look for the body file; refetch if it is gone.
CheckBody(b, u) ==
    /\ job[b][u].st = "304"
    /\ Settle(b, u, Done(IF bodies[u] # NoBody THEN "notmod" ELSE "refetch",
                         NoBody, NoTag))

\* Mutant of Fallback: only a copy within cache_ttl is fallen back to.
FallbackIfFresh(u) ==
    IF GetIfFresh(u) # NoBody THEN Done("stale", bodies[u], NoTag)
    ELSE Done("failed", NoBody, NoTag)

\* The result of a failure that may fall back to the body file.
Fallback(u) ==
    IF bodies[u] # NoBody THEN Done("stale", bodies[u], NoTag)
    ELSE Done("failed", NoBody, NoTag)

\* The conditional GET cannot be sent, or is answered with an error status.
AnswerError(b, u) ==
    /\ job[b][u].st = "get"
    /\ Settle(b, u, Fallback(u))

\* The connection breaks while the body of a 200 is read, or the refetch
\* cannot be sent: neither looks at the body file.
AnswerCut(b, u) ==
    /\ \/ job[b][u].st = "get" /\ "cut" \in Events
       \/ job[b][u].st = "refetch"
    /\ Settle(b, u, Done("failed", NoBody, NoTag))

\* The refetch does not look at the status: an error page is new content.
AnswerPage(b, u) ==
    /\ "page" \in Events
    /\ job[b][u].st = "refetch"
    /\ Settle(b, u, Done("fresh", ErrorPage, NoTag))

-----------------------------------------------------------------------------
(* Phase 3: merge_downloads under the lock, one result at a time. *)

Acquire(t, next) ==
    /\ lock = Free
    /\ lock' = t
    /\ pc' = [pc EXCEPT ![t] = next]

\* Mutant of MergeStart: the mutex is taken before the servers have answered.
MergeStartEarly(b) ==
    /\ pc[b] = "download"
    /\ Acquire(b, "merge")
    /\ UNCHANGED <<proc, conf, server, cache, build, serving>>

\* download_jobs returns only when every task has finished.
MergeStart(b) ==
    /\ pc[b] = "download"
    /\ \A u \in Url : job[b][u].st \notin Pending
    /\ Acquire(b, "merge")
    /\ UNCHANGED <<proc, conf, server, cache, build, serving>>

Merged(b, u) ==
    /\ job' = [job EXCEPT ![b][u] = NoJob]
    /\ UNCHANGED <<proc, conf, server, meta, lock, pc, cfg, had, serving>>

Use(b, u, body) == lists' = [lists EXCEPT ![b][u] = body]

\* fs::write truncates the file ...
MergeOpen(b, u) ==
    /\ pc[b] = "merge" /\ job[b][u].st = "fresh"
    /\ \A v \in Url : job[b][v].st # "writing"
    /\ bodies' = [bodies EXCEPT ![u] = Torn]
    /\ job' = [job EXCEPT ![b][u].st = "writing"]
    /\ UNCHANGED <<proc, conf, server, map, dirty, meta, lock, pc, cfg, lists,
                   had, serving>>

\* Mutant of MergeWrite: a new entry does not mark the cache dirty.
MergeWriteNotDirty(b, u) ==
    /\ pc[b] = "merge" /\ job[b][u].st = "writing"
    /\ bodies' = [bodies EXCEPT ![u] = job[b][u].body]
    /\ map' = [map EXCEPT ![u] = [fresh |-> TRUE, etag |-> job[b][u].etag]]
    /\ Use(b, u, job[b][u].body)
    /\ UNCHANGED dirty
    /\ Merged(b, u)

\* ... writes the body, and the metadata follows.
MergeWrite(b, u) ==
    /\ pc[b] = "merge" /\ job[b][u].st = "writing"
    /\ bodies' = [bodies EXCEPT ![u] = job[b][u].body]
    /\ map' = [map EXCEPT ![u] = [fresh |-> TRUE, etag |-> job[b][u].etag]]
    /\ dirty' = TRUE
    /\ Use(b, u, job[b][u].body)
    /\ Merged(b, u)

\* The write fails, before or after the truncation: the result is dropped.
MergeWriteFails(b, u) ==
    /\ "disk" \in Events
    /\ pc[b] = "merge" /\ job[b][u].st \in {"fresh", "writing"}
    /\ \A v \in Url : job[b][v].st = "writing" => v = u
    /\ UNCHANGED <<map, dirty, bodies, lists>>
    /\ Merged(b, u)

\* A 304 restarts the entry's freshness window and serves the file; if the
\* entry went since the plan, it serves the file if there is one.
MergeNotModified(b, u) ==
    /\ pc[b] = "merge" /\ job[b][u].st = "notmod"
    /\ IF map[u] # NoEntry
       THEN map' = [map EXCEPT ![u].fresh = TRUE] /\ dirty' = TRUE
       ELSE UNCHANGED <<map, dirty>>
    /\ Use(b, u, bodies[u])
    /\ UNCHANGED bodies
    /\ Merged(b, u)

\* A stale copy is served without touching the metadata; a failure is dropped.
MergeStale(b, u) ==
    /\ pc[b] = "merge" /\ job[b][u].st \in {"stale", "failed"}
    /\ Use(b, u, job[b][u].body)
    /\ UNCHANGED <<map, dirty, bodies>>
    /\ Merged(b, u)

MergeEnd(b) ==
    /\ pc[b] = "merge"
    /\ job[b] = NoJobs
    /\ lock' = Free
    /\ pc' = [pc EXCEPT ![b] = "parse"]
    /\ UNCHANGED <<proc, conf, server, cache, build, serving>>

-----------------------------------------------------------------------------
(* Parsing, then prune and save under the lock. *)

Parse(b) ==
    /\ pc[b] = "parse"
    /\ \A u \in Url : lists[b][u] \notin Poison
    /\ pc' = [pc EXCEPT ![b] = "prune"]
    /\ UNCHANGED <<proc, conf, server, cache, lock, build, serving>>

\* A panic ends the task; in main() it ends the process.
ParsePanics(b) ==
    /\ pc[b] = "parse"
    /\ \E u \in Url : lists[b][u] \in Poison
    /\ IF b = "startup"
       THEN Halt /\ UNCHANGED <<file, server, bodies, meta>>
       ELSE /\ pc' = [pc EXCEPT ![b] = "dead"]
            /\ cfg' = [cfg EXCEPT ![b] = NoConfig]
            /\ lists' = [lists EXCEPT ![b] = NoLists]
            /\ had' = [had EXCEPT ![b] = {}]
            /\ UNCHANGED <<proc, conf, server, cache, lock, job, serving>>

\* Mutant of Prune: the files of dropped entries stay behind.
PruneKeepsFiles(b) ==
    LET gone == {u \in Url : map[u] # NoEntry /\ u \notin UrlsOf[cfg[b]]} IN
    /\ pc[b] = "prune"
    /\ Acquire(b, "save")
    /\ map' = [u \in Url |-> IF u \in gone THEN NoEntry ELSE map[u]]
    /\ dirty' = (dirty \/ gone # {})
    /\ UNCHANGED <<proc, conf, server, bodies, meta, build, serving>>

\* The entries of URLs the rebuild's configuration does not list go, and
\* their files with them.
Prune(b) ==
    LET gone == {u \in Url : map[u] # NoEntry /\ u \notin UrlsOf[cfg[b]]} IN
    /\ pc[b] = "prune"
    /\ Acquire(b, "save")
    /\ map' = [u \in Url |-> IF u \in gone THEN NoEntry ELSE map[u]]
    /\ bodies' = [u \in Url |-> IF u \in gone THEN NoBody ELSE bodies[u]]
    /\ dirty' = (dirty \/ gone # {})
    /\ UNCHANGED <<proc, conf, server, meta, build, serving>>

\* After save_to_disk: a rebuild has its blocklist, SIGTERM exits.
Saved(t) ==
    IF t = "sigterm"
    THEN Halt
    ELSE /\ lock' = Free
         /\ pc' = [pc EXCEPT ![t] = "install"]
         /\ UNCHANGED <<proc, config, hup, map, build, serving>>

SaveClean(t) ==
    /\ pc[t] = "save" /\ ~dirty
    /\ Saved(t)
    /\ UNCHANGED <<file, server, bodies, meta>>
    /\ t \in Builder => UNCHANGED dirty

\* dirty is cleared first; then the file is truncated ...
SaveOpen(t) ==
    /\ pc[t] = "save" /\ dirty
    /\ dirty' = FALSE
    /\ meta' = NoMeta
    /\ pc' = [pc EXCEPT ![t] = "saving"]
    /\ UNCHANGED <<proc, conf, server, map, bodies, lock, build, serving>>

\* ... and written.
SaveWrite(t) ==
    /\ pc[t] = "saving"
    /\ meta' = map
    /\ Saved(t)
    /\ UNCHANGED <<file, server, bodies>>
    /\ t \in Builder => UNCHANGED dirty

\* The save fails, before or after the truncation; the error is only logged.
SaveFails(t) ==
    /\ "disk" \in Events
    /\ (pc[t] = "save" /\ dirty) \/ pc[t] = "saving"
    /\ Saved(t)
    /\ t \in Builder => dirty' = FALSE
    /\ UNCHANGED <<file, server, bodies, meta>>

\* The new blocklist replaces the one being served.
Install(b) ==
    /\ pc[b] = "install"
    /\ active' = cfg[b] /\ served' = lists[b]
    /\ pc' = [pc EXCEPT ![b] = "idle"]
    /\ cfg' = [cfg EXCEPT ![b] = NoConfig]
    /\ lists' = [lists EXCEPT ![b] = NoLists]
    /\ had' = [had EXCEPT ![b] = {}]
    /\ UNCHANGED <<proc, conf, server, cache, lock, job>>

-----------------------------------------------------------------------------
(* SIGTERM: take the lock, save, exit. *)

SigtermLock ==
    /\ pc["sigterm"] = "wait"
    /\ Acquire("sigterm", "save")
    /\ UNCHANGED <<proc, conf, server, cache, build, serving>>

-----------------------------------------------------------------------------
(* The environment: the administrator, the servers, the clock, crashes. *)

Edit ==
    /\ file' \in Config \cup (IF "badfile" \in Events THEN {NoConfig} ELSE {})
    /\ file' # file
    /\ UNCHANGED <<proc, config, hup, server, cache, lock, pc, build, serving>>

\* Signals count once the handlers are registered, after the first load;
\* before that they kill the process as Crash does.
Hangup ==
    /\ active # NoConfig /\ ~hup
    /\ hup' = TRUE
    /\ UNCHANGED <<proc, file, config, server, cache, lock, pc, build, serving>>

Sigterm ==
    /\ active # NoConfig /\ pc["sigterm"] = "idle"
    /\ pc' = [pc EXCEPT !["sigterm"] = "wait"]
    /\ UNCHANGED <<proc, conf, server, cache, lock, build, serving>>

Publish(u) ==
    /\ \E c \in Content \ {server[u]} : server' = [server EXCEPT ![u] = c]
    /\ UNCHANGED <<proc, conf, cache, lock, pc, build, serving>>

\* cache_ttl passes since u was last fetched; cache.json is never younger.
Expire(u) ==
    /\ "expire" \in Events
    /\ map[u] # NoEntry /\ map[u].fresh
    /\ map' = Expired(map, {u})
    /\ meta' = IF meta = NoMeta THEN meta ELSE Expired(meta, {u})
    /\ UNCHANGED <<proc, conf, server, dirty, bodies, lock, pc, build, serving>>

Crash ==
    /\ "crash" \in Events /\ proc = "up"
    /\ Halt
    /\ UNCHANGED <<file, server, bodies, meta>>

-----------------------------------------------------------------------------
(* Specification *)

Download(b, u) ==
    \/ AnswerOk(b, u) \/ AnswerNotModified(b, u) \/ CheckBody(b, u)
    \/ AnswerError(b, u) \/ AnswerCut(b, u) \/ AnswerPage(b, u)

MergeResult(b, u) ==
    \/ MergeOpen(b, u) \/ MergeWrite(b, u) \/ MergeWriteFails(b, u)
    \/ MergeNotModified(b, u) \/ MergeStale(b, u)

Save(t) == SaveClean(t) \/ SaveOpen(t) \/ SaveWrite(t) \/ SaveFails(t)

\* What a rebuild does once it has begun, other than wait for servers.
Rebuild(b) ==
    \/ Plan(b) \/ MergeStart(b) \/ MergeEnd(b) \/ Parse(b) \/ ParsePanics(b)
    \/ Prune(b) \/ Save(b) \/ Install(b)
    \/ \E u \in Url : CheckBody(b, u) \/ MergeResult(b, u)

Environment ==
    \/ Edit \/ Hangup \/ Sigterm \/ Crash
    \/ \E u \in Url : Publish(u) \/ Expire(u)

Next ==
    \/ Boot \/ RefreshStart \/ ReloadStart
    \/ \E b \in Builder : Rebuild(b)
    \/ SigtermLock \/ Save("sigterm")
    \/ \E b \in Builder, u \in Url : Download(b, u)
    \/ Environment

\* The steps of each task, not counting its waits for servers.
Step(t) ==
    \/ t \in Builder /\ Rebuild(t)
    \/ t = "refresh" /\ RefreshStart
    \/ t = "reload" /\ ReloadStart
    \/ t = "sigterm" /\ (SigtermLock \/ Save(t))

\* tokio schedules every task that can run, its Mutex is FIFO, so that a task
\* that waits for it gets it in the end (hence SF), and the refresh timer
\* fires.  Nothing is assumed of the servers, which may never answer: the HTTP
\* clients have no timeout.
Fairness == \A t \in Task : SF_vars(Step(t))

Spec == Init /\ [][Next]_vars /\ Fairness

-----------------------------------------------------------------------------
(* Properties *)

Label == {"idle", "plan", "download", "merge", "parse", "prune", "save",
          "saving", "install", "wait", "dead"}

\* Every variable stays in its type (the state of main.rs:28-48 and
\* blocklist.rs:334-347).
TypeOK ==
    /\ proc \in {"up", "down"}
    /\ file \in Config \cup {NoConfig} /\ config \in Config \cup {NoConfig}
    /\ hup \in BOOLEAN
    /\ server \in [Url -> Content]
    /\ map \in CacheMap /\ dirty \in BOOLEAN
    /\ bodies \in [Url -> Body \cup {NoBody}]
    /\ meta \in CacheMap \cup {NoMeta}
    /\ lock \in Task \cup {Free}
    /\ pc \in [Task -> Label]
    /\ cfg \in [Builder -> Config \cup {NoConfig}]
    /\ job \in [Builder -> [Url -> Job]]
    /\ lists \in [Builder -> [Url -> Body \cup {NoBody}]]
    /\ had \in [Builder -> SUBSET Url]
    /\ active \in Config \cup {NoConfig}
    /\ served \in [Url -> Body \cup {NoBody}]

TagOf(m, u) == IF m[u] = NoEntry THEN NoEntry ELSE m[u].etag

\* When the dirty flag is clear, a restart would load the metadata held in
\* memory: nothing that save_to_disk skips is lost (blocklist.rs:738-749).
\* Holds as long as writes to the disk succeed.
CleanMeansSaved ==
    proc = "up" /\ ~dirty /\ (\A t \in Task : pc[t] # "saving")
        => \A u \in Url : TagOf(Loaded, u) = TagOf(map, u)

Writing(u) == \E b \in Builder : job[b][u].st = "writing"

\* What the process knows, or would know if it were started now.
Known(u) == IF proc = "up" THEN TagOf(map, u) ELSE TagOf(Loaded, u)

\* Outside a write, files and metadata agree: a list has a body file exactly
\* when it has an entry, and the stored ETag is the one of the stored body, so
\* a 304 vouches for what is on disk.  Two rebuilds with different
\* configurations, stale prunes and SIGTERM at any point do not break it
\* (merge_downloads, prune, save_to_disk); crashes and write errors do.
CacheConsistent ==
    \A u \in Url : ~Writing(u) =>
        /\ bodies[u] = NoBody <=> Known(u) = NoEntry
        /\ Known(u) \in Content => bodies[u] = Known(u)

\* A rebuild whose configuration lists a URL that had a copy on disk when it
\* planned ends with a copy of it: whatever the servers answer, the rules of
\* the list are not dropped (README.md:74, download_one, merge_downloads).
KeepsGoodCopies ==
    \A b \in Builder : pc[b] = "install" =>
        \A u \in had[b] : lists[b][u] # NoBody

\* No list being served was read from a file that was half written: a reload
\* never leaves a partially populated list visible to queries (README.md:51).
\* download_one reads the files without the mutex that writers hold, so a
\* failed download that falls back while another rebuild writes breaks it.
NoPartialList == \A u \in Url : served[u] # Torn

\* No line of a remote list ends the task that parses it: a bad line is
\* skipped quietly (main.rs:177-179, blocklist.rs:278-281).  The line "/" is
\* taken for a regex without end and sliced out of bounds.
RebuildsSurvive == \A b \in Builder : pc[b] # "dead"

\* Each request is answered or fails, one way or another.
ServersAnswer ==
    \A b \in Builder, u \in Url : WF_vars(Download(b, u))

\* SIGTERM ends the process even if a server never answers: no rebuild holds
\* the cache mutex while it waits for the network (main.rs:94-105, 206-217).
SigtermExits == pc["sigterm"] = "wait" ~> proc = "down"

\* A configuration that stays in force is, from some point on, the one the
\* served blocklist is built from, although an older rebuild may overwrite
\* the reload's: the next refresh repairs it (main.rs:287-320).
ReloadTakesEffect ==
    ServersAnswer =>
        \A c \in Config : <>[](config = c) => <>[](active = c)

=============================================================================
