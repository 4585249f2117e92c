------------------------- MODULE ListRefreshProofs -------------------------
(* Theorems about ListRefresh, for every value of its constants. *)
EXTENDS ListRefresh, TLAPS

\* The names of the tasks.
LEMMA Names ==
    /\ "startup" \in Builder /\ "refresh" \in Builder /\ "reload" \in Builder
    /\ "sigterm" \in Task /\ "sigterm" \notin Builder /\ Builder \subseteq Task
    /\ Free \notin Task
BY DistinctAssumption DEF Builder, Task

\* Ageing entries yields a cache map again.
LEMMA ExpiredType ==
    ASSUME NEW m \in CacheMap, NEW S PROVE Expired(m, S) \in CacheMap
BY DEF Expired, CacheMap, Entry

\* What a restart loads is a cache map.
LEMMA LoadedType == TypeOK => Loaded \in CacheMap
BY DEF TypeOK, Loaded, EmptyMap, CacheMap

\* A rebuild that has not begun has no jobs and no bodies.
LEMMA IdleType ==
    /\ NoJobs \in [Url -> Job]
    /\ NoLists \in [Url -> Body \cup {NoBody}]
    /\ EmptyMap \in CacheMap
BY DEF NoJobs, NoJob, Job, Tag, NoLists, EmptyMap, CacheMap

\* The process can end in any state.
LEMMA HaltType ==
    ASSUME TypeOK, Halt, UNCHANGED <<file, server, bodies, meta>>
    PROVE  TypeOK'
BY IdleType DEF TypeOK, Halt, Label

\* A step of save_to_disk, by any task.
LEMMA SaveType ==
    ASSUME TypeOK, NEW t \in Task, Save(t) PROVE TypeOK'
<1>1. CASE SaveOpen(t)
  BY <1>1 DEF SaveOpen, TypeOK, conf, build, serving, Label
<1>2. ASSUME meta' \in CacheMap \cup {NoMeta}, dirty' \in BOOLEAN, Saved(t),
             UNCHANGED <<file, server, bodies>>
      PROVE  TypeOK'
  <2>1. CASE t = "sigterm"
    BY ZenonT(60), <1>2, <2>1, IdleType DEF Saved, Halt, TypeOK, Label
  <2>2. CASE t # "sigterm"
    <3> /\ lock' = Free /\ pc' = [pc EXCEPT ![t] = "install"]
        /\ UNCHANGED <<proc, config, hup, map, build, serving>>
      BY <1>2, <2>2 DEF Saved
    <3> QED
      BY <1>2 DEF TypeOK, build, serving, Label
  <2> QED
    BY <2>1, <2>2
<1>3. CASE SaveClean(t)
  BY <1>2, <1>3, Names DEF SaveClean, TypeOK, Saved, Halt, Task
<1>4. CASE SaveWrite(t)
  BY <1>2, <1>4, Names DEF SaveWrite, TypeOK, Saved, Halt, Task
<1>5. CASE SaveFails(t)
  BY <1>2, <1>5, Names DEF SaveFails, TypeOK, Saved, Halt, Task
<1> QED
  BY <1>1, <1>3, <1>4, <1>5 DEF Save

\* The settling of a job.
LEMMA SettleType ==
    ASSUME TypeOK, NEW b \in Builder, NEW u \in Url, NEW j \in Job,
           Settle(b, u, j)
    PROVE  TypeOK'
BY DEF Settle, TypeOK, conf, cache, serving

\* A step of download_one.
LEMMA DownloadType ==
    ASSUME TypeOK, NEW b \in Builder, NEW u \in Url, Download(b, u)
    PROVE  TypeOK'
<1>1. \E j \in Job : Settle(b, u, j)
  BY DEF Download, AnswerOk, AnswerNotModified, CheckBody, AnswerError,
         AnswerCut, AnswerPage, Fallback, TagSent, Done, Job, Tag, Body, TypeOK
<1> QED
  BY <1>1, SettleType

\* A step of merge_downloads.
LEMMA MergeType ==
    ASSUME TypeOK, NEW b \in Builder, NEW u \in Url, MergeResult(b, u)
    PROVE  TypeOK'
<1>0. job[b][u] \in Job /\ NoJob \in Job /\ Torn \in Body
  BY DEF TypeOK, NoJob, Job, Tag, Body
<1>1. CASE MergeOpen(b, u)
  BY ZenonT(60), <1>0, <1>1 DEF MergeOpen, TypeOK, conf, serving, Job
<1>2. CASE MergeWrite(b, u)
  BY <1>0, <1>2
  DEF MergeWrite, Merged, Use, TypeOK, conf, serving, Job, CacheMap, Entry
<1>3. CASE MergeWriteFails(b, u)
  BY <1>0, <1>3 DEF MergeWriteFails, Merged, TypeOK, conf, serving
<1>4. CASE MergeNotModified(b, u)
  <2>1. map' \in CacheMap /\ dirty' \in BOOLEAN
    <3>1. CASE map[u] # NoEntry
      <4> map' = [map EXCEPT ![u].fresh = TRUE] /\ dirty' = TRUE
        BY <1>4, <3>1 DEF MergeNotModified
      <4> QED
        BY <3>1 DEF TypeOK, CacheMap, Entry
    <3>2. CASE map[u] = NoEntry
      BY <1>4, <3>2 DEF MergeNotModified, TypeOK
    <3> QED
      BY <3>1, <3>2
  <2>2. /\ lists' = [lists EXCEPT ![b][u] = bodies[u]]
        /\ UNCHANGED bodies /\ Merged(b, u)
    BY <1>4 DEF MergeNotModified, Use
  <2> QED
    BY <1>0, <2>1, <2>2 DEF Merged, TypeOK, conf, serving
<1>5. CASE MergeStale(b, u)
  BY <1>0, <1>5 DEF MergeStale, Merged, Use, TypeOK, conf, serving, Job
<1> QED
  BY <1>1, <1>2, <1>3, <1>4, <1>5 DEF MergeResult

\* A step of the environment.
LEMMA EnvironmentType ==
    ASSUME TypeOK, Environment PROVE TypeOK'
<1>1. CASE Edit
  BY <1>1 DEF Edit, TypeOK, cache, build, serving
<1>2. CASE Hangup
  BY <1>2 DEF Hangup, TypeOK, cache, build, serving
<1>3. CASE Sigterm
  BY <1>3, Names DEF Sigterm, TypeOK, conf, cache, build, serving, Label
<1>4. CASE Crash
  BY <1>4, HaltType DEF Crash
<1>5. ASSUME NEW u \in Url, Publish(u) PROVE TypeOK'
  BY <1>5 DEF Publish, TypeOK, conf, cache, build, serving
<1>6. ASSUME NEW u \in Url, Expire(u) PROVE TypeOK'
  BY <1>6, ExpiredType DEF Expire, TypeOK, conf, build, serving
<1> QED
  BY <1>1, <1>2, <1>3, <1>4, <1>5, <1>6 DEF Environment

\* The initial states are typed.
LEMMA TypeInit == Init => TypeOK
BY ZenonT(60), IdleType DEF Init, TypeOK, Label

\* Every step keeps the types.
LEMMA TypeStep ==
    ASSUME TypeOK, [Next]_vars PROVE TypeOK'
<1>1. CASE Boot
  <2>1. PICK S \in SUBSET Url : map' = Expired(Loaded, S)
    BY <1>1 DEF Boot
  <2>2. map' \in CacheMap
    BY <2>1, LoadedType, ExpiredType
  <2> QED
    BY <1>1, <2>2, Names DEF Boot, Begin, TypeOK, serving, Label
<1>2. CASE RefreshStart
  BY <1>2, Names DEF RefreshStart, Begin, TypeOK, conf, cache, serving, Label
<1>3. CASE ReloadStart
  <2>1. CASE file = NoConfig
    <3> UNCHANGED <<proc, file, config, server, cache, lock, pc, build,
                    serving>> /\ hup' \in BOOLEAN
      BY <1>3, <2>1 DEF ReloadStart
    <3> QED
      BY DEF TypeOK, cache, build, serving
  <2>2. CASE file # NoConfig
    <3> /\ UNCHANGED <<proc, file, server, cache, lock, serving>>
        /\ hup' \in BOOLEAN /\ config' = file /\ Begin("reload", file)
      BY <1>3, <2>2 DEF ReloadStart
    <3> QED
      BY Names DEF Begin, TypeOK, cache, serving, Label
  <2> QED
    BY <2>1, <2>2
<1>4. CASE SigtermLock
  BY <1>4, Names
  DEF SigtermLock, Acquire, TypeOK, conf, cache, build, serving, Label
<1>5. CASE UNCHANGED vars
  BY <1>5 DEF vars, conf, cache, build, serving, TypeOK
<1>6. ASSUME NEW b \in Builder, Rebuild(b) PROVE TypeOK'
  <2>1. CASE Plan(b)
    BY <2>1, Names DEF Plan, TypeOK, conf, cache, serving, Label, Job, Done,
       GetIfFresh, StoredTag, CacheMap, Entry, Tag, NoJob
  <2>2. CASE MergeStart(b)
    BY <2>2, Names
    DEF MergeStart, Acquire, TypeOK, conf, cache, build, serving, Label
  <2>3. CASE MergeEnd(b)
    BY <2>3, Names
    DEF MergeEnd, TypeOK, conf, cache, build, serving, Label
  <2>4. CASE Parse(b)
    BY <2>4, Names DEF Parse, TypeOK, conf, cache, build, serving, Label
  <2>5. CASE ParsePanics(b)
    <3>1. CASE b = "startup"
      BY <2>5, <3>1, HaltType DEF ParsePanics
    <3>2. CASE b # "startup"
      <4> /\ pc' = [pc EXCEPT ![b] = "dead"]
          /\ cfg' = [cfg EXCEPT ![b] = NoConfig]
          /\ lists' = [lists EXCEPT ![b] = NoLists]
          /\ had' = [had EXCEPT ![b] = {}]
          /\ UNCHANGED <<proc, conf, server, cache, lock, job, serving>>
        BY <2>5, <3>2 DEF ParsePanics
      <4> QED
        BY Names, IdleType DEF TypeOK, conf, cache, serving, Label
    <3> QED
      BY <3>1, <3>2
  <2>6. CASE Prune(b)
    BY <2>6, Names
    DEF Prune, Acquire, TypeOK, conf, build, serving, Label, CacheMap
  <2>7. CASE Save(b)
    BY <2>7, SaveType, Names
  <2>8. CASE Install(b)
    BY <2>8, Names, IdleType
    DEF Install, TypeOK, conf, cache, serving, Label
  <2>9. ASSUME NEW u \in Url, CheckBody(b, u) \/ MergeResult(b, u)
        PROVE TypeOK'
    BY <2>9, DownloadType, MergeType DEF Download
  <2> QED
    BY <1>6, <2>1, <2>2, <2>3, <2>4, <2>5, <2>6, <2>7, <2>8, <2>9
    DEF Rebuild
<1>7. CASE Save("sigterm")
  BY <1>7, SaveType, Names
<1>8. CASE \E b \in Builder, u \in Url : Download(b, u)
  BY <1>8, DownloadType
<1>9. CASE Environment
  BY <1>9, EnvironmentType
<1> QED
  BY <1>1, <1>2, <1>3, <1>4, <1>5, <1>6, <1>7, <1>8, <1>9 DEF Next

\* Every variable stays in its type (TypeOK of ListRefresh).
THEOREM TypeCorrect == Spec => []TypeOK
BY TypeInit, TypeStep, PTL DEF Spec

-----------------------------------------------------------------------------
(* A clear dirty flag means that everything is saved.                       *)

Locked == {"merge", "save", "saving"}

\* A task is inside a critical section only if it holds the mutex; so at most
\* one task is.
Mutex == \A t \in Task : pc[t] \in Locked => lock = t

SavedInv == TypeOK /\ Mutex /\ CleanMeansSaved

\* Ageing does not change which entries there are, nor their ETags.
LEMMA ExpiredTag ==
    ASSUME NEW m \in CacheMap, NEW S, NEW u \in Url
    PROVE  TagOf(Expired(m, S), u) = TagOf(m, u)
<1>1. m[u] \in Entry \cup {NoEntry}
  BY DEF CacheMap
<1>2. CASE m[u] = NoEntry
  BY <1>2 DEF TagOf, Expired
<1>3. CASE m[u] # NoEntry
  <2>1. [m[u] EXCEPT !.fresh = FALSE] \in Entry
        /\ [m[u] EXCEPT !.fresh = FALSE].etag = m[u].etag
    BY <1>1, <1>3 DEF Entry
  <2> QED
    BY <1>3, <2>1, EntryAssumption DEF TagOf, Expired
<1> QED
  BY <1>2, <1>3

\* The mutex excludes.
LEMMA MutexStep ==
    ASSUME TypeOK, Mutex, [Next]_vars PROVE Mutex'
<1> USE DEF Mutex, Locked, TypeOK
<1>1. CASE Boot \/ RefreshStart
  BY <1>1, Names DEF Boot, RefreshStart, Begin, serving
<1>2. CASE ReloadStart
  <2>1. CASE file = NoConfig
    BY <1>2, <2>1 DEF ReloadStart
  <2>2. CASE file # NoConfig
    <3> Begin("reload", file) /\ UNCHANGED lock
      BY <1>2, <2>2 DEF ReloadStart
    <3> QED
      BY Names DEF Begin
  <2> QED
    BY <2>1, <2>2
<1>3. CASE SigtermLock
  BY <1>3, Names DEF SigtermLock, Acquire
<1>4. CASE Halt
  BY <1>4 DEF Halt
<1>5. ASSUME NEW t \in Task, Save(t) PROVE Mutex'
  <2>1. CASE SaveOpen(t)
    BY <1>5, <2>1 DEF SaveOpen
  <2>2. CASE Saved(t)
    <3>1. lock = t
      BY <1>5 DEF Save, SaveClean, SaveOpen, SaveWrite, SaveFails
    <3>2. CASE t # "sigterm"
      <4> lock' = Free /\ pc' = [pc EXCEPT ![t] = "install"]
        BY <2>2, <3>2 DEF Saved
      <4> QED
        BY <3>1
    <3> QED
      BY <2>2, <3>2, <1>4 DEF Saved
  <2> QED
    BY <1>5, <2>1, <2>2 DEF Save, SaveClean, SaveWrite, SaveFails
<1>6. ASSUME NEW b \in Builder, Rebuild(b) PROVE Mutex'
  <2>1. CASE Plan(b) \/ MergeStart(b) \/ Parse(b) \/ Prune(b) \/ Install(b)
    BY <2>1, Names DEF Plan, MergeStart, Parse, Prune, Install, Acquire
  <2>2. CASE MergeEnd(b)
    BY <2>2, Names DEF MergeEnd
  <2>3. CASE ParsePanics(b)
    <3>1. CASE b # "startup"
      <4> pc' = [pc EXCEPT ![b] = "dead"] /\ UNCHANGED lock
        BY <2>3, <3>1 DEF ParsePanics, cache
      <4> QED
        BY Names
    <3> QED
      BY <2>3, <3>1, <1>4 DEF ParsePanics
  <2>4. ASSUME NEW u \in Url, CheckBody(b, u) \/ MergeResult(b, u)
        PROVE  Mutex'
    BY <2>4 DEF CheckBody, Settle, MergeResult, MergeOpen, MergeWrite,
       MergeWriteFails, MergeNotModified, MergeStale, Merged
  <2> QED
    BY <1>5, <1>6, <2>1, <2>2, <2>3, <2>4, Names DEF Rebuild
<1>7. ASSUME NEW b \in Builder, NEW u \in Url, Download(b, u) PROVE Mutex'
  BY <1>7 DEF Download, AnswerOk, AnswerNotModified, CheckBody, AnswerError,
     AnswerCut, AnswerPage, Settle
<1>8. CASE Environment
  <2>1. CASE Sigterm
    BY <2>1, Names DEF Sigterm
  <2>2. CASE Crash
    BY <2>2, <1>4 DEF Crash
  <2> QED
    BY <1>8, <2>1, <2>2 DEF Environment, Edit, Hangup, Publish, Expire
<1>9. CASE UNCHANGED vars
  BY <1>9 DEF vars
<1> QED
  BY <1>1, <1>2, <1>3, <1>5, <1>6, <1>7, <1>8, <1>9, Names DEF Next

\* What CleanMeansSaved speaks of is not touched.
LEMMA SavedStutter ==
    ASSUME CleanMeansSaved, UNCHANGED <<proc, dirty, map, meta>>,
           \A t \in Task : pc[t] = "saving" => pc'[t] = "saving"
    PROVE  CleanMeansSaved'
BY DEF CleanMeansSaved, TagOf, Loaded

\* A step that ends with the process down, or with the cache dirty.
LEMMA SavedVacuous ==
    ASSUME proc' = "down" \/ dirty' = TRUE PROVE CleanMeansSaved'
BY DEF CleanMeansSaved

\* A step of save_to_disk keeps CleanMeansSaved while writes succeed.
LEMMA SaveKeepsSaved ==
    ASSUME SavedInv, "disk" \notin Events, NEW t \in Task, Save(t)
    PROVE  CleanMeansSaved'
<1> USE DEF SavedInv, TypeOK
<1>1. CASE t = "sigterm" /\ Saved(t)
  BY <1>1, SavedVacuous DEF Saved, Halt
<1>2. CASE SaveOpen(t)
  BY <1>2 DEF SaveOpen, CleanMeansSaved
<1>3. CASE t # "sigterm" /\ SaveClean(t)
  <2> t \in Builder /\ UNCHANGED <<proc, map, dirty, meta>>
      /\ pc' = [pc EXCEPT ![t] = "install"] /\ pc[t] = "save"
    BY <1>3 DEF SaveClean, Saved, Task
  <2> QED
    BY SavedStutter
<1>4. CASE t # "sigterm" /\ SaveWrite(t)
  <2> meta' = map /\ map' = map /\ map \in CacheMap
    BY <1>4 DEF SaveWrite, Saved
  <2> QED
    BY EntryAssumption DEF CleanMeansSaved, Loaded, TagOf
<1> QED
  BY <1>1, <1>2, <1>3, <1>4 DEF Save, SaveClean, SaveWrite, SaveFails

\* A step of merge_downloads or download_one does.
LEMMA MergeKeepsSaved ==
    ASSUME SavedInv, NEW b \in Builder, NEW u \in Url,
           MergeResult(b, u) \/ Download(b, u)
    PROVE  CleanMeansSaved'
<1> USE DEF SavedInv
<1>1. CASE MergeWrite(b, u)
  BY <1>1, SavedVacuous DEF MergeWrite
<1>2. CASE MergeNotModified(b, u)
  <2>1. CASE map[u] # NoEntry
    BY <1>2, <2>1, SavedVacuous DEF MergeNotModified
  <2>2. CASE map[u] = NoEntry
    <3> UNCHANGED <<proc, map, dirty, meta, pc>>
      BY <1>2, <2>2 DEF MergeNotModified, Merged
    <3> QED
      BY SavedStutter
  <2> QED
    BY <2>1, <2>2
<1>3. CASE MergeOpen(b, u) \/ MergeWriteFails(b, u) \/ MergeStale(b, u)
  <2> UNCHANGED <<proc, map, dirty, meta, pc>>
    BY <1>3 DEF MergeOpen, MergeWriteFails, MergeStale, Merged
  <2> QED
    BY SavedStutter
<1>4. CASE Download(b, u)
  <2> UNCHANGED <<proc, map, dirty, meta, pc>>
    BY <1>4 DEF Download, AnswerOk, AnswerNotModified, CheckBody, AnswerError,
       AnswerCut, AnswerPage, Settle, cache
  <2> QED
    BY SavedStutter
<1> QED
  BY <1>1, <1>2, <1>3, <1>4 DEF MergeResult

\* The other steps of a rebuild do.
LEMMA RebuildKeepsSaved ==
    ASSUME SavedInv, "disk" \notin Events, NEW b \in Builder, Rebuild(b)
    PROVE  CleanMeansSaved'
<1> USE DEF SavedInv, TypeOK
<1>1. CASE Plan(b) \/ MergeStart(b) \/ MergeEnd(b) \/ Parse(b) \/ Install(b)
  <2> /\ UNCHANGED <<proc, map, dirty, meta>> /\ pc[b] # "saving"
      /\ \E l \in Label : pc' = [pc EXCEPT ![b] = l]
    BY <1>1
    DEF Plan, MergeStart, MergeEnd, Parse, Install, Acquire, cache, Label
  <2> QED
    BY SavedStutter, Names
<1>2. CASE ParsePanics(b)
  <2>1. CASE b = "startup"
    BY <1>2, <2>1, SavedVacuous DEF ParsePanics, Halt
  <2>2. CASE b # "startup"
    <3> /\ UNCHANGED <<proc, map, dirty, meta>> /\ pc[b] # "saving"
        /\ pc' = [pc EXCEPT ![b] = "dead"]
      BY <1>2, <2>2 DEF ParsePanics, cache
    <3> QED
      BY SavedStutter, Names
  <2> QED
    BY <2>1, <2>2
<1>3. CASE Prune(b)
  <2> DEFINE gone == {u \in Url : map[u] # NoEntry /\ u \notin UrlsOf[cfg[b]]}
  <2>1. CASE gone = {}
    <3>1. UNCHANGED <<proc, dirty, meta>> /\ pc[b] # "saving"
          /\ pc' = [pc EXCEPT ![b] = "save"]
      BY <1>3, <2>1 DEF Prune, Acquire
    <3>2. map' = map
      BY <1>3, <2>1 DEF Prune, CacheMap
    <3> QED
      BY <3>1, <3>2, SavedStutter, Names
  <2>2. CASE gone # {}
    BY <1>3, <2>2, SavedVacuous DEF Prune
  <2> QED
    BY <2>1, <2>2
<1> QED
  BY <1>1, <1>2, <1>3, SaveKeepsSaved, MergeKeepsSaved, Names
  DEF Rebuild, Download

\* Ageing changes no ETag, in memory or on disk.
LEMMA ExpireTags ==
    ASSUME TypeOK, NEW u \in Url, Expire(u)
    PROVE  \A v \in Url : /\ TagOf(map, v)' = TagOf(map, v)
                          /\ TagOf(Loaded, v)' = TagOf(Loaded, v)
<1> USE DEF TypeOK
<1>1. \A v \in Url : TagOf(map, v)' = TagOf(map, v)
  BY ExpiredTag DEF Expire, TagOf
<1>2. CASE meta = NoMeta
  BY <1>1, <1>2 DEF Expire, Loaded, TagOf
<1>3. CASE meta # NoMeta
  <2>1. meta \in CacheMap /\ meta' = Expired(meta, {u})
    BY <1>3 DEF Expire
  <2>2. meta' # NoMeta
    BY <2>1, ExpiredType, EntryAssumption
  <2> QED
    BY <1>1, <1>3, <2>1, <2>2, ExpiredTag DEF Loaded, TagOf
<1> QED
  BY <1>2, <1>3

\* Ageing, edits, signals, servers and crashes do.
LEMMA EnvironmentKeepsSaved ==
    ASSUME SavedInv, Environment PROVE CleanMeansSaved'
<1> USE DEF SavedInv, TypeOK
<1>1. ASSUME NEW u \in Url, Expire(u) PROVE CleanMeansSaved'
  <2>1. UNCHANGED <<proc, dirty, pc>>
    BY <1>1 DEF Expire
  <2> QED
    BY <1>1, <2>1, ExpireTags DEF CleanMeansSaved
<1>2. CASE Crash
  BY <1>2, SavedVacuous DEF Crash, Halt
<1>3. CASE Sigterm
  <2> UNCHANGED <<proc, dirty, map, meta>>
      /\ pc' = [pc EXCEPT !["sigterm"] = "wait"] /\ pc["sigterm"] = "idle"
    BY <1>3 DEF Sigterm, cache
  <2> QED
    BY SavedStutter, Names
<1>4. ASSUME UNCHANGED <<proc, dirty, map, meta, pc>> PROVE CleanMeansSaved'
  BY <1>4, SavedStutter
<1> QED
  BY <1>1, <1>2, <1>3, <1>4 DEF Environment, Edit, Hangup, Publish, cache

\* Every step keeps SavedInv while writes succeed.
LEMMA SavedStep ==
    ASSUME SavedInv, "disk" \notin Events, [Next]_vars PROVE SavedInv'
<1> USE DEF SavedInv
<1>1. TypeOK' /\ Mutex'
  BY TypeStep, MutexStep
<1>2. CleanMeansSaved'
  <2>1. CASE Boot
    <3>1. PICK S \in SUBSET Url : map' = Expired(Loaded, S)
      BY <2>1 DEF Boot
    <3>2. \A u \in Url : TagOf(map, u)' = TagOf(Loaded, u)
      BY <3>1, LoadedType, ExpiredTag DEF TagOf
    <3> QED
      BY <2>1, <3>2 DEF Boot, CleanMeansSaved, Loaded, TagOf
  <2>2. CASE RefreshStart
    BY <2>2, SavedStutter, Names
    DEF RefreshStart, Begin, cache, TypeOK
  <2>3. CASE ReloadStart
    <3>1. CASE file = NoConfig
      BY <2>3, <3>1, SavedStutter DEF ReloadStart, cache
    <3>2. CASE file # NoConfig
      <4> Begin("reload", file) /\ UNCHANGED <<proc, cache>>
        BY <2>3, <3>2 DEF ReloadStart
      <4> QED
        BY SavedStutter, Names DEF Begin, cache, TypeOK
    <3> QED
      BY <3>1, <3>2
  <2>4. CASE SigtermLock
    BY <2>4, SavedStutter, Names DEF SigtermLock, Acquire, cache, TypeOK
  <2>5. CASE UNCHANGED vars
    BY <2>5, SavedStutter DEF vars, cache
  <2> QED
    BY <2>1, <2>2, <2>3, <2>4, <2>5, Names, RebuildKeepsSaved,
       SaveKeepsSaved, MergeKeepsSaved, EnvironmentKeepsSaved DEF Next
<1> QED
  BY <1>1, <1>2

\* As long as no write fails, a clear dirty flag means that cache.json holds
\* the metadata in memory (CleanMeansSaved of ListRefresh, save_to_disk).
THEOREM SavedCorrect ==
    ASSUME "disk" \notin Events PROVE Spec => []CleanMeansSaved
<1>1. Init => SavedInv
  <2> SUFFICES ASSUME Init PROVE SavedInv
    OBVIOUS
  <2>1. TypeOK
    BY TypeInit
  <2> QED
    BY <2>1 DEF Init, SavedInv, Mutex, Locked, CleanMeansSaved
<1>2. SavedInv /\ [Next]_vars => SavedInv'
  BY SavedStep
<1>3. SavedInv => CleanMeansSaved
  BY DEF SavedInv
<1> QED
  BY <1>1, <1>2, <1>3, PTL DEF Spec

-----------------------------------------------------------------------------
(* Files and metadata agree.                                                *)

\* A process that is down does nothing; one that is up has a configuration,
\* and so has every rebuild.
Life ==
    /\ proc = "down" => /\ \A t \in Task : pc[t] = "idle"
                        /\ active = NoConfig /\ ~hup
    /\ proc = "up" => config \in Config
    /\ \A b \in Builder : pc[b] \notin {"idle", "dead"} => cfg[b] \in Config

\* A result is written by a rebuild that merges, and its ETag is its body's.
JobsSound ==
    \A b \in Builder, u \in Url :
        /\ job[b][u].st = "writing" => pc[b] = "merge"
        /\ job[b][u].st \in {"fresh", "writing"} =>
              /\ job[b][u].body # NoBody
              /\ job[b][u].etag \in Content => job[b][u].body = job[b][u].etag

\* Ending the process establishes both.
LEMMA HaltLife ==
    ASSUME TypeOK, Halt PROVE Life' /\ JobsSound'
<1>1. Life'
  BY Names DEF Halt, Life
<1>2. \A b \in Builder, u \in Url : job'[b][u] = NoJob
  BY DEF Halt, NoJobs
<1>3. JobsSound'
  BY <1>2 DEF JobsSound, NoJob
<1> QED
  BY <1>1, <1>3

\* A step that leaves the jobs alone and moves one task, not out of "merge".
LEMMA JobsStutter ==
    ASSUME JobsSound, UNCHANGED job,
           \A b \in Builder : pc[b] = "merge" => pc'[b] = "merge"
    PROVE  JobsSound'
BY DEF JobsSound

\* A step of save_to_disk keeps both.
LEMMA SaveLife ==
    ASSUME TypeOK, Life, JobsSound, NEW t \in Task, Save(t)
    PROVE  Life' /\ JobsSound'
<1> USE DEF TypeOK
<1>1. CASE SaveOpen(t)
  <2> UNCHANGED <<proc, config, hup, job, cfg, active>>
      /\ pc[t] = "save" /\ pc' = [pc EXCEPT ![t] = "saving"]
    BY <1>1 DEF SaveOpen, conf, build, serving
  <2> QED
    BY JobsStutter, Names DEF Life
<1>2. CASE Saved(t)
  <2>1. CASE t = "sigterm"
    BY <1>2, <2>1, HaltLife DEF Saved
  <2>2. CASE t # "sigterm"
    <3> UNCHANGED <<proc, config, hup, job, cfg, active>>
        /\ pc[t] \in {"save", "saving"} /\ pc' = [pc EXCEPT ![t] = "install"]
      BY <1>1, <1>2, <2>2
      DEF Saved, build, serving, Save, SaveClean, SaveOpen, SaveWrite, SaveFails
    <3> QED
      BY JobsStutter, Names DEF Life
  <2> QED
    BY <2>1, <2>2
<1> QED
  BY <1>1, <1>2 DEF Save, SaveClean, SaveWrite, SaveFails

\* The settling of a job, with a sound result, keeps both.
LEMMA SettleLife ==
    ASSUME TypeOK, Life, JobsSound, NEW b \in Builder, NEW u \in Url,
           NEW j \in Job, Settle(b, u, j), j.st # "writing",
           j.st = "fresh" =>
              j.body # NoBody /\ (j.etag \in Content => j.body = j.etag)
    PROVE  Life' /\ JobsSound'
<1>1. /\ UNCHANGED <<proc, config, hup, pc, cfg, active>>
      /\ job' = [job EXCEPT ![b][u] = j]
  BY DEF Settle, conf, serving
<1>2. Life'
  BY <1>1 DEF Life
<1>3. JobsSound'
  BY <1>1 DEF JobsSound, TypeOK
<1> QED
  BY <1>2, <1>3

\* A step of download_one keeps both.
LEMMA DownloadLife ==
    ASSUME TypeOK, Life, JobsSound, NEW b \in Builder, NEW u \in Url,
           Download(b, u)
    PROVE  Life' /\ JobsSound'
<1> USE DEF TypeOK, Done, Job, Tag, Body
<1>1. CASE AnswerOk(b, u)
  BY <1>1, SettleLife, DistinctAssumption DEF AnswerOk, TagSent
<1>2. CASE AnswerPage(b, u)
  BY <1>2, SettleLife, DistinctAssumption DEF AnswerPage
<1>3. CASE AnswerNotModified(b, u) \/ CheckBody(b, u) \/ AnswerError(b, u)
           \/ AnswerCut(b, u)
  BY <1>3, SettleLife
  DEF AnswerNotModified, CheckBody, AnswerError, AnswerCut, Fallback
<1> QED
  BY <1>1, <1>2, <1>3 DEF Download

\* A step of merge_downloads keeps both.
LEMMA MergeLife ==
    ASSUME TypeOK, Life, JobsSound, NEW b \in Builder, NEW u \in Url,
           MergeResult(b, u)
    PROVE  Life' /\ JobsSound'
<1>1. /\ UNCHANGED <<proc, config, hup, pc, cfg, active>>
      /\ pc[b] = "merge"
      /\ \/ job' = [job EXCEPT ![b][u] = NoJob]
         \/ job[b][u].st = "fresh" /\ job' = [job EXCEPT ![b][u].st = "writing"]
  BY DEF MergeResult, MergeOpen, MergeWrite, MergeWriteFails, MergeNotModified,
     MergeStale, Merged, conf, serving
<1>2. Life'
  BY <1>1 DEF Life
<1>3. JobsSound'
  <2>1. CASE job' = [job EXCEPT ![b][u] = NoJob]
    BY <1>1, <2>1 DEF JobsSound, TypeOK, NoJob
  <2>2. CASE job[b][u].st = "fresh"
             /\ job' = [job EXCEPT ![b][u].st = "writing"]
    BY <1>1, <2>2 DEF JobsSound, TypeOK, Job
  <2> QED
    BY <1>1, <2>1, <2>2
<1> QED
  BY <1>2, <1>3

\* Every step keeps both.
LEMMA LifeStep ==
    ASSUME TypeOK, Life, JobsSound, [Next]_vars PROVE Life' /\ JobsSound'
<1> USE DEF TypeOK
<1>1. CASE Boot
  <2> /\ proc' = "up" /\ config' = file /\ file \in Config
      /\ UNCHANGED <<job, active, hup>> /\ pc["startup"] = "idle"
      /\ pc' = [pc EXCEPT !["startup"] = "plan"]
      /\ cfg' = [cfg EXCEPT !["startup"] = file]
    BY <1>1 DEF Boot, Begin, serving
  <2> QED
    BY JobsStutter, Names DEF Life
<1>2. CASE RefreshStart
  <2> /\ UNCHANGED <<proc, config, hup, job, active>> /\ pc["refresh"] = "idle"
      /\ active # NoConfig /\ pc' = [pc EXCEPT !["refresh"] = "plan"]
      /\ cfg' = [cfg EXCEPT !["refresh"] = config]
    BY <1>2 DEF RefreshStart, Begin, conf, serving
  <2> QED
    BY JobsStutter, Names DEF Life
<1>3. CASE ReloadStart
  <2>1. CASE file = NoConfig
    <3> UNCHANGED <<proc, config, pc, cfg, job, active>> /\ hup' = FALSE
      BY <1>3, <2>1 DEF ReloadStart, build, serving
    <3> QED
      BY JobsStutter DEF Life
  <2>2. CASE file # NoConfig
    <3> /\ UNCHANGED <<proc, job, active>> /\ hup /\ hup' = FALSE
        /\ config' = file /\ pc["reload"] = "idle" /\ file \in Config
        /\ pc' = [pc EXCEPT !["reload"] = "plan"]
        /\ cfg' = [cfg EXCEPT !["reload"] = file]
      BY <1>3, <2>2 DEF ReloadStart, Begin, serving
    <3> QED
      BY JobsStutter, Names DEF Life
  <2> QED
    BY <2>1, <2>2
<1>4. CASE SigtermLock
  <2> /\ UNCHANGED <<proc, config, hup, job, active, cfg>>
      /\ pc["sigterm"] = "wait" /\ pc' = [pc EXCEPT !["sigterm"] = "save"]
    BY <1>4 DEF SigtermLock, Acquire, conf, build, serving
  <2> QED
    BY JobsStutter, Names DEF Life
<1>5. ASSUME NEW b \in Builder, Rebuild(b) PROVE Life' /\ JobsSound'
  <2>1. CASE Plan(b)
    <3>1. /\ UNCHANGED <<proc, config, hup, active, cfg>> /\ pc[b] = "plan"
          /\ pc' = [pc EXCEPT ![b] = "download"]
      BY <2>1 DEF Plan, conf, serving
    <3>2. Life'
      BY <3>1, Names DEF Life
    <3>3. \A c \in Builder : c # b => job'[c] = job[c]
      BY <2>1 DEF Plan
    <3>4. \A u \in Url : job'[b][u].st \in {"get", "none"}
      BY <2>1 DEF Plan, Done, NoJob
    <3>5. JobsSound'
      <4> SUFFICES ASSUME NEW c \in Builder, NEW u \in Url
                   PROVE  JobsSound!(c, u)'
        BY DEF JobsSound
      <4>1. CASE c = b
        BY <3>4, <4>1
      <4>2. CASE c # b
        BY <3>1, <3>3, <4>2, Names DEF JobsSound
      <4> QED
        BY <4>1, <4>2
    <3> QED
      BY <3>2, <3>5
  <2>2. CASE MergeStart(b) \/ Parse(b) \/ Prune(b)
    <3> /\ UNCHANGED <<proc, config, hup, job, active, cfg>>
        /\ pc[b] \in {"download", "parse", "prune"}
        /\ \E l \in {"merge", "prune", "save"} : pc' = [pc EXCEPT ![b] = l]
      BY <2>2 DEF MergeStart, Parse, Prune, Acquire, conf, build, serving
    <3> QED
      BY JobsStutter, Names DEF Life
  <2>3. CASE MergeEnd(b)
    <3>1. /\ UNCHANGED <<proc, config, hup, job, active, cfg>>
          /\ pc[b] = "merge" /\ job[b] = NoJobs
          /\ pc' = [pc EXCEPT ![b] = "parse"]
      BY <2>3 DEF MergeEnd, conf, build, serving
    <3>2. Life'
      BY <3>1, Names DEF Life
    <3>3. \A u \in Url : job[b][u].st = "none"
      BY <3>1 DEF NoJobs, NoJob
    <3> QED
      BY <3>1, <3>2, <3>3, Names DEF JobsSound
  <2>4. CASE ParsePanics(b)
    <3>1. CASE b = "startup"
      BY <2>4, <3>1, HaltLife DEF ParsePanics
    <3>2. CASE b # "startup"
      <4> /\ UNCHANGED <<proc, config, hup, job, active>> /\ pc[b] = "parse"
          /\ pc' = [pc EXCEPT ![b] = "dead"]
          /\ cfg' = [cfg EXCEPT ![b] = NoConfig]
        BY <2>4, <3>2 DEF ParsePanics, conf, serving
      <4> QED
        BY JobsStutter, Names DEF Life
    <3> QED
      BY <3>1, <3>2
  <2>5. CASE Install(b)
    <3> /\ UNCHANGED <<proc, config, hup, job>> /\ pc[b] = "install"
        /\ pc' = [pc EXCEPT ![b] = "idle"]
        /\ cfg' = [cfg EXCEPT ![b] = NoConfig]
      BY <2>5 DEF Install, conf
    <3> QED
      BY JobsStutter, Names DEF Life
  <2> QED
    BY <1>5, <2>1, <2>2, <2>3, <2>4, <2>5, SaveLife, MergeLife, DownloadLife,
       Names DEF Rebuild, Download
<1>6. CASE Environment
  <2>1. CASE Sigterm
    <3> /\ UNCHANGED <<proc, config, hup, job, active, cfg>>
        /\ active # NoConfig /\ pc["sigterm"] = "idle"
        /\ pc' = [pc EXCEPT !["sigterm"] = "wait"]
      BY <2>1 DEF Sigterm, conf, build, serving
    <3> QED
      BY JobsStutter, Names DEF Life
  <2>2. CASE Hangup
    <3> UNCHANGED <<proc, config, job, active, cfg, pc>> /\ active # NoConfig
      BY <2>2 DEF Hangup, build, serving
    <3> QED
      BY JobsStutter DEF Life
  <2>3. CASE Crash
    BY <2>3, HaltLife DEF Crash
  <2>4. ASSUME UNCHANGED <<proc, config, hup, job, active, cfg, pc>>
        PROVE  Life' /\ JobsSound'
    BY <2>4, JobsStutter DEF Life
  <2> QED
    BY <1>6, <2>1, <2>2, <2>3, <2>4
    DEF Environment, Edit, Publish, Expire, conf, build, serving
<1>7. CASE UNCHANGED vars
  BY <1>7, JobsStutter DEF vars, conf, build, serving, Life
<1> QED
  BY <1>1, <1>2, <1>3, <1>4, <1>5, <1>6, <1>7, SaveLife, DownloadLife, Names
  DEF Next

ConsistentInv == SavedInv /\ Life /\ JobsSound /\ CacheConsistent

\* CacheConsistent for one list.
Agree(u) ==
    /\ bodies[u] = NoBody <=> Known(u) = NoEntry
    /\ Known(u) \in Content => bodies[u] = Known(u)

\* A step that changes neither the files nor what is known of them, and ends
\* no write.
LEMMA ConsistentStutter ==
    ASSUME CacheConsistent, UNCHANGED bodies,
           \A u \in Url : Known(u)' = Known(u),
           \A u \in Url : Writing(u) => Writing(u)'
    PROVE  CacheConsistent'
BY DEF CacheConsistent

\* The common case: nothing of the cache changes.
LEMMA CacheStutter ==
    ASSUME CacheConsistent, UNCHANGED <<proc, bodies, map, meta>>,
           \A u \in Url : Writing(u) => Writing(u)'
    PROVE  CacheConsistent'
<1>1. \A u \in Url : Known(u)' = Known(u)
  BY DEF Known, TagOf, Loaded
<1> QED
  BY <1>1, ConsistentStutter

\* While no rebuild merges, no file is being written.
LEMMA NoWriting ==
    ASSUME JobsSound, \A b \in Builder : pc[b] # "merge"
    PROVE  \A u \in Url : ~Writing(u)
BY DEF JobsSound, Writing

\* A step of save_to_disk; SIGTERM leaves behind what a restart needs.
LEMMA SaveKeepsConsistent ==
    ASSUME ConsistentInv, "disk" \notin Events, NEW t \in Task, Save(t)
    PROVE  CacheConsistent'
<1> USE DEF ConsistentInv, SavedInv, TypeOK
<1>1. pc[t] \in {"save", "saving"} /\ lock = t /\ proc = "up"
  BY DEF Save, SaveClean, SaveOpen, SaveWrite, SaveFails, Mutex, Locked, Life
<1>2. \A b \in Builder : pc[b] # "merge"
  BY <1>1, Names DEF Mutex, Locked
<1>3. \A u \in Url : Agree(u)
  BY <1>2, NoWriting DEF CacheConsistent, Agree
<1>4. ASSUME UNCHANGED bodies, \A u \in Url : Known(u)' = Known(u)
      PROVE  CacheConsistent'
  BY <1>3, <1>4 DEF Agree, CacheConsistent
<1>5. CASE UNCHANGED <<proc, map, bodies>>
  BY <1>1, <1>4, <1>5 DEF Known, TagOf
<1>6. CASE t = "sigterm" /\ SaveClean(t)
  <2>1. proc' = "down" /\ UNCHANGED <<meta, bodies>>
    BY <1>6 DEF SaveClean, Saved, Halt
  <2>2. \A s \in Task : pc[s] # "saving"
    BY <1>1, <1>6 DEF SaveClean, Mutex, Locked
  <2>3. \A u \in Url : TagOf(Loaded, u) = TagOf(map, u)
    BY <1>1, <1>6, <2>2 DEF SaveClean, CleanMeansSaved
  <2> QED
    BY <1>1, <1>4, <2>1, <2>3 DEF Known, Loaded, TagOf
<1>7. CASE t = "sigterm" /\ SaveWrite(t)
  <2>1. proc' = "down" /\ meta' = map /\ map # NoMeta /\ UNCHANGED bodies
    BY <1>7, EntryAssumption DEF SaveWrite, Saved, Halt
  <2> QED
    BY <1>1, <1>4, <2>1 DEF Known, Loaded, TagOf
<1> QED
  BY <1>5, <1>6, <1>7
  DEF Save, SaveClean, SaveOpen, SaveWrite, SaveFails, Saved

\* A step of merge_downloads.
LEMMA MergeKeepsConsistent ==
    ASSUME ConsistentInv, "disk" \notin Events, NEW b \in Builder,
           NEW u \in Url, MergeResult(b, u)
    PROVE  CacheConsistent'
<1> USE DEF ConsistentInv, SavedInv, TypeOK
<1>0. pc[b] = "merge"
  BY DEF MergeResult, MergeOpen, MergeWrite, MergeWriteFails,
     MergeNotModified, MergeStale
<1>1. pc[b] = "merge" /\ proc = "up"
  BY <1>0, Names DEF Life
<1>2. CASE MergeOpen(b, u)
  <2>1. UNCHANGED <<proc, map>> /\ bodies' = [bodies EXCEPT ![u] = Torn]
        /\ job' = [job EXCEPT ![b][u].st = "writing"]
    BY <1>2 DEF MergeOpen
  <2>2. Writing(u)'
    BY <2>1 DEF Writing, Job
  <2>3. ASSUME NEW v \in Url, v # u, ~Writing(v)' PROVE Agree(v)'
    <3>1. \A c \in Builder : job'[c][v] = job[c][v]
      BY <2>1, <2>3
    <3>2. ~Writing(v)
      BY <2>3, <3>1 DEF Writing
    <3> QED
      BY <1>1, <2>1, <2>3, <3>2 DEF CacheConsistent, Agree, Known, TagOf
  <2> QED
    BY <2>2, <2>3 DEF CacheConsistent, Agree
<1>3. CASE MergeWrite(b, u)
  <2>1. /\ UNCHANGED proc /\ bodies' = [bodies EXCEPT ![u] = job[b][u].body]
        /\ map' = [map EXCEPT ![u] = [fresh |-> TRUE, etag |-> job[b][u].etag]]
        /\ job' = [job EXCEPT ![b][u] = NoJob] /\ job[b][u].st = "writing"
    BY <1>3 DEF MergeWrite, Merged
  <2>2. Agree(u)'
    <3>1. [fresh |-> TRUE, etag |-> job[b][u].etag] \in Entry
          /\ job[b][u].etag \in Tag
      BY DEF Entry, Job
    <3>2. Known(u)' = job[b][u].etag
      BY <1>1, <2>1, <3>1, EntryAssumption DEF Known, TagOf, CacheMap
    <3> QED
      BY <2>1, <3>1, <3>2, EntryAssumption DEF Agree, JobsSound
  <2>3. ASSUME NEW v \in Url, v # u, ~Writing(v)' PROVE Agree(v)'
    <3>1. \A c \in Builder : job'[c][v] = job[c][v]
      BY <2>1, <2>3
    <3>2. ~Writing(v)
      BY <2>3, <3>1 DEF Writing
    <3> QED
      BY <1>1, <2>1, <2>3, <3>2
      DEF CacheConsistent, Agree, Known, TagOf, CacheMap
  <2> QED
    BY <2>2, <2>3 DEF CacheConsistent, Agree
<1>4. ASSUME UNCHANGED <<proc, bodies>>, job[b][u].st # "writing",
             job' = [job EXCEPT ![b][u] = NoJob],
             \A v \in Url : Known(v)' = Known(v)
      PROVE  CacheConsistent'
  <2> \A v \in Url : Writing(v) => Writing(v)'
    BY <1>4 DEF Writing
  <2> QED
    BY <1>4, ConsistentStutter
<1>5. CASE MergeNotModified(b, u)
  <2>1. CASE map[u] # NoEntry
    <3>1. map' = [map EXCEPT ![u].fresh = TRUE] /\ proc' = proc
      BY <1>5, <2>1 DEF MergeNotModified, Merged
    <3>0. map[u] \in Entry
      BY <2>1 DEF CacheMap
    <3>2. map[u] \in Entry /\ [map[u] EXCEPT !.fresh = TRUE] \in Entry
          /\ [map[u] EXCEPT !.fresh = TRUE].etag = map[u].etag
      BY <3>0 DEF Entry
    <3>3. \A v \in Url : Known(v)' = Known(v)
      BY <1>1, <2>1, <3>1, <3>2, EntryAssumption DEF Known, TagOf, CacheMap
    <3> QED
      BY <1>4, <1>5, <3>3 DEF MergeNotModified, Merged
  <2>2. CASE map[u] = NoEntry
    <3> UNCHANGED <<proc, map, meta>>
      BY <1>5, <2>2 DEF MergeNotModified, Merged
    <3>1. \A v \in Url : Known(v)' = Known(v)
      BY DEF Known, TagOf, Loaded
    <3> QED
      BY <1>4, <1>5, <3>1 DEF MergeNotModified, Merged
  <2> QED
    BY <2>1, <2>2
<1>6. CASE MergeStale(b, u)
  <2>1. \A v \in Url : Known(v)' = Known(v)
    BY <1>6 DEF MergeStale, Merged, Known, TagOf, Loaded
  <2> QED
    BY <1>4, <1>6, <2>1 DEF MergeStale, Merged
<1> QED
  BY <1>2, <1>3, <1>5, <1>6 DEF MergeResult, MergeWriteFails

\* A step of download_one.
LEMMA DownloadKeepsConsistent ==
    ASSUME ConsistentInv, NEW b \in Builder, NEW u \in Url, Download(b, u)
    PROVE  CacheConsistent'
<1> USE DEF ConsistentInv, SavedInv, TypeOK
<1>1. /\ UNCHANGED <<proc, bodies, map, meta>>
      /\ \E j : job' = [job EXCEPT ![b][u] = j]
      /\ job[b][u].st # "writing"
  BY DEF Download, AnswerOk, AnswerNotModified, CheckBody, AnswerError,
     AnswerCut, AnswerPage, Settle, cache
<1>2. \A v \in Url : Writing(v) => Writing(v)'
  BY <1>1 DEF Writing
<1> QED
  BY <1>1, <1>2, CacheStutter

\* The other steps of a rebuild.
LEMMA RebuildKeepsConsistent ==
    ASSUME ConsistentInv, "disk" \notin Events, Poison = {},
           NEW b \in Builder, Rebuild(b)
    PROVE  CacheConsistent'
<1> USE DEF ConsistentInv, SavedInv, TypeOK
<1>1. CASE MergeStart(b) \/ MergeEnd(b) \/ Parse(b) \/ Install(b)
  <2>1. UNCHANGED <<proc, bodies, map, meta, job>>
    BY <1>1 DEF MergeStart, MergeEnd, Parse, Install, cache, build
  <2> QED
    BY <2>1, CacheStutter DEF Writing
<1>2. CASE Plan(b)
  <2>1. /\ UNCHANGED <<proc, bodies, map, meta>> /\ pc[b] = "plan"
        /\ \A c \in Builder : c # b => job'[c] = job[c]
    BY <1>2 DEF Plan, cache
  <2>2. \A u \in Url : Writing(u) => Writing(u)'
    BY <2>1 DEF Writing, JobsSound
  <2> QED
    BY <2>1, <2>2, CacheStutter
<1>3. CASE ParsePanics(b)
  BY <1>3 DEF ParsePanics
<1>4. CASE Prune(b)
  <2> DEFINE gone == {u \in Url : map[u] # NoEntry /\ u \notin UrlsOf[cfg[b]]}
  <2>1. /\ map' = [u \in Url |-> IF u \in gone THEN NoEntry ELSE map[u]]
        /\ bodies' = [u \in Url |-> IF u \in gone THEN NoBody ELSE bodies[u]]
        /\ proc' = proc /\ lock = Free /\ pc[b] = "prune"
    BY <1>4 DEF Prune, Acquire
  <2>2. proc = "up"
    BY <2>1, Names DEF Life
  <2>3. \A c \in Builder : pc[c] # "merge"
    BY <2>1, Names DEF Mutex, Locked
  <2>4. \A u \in Url : Agree(u)
    BY <2>3, NoWriting DEF CacheConsistent, Agree
  <2>5. ASSUME NEW u \in Url PROVE Agree(u)'
    <3>1. CASE u \in gone
      <4>1. bodies'[u] = NoBody /\ map'[u] = NoEntry
        BY <2>1, <3>1
      <4> QED
        BY <2>1, <2>2, <4>1, EntryAssumption DEF Agree, Known, TagOf, Tag
    <3>2. CASE u \notin gone
      <4>1. bodies'[u] = bodies[u] /\ map'[u] = map[u]
        BY <2>1, <3>2
      <4> QED
        BY <2>1, <2>2, <2>4, <4>1 DEF Agree, Known, TagOf
    <3> QED
      BY <3>1, <3>2
  <2> QED
    BY <2>5 DEF CacheConsistent, Agree
<1> QED
  BY <1>1, <1>2, <1>3, <1>4, SaveKeepsConsistent, MergeKeepsConsistent,
     DownloadKeepsConsistent, Names DEF Rebuild, Download

\* Starts, signals, edits, servers and ageing.
LEMMA OutsideKeepsConsistent ==
    ASSUME ConsistentInv, "crash" \notin Events,
           \/ Boot \/ RefreshStart \/ ReloadStart \/ SigtermLock
           \/ Environment \/ UNCHANGED vars
    PROVE  CacheConsistent'
<1> USE DEF ConsistentInv, SavedInv, TypeOK
<1>1. CASE Boot
  <2>1. PICK S \in SUBSET Url : map' = Expired(Loaded, S)
    BY <1>1 DEF Boot
  <2>2. \A u \in Url : TagOf(map, u)' = TagOf(Loaded, u)
    BY <2>1, LoadedType, ExpiredTag DEF TagOf
  <2>3. \A u \in Url : Known(u)' = Known(u)
    BY <1>1, <2>2 DEF Boot, Known
  <2>4. UNCHANGED <<bodies, job>>
    BY <1>1 DEF Boot, Begin
  <2> QED
    BY <2>3, <2>4, ConsistentStutter DEF Writing
<1>2. ASSUME NEW u \in Url, Expire(u) PROVE CacheConsistent'
  <2>1. \A v \in Url : Known(v)' = Known(v)
    BY <1>2, ExpireTags DEF Expire, Known
  <2>2. UNCHANGED <<bodies, job>>
    BY <1>2 DEF Expire, build
  <2> QED
    BY <2>1, <2>2, ConsistentStutter DEF Writing
<1>3. ASSUME UNCHANGED <<proc, bodies, map, meta, job>> PROVE CacheConsistent'
  BY <1>3, CacheStutter DEF Writing
<1>4. CASE ReloadStart
  BY <1>3, <1>4 DEF ReloadStart, Begin, build, cache
<1>5. CASE RefreshStart \/ SigtermLock \/ UNCHANGED vars
  BY <1>3, <1>5 DEF RefreshStart, SigtermLock, Begin, vars, build, cache
<1>6. CASE Environment
  BY <1>2, <1>3, <1>6
  DEF Environment, Edit, Hangup, Sigterm, Publish, Crash, build, cache
<1> QED
  BY <1>1, <1>4, <1>5, <1>6

\* Files and metadata agree whatever rebuilds, reloads and SIGTERMs interleave
\* (CacheConsistent of ListRefresh; merge_downloads, prune and save_to_disk),
\* as long as the process is not killed, by a signal or by the panic of the
\* rule parser at startup, and writes succeed.
THEOREM ConsistentCorrect ==
    ASSUME "disk" \notin Events, "crash" \notin Events, Poison = {}
    PROVE  Spec => []CacheConsistent
<1>1. Init => ConsistentInv
  <2> SUFFICES ASSUME Init PROVE ConsistentInv
    OBVIOUS
  <2>1. TypeOK
    BY TypeInit
  <2>2. Mutex /\ CleanMeansSaved
    BY <2>1 DEF Init, Mutex, Locked, CleanMeansSaved
  <2>3. Life
    BY Names DEF Init, Life
  <2>4. \A b \in Builder, u \in Url : job[b][u] = NoJob
    BY DEF Init, NoJobs
  <2>5. JobsSound
    BY <2>4 DEF JobsSound, NoJob
  <2>6. \A u \in Url : Known(u) = NoEntry /\ bodies[u] = NoBody
    BY DEF Init, Known, Loaded, TagOf, EmptyMap, NoLists
  <2>7. CacheConsistent
    BY <2>6, EntryAssumption DEF CacheConsistent, Tag
  <2> QED
    BY <2>1, <2>2, <2>3, <2>5, <2>7 DEF ConsistentInv, SavedInv
<1>2. ConsistentInv /\ [Next]_vars => ConsistentInv'
  <2> SUFFICES ASSUME ConsistentInv, [Next]_vars PROVE ConsistentInv'
    OBVIOUS
  <2>1. SavedInv'
    BY SavedStep DEF ConsistentInv
  <2>2. Life' /\ JobsSound'
    BY LifeStep DEF ConsistentInv, SavedInv
  <2>3. CacheConsistent'
    BY OutsideKeepsConsistent, RebuildKeepsConsistent, SaveKeepsConsistent,
       DownloadKeepsConsistent, Names DEF Next
  <2> QED
    BY <2>1, <2>2, <2>3 DEF ConsistentInv
<1>3. ConsistentInv => CacheConsistent
  BY DEF ConsistentInv
<1> QED
  BY <1>1, <1>2, <1>3, PTL DEF Spec
-----------------------------------------------------------------------------
(* A good copy on disk is not lost.                                         *)

\* The merge will give, or has given, the list a body.
Promised(b, u) ==
    \/ job[b][u].st \in {"get", "304", "notmod"}
    \/ job[b][u].st \in {"fresh", "writing", "stale"} /\ job[b][u].body # NoBody
    \/ job[b][u].st = "none" /\ lists[b][u] # NoBody

\* What is known of a list that had a copy when the rebuild planned.
Holds(b, u) ==
    /\ pc[b] \in {"download", "merge", "parse", "prune", "save", "saving",
                  "install"}
    /\ bodies[u] # NoBody
    /\ u \in UrlsOf[cfg[b]]
    /\ IF pc[b] \in {"download", "merge"} THEN Promised(b, u)
       ELSE lists[b][u] # NoBody

Kept == \A b \in Builder : \A u \in had[b] : Holds(b, u)

KeptInv == TypeOK /\ Life /\ JobsSound /\ Kept

\* A step that removes no file and moves one task, from after the merge to
\* after the merge, or a task with no promises.
LEMMA KeptStutter ==
    ASSUME Kept, TypeOK, UNCHANGED <<cfg, job, lists, had>>,
           \A u \in Url : bodies[u] # NoBody => bodies'[u] # NoBody,
           \A b \in Builder : pc'[b] # pc[b] =>
              \/ pc[b] \in {"prune", "save", "saving", "parse"}
                 /\ pc'[b] \in {"prune", "save", "saving", "install"}
              \/ pc[b] = "download" /\ pc'[b] = "merge"
    PROVE  Kept'
BY SMTT(60) DEF Kept, Holds, Promised, TypeOK

\* A process that ends makes no promises.
LEMMA HaltKept == ASSUME Halt PROVE Kept'
BY DEF Halt, Kept

\* A rebuild that begins has none.
LEMMA BeginKept ==
    ASSUME Kept, TypeOK, NEW b \in Builder, NEW c, Begin(b, c),
           UNCHANGED bodies
    PROVE  Kept'
<1>1. /\ UNCHANGED <<job, lists, had>> /\ pc[b] = "idle" /\ had[b] = {}
      /\ pc' = [pc EXCEPT ![b] = "plan"] /\ cfg' = [cfg EXCEPT ![b] = c]
  BY DEF Begin, Kept, Holds
<1>2. \A d \in Builder : d # b => cfg'[d] = cfg[d] /\ pc'[d] = pc[d]
  BY <1>1, Names DEF TypeOK
<1> QED
  BY <1>1, <1>2 DEF Kept, Holds, Promised

\* A step that changes only the part of one rebuild, and keeps its promises.
LEMMA OneKept ==
    ASSUME Kept, TypeOK, NEW b \in Builder,
           \A u \in Url : bodies[u] # NoBody => bodies'[u] # NoBody,
           \A d \in Builder : d # b =>
              /\ pc'[d] = pc[d] /\ cfg'[d] = cfg[d] /\ job'[d] = job[d]
              /\ lists'[d] = lists[d] /\ had'[d] = had[d],
           \A u \in had'[b] : Holds(b, u)'
    PROVE  Kept'
<1> SUFFICES ASSUME NEW d \in Builder, NEW u \in had'[d], d # b
             PROVE  Holds(d, u)'
  BY DEF Kept
<1> u \in had[d] /\ u \in Url
  BY DEF TypeOK
<1> QED
  BY DEF Kept, Holds, Promised

\* A step of save_to_disk.
LEMMA SaveKept ==
    ASSUME KeptInv, NEW t \in Task, Save(t) PROVE Kept'
<1> USE DEF KeptInv
<1>1. CASE Saved(t) /\ t = "sigterm"
  BY <1>1, HaltKept DEF Saved
<1>2. CASE SaveOpen(t) \/ (Saved(t) /\ t # "sigterm")
  <2>1. /\ UNCHANGED <<cfg, job, lists, had, bodies>>
        /\ pc[t] \in {"save", "saving"}
        /\ \E l \in {"saving", "install"} : pc' = [pc EXCEPT ![t] = l]
    BY <1>2 DEF Save, SaveClean, SaveOpen, SaveWrite, SaveFails, Saved, build
  <2> QED
    BY <2>1, KeptStutter, Names DEF TypeOK
<1> QED
  BY <1>1, <1>2 DEF Save, SaveClean, SaveWrite, SaveFails

\* The settling of a job that makes a promise.
LEMMA SettleKept ==
    ASSUME KeptInv, NEW b \in Builder, NEW u \in Url, NEW j \in Job,
           Settle(b, u, j),
           u \in had[b] =>
              \/ j.st \in {"get", "304", "notmod"}
              \/ j.st \in {"fresh", "stale"} /\ j.body # NoBody
    PROVE  Kept'
<1> USE DEF KeptInv, TypeOK
<1>1. /\ UNCHANGED <<pc, cfg, lists, had, bodies>> /\ pc[b] = "download"
      /\ job' = [job EXCEPT ![b][u] = j]
  BY DEF Settle, cache
<1>2. ASSUME NEW v \in had[b] PROVE Holds(b, v)'
  <2>1. CASE v = u
    BY <1>1, <1>2, <2>1 DEF Kept, Holds, Promised
  <2>2. CASE v # u
    <3> job'[b][v] = job[b][v]
      BY <1>1, <2>2
    <3> QED
      BY <1>1, <1>2 DEF Kept, Holds, Promised
  <2> QED
    BY <2>1, <2>2
<1> QED
  BY <1>1, <1>2, OneKept

\* A step of download_one: every failure falls back while no connection
\* breaks within a body.
LEMMA DownloadKept ==
    ASSUME KeptInv, "cut" \notin Events, NEW b \in Builder, NEW u \in Url,
           Download(b, u)
    PROVE  Kept'
<1> USE DEF KeptInv, TypeOK, Done, Job, Tag, Body
<1>1. u \in had[b] => Holds(b, u)
  BY DEF Kept
<1>2. CASE AnswerOk(b, u)
  BY <1>2, SettleKept, DistinctAssumption DEF AnswerOk, TagSent
<1>3. CASE AnswerPage(b, u)
  BY <1>3, SettleKept, DistinctAssumption DEF AnswerPage
<1>4. CASE AnswerNotModified(b, u)
  BY <1>4, SettleKept DEF AnswerNotModified
<1>5. CASE CheckBody(b, u)
  BY <1>1, <1>5, SettleKept DEF CheckBody, Holds
<1>6. CASE AnswerError(b, u)
  BY <1>1, <1>6, SettleKept DEF AnswerError, Fallback, Holds
<1>7. CASE AnswerCut(b, u)
  <2> job[b][u].st = "refetch" /\ pc[b] = "download"
    BY <1>7 DEF AnswerCut, Settle
  <2> u \notin had[b]
    BY <1>1 DEF Holds, Promised
  <2> QED
    BY <1>7, SettleKept DEF AnswerCut
<1> QED
  BY <1>2, <1>3, <1>4, <1>5, <1>6, <1>7 DEF Download

\* A step of merge_downloads.
LEMMA MergeKept ==
    ASSUME KeptInv, "disk" \notin Events, NEW b \in Builder, NEW u \in Url,
           MergeResult(b, u)
    PROVE  Kept'
<1> USE DEF KeptInv, TypeOK
<1>1. UNCHANGED <<pc, cfg, had>> /\ pc[b] = "merge"
  BY DEF MergeResult, MergeOpen, MergeWrite, MergeWriteFails,
     MergeNotModified, MergeStale, Merged
<1>2. \A v \in Url : bodies[v] # NoBody => bodies'[v] # NoBody
  BY DistinctAssumption
  DEF MergeResult, MergeOpen, MergeWrite, MergeWriteFails, MergeNotModified,
      MergeStale, Merged, JobsSound
<1>3. \A d \in Builder : d # b => job'[d] = job[d] /\ lists'[d] = lists[d]
  BY DEF MergeResult, MergeOpen, MergeWrite, MergeWriteFails,
     MergeNotModified, MergeStale, Merged, Use
<1>4. \A v \in Url : v # u =>
         job'[b][v] = job[b][v] /\ lists'[b][v] = lists[b][v]
  BY DEF MergeResult, MergeOpen, MergeWrite, MergeWriteFails,
     MergeNotModified, MergeStale, Merged, Use
<1>5. ASSUME u \in had[b] PROVE Promised(b, u)'
  <2>1. Promised(b, u) /\ bodies[u] # NoBody
    BY <1>1, <1>5 DEF Kept, Holds
  <2>2. CASE MergeOpen(b, u)
    <3> job'[b][u].st = "writing" /\ job'[b][u].body = job[b][u].body
        /\ job[b][u].st = "fresh"
      BY <2>2 DEF MergeOpen, Job
    <3> QED
      BY <2>1 DEF Promised
  <2>3. CASE MergeWrite(b, u) \/ MergeStale(b, u)
    <3> job'[b][u].st = "none" /\ lists'[b][u] = job[b][u].body
        /\ job[b][u].st \in {"writing", "stale", "failed"}
      BY <2>3 DEF MergeWrite, MergeStale, Merged, Use, NoJob
    <3> QED
      BY <2>1 DEF Promised
  <2>4. CASE MergeNotModified(b, u)
    <3> job'[b][u].st = "none" /\ lists'[b][u] = bodies[u]
      BY <2>4 DEF MergeNotModified, Merged, Use, NoJob
    <3> QED
      BY <2>1 DEF Promised
  <2> QED
    BY <2>2, <2>3, <2>4 DEF MergeResult, MergeWriteFails
<1>6. ASSUME NEW v \in had[b] PROVE Holds(b, v)'
  <2>1. CASE v = u
    BY <1>1, <1>2, <1>5, <1>6, <2>1 DEF Kept, Holds
  <2>2. CASE v # u
    BY <1>1, <1>2, <1>4, <1>6, <2>2 DEF Kept, Holds, Promised
  <2> QED
    BY <2>1, <2>2
<1> QED
  BY <1>1, <1>2, <1>3, <1>6, OneKept
\* All configurations list the same URLs.
SameUrls == \A c, d \in Config : UrlsOf[c] = UrlsOf[d]

\* The other steps of a rebuild: no prune removes a file some rebuild counts on.
LEMMA RebuildKept ==
    ASSUME KeptInv, SameUrls, "cut" \notin Events, "disk" \notin Events,
           NEW b \in Builder, Rebuild(b)
    PROVE  Kept'
<1> USE DEF KeptInv, TypeOK
<1>1. CASE MergeStart(b) \/ Parse(b)
  <2> /\ UNCHANGED <<cfg, job, lists, had, bodies>>
      /\ \/ pc[b] = "download" /\ pc' = [pc EXCEPT ![b] = "merge"]
         \/ pc[b] = "parse" /\ pc' = [pc EXCEPT ![b] = "prune"]
    BY <1>1 DEF MergeStart, Parse, Acquire, cache, build
  <2> QED
    BY KeptStutter, Names
<1>2. CASE Plan(b)
  <2>1. /\ pc[b] = "plan" /\ pc' = [pc EXCEPT ![b] = "download"]
        /\ UNCHANGED <<bodies, cfg>>
        /\ had' = [had EXCEPT ![b] =
              {u \in Url : u \in UrlsOf[cfg[b]] /\ bodies[u] # NoBody}]
    BY <1>2 DEF Plan, cache
  <2>2. \A d \in Builder : d # b =>
           /\ pc'[d] = pc[d] /\ job'[d] = job[d] /\ lists'[d] = lists[d]
           /\ had'[d] = had[d]
    BY <1>2, Names DEF Plan
  <2>3. ASSUME NEW u \in had'[b] PROVE Holds(b, u)'
    <3>1. u \in Url /\ u \in UrlsOf[cfg[b]] /\ bodies[u] # NoBody
      BY <2>1, <2>3
    <3>2. Promised(b, u)'
      <4>1. /\ lists'[b][u] = GetIfFresh(u)
            /\ job'[b][u] = IF GetIfFresh(u) = NoBody
                            THEN Done("get", NoBody, StoredTag(u)) ELSE NoJob
        BY <1>2, <3>1 DEF Plan
      <4> QED
        BY <4>1 DEF Promised, Done, NoJob
    <3> QED
      BY <2>1, <3>1, <3>2, Names DEF Holds
  <2> QED
    BY <2>1, <2>2, <2>3, OneKept
<1>3. CASE MergeEnd(b)
  <2>1. /\ pc[b] = "merge" /\ pc' = [pc EXCEPT ![b] = "parse"]
        /\ job[b] = NoJobs /\ UNCHANGED <<bodies, cfg, job, lists, had>>
    BY <1>3 DEF MergeEnd, cache, build
  <2>2. ASSUME NEW u \in had[b] PROVE Holds(b, u)'
    <3>1. Holds(b, u) /\ job[b][u].st = "none"
      BY <2>1, <2>2 DEF Kept, NoJobs, NoJob
    <3> QED
      BY <2>1, <3>1, Names DEF Holds, Promised
  <2> QED
    BY <2>1, <2>2, Names, OneKept
<1>4. CASE Install(b) \/ (ParsePanics(b) /\ b # "startup")
  <2>1. /\ had' = [had EXCEPT ![b] = {}] /\ UNCHANGED <<bodies, job>>
        /\ cfg' = [cfg EXCEPT ![b] = NoConfig]
        /\ lists' = [lists EXCEPT ![b] = NoLists]
        /\ \E l \in {"idle", "dead"} : pc' = [pc EXCEPT ![b] = l]
    BY <1>4 DEF Install, ParsePanics, cache
  <2> QED
    BY <2>1, OneKept, Names
<1>5. CASE ParsePanics(b) /\ b = "startup"
  BY <1>5, HaltKept DEF ParsePanics
<1>6. CASE Prune(b)
  <2> DEFINE gone == {u \in Url : map[u] # NoEntry /\ u \notin UrlsOf[cfg[b]]}
  <2>1. /\ bodies' = [u \in Url |-> IF u \in gone THEN NoBody ELSE bodies[u]]
        /\ pc[b] = "prune" /\ pc' = [pc EXCEPT ![b] = "save"]
        /\ UNCHANGED <<cfg, job, lists, had>>
    BY <1>6 DEF Prune, Acquire, build
  <2> SUFFICES ASSUME NEW d \in Builder, NEW u \in had[d]
               PROVE  Holds(d, u)'
    BY <2>1 DEF Kept
  <2>2. Holds(d, u) /\ u \in Url
    BY DEF Kept
  <2>3. cfg[b] \in Config /\ cfg[d] \in Config
    BY <2>1, <2>2 DEF Life, Holds
  <2>4. bodies'[u] = bodies[u]
    BY <2>1, <2>2, <2>3 DEF Holds, SameUrls
  <2> QED
    BY <2>1, <2>2, <2>4, Names DEF Holds, Promised
<1> QED
  BY <1>1, <1>2, <1>3, <1>4, <1>5, <1>6, SaveKept, MergeKept, DownloadKept,
     Names DEF Rebuild, Download

\* A list that had a copy on disk when a rebuild planned has rules in what the
\* rebuild installs, whatever the servers answer and although rebuilds,
\* reloads and crashes interleave (KeepsGoodCopies of ListRefresh).  It needs
\* that reloads change no list of URLs, that no write fails and that no
\* connection breaks within a body.
THEOREM CopiesKept ==
    ASSUME SameUrls, "cut" \notin Events, "disk" \notin Events
    PROVE  Spec => []KeepsGoodCopies
<1>1. Init => KeptInv
  <2> SUFFICES ASSUME Init PROVE KeptInv
    OBVIOUS
  <2>1. TypeOK /\ Life /\ Kept
    BY TypeInit, Names DEF Init, Life, Kept
  <2>2. \A b \in Builder, u \in Url : job[b][u] = NoJob
    BY DEF Init, NoJobs
  <2> QED
    BY <2>1, <2>2 DEF KeptInv, JobsSound, NoJob
<1>2. KeptInv /\ [Next]_vars => KeptInv'
  <2> SUFFICES ASSUME KeptInv, [Next]_vars PROVE KeptInv'
    OBVIOUS
  <2> USE DEF KeptInv
  <2>1. TypeOK' /\ Life' /\ JobsSound'
    BY TypeStep, LifeStep
  <2>2. Kept'
    <3>1. CASE Boot \/ RefreshStart
      BY <3>1, BeginKept, Names DEF Boot, RefreshStart, cache
    <3>2. CASE ReloadStart
      <4>1. CASE file = NoConfig
        <5> UNCHANGED <<bodies, pc, cfg, job, lists, had>>
          BY <3>2, <4>1 DEF ReloadStart, cache, build
        <5> QED
          BY KeptStutter
      <4>2. CASE file # NoConfig
        BY <3>2, <4>2, BeginKept, Names DEF ReloadStart, cache
      <4> QED
        BY <4>1, <4>2
    <3>3. CASE SigtermLock \/ Sigterm
      <4> /\ UNCHANGED <<bodies, cfg, job, lists, had>>
          /\ \E l \in Label : pc' = [pc EXCEPT !["sigterm"] = l]
        BY <3>3
        DEF SigtermLock, Sigterm, Acquire, cache, build, Label
      <4> QED
        BY KeptStutter, Names DEF TypeOK
    <3>4. ASSUME UNCHANGED <<bodies, pc, cfg, job, lists, had>> PROVE Kept'
      BY <3>4, KeptStutter
    <3>5. CASE Environment
      BY <3>3, <3>4, <3>5, HaltKept
      DEF Environment, Edit, Hangup, Publish, Expire, Crash, cache, build
    <3>6. CASE UNCHANGED vars
      BY <3>4, <3>6 DEF vars, cache, build
    <3> QED
      BY <3>1, <3>2, <3>3, <3>5, <3>6, RebuildKept, SaveKept, DownloadKept,
         Names DEF Next
  <2> QED
    BY <2>1, <2>2
<1>3. KeptInv => KeepsGoodCopies
  BY DEF KeptInv, Kept, Holds, KeepsGoodCopies
<1> QED
  BY <1>1, <1>2, <1>3, PTL DEF Spec
=============================================================================
