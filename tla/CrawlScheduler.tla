--------------------------- MODULE CrawlScheduler ---------------------------
(***************************************************************************)
(* The crawl loop of crates/crawler-core (function crawl) together with    *)
(* the frontier it keeps in its store: one scheduler task, the worker      *)
(* tasks it spawns, the Pause/Resume/Stop flags a user sets from another   *)
(* thread, and crashes of the whole process followed by a resume.          *)
(*                                                                         *)
(* A frontier item is identified with its storage key; the page behind a   *)
(* URL is abstracted to the sets of URLs and sitemaps it links to that     *)
(* the crawl rules admit (an external or unexpandable page links to        *)
(* nothing).  The link order inside a page is left open.                   *)
(***************************************************************************)
EXTENDS Integers, FiniteSets, SequencesExt

CONSTANTS
  Urls,             \* storage keys
  Root,             \* key of the start URL
  Modes,            \* what a crawl may be: "spider" or "list"
  ListSeeds,        \* keys of a list crawl
  SitemapSeeds,     \* URLs of the site's own sitemaps, read before the loop
  Links,            \* Links[u]: URLs the page of u lets the crawl discover
  Sitemaps,         \* sitemap documents that pages link to
  LinkedSitemaps,   \* LinkedSitemaps[u]: sitemaps linked from the page of u
  Listed,           \* Listed[m]: URLs listed by sitemap m
  Scopes,           \* scopes a (resumed) crawl may be configured with
  Concurrency, MaxUrls, MaxDepth,
  MaxLinksPerPage,  \* 0: unlimited
  MaxRuns,          \* model bound: runs of crawl on one database
  MaxCrashes        \* model bound: crashes of the process

ASSUME ConfigAssumption ==
  /\ Root \in Urls
  /\ IsFiniteSet(Urls)
  /\ Modes \in SUBSET {"spider", "list"} /\ Modes # {}
  /\ ListSeeds \in SUBSET Urls /\ ListSeeds # {}
  /\ SitemapSeeds \in SUBSET Urls
  /\ Links \in [Urls -> SUBSET Urls]
  /\ LinkedSitemaps \in [Urls -> SUBSET Sitemaps]
  /\ Listed \in [Sitemaps -> SUBSET Urls]
  /\ Scopes \in SUBSET SUBSET Urls /\ Scopes # {}
  /\ Concurrency \in Nat \ {0}
  /\ MaxUrls \in Nat \ {0}
  /\ MaxDepth \in Nat
  /\ MaxLinksPerPage \in Nat
  /\ MaxRuns \in Nat \ {0}
  /\ MaxCrashes \in Nat

VARIABLES
  mode,   \* crawl_mode of the saved configuration, which a resume keeps
  \* the scheduler task
  pc, scope, queue, seen, crawled,
  active,           \* keys of active_items
  depth,            \* depth carried by the item of each key
  cur,              \* key whose result is being processed
  previousQueueLen,
  todo,             \* linked sitemaps of the current page still to be read
  documents,        \* sitemap_traversal.documents: sitemaps read in this run
  needsCheckpoint,  \* frontier_needs_checkpoint
  status,
  \* the worker tasks (JoinSet)
  tasks,
  \* CrawlControl
  paused, cancelled,
  \* the store: frontier tables and result tables
  dQueue, dSeen, dCrawled, recorded, evidence,
  \* history and model bounds
  done, failed,
  panicked,           \* URLs whose worker panicked in this run
  runs, crashes

loopVars    == <<pc, scope, status>>
memoryVars  == <<queue, seen, crawled, active, depth>>
pageVars    == <<cur, previousQueueLen, todo, documents, needsCheckpoint>>
controlVars == <<paused, cancelled>>
frontier    == <<dQueue, dSeen, dCrawled>>
results     == <<recorded, evidence>>
history     == <<done, failed, panicked>>
bounds      == <<runs, crashes>>
vars == <<mode, loopVars, memoryVars, pageVars, tasks, controlVars, frontier,
          results, history, bounds>>

-----------------------------------------------------------------------------
(* Helpers.                                                                *)

NoUrl == "no-url"   \* cur between two results

(* Arrangements of a set as a sequence without repetition. *)
Arrangements(S) ==
  {q \in [1..Cardinality(S) -> S] : IsInjective(q) /\ Range(q) = S}

(* queued.retain(|item| item.storage_key != k); keys are unique. *)
Without(q, k) ==
  IF \E i \in DOMAIN q : q[i] = k
  THEN RemoveAt(q, CHOOSE i \in DOMAIN q : q[i] = k)
  ELSE q

(* r lists its keys in the order in which q lists them. *)
SameOrder(r, q) ==
  \A i, j \in DOMAIN r : i < j =>
    \E a, b \in DOMAIN q : a < b /\ q[a] = r[i] /\ q[b] = r[j]

Smaller(a, b) == IF a <= b THEN a ELSE b

(* Fault: the limit is checked with > instead of >=.                       *)
RoomFault(S) == IF Cardinality(S) > MaxUrls THEN 0 ELSE MaxUrls - Cardinality(S) + 1

(* How many keys seen may still admit before seen.len() >= max_urls. *)
Room(S) == IF Cardinality(S) >= MaxUrls THEN 0 ELSE MaxUrls - Cardinality(S)

(* Fault: keys are looked up in the queue, not in seen.                    *)
AdmissionsFault(S, limit) ==
  LET fresh == S \ Range(queue)
      n     == Smaller(Cardinality(fresh), limit)
  IN  {q \in [1..n -> fresh] : IsInjective(q)}

(* Up to limit of the new keys of S, in some order: the keys a discovery   *)
(* loop inserts into seen and pushes onto the queue.                       *)
Admissions(S, limit) ==
  LET fresh == S \ seen
      n     == Smaller(Cardinality(fresh), limit)
  IN  {q \in [1..n -> fresh] : IsInjective(q)}

Live == {u \in Urls : tasks[u] # "none"}

(* The condition of the dispatch loop. *)
CanDispatch ==
  /\ Cardinality(Live) < Concurrency
  /\ queue # <<>>
  /\ crawled + Cardinality(Live) < MaxUrls

(* The page of u may lead to further URLs. *)
Expands(u) == mode = "spider" /\ depth[u] + 1 <= MaxDepth

-----------------------------------------------------------------------------
(* The store's frontier operations, one transaction each.                  *)

(* save_frontier_state replaces the tables.                                *)
SaveFrontier(q, s, n) == dQueue' = q /\ dSeen' = s /\ dCrawled' = n

(* Faults: the new keys do not reach the saved seen set; the counter is    *)
(* written as if a page that failed had been counted.                      *)
UpdateFrontierFaultSeen(k, new) ==
  /\ dQueue' = Without(dQueue, k) \o new
  /\ dSeen' = dSeen
  /\ dCrawled' = crawled
UpdateFrontierFaultHigh(k, new) ==
  /\ dQueue' = Without(dQueue, k) \o new
  /\ dSeen' = dSeen \cup Range(new)
  /\ dCrawled' = IF k \in active THEN crawled + 1 ELSE crawled

(* update_frontier_state removes the finished key and appends new ones.    *)
UpdateFrontier(k, new) ==
  /\ dQueue' = Without(dQueue, k) \o new
  /\ dSeen' = dSeen \cup Range(new)
  /\ dCrawled' = crawled

-----------------------------------------------------------------------------
(* A run before its loop.                                                  *)

Init ==
  /\ mode \in Modes
  /\ pc = "startup" /\ status = "starting" /\ scope \in Scopes
  /\ queue = <<>> /\ seen = {} /\ crawled = 0 /\ active = {}
  /\ depth = [u \in Urls |-> 0]
  /\ cur = NoUrl /\ previousQueueLen = 0 /\ todo = {} /\ documents = {}
  /\ needsCheckpoint = FALSE
  /\ tasks = [u \in Urls |-> "none"]
  /\ paused = FALSE /\ cancelled = FALSE
  /\ dQueue = <<>> /\ dSeen = {} /\ dCrawled = 0
  /\ recorded = {} /\ evidence = [u \in Urls |-> 0]
  /\ done = {} /\ failed = {} /\ panicked = {}
  /\ runs = 1 /\ crashes = 0

(* seed_frontier: the seeds come first, whatever the limit; the URLs of    *)
(* the site's sitemaps fill the room that is left.                         *)
Seeds ==
  IF mode = "list"
  THEN Arrangements(ListSeeds)
  ELSE {<<Root>> \o q : q \in
          LET listed == (SitemapSeeds \cap scope) \ {Root}
              n      == Smaller(Cardinality(listed), Room({Root}))
          IN  {r \in [1..n -> listed] : IsInjective(r)}}

(* restore_frontier_state: the saved queue without what a narrower scope   *)
(* excludes.  List entries and the start URL stay.                         *)
Kept == {u \in Range(dQueue) : mode = "list" \/ u = Root \/ u \in scope}
Restored == {q \in Arrangements(Kept) : SameOrder(q, dQueue)}

(* Seeds or restores the frontier and saves it before the first dispatch.  *)
Begin ==
  /\ pc = "startup" /\ ~cancelled
  /\ pc' = "top" /\ status' = "running"
  /\ \/ /\ dSeen = {} /\ dQueue = <<>>
        /\ \E q \in Seeds : queue' = q /\ seen' = Range(q)
        /\ crawled' = 0
     \/ /\ ~(dSeen = {} /\ dQueue = <<>>)
        /\ \E q \in Restored : queue' = q
        /\ seen' = dSeen \ (Range(dQueue) \ Kept)
        /\ crawled' = dCrawled
  /\ SaveFrontier(queue', seen', crawled')
  /\ UNCHANGED <<scope, active, depth, pageVars, tasks, controlVars, results,
                 history, bounds>>

(* Cancelled while sitemaps are read: the saved frontier is left alone.    *)
StopDuringStartup ==
  /\ pc = "startup" /\ cancelled
  /\ pc' = "ended" /\ status' = "stopped"
  /\ UNCHANGED <<scope, memoryVars, pageVars, tasks, controlVars, frontier,
                 results, history, bounds>>

(* The start URL, the login or an explicit sitemap fails: crawl returns an *)
(* error.                                                                  *)
FailStartup ==
  /\ pc = "startup" /\ ~cancelled
  /\ pc' = "ended" /\ status' = "failed"
  /\ UNCHANGED <<scope, memoryVars, pageVars, tasks, controlVars, frontier,
                 results, history, bounds>>

-----------------------------------------------------------------------------
(* The scheduler loop.                                                     *)

(* wait_if_paused at the head of the loop.                                 *)
EnterDispatch ==
  /\ pc = "top" /\ ~paused /\ ~cancelled
  /\ pc' = "dispatch"
  /\ UNCHANGED <<scope, status, memoryVars, pageVars, tasks, controlVars,
                 frontier, results, history, bounds>>

(* One turn of the dispatch loop.  Nothing is written to the store.        *)
Dispatch ==
  /\ pc = "dispatch" /\ CanDispatch /\ ~paused /\ ~cancelled
  /\ queue' = Tail(queue)
  /\ active' = active \cup {Head(queue)}
  /\ tasks' = [tasks EXCEPT ![Head(queue)] = "running"]
  /\ UNCHANGED <<loopVars, seen, crawled, depth, pageVars, controlVars,
                 frontier, results, history, bounds>>

(* Faults: the loop ends once the queue is empty; or it never ends.        *)
EndDispatchFaultEarly ==
  /\ pc = "dispatch" /\ ~CanDispatch
  /\ pc' = IF queue = <<>> THEN "finish" ELSE "select"
  /\ UNCHANGED <<scope, status, memoryVars, pageVars, tasks, controlVars,
                 frontier, results, history, bounds>>
EndDispatchFaultLate ==
  /\ pc = "dispatch" /\ ~CanDispatch
  /\ pc' = "select"
  /\ UNCHANGED <<scope, status, memoryVars, pageVars, tasks, controlVars,
                 frontier, results, history, bounds>>

(* Nothing more to dispatch: wait for a worker, or leave when there is     *)
(* none.  The pause flag is not looked at here.                            *)
EndDispatch ==
  /\ pc = "dispatch" /\ ~CanDispatch
  /\ pc' = IF Live = {} THEN "finish" ELSE "select"
  /\ UNCHANGED <<scope, status, memoryVars, pageVars, tasks, controlVars,
                 frontier, results, history, bounds>>

(* Fault: a paused scheduler does not look for a stop.                     *)
ObserveStopFaultPaused ==
  /\ cancelled /\ ~paused
  /\ \/ pc \in {"top", "select"}
     \/ pc = "dispatch" /\ CanDispatch
  /\ pc' = "finish"
  /\ UNCHANGED <<scope, status, memoryVars, pageVars, tasks, controlVars,
                 frontier, results, history, bounds>>

(* Cancellation is seen at the head of the loop, inside the dispatch loop, *)
(* or while waiting for a worker, also when a result is already there.     *)
ObserveStop ==
  /\ cancelled
  /\ \/ pc \in {"top", "select"}
     \/ pc = "dispatch" /\ CanDispatch
  /\ pc' = "finish"
  /\ UNCHANGED <<scope, status, memoryVars, pageVars, tasks, controlVars,
                 frontier, results, history, bounds>>

(* join_next returns the task of u.                                        *)
Join(u) ==
  /\ pc = "select" /\ ~cancelled
  /\ tasks' = [tasks EXCEPT ![u] = "none"]

(* The task panicked: its item stays in active_items and in the store.     *)
JoinPanic(u) ==
  /\ Join(u) /\ tasks[u] = "panic"
  /\ pc' = "top"
  /\ panicked' = panicked \cup {u}
  /\ UNCHANGED <<scope, status, memoryVars, pageVars, controlVars, frontier,
                 results, done, failed, bounds>>

(* The task returned an error: the pending key is removed, in memory and   *)
(* in the store, and does not count as crawled.                            *)
JoinError(u) ==
  /\ Join(u) /\ tasks[u] = "error"
  /\ pc' = "top"
  /\ active' = active \ {u}
  /\ UpdateFrontier(u, <<>>)
  /\ failed' = failed \cup {u}
  /\ UNCHANGED <<scope, status, queue, seen, crawled, depth, pageVars,
                 controlVars, results, done, panicked, bounds>>

(* The task returned a page.                                               *)
JoinOk(u) ==
  /\ Join(u) /\ tasks[u] = "ok"
  /\ pc' = "discover"
  /\ cur' = u
  /\ previousQueueLen' = Len(queue)
  /\ todo' = IF Expands(u) THEN LinkedSitemaps[u] ELSE {}
  /\ needsCheckpoint' = TRUE
  /\ UNCHANGED <<scope, status, memoryVars, documents, controlVars, frontier,
                 results, history, bounds>>

Push(q, d) ==
  /\ queue' = queue \o q
  /\ seen' = seen \cup Range(q)
  /\ depth' = [u \in Urls |-> IF u \in Range(q) THEN d ELSE depth[u]]

(* fetch_sitemap_locations for one linked sitemap; a sitemap already tried *)
(* in this run gives nothing, a failed one is skipped.                     *)
ReadLinkedSitemap(m) ==
  /\ pc = "discover" /\ ~cancelled
  /\ todo' = todo \ {m}
  /\ documents' = documents \cup {m}
  /\ \/ /\ m \notin documents
        /\ \E q \in Admissions(Listed[m] \cap scope, Room(seen)) : Push(q, 0)
     \/ UNCHANGED <<queue, seen, depth>>
  /\ UNCHANGED <<loopVars, crawled, active, cur, previousQueueLen,
                 needsCheckpoint, tasks, controlVars, frontier, results,
                 history, bounds>>

(* The loop over the links of the page.  It runs even when a stop cut the  *)
(* sitemap loop short; only then is the stop looked at, before the source  *)
(* leaves active_items.                                                    *)
ExpandLinks ==
  /\ pc = "discover"
  /\ todo = {} \/ cancelled
  /\ IF Expands(cur)
     THEN LET limit == IF MaxLinksPerPage = 0 THEN Room(seen)
                       ELSE Smaller(Room(seen), MaxLinksPerPage)
          IN  \E q \in Admissions(Links[cur] \cap scope, limit) :
                Push(q, depth[cur] + 1)
     ELSE UNCHANGED <<queue, seen, depth>>
  /\ IF cancelled
     THEN pc' = "finish" /\ UNCHANGED active
     ELSE pc' = "evidence" /\ active' = active \ {cur}
  /\ UNCHANGED <<scope, status, crawled, pageVars, tasks, controlVars,
                 frontier, results, history, bounds>>

(* add_inlink and add_link_edge: appended to the store.                    *)
WriteEvidence ==
  /\ pc = "evidence"
  /\ pc' = "record"
  /\ evidence' = [evidence EXCEPT ![cur] = @ + 1]
  /\ UNCHANGED <<scope, status, memoryVars, pageVars, tasks, controlVars,
                 frontier, recorded, history, bounds>>

(* upsert and what belongs to the record; then it counts as crawled.       *)
WriteRecord ==
  /\ pc = "record"
  /\ pc' = "settle"
  /\ recorded' = recorded \cup {cur}
  /\ crawled' = crawled + 1
  /\ UNCHANGED <<scope, status, queue, seen, active, depth, pageVars, tasks,
                 controlVars, frontier, evidence, history, bounds>>

(* Fault: off by one.                                                      *)
FreshFault == SubSeq(queue, previousQueueLen + 2, Len(queue))

(* queue.range(previous_queue_len..): what the page added to the queue.    *)
Fresh == SubSeq(queue, previousQueueLen + 1, Len(queue))

(* The key of the page leaves the saved frontier, its discoveries enter.   *)
Settle ==
  /\ pc = "settle"
  /\ pc' = "top"
  /\ UpdateFrontier(cur, Fresh)
  /\ done' = done \cup {cur}
  /\ cur' = NoUrl /\ previousQueueLen' = 0 /\ needsCheckpoint' = FALSE
  /\ UNCHANGED <<scope, status, memoryVars, todo, documents, tasks,
                 controlVars, results, failed, panicked,
                 bounds>>

-----------------------------------------------------------------------------
(* The end of a run.  Returning drops the JoinSet, which aborts its tasks. *)

EndRun ==
  /\ pc' = "ended"
  /\ tasks' = [u \in Urls |-> "none"]

AllDone == ~cancelled /\ queue = <<>> /\ active = {}

(* Everything was fetched: clear_frontier_state, three separate DELETEs.   *)
ClearQueue ==
  /\ pc = "finish" /\ AllDone
  /\ status' = "finished" /\ pc' = "clearSeen"
  /\ dQueue' = <<>>
  /\ UNCHANGED <<scope, memoryVars, pageVars, tasks, controlVars, dSeen,
                 dCrawled, results, history, bounds>>

ClearSeen ==
  /\ pc = "clearSeen" /\ pc' = "clearMeta"
  /\ dSeen' = {}
  /\ UNCHANGED <<scope, status, memoryVars, pageVars, tasks, controlVars,
                 dQueue, dCrawled, results, history, bounds>>

ClearMeta ==
  /\ pc = "clearMeta" /\ EndRun
  /\ dCrawled' = 0
  /\ UNCHANGED <<scope, status, memoryVars, pageVars, controlVars, dQueue,
                 dSeen, results, history, bounds>>

(* Fault: only the waiting keys are saved.                                 *)
SavedQueuesFault == {queue}

(* In-flight keys first and in no particular order, then the queue.        *)
SavedQueues == {a \o queue : a \in Arrangements(active)}

(* Otherwise the frontier is saved, but only when a stop interrupted a     *)
(* discovery; else the store already holds it.                             *)
Finish ==
  /\ pc = "finish" /\ ~AllDone
  /\ EndRun
  /\ status' = IF cancelled THEN "stopped" ELSE "finished"
  /\ IF needsCheckpoint
     THEN \E q \in SavedQueues : SaveFrontier(q, seen, crawled)
     ELSE UNCHANGED frontier
  /\ UNCHANGED <<scope, memoryVars, pageVars, controlVars, results, history,
                 bounds>>

-----------------------------------------------------------------------------
(* The workers, the user, and the process.                                 *)

(* fetch_one of u returns a page or an error, or panics.                   *)
WorkerEnds(u) ==
  /\ tasks[u] = "running"
  /\ \E outcome \in {"ok", "error", "panic"} :
       tasks' = [tasks EXCEPT ![u] = outcome]
  /\ UNCHANGED <<loopVars, memoryVars, pageVars, controlVars, frontier,
                 results, history, bounds>>

Running == pc \notin {"off", "ended"}

Pause ==
  /\ Running /\ ~paused /\ paused' = TRUE
  /\ UNCHANGED <<loopVars, memoryVars, pageVars, tasks, cancelled, frontier,
                 results, history, bounds>>

Resume ==
  /\ Running /\ paused /\ paused' = FALSE
  /\ UNCHANGED <<loopVars, memoryVars, pageVars, tasks, cancelled, frontier,
                 results, history, bounds>>

Stop ==
  /\ Running /\ ~cancelled /\ cancelled' = TRUE
  /\ UNCHANGED <<loopVars, memoryVars, pageVars, tasks, paused, frontier,
                 results, history, bounds>>

(* What a new process, or a new call of crawl, starts from.                *)
ForgetMemory ==
  /\ queue' = <<>> /\ seen' = {} /\ crawled' = 0 /\ active' = {}
  /\ depth' = [u \in Urls |-> IF u \in dSeen THEN depth[u] ELSE 0]
  /\ cur' = NoUrl /\ previousQueueLen' = 0 /\ todo' = {} /\ documents' = {}
  /\ needsCheckpoint' = FALSE
  /\ tasks' = [u \in Urls |-> "none"]
  /\ paused' = FALSE /\ cancelled' = FALSE
  /\ panicked' = {}
  /\ UNCHANGED <<frontier, results, done, failed>>

(* The process dies between two writes to the store.                       *)
Crash ==
  /\ Running /\ crashes < MaxCrashes
  /\ pc' = "off" /\ status' = "interrupted" /\ crashes' = crashes + 1
  /\ ForgetMemory
  /\ UNCHANGED <<scope, runs>>

(* The user resumes the saved crawl, perhaps under another scope.  It is   *)
(* refused when no URL is queued.                                          *)
ResumeSaved ==
  /\ ~Running /\ runs < MaxRuns
  /\ dQueue # <<>>
  /\ pc' = "startup" /\ status' = "starting"
  /\ scope' \in Scopes
  /\ runs' = runs + 1
  /\ ForgetMemory
  /\ UNCHANGED crashes

-----------------------------------------------------------------------------
Startup == Begin \/ StopDuringStartup \/ FailStartup

Loop ==
  \/ EnterDispatch \/ Dispatch \/ EndDispatch \/ ObserveStop
  \/ \E u \in Urls : JoinPanic(u) \/ JoinError(u) \/ JoinOk(u)

Page ==
  \/ \E m \in todo : ReadLinkedSitemap(m)
  \/ ExpandLinks \/ WriteEvidence \/ WriteRecord \/ Settle

Ending == ClearQueue \/ ClearSeen \/ ClearMeta \/ Finish

User == Pause \/ Resume \/ Stop

Next ==
  /\ UNCHANGED mode
  /\ \/ Startup \/ Loop \/ Page \/ Ending \/ User
     \/ \E u \in Urls : WorkerEnds(u)
     \/ Crash \/ ResumeSaved

Spec == Init /\ [][Next]_vars

(* The scheduler task is polled again whenever it can go on; a worker and  *)
(* a sitemap request end unless the crawl is paused (requests time out and *)
(* retries are limited).  Nothing is assumed of the user or of crashes.    *)
OwnStep == Startup \/ Loop \/ ExpandLinks \/ WriteEvidence \/ WriteRecord
             \/ Settle \/ Ending

Fairness ==
  /\ WF_vars(UNCHANGED mode /\ OwnStep)
  /\ WF_vars(UNCHANGED mode /\ ~paused /\ \E m \in todo : ReadLinkedSitemap(m))
  /\ \A u \in Urls : WF_vars(UNCHANGED mode /\ ~paused /\ WorkerEnds(u))

FairSpec == Spec /\ Fairness

-----------------------------------------------------------------------------
(* Properties.                                                             *)

(* The values the variables take; mode is chosen once and kept by Next.    *)
TypeOK ==
  /\ pc \in {"startup", "top", "dispatch", "select", "discover", "evidence",
             "record", "settle", "finish", "clearSeen", "clearMeta", "ended",
             "off"}
  /\ status \in {"starting", "running", "stopped", "finished", "failed",
                 "interrupted"}
  /\ scope \in Scopes
  /\ queue \in Seq(Urls) /\ seen \in SUBSET Urls /\ crawled \in Nat
  /\ active \in SUBSET Urls /\ depth \in [Urls -> Nat]
  /\ cur \in Urls \cup {NoUrl} /\ previousQueueLen \in Nat
  /\ todo \in SUBSET Sitemaps /\ documents \in SUBSET Sitemaps
  /\ needsCheckpoint \in BOOLEAN
  /\ tasks \in [Urls -> {"none", "running", "ok", "error", "panic"}]
  /\ paused \in BOOLEAN /\ cancelled \in BOOLEAN
  /\ dQueue \in Seq(Urls) /\ dSeen \in SUBSET Urls /\ dCrawled \in Nat
  /\ recorded \in SUBSET Urls /\ evidence \in [Urls -> Nat]
  /\ done \in SUBSET Urls /\ failed \in SUBSET Urls
  /\ panicked \in SUBSET Urls
  /\ runs \in 1..MaxRuns /\ crashes \in 0..MaxCrashes

Settled == done \cup failed

(* No discovered URL is lost: at every moment, so also after a crash, each *)
(* URL in the saved seen set is saved as pending or has been settled, and  *)
(* never both.  Only a cleared frontier holds nothing.                     *)
NoUrlLost ==
  dSeen # {} =>
    /\ dSeen = Range(dQueue) \cup Settled
    /\ Range(dQueue) \cap Settled = {}

(* The comment at the dispatch loop: dispatch only moves an already        *)
(* checkpointed URL.  Whatever is being fetched is still saved as pending  *)
(* and is not waiting in the queue at the same time, so that a result      *)
(* dropped by a stop, a crash or a panic is fetched again.                 *)
InFlightIsSaved ==
  /\ Live \subseteq active
  /\ active \subseteq Range(dQueue)
  /\ active \cap Range(queue) = {}
  /\ IsInjective(queue) /\ IsInjective(dQueue)

(* The configured limits hold across stops, crashes and resumes: parallel  *)
(* fetches, pages crawled (also counting those in flight) and URLs         *)
(* admitted.  Only the seeds of a list may exceed the limit of URLs.       *)
LimitsHold ==
  /\ Cardinality(Live) <= Concurrency
  /\ crawled + Cardinality(Live) <= MaxUrls
  /\ Cardinality(done) <= MaxUrls
  /\ mode = "spider" => Cardinality(seen \cup dSeen) <= MaxUrls

(* The saved counter is the number of pages whose record was stored and    *)
(* whose key was settled: a crash between the record and the frontier      *)
(* update does not count a page twice.                                     *)
CrawledIsExact ==
  /\ dSeen # {} => dCrawled = Cardinality(done)
  /\ done \subseteq recorded

(* The link evidence of a page reaches the store at least once when the    *)
(* page is done, and once only unless the process crashed: a stop never    *)
(* makes a resumed crawl count inlinks and edges again.                    *)
EvidenceBound ==
  \A u \in Urls :
    /\ evidence[u] <= 1 + crashes
    /\ u \in done => evidence[u] >= 1

(* What a run reports when it ends is what a resume will find: also when   *)
(* a stop interrupted the discovery on a page.                             *)
ResumeIsExact ==
  (pc = "ended" /\ seen # {} /\ status # "failed") =>
    \/ /\ Range(dQueue) = Range(queue) \cup active
       /\ dSeen = seen
       /\ dCrawled = crawled
    \/ status = "finished" /\ queue = <<>> /\ active = {} /\ dQueue = <<>>

(* A crawl reported as finished left nothing undone, except the URLs whose *)
(* worker panicked in this run, unless it reached the limit of URLs.       *)
FinishedIsComplete ==
  (pc = "ended" /\ status = "finished" /\ crawled < MaxUrls) =>
    /\ Range(dQueue) \subseteq panicked
    /\ Range(queue) \cup active \subseteq panicked

(* On a site below the limit of URLs every link of a finished page that    *)
(* all configured scopes admit is known, and its evidence is stored:       *)
(* neither an interrupted discovery nor a crash drops a link, and a stop   *)
(* makes no resumed crawl count one again.                                 *)
LinksFollowed ==
  /\ EvidenceBound
  /\ (MaxLinksPerPage = 0 /\ dSeen # {} /\ Cardinality(Urls) < MaxUrls) =>
       \A u \in done :
         Expands(u) => {v \in Links[u] : \A s \in Scopes : v \in s} \subseteq dSeen

(* A settled URL is never fetched again, nor is one that is in flight.     *)
NeverRefetched ==
  [][\A u \in Urls : tasks[u] = "none" /\ tasks'[u] = "running" =>
       u \notin Settled \cup active]_vars

Ledger == INSTANCE CrawlLedger WITH pending <- Range(dQueue), known <- dSeen

(* The saved frontier behaves as the ledger promises.                      *)
LedgerSpec == Ledger!Spec

(* Stop ends the run, paused or not, whatever the workers do.              *)
StopEnds == cancelled ~> ~Running

(* No run goes on for ever unless its user leaves it paused: neither the   *)
(* first nor one that resumes what a stop or a crash has left.             *)
RunEnds == <>[]~paused => []<>~Running
=============================================================================
