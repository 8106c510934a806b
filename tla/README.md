# Ferrous Frog: TLA+ models, checks and proofs

Ferrous Frog is a desktop SEO spider: a Rust crawler with a SQLite store, a
Tauri application around them, and a React interface. This directory holds
TLA+ modules that model the parts of it that are concurrent, that survive
crashes, or that compute one answer in several ways; configurations that
model-check them with TLC; and theorems that TLAPS checks for every value of
the constants.

Every definition of a module is a translation of code; `PROJECT.json` maps it
to the lines it stands for. Operators whose name contains `Fault` are
plausible bugs, used to show that a property can fail; no specification uses
them.

Contents: 1 the system, 2 the modules, 3 the runs, 4 the proofs, 5 where the
code disagrees with its documentation or itself, 6 what is not modelled,
7 what is left to do.

## 1. The system

### Components, state and operations

| Component | Source | State | Operations |
|---|---|---|---|
| Crawl scheduler | `crates/crawler-core/src/lib.rs` (`crawl`, `seed_frontier`, `restore_frontier_state`, `save_frontier_state`) | queue, seen, active items, counter of pages, JoinSet of workers, checkpoint flag | seed or restore, dispatch, join a worker, discover links and sitemap entries, write evidence and record, settle, final save or clear |
| Frontier persistence | `crates/storage/src/lib.rs` (`try_save_frontier_state`, `try_update_frontier_state`, `try_clear_frontier_state`) | saved queue, saved seen set, saved counter | replace all, settle one key and append new ones, clear in three statements |
| Request policy | `crawler-core` (`RequestPolicy`, `OriginPolicy`, `send`, `wait`, `load_robots`) | per origin: last request (a lock held while waiting), Retry-After deadline, robots cell | wait for a slot, load robots once, retry, answer a Digest challenge, observe Retry-After |
| Page fetch | `crawler-core` (`fetch_one`) | redirect chain of one page | follow redirects, build a record or an error record |
| Sitemap traversal | `crawler-core` (`fetch_sitemap_locations`, `fetch_sitemap_document`) | documents tried, sitemaps read, URLs found | bounded breadth-first walk with redirects |
| Result store | `crates/storage` (`MemoryStore`, `SqliteStore`) | records, edges, references, images, captures, indexes | upsert, add inlink, add edge, mark sitemap URLs, import metrics, answer views, graphs and paths |
| Progress summary and derived tables | `crates/storage` (`summary_cache`, `ensure_*`) | cached counts, dirty records, revisions | repair or rebuild, answer a view |
| Issue views, reference audits | `crates/storage`, `crates/analysis` | none | which records are in a view; canonical, pagination, AMP, hreflang and sitemap validation |
| Comparison | `src-tauri/src/comparison.rs`, `main.rs` | a workspace and its generation | match the rows of two crawls, list changes |
| Archive | `src-tauri/src/main.rs`, `archive_import.rs`, `archive_staging.rs` | one document | write a crawl, validate it, stage it, publish it |
| Sessions | `src-tauri/src/sessions.rs`, `main.rs` | library of crawls, the active one, its status | create, open, start, resume, stop, delete, import, recover after a crash |
| Jobs | `src-tauri/src/main.rs`, `pagespeed.rs`, `audit_reports.rs` | the lock `crawl_task`, one job slot, cancellation flags, generations | measure, prepare or delete a report, prepare a comparison, merge metrics, cancel, quit |
| Report AI | `src-tauri/src/audit_report_ai.rs` | generations, annotations and an overview beside a report | preview, generate within a budget, retry, cancel, resume, export |
| Rendering and capture | `crawler-core/src/rendering.rs`, `capture.rs` | a browser process | render, capture |
| Parser, extractors, export | `crates/*` | none | pure functions of one document or record |
| Interface, command line | `src/src`, `crates/cli` | views | call the operations above |

`PROJECT.json` ("components") lists them all with what is modelled of each.

### How they interact

The interface starts a crawl through a Tauri command; the command spawns
`crawl` on the async runtime with a `CrawlControl` of two atomic flags, which
Pause, Resume and Stop set from other threads. `crawl` is one task that spawns
one worker task per URL and alone touches the queue; the workers share one
`RequestPolicy`. The scheduler writes the store synchronously: the frontier in
one transaction per settled page, the result tables in several statements
before it. While it does, the interface reads the store through the caches and
derived tables, and other commands write into it: metrics, snapshots. A process
that dies leaves the store between two writes; the next start offers to resume
from it. Reports, comparisons and measurements are long commands of their own;
they meet the crawl at the lock `crawl_task` and at its database, and Quit has
to end them all.

### What is hard here

* The frontier lives twice, in memory and in the store, and only parts of it
  are written at each step; a stop, a crash, a worker's panic or error can fall
  between any two steps, and a resume starts from what was written.
* Discovery is interrupted by a stop at one point only, after the links of the
  page were queued and before its key leaves the active items.
* Workers of one origin hold its slot across sleeps while responses of other
  workers change the cooldown, while robots.txt is being loaded (which itself
  needs slots, perhaps of another origin) and while the user pauses or stops.
* Evidence of one page comes in any order: a link before or after the page it
  leads to, a sitemap after the pages it lists, two URLs that turn out to be one.
  Two stores keep it in different shapes and have to answer alike.
* Which records belong to a view is written four times, in Rust and in SQL with
  its NULL.
* Counts are repaired from what changed instead of computed again, while other
  connections write.
* Long commands release the lock between what they check and what they write;
  a cancellation may come before, during or after the work it means.
* An explanation by AI costs money: what was asked, what was answered and what
  was billed must survive a crash between any two statements.

The hazards these lead to are listed with their lines in `PROJECT.json`
("hazards"), each with the properties that cover it or the reason why none
does.

### What makes each component correct

* Scheduler and frontier: no URL is lost or fetched again after it was
  settled; counts are exact; limits hold across runs; a finished crawl is
  complete; Stop ends it.
* Request policy: distance between requests, cooldowns that bind everyone, a
  pause that binds at once, robots.txt once and first, no deadlock, Stop ends
  every wait.
* Sitemap traversal: it ends on cyclic sitemaps and redirects, reads each
  document once and skips nothing within its bounds.
* Page fetch: a record says what the site answered, never what a Stop caused.
* Result store: both stores answer alike; counts of links do not depend on the
  order of the evidence; what was measured for a page is never lost, and what was
  imported for it only when that page is stored again; an archive restores the
  crawl.
* Caches: an answer is that of the table it was read from, or of a revision no
  older than the call.
* Views and audits: all evaluations of a view agree; the audits report the loops
  and errors the site has.
* Sessions: at most one crawl runs, a stored status tells the truth after a
  crash, and deleting is all or nothing.
* Jobs: a cancelled or superseded job publishes nothing and frees its slot; a
  report shows one state of its crawl; Quit ends with nothing writing.
* Report AI: only the requests the user was shown are sent; usage is never
  understated; a complete generation stays available.

## 2. Modules

| Module | Models | Role |
|---|---|---|
| `CrawlScheduler` | `crawl` and the frontier it saves | state machine |
| `CrawlLedger` | what the saved frontier promises | abstract specification, implemented by `CrawlScheduler` |
| `RequestPolicy` | slots, pacing, cooldowns, robots cells, retries, Pause and Stop | state machine in discrete time |
| `SitemapTraversal` | the walk over sitemaps, indexes and redirects | state machine, every site |
| `Sessions` | the library of saved crawls and the commands that start, stop, open and delete them | state machine with failing writes and crashes |
| `ResultStore` | the calls of a crawl and of the user's tools on the memory store and on the database | two stores in step |
| `Archive` | writing, validating and staging an archive | extends `ResultStore` |
| `CrawlPath` | the search for a path to a page | extends `ResultStore` |
| `SummaryCache` | the progress summary and the derived tables | state machine with another connection |
| `PageFetch` | `fetch_one` | state machine, every small site |
| `IssueViews` | the views of the issues, in each of their four forms | extends `PageFetch` |
| `References` | canonical, pagination, AMP, hreflang and sitemap audits | extends `IssueViews` |
| `Comparison` | two crawls compared, in memory and in SQL | extends `References` |
| `Jobs` | measurement, report job, comparison, merges, Quit | state machine of several tasks |
| `ReportAi` | the command that generates the explanations of a report | extends `Jobs` |
| `SeqLemmas` | | lemmas on sequences, on induction and folds, on ranks, and on walks over a graph of single steps |
| `CrawlSchedulerProofs`, `RequestPolicyProofs`, `SitemapTraversalProofs`, `SessionsProofs` | | theorems of the module they are named after |
| `StoreProofs` | | theorems of `ResultStore`, `Archive` and `CrawlPath` |
| `RecordProofs` | | theorems of `PageFetch`, `IssueViews`, `References` and `Comparison`: the records a fetch makes, and what is asked of them |
| `JobsProofs` | | theorems of `Jobs` and `ReportAi`, and of `SummaryCache`, which they share no variable with |
| `MCCrawlScheduler`, `MCRequestPolicy`, `MCSitemapTraversal`, `MCSessions`, `MCResultStore`, `MCSummaryCache`, `MCPages`, `MCJobs` | | instances for TLC |

How they fit. `Sessions` sees a crawl as a task that saves progress, returns and
ends; `CrawlScheduler` is that task from inside; `Jobs` sees it as a task that
writes and settles its card. `CrawlScheduler` sees a worker as something that
ends with a page, an error or a panic, and a linked sitemap as a set of pages;
`RequestPolicy`, `PageFetch` and `SitemapTraversal` are those from inside: the
first their waits, the second what they find. What the scheduler writes for one
page, in its order, is the sequence of calls of `ResultStore`; what is read
while it writes is `SummaryCache`. The records of `PageFetch` are the rows of
`IssueViews`, `References` and `Comparison`. Each assumes of the other only what
the other shows: `Sessions` that a cancelled crawl ends (`StopEnds`),
`CrawlScheduler` and `SitemapTraversal` that requests end (`FetchesEnd`),
`ResultStore` that a key is committed once per crawl (`NeverRefetched`).

### CrawlScheduler

`pc` is where the scheduler task is between two moments another actor can
interfere at: `startup` (sitemaps, login), `top` (the pause at the head of the
loop), `dispatch`, `select` (waiting for a worker), then one page:
`discover`, `evidence`, `record`, `settle`; then `finish` with `clearSeen` and
`clearMeta` between the statements of the clear; `ended`; and `off` after a
crash. Names follow the code: `queue`, `seen`, `crawled`, `active`
(`active_items`), `previousQueueLen`, `needsCheckpoint`
(`frontier_needs_checkpoint`), `documents` (`sitemap_traversal.documents`).
`dQueue`, `dSeen` and `dCrawled` are the frontier tables, `recorded` and
`evidence` the result tables; `mode` is what the crawl is, Spider or List.
`done`, `failed` and `panicked` are history.

* A frontier item is its storage key. A page is the sets of URLs and sitemaps
  it links to which the rules admit; which of them are new, and in which order
  they are pushed, is decided when the page is processed.
* Each loop over links is one action: it does not await, and nothing is written
  inside it.
* A result table write that a crash may split from the next one is a step of
  its own (`WriteEvidence`, `WriteRecord`, `Settle`).
* A worker ends with a page, an error or a panic at any moment; the abstraction
  of `fetch_one` covers every record it can build.
* Query normalisation is fixed: a resume that changes the query settings
  re-normalises the saved keys (`restore_frontier_state`), which is not
  modelled (listed as a hazard).
* The sitemap provenance of a key (`from_sitemap`) is not kept here;
  `ResultStore` keeps it.

### RequestPolicy

`at[w]` is the await point of worker `w`: `page` and `policy` in
`robots_delay`, `send` at the head of the loop of `send`, `acquire` at
`last_request.lock()`, `slot`, `pace`, `cool`, `nap` and `clear` in `wait`,
`flight` for the request, `backoff` for `sleep_retry_backoff`. `hop[w]` is 0
for the page and counts the requests of `fetch_robots` otherwise, each to the
origin `RobotsPath` names. `holder` is the lock `last_request`, `loader` the
worker inside `OnceCell::get_or_init`, `robots` the value of the cell.

* Time is a counter that `Tick` advances; a sleep may last longer than asked
  for, never shorter. `Indefinite` is the deadline no clock represents.
* `clear` separates the last check of a worker from the start of its request,
  because the flags and the cooldown may change between the two: that is why
  at most one request per origin may still start after a pause or a
  Retry-After, and no more.
* Whether rules allow a page is left open; URLs are their origins. The DNS and
  connection probes `send` makes before it waits change no shared state and
  are left out.
* The lock is granted in any order, though tokio's is fair; no property needs
  the order.

### SitemapTraversal

`pc` is the function at work: `sources` in `fetch_spider_sitemap_urls` or
`fetch_list_sitemap_seed_urls`, `walk` in the loop of
`fetch_sitemap_locations`, `hop` at the head of the redirect loop of
`fetch_sitemap_document`, `response` while a request is out. `documents`,
`sitemaps`, `urls` and `urlCount` are the fields of the struct
`SitemapTraversal`; `pending`, `queued`, `current`, `depth` and `redirects` are
locals. `redirect` and `children` are what the servers answer; they are chosen
once, so that a run covers every site over its documents. `config` is the part of
the configuration that matters here, one of `Configs`. `requests`, `cut` and
`failed` are history.

* A failure stands for a refusal by robots.txt, an error of the network or of
  HTTP, and a body that is no sitemap.
* The order of entries within a document is open; URLs carry no fragment.
* Sources from robots.txt, `/sitemap.xml` and links of pages differ from
  explicit ones only in what their failure does. That reading robots.txt
  itself may fail between the explicit and the other sources is left out.

### Sessions

`status` and `file` are durable: the row of a card, and whether its database is
at its path, renamed for removal (`staged`) or absent. `store`, `current`,
`control`, `handle` and `exiting` are the fields of `AppState`; `lock` is the
command that holds `crawl_task` over a point where something else may happen,
`target` the crawl it is about. `phase` is the task of a crawl: `running` in
`crawl`, `returned` before its outcome is settled, `automation` after.
`unsaved`, `broken` and `clean` are history.

* A command that neither awaits nor writes in two places is one action.
  Creating (`CreateFile`, `CreateRow`, or `CreateFails`, `UndoRow`, `UndoFile`),
  deleting (`Delete`, `CommitDelete` or `DeleteFails`, `RemoveFile`), stopping and
  quitting are several: a crash or an event of the crawl falls between them.
* `failures` counts writes, renames and reads of a card that fail; undoing a
  failed step may fail as well and costs another one. The bound of 2 lets one
  step and its undoing fail, or two steps.
* A resume is refused for reasons the model leaves open (`StartRefused`): no
  queued URL, other targets. What it may change in the configuration is not
  modelled; the same holds for the legacy database that is registered at the
  first start.
* An identifier may be used again when nothing of its card is left; the code
  draws a fresh one every time.

### ResultStore, Archive, CrawlPath

`mem` is the `MemoryStore` with its vectors and hash indexes, `sql` the
`SqliteStore` with its tables. Both receive the same calls: `calls` is what is
left of committing a page, in the order of `crawl` (`MarkSitemapUrls`, `AddInlink`, `AddLinkEdge`,
`AddPageReferences`, `AddImageAssets`, `Upsert`, `ReplacePageCapture`,
`UpdateFrontier`), and a tool of the user (`SaveSnapshot`, `MergeMetrics`) may
fall between any two. A text is a URL or key as stored; `Aliases` is what
`url_aliases` computes for it, so that a redirect, a root without its path and a
List item share texts with other records.

* A record is its texts, its number, position and depth, its status, the count
  of its inlinks and the fields that enrichment adds. Titles and other content
  are left out: they are copied.
* A commit queues the pages of linked sitemaps first, at the top level, and then
  the pages that are linked to, one level deeper (`Discovered`), each once.
* A crawl may start over a store with records (`StartCrawl`); `Clear` is not
  called, the application opens a new database instead.
* `CrawlPath` searches breadth-first over texts that share aliases. Its
  reference is the sequence of layers of pages; it is checked with all links and
  with the first two only, as the limit of the code on the links it reads.
* `Archive` is written when no page is being committed. Records pass through the
  upsert again and get their numbers back at the end; JSON and batches are
  left out.
* Where the two stores really differ lies outside the inputs of the run; see
  section 5.

### SummaryCache

`rows` and `revision` are the table and the counter a persistent trigger bumps;
`localRevision` and `dirty` belong to this connection; `cache`, `cachedAt` and
`derived` are what was computed. A call is a list of steps (`todo`); another
connection may write between any two of them (`ExternalWrite`), a statement may
fail (`ProgressFails`, `EnsureFails`) and the store may be opened again
(`Reopen`). One flag stands for the 36 counters of a view, one group for the
four that count what several records share and for the clusters; the three
derived tables share one protocol and differ in what they compute.

### PageFetch, IssueViews, References, Comparison

`PageFetch` walks the redirects of one item at a time over a site chosen at the
start; Stop may fall into any wait. Its records are what the audits read.

* `IssueViews`: a view of each shape is evaluated in memory (`InMemory`), in SQL
  with three-valued logic (`InDatabase`), by the counters (`Counted`) and by the
  issues of a report (`Reported`).
* `References`: the audits as sets of diagnostics, each from the stored
  references, beside the definition over the site itself: what a reader of the
  site would call a loop, a chain, a missing return link.
* `Comparison`: rows matched by URL, position and occurrence; changed fields; the
  cap on rows and the pruning at twice the cap.
* Texts, severities, thresholds, filters and paging are left out, as are the
  columns that old databases leave NULL.

### Jobs

`lock` is `crawl_task`. The saved crawl is `crawl`, `settled`, `stopping`; the
measurement is `active`, `stopped`, `early`, `measurement` with its place and
`batch` with its command and row (`PageSpeedState`); the report job is `job`, `jobCancelled`, `idle`, `files` and
`sourceActive` (`AuditReportsState`); comparisons are `shown` and `preparing`
(`ComparisonState`); Quit is `quit` and `exiting`. `load` says which of them a
behaviour holds.

* What a job compares before and after (the stamp of the card, the revision of
  the database) only grows, so that the model keeps what has changed since
  (`noticed`), and whether anything has (`changed`).
* Checking the source and making the hard link are two steps.
* A measurement is one of three commands: PageSpeed of one row
  (`run_with_fetcher`) or of many (`run_page_speed_bulk_with_fetcher`), and field
  data of many (`run_field_vitals_bulk_with_fetcher`). A bulk run looks at the
  cancellation before each row and in every wait, and goes on after a failure;
  the wait stands for the request with its retries, pace and back-off. Before
  saving, PageSpeed of one row and field data look once more; bulk PageSpeed
  saves the answer it has (`CheckCancelled`).
* Exports and comparisons of reports take the same slot as a report and are not
  told apart; a merge stands for search, analytics and backlink imports, the field
  data of one row, which take the lock but no slot, and the AI task on one page.
* `Notify` keeps one permit, the mutex of tokio is fair, and `try_lock` of the
  measurement does not wait.

### ReportAi

`row`, `explained`, `overview` and `newest` are the file beside the report;
`run` is the command at work with its plan, `preview` what the interface has
shown, `ahead` the deadlines that have not come. `bill` and `unbilled` are what
the provider really counted. A prompt is its length; an answer is usable or not,
and its usage is reported or not. A process may die between any two statements
(`ProcessEnds`); the next one shows a row left running as interrupted, and the
token counts of one with a request out as unavailable.

* Requests are counted as none, one or more.
* The comparison of two reports has the same commands over its own file.
* Failing writes of the file are not modelled.

## 3. Runs

Every run but the two that show a disagreement passes, and is exhaustive within
its bounds. Deadlock is checked for the request policy, where the user can
always pause, and for the library; the other systems really stop.

| Run | Instance | Shows |
|---|---|---|
| `resume` | Spider; 2 workers, 4 URLs, a linked sitemap that alone leads to one of them, a sitemap seed, 3 runs, 1 crash; 1.3 million states | `CrawledIsExact`, `ResumeIsExact`: counts are exact and what a run reports is what a resume finds; `FinishedIsComplete`; `LinksFollowed`: links are followed and counted at most once per run and crash; `NeverRefetched` |
| `limits` | Spider and List; at most 2 URLs and 1 link per page, a list of 3, two scopes, 2 runs, 1 crash; fair | `LimitsHold` across runs; `NoUrlLost`; the frontier implements `CrawlLedger` (`LedgerSpec`); `StopEnds`: Stop ends a run even while it is paused; `RunEnds`: unless the crawl is left paused, no run goes on for ever, the first or a resumed one |
| `slots` | 3 interchangeable workers on 1 origin, credentials, one retry each, Retry-After of 1, 2 or indefinite; robots.txt asks for a delay of 2 where 1 is configured | `CooldownBinds`, `Paced`, `PauseBinds` |
| `robots` | 2 workers, 2 origins, robots.txt and pages redirect across them; fair | `RobotsFirst`: robots.txt once per origin and before any page; `WorkersEnd`: Stop ends every worker, slots and cells block nobody |
| `sitemaps` | every site of 3 documents (1331), depth 1, an explicit and a discovered source with bounds that bite or not, and List mode with two sources; fair | `TraversalEnds`; `ReadsWithinBudget`: nothing is asked for twice, bounds hold over all sources, nothing is skipped without a bound, failure or Stop, only what was read is a sitemap |
| `sitemap_errors` | the same sites, two explicit sources | `ExplicitErrorsShown` is violated (section 5) |
| `library` | 2 saved crawls, 2 failures, 1 crash; fair; 1.5 million states | `OneCrawl` at a time owns its database; `HistorySettles`, `FailureShown`, `CardHasData`: cards tell the truth after failures and crashes; `DataOutlivesCard`: data goes only after its card; `StopsReturn` |
| `store` | 2 crawls over one store, two small sites, up to 6 pages, redirects that share aliases, 1 call of a tool anywhere | `StoresAgree`: both stores answer alike, graphs included; `EvidenceInAnyOrder`: inlinks, edges and sitemap flags do not depend on the order; `ArchivesKeepTheCrawl`; `CrawlPathsAreShortest`; `EnrichmentIsKept`: measurements and identities survive every call, imported metrics all but the storing of their own page |
| `store_fragment` | a redirect that names a fragment | `InlinksAddUp` is violated (section 5) |
| `caches` | 2 records over all tables they can form, 3 changes by this or another connection between any two statements, errors, reopenings; 1.8 million states | `ContributionsAreExact`; `AnswersTellTheTable`: answers are fresh, and agree with each other unless another connection wrote |
| `pages` | some 1 400 sites of 3 URLs, fetched in every order, Stop anywhere | `RecordsTellTheSite`; `AuditsAgree`: the four evaluations of every view, both sitemap validations, both reference audits and both comparisons; `ReferencesTellTheSite`: loops, chains and returns are those of the site |
| `jobs` | two measurements of one row or of two by any of the three commands, one early cancellation remembered, beside Quit; or one with a report, or with two openings of a comparison, beside a crawl, stops, merges and Quit; or two commands of the report AI beside a death of the process, or one beside Quit; fair | `CancelIsKept`: once cancelled, nothing more of a measurement is saved but the row in hand; `ComparisonIsCurrent`, `ReportOfOneState`, `QuitEnds`; `GenerationsTellTheTruth`, `RequestsAreMeant`, `CompleteStaysExported` |

### Bounds

*Crawl.* `MaxRuns` and `MaxCrashes` bound only how often a crawl is resumed or
dies; a run after a crash starts from the store alone, so that three runs with
a crash between any two steps already combine a stop, a crash and a final run
in every order. `limits` makes do with two, because what a limit does to a
resume shows in the first one. Four URLs give a cycle, a page reached on two
ways, and a link also listed by a sitemap; two workers give results out of
order; the limits are set below the number of URLs so that they bite.

*Requests and sitemaps.* Three workers are needed for one in the slot, one past
it and one waiting. In `slots` the rules of robots.txt ask for a delay of 2
where 1 is configured, so that a page which kept only the configured one would
be seen; in `robots` requests need not be apart. `Chunk` smaller than `MaxRetryAfter` makes a cooldown
last several naps. Clocks count down or are capped, so the models are finite
without a bound on time. The workers of `slots` are interchangeable and no
property of it is a liveness property, so that symmetry is sound. Three
documents give redirect loops, cyclic indexes, an index below the depth bound
and a document two sources lead to.

*Library.* Two saved crawls are enough for one that runs and one that is opened,
deleted or created meanwhile.

*Store.* The first site has a root with two names, a redirect whose target is
another page, and a page that redirects back; the second has two ways of
different length to one page. Six pages commit either site completely, a second
crawl starts over the records of the first, and a tool may hit any moment
between two calls. Metric batches name one row each way: by a second name, by a
redirect, or two rows.

*Caches.* Two records are enough to share a group and to leave it, and three
changes give one before, one during and one after a call. The derived table of
the run is that of references; the same properties hold with each of the other
two, whose protocol differs only in what is computed.

*Pages.* Each family of sites varies what one audit looks at: canonicals with
redirects, ways a fetch ends, sequences with redirects and with links back, links
to all that a URL can lead to, languages and AMP, and every combination of the columns the views read.
`MaxRedirects` is 1, so that a chain of two meets it; `MaxRows` is 1 (the code
shows 1000), so that the cap and the pruning at twice the cap are met.
Comparisons try 11 baselines against 3 opened crawls for each site of
`Compared`; their URLs are found in text order.

*Jobs.* A report and a comparison meet only at the lock, so that no behaviour
holds both. Of comparisons one identifier is opened twice, which is how a late
preparation meets a newer one. Beside these there is one measurement, of one row: a
report asks only whether the database was written to. Two measurements meet alone
and with Quit. One early cancellation is remembered (the code remembers 32), so that
the second one makes the list forget the first, and a run of two rows can be
cancelled between them.

*Report AI.* Two findings of sizes 1 and 2 and an overview, budgets that bite
(1 request, 2 characters) or not (3 and 5), one retry per prompt, two commands
under two versions and one death of the process, or one command beside Quit.
The first command is under `FirstVersion`: the versions are alike until then.

### Fairness

The scheduler is one task of a multi-threaded runtime: it is polled again when
it can go on (`WF` of its own steps). A worker and a sitemap request end unless
the crawl is paused, because requests have timeouts, retries are limited and
response bodies bounded. In `RequestPolicy` each worker is polled (`WF` of its
steps) and time passes (`WF` of `Tick`). In `Sessions` a command that holds the
lock goes on, a cancelled crawl returns, and its last write and its automation
end. In `Jobs` each task goes on (`WF`), and whoever waits for a lock gets it
(`SF`), because the mutexes of tokio are granted in the order of the calls; in
`ReportAi` a request is answered or times out. Nothing is assumed of the user or
of crashes: `RunEnds` and `FetchesEnd` speak of crawls that are not left paused
for ever,
and `FetchesEnd` of servers that do not ask for an indefinite delay.

### Some hypotheses that are part of the properties

* `LinksFollowed` asks that the number of URLs is below `MaxUrls`: links dropped
  at the limit are not found again when a resume under a narrower scope makes
  room.
* `AnswersAgree` compares the total of a grid with the summary only when no other
  connection wrote during the call.
* `StoresAgree` compares the graphs of a List crawl whose items were committed in
  order.
* In `ReferencesTellTheSite` a reported canonical loop is one of the site however
  little was fetched; the other claims speak of complete crawls. `AuditsAgree`
  speaks of all.

## 4. Proofs

| Module | Theorem | Says |
|---|---|---|
| `CrawlSchedulerProofs` | `TypeCorrect`, `NothingIsLost`, `FlightIsSaved`, `CountIsExact`, `NothingIsRefetched`, `Refinement` | the saved frontier holds every known URL that is not settled and no settled one, also those in flight; its counter is exact; no settled URL is fetched; the frontier implements `CrawlLedger` |
| | `LimitsAreKept`, `ResumesAreExact`, `FinishedMeansComplete`, `LinksAreFollowed` | the limits on URLs, depth and links; what a run leaves is what a resume finds; a finished crawl has settled what it knows and followed its links |
| `RequestPolicyProofs` | `TypeCorrect`, `RequestsKeepDistance`, `CooldownsBind`, `PausesBind`, `RobotsComeFirst` | requests of an origin keep their distance, wait for its cooldown and for a pause, and for its robots.txt, which is loaded once |
| `SitemapTraversalProofs` | `TypeCorrect`, `TraversalReads` | the bounds, nothing read twice, nothing skipped without a reason |
| `SessionsProofs` | `TypeCorrect`, `OneCrawlOnly`, `HistoryTells`, `FailuresShow`, `CardsKeepData`, `StoreFollows`, `QuitIsQuiet`, `DataGoesLast` | every safety property of the library |
| `RecordProofs` | `RecordsAreTheSites` | a record is what the site answers over its own redirects, and ends as their trail does |
| | `DiagnosticsAlike` | for any site and any number of records: both stores put the same records in every view, count them alike, report what the views show, and make the same audit records, sitemap rows and hreflang findings |
| | `CanonicalsOfTheSite` | a reported canonical loop is one of the site however little was fetched; of a complete crawl every loop is reported, nothing is uncrawled, and a canonical is reported as a redirect or an error exactly where the site has one |
| | `ReferencesOfTheSite` | that, and the same of next and prev: of a complete crawl a broken target and a missing way back are reported exactly where the site has them, a sequence that is reported to return does, and each that returns is reported, for one that branches perhaps of another record of the page |
| | `ComparisonsOfAnyCrawls` | any two crawls are compared alike in memory and in SQL, under any cap on the lines; a comparison and its reverse add up, and a crawl compared with itself shows nothing |
| | `AuditsOfTheSite` | that and `DiagnosticsAlike` of whatever a fetch has recorded of any site: all of `AuditsAgree` |
| `StoreProofs` | `EnrichmentSurvives`, `EvidenceIsComplete` | no call drops what was measured for a record, and only storing its page again what was imported for it; counts, edges and sitemap flags do not depend on the order of the calls |
| | `StoresAnswerAlike` | after any calls the memory store and the database answer alike: records, counts, edges, images, references, captures, the frontier to resume from, and the graph |
| | `ArchivesRestoreTheCrawl` | the import accepts the archive of either store, and what it restores tells what was archived, under the same numbers |
| | `PathsAreShortest` | a path to a page is found exactly when links lead there from a start, follows them link by link, and none is shorter |
| `JobsProofs` | `CancellationsAreKept`, `ComparisonsAreCurrent`, `ReportsOfOneState`, and each `...BesideAi` | the safety properties of `Jobs`, alone, and with the report AI and the deaths of the process beside it |
| | `GenerationsAreTrue`, `RequestsAreThoseShown`, `CompleteGenerationsStay` | what is shown of a generation is true, what is asked was shown, and what is complete stays exported |
| | `SummaryIsRepaired`, `AnswersOfTheTable` | the repaired summary is the one a rebuild would give; what a call answers is of tables there were while it was at work |

They hold for every value of the constants: every finite set of URLs, link
graph, limit, number of workers, runs and crashes, and so on. The assumptions
(`ConfigAssumption`, `SessionsAssumption`, `FetchAssumption`, ...) say what type a
constant has, and that what stands for an absent value is none of the others; they
are evaluated by the runs.

Induction over data. A rule of induction has a predicate as a parameter, which
the provers cannot instantiate. `SeqLemmas` goes by sets instead: a set of numbers
that is not empty has a least one (`LeastNatural`), so a set that holds 0 and
with a number the next one holds them all (`InductionUpTo`), and likewise for the
subsets of a finite set. From this follow that a recursion over subsets or over
prefixes has a solution (`RecursionOnSubsets`, `RecursionOnPrefixes`), and what the
folds of the community modules, which are such recursions, yield step by step
(`SubsetFold`, `PrefixFold`). A claim about a fold is then the set of the
prefixes for which it holds.

The arguments.

*Crawl.* `NoUrlLost` speaks of the store only, but what a step writes comes from
the memory of the scheduler. The inductive invariant `IInv` therefore adds what
relates the two: while a run is working, `seen` is the disjoint union of the
queue, the active items, the page in hand and the settled URLs (`Memory`); the
store lags behind memory by exactly the suffix of the queue that the page in
hand has added (`Unsaved`), which `Settle` appends in the same transaction that
drops the page's key; when the loop ends with the checkpoint flag set it was
cancelled in a discovery, and its final save writes a superset (`Unsaved` at
`finish`); and the frontier is cleared only with nothing active or queued
(`Books`, `Idle`). Each action has a lemma (`...Keeps`) with a step per
conjunct. `SeqLemmas` gives what the sequence operators do to the range of a
queue. `Refinement` has a lemma per action that writes the frontier
(`...Refines`); all other steps stutter.

*Limits.* The limit on pages is checked when a page is dispatched and counted
when it is settled, so that the invariant counts the pages in flight and the
page in hand with the settled ones (`Counted`). A loop left early has a reason
that is still visible (`Leaving`): the limit is reached, or the crawl is
cancelled, or nothing is left. What a page links to is in `seen` as soon as the
page has been discovered, unless a limit or a Stop is on record
(`Discovery`, `Written`).

*Requests.* One worker holds the slot of an origin through all its waits
(`SlotHeld`), one is inside a robots cell (`CellHeld`), and whoever is on the
way to a page has the rules (`Permitted`). `Spaced` and `Cooled` relate the
place of the worker in the slot to the clock of its origin; `Excused` names the
one request that may still start after a pause or a Retry-After.

*Sitemaps.* What has been met is a sitemap that was read, or waits, or is the
chain in hand (`Reached`): each document is placed once (`Placed`), spends the
budget once (`Spent`), and what a read index lists is met in turn (`Linked`) and
not forgotten (`Remembered`), until a bound, a failure or a Stop is on record.

*Library.* `ensure_idle` looks at the kept handle alone, so `OneCrawl` needs
that a crawl which lives is the one of that handle, or the one Stop or Quit
waits for (`Owner`): then an idle library is a quiet one (`IdleIsQuiet`), and so
is one locked by a command that creates or deletes (`LockIsQuiet`). A command
that goes on relies on what it established when it took the lock (`Held`): the
file is there and the card is not, or the file is set aside. `Outcomes` follows
a task from its return to its end and relates what went wrong in it to its card;
`Files` says what a cut-short creation or deletion leaves behind; and `Opened`
extends `StoreIsCurrent` to the middle of a deletion.

*Page fetch.* A fetch on its way has come from its item along the trail of
redirects that the site has, has met no URL of it twice, and is not further than
the limit (`OnTheWay`); it waits for a body only where there is an answer
(`Waiting`). A hop leads one URL further along the trail or ends there
(`HopLeadsOn`, `GoesOn`); each way to end has a lemma that says what the record then
tells (`EndsInLoop`, `EndsAtLimit`, `CutTells`, `AnswerTells`, ...). The trail is a
recursion, whose values are found by `RecursionOnPrefixes`.

*Views and audits.* SQL has three truth values, Rust two. Each clause of the
database is compared with its counterpart by when it *holds*; `AllOfTruths` and
`AnyOfTruths` say when a conjunction or a disjunction does, so that a clause is
read part by part (`PageMeans`, `BrokenMeans`, ...). Where the code negates or
coalesces a clause, its value must be known and not only whether it holds
(`BlockedIsKnown`, `CoalescedHolds`): this is where a NULL could tell the two
stores apart, and what keeps it out is that the columns in question are never
NULL (`Typed`). Views that count what records share count sets that are equal
(`DuplicatesMean`, `ClustersMean`, `HashesMean`). That records are of their types is
an invariant of the fetch (`Stocked`): a record is made in one of seven ways (`Made`,
by how the fetch ends), and no URL has two, because the item of the fetch on its way
has none.

*Canonicals.* `Made` also says where a record comes from: along the trail of its URL to
where it ended (`OnTheWay`), so that a page's record settles all the URLs it met
(`HopsOfPage`), and no other page answers further along (`NoOtherAnswer`). What is
reported as an error is what fails on the site (`FailsByRecord`), what is reported as a
redirect redirects there. A record that speaks for a URL is older than every pending
one and comes before the others by its priority (`FirstIs`); the record that was asked for
the URL is always first (`OwnComesFirst`). The nodes that `paths_entering_cycles`
returns are those from which the walk never ends (`EnterCyclesIs`): a walk of as many
steps as there are nodes has met one twice, by counting (`FS_PigeonHole`), and what
earlier walks passed goes on for ever or none of it does. A set of records closed
under the steps then gives a set of pages closed under the canonicals (`LoopsAreReal`), and of a
complete crawl the other way round (`LoopsAreFound`). One hypothesis is on the constants:
an answer of the site is no redirect, which is how the site is taken apart.

*Pagination.* A record whose redirects went past the limit speaks for the URLs it met,
although it saw no page. Which URLs have nothing better is a matter of the site: those
whose redirects end where robots.txt refuses (`Bars`) are spoken for only by such
records (`BarredIsSpokenFor`, `LongTrailFails`), every other one by its own. So what
the audit knows of a URL of a complete crawl is what the site says (`Says`,
`ObservedTell`). The edges between records are the links between their pages
(`EdgesComeFromLinks`, `EdgesAre`): those that lead to other pages are the same for every
record of a page, and only a link of a page to itself becomes an edge of each record to
itself. Where there is one edge, the walk takes it; where the walk ends is the last
of as many steps as there are records (`EndOfIs`), and one that could go on from there
goes on for ever, by counting (`WayEnds`). A loop that is reported then gives a set
of pages that lead to one another (`SequenceLoopsAreReal`), and a loop of the site is
walked for ever, or up to a record of the page it started from (`SequenceLoopsAreFound`).
One hypothesis is on the constants: what a page links to is finite
(`ReferenceAssumption`); it is read from the text of the page.

*Comparisons.* No two rows of a crawl have one identity (`IdentitiesDiffer`): with what
a List crawl notes they are told apart by it only where it is different for all, and
otherwise by their ordinals, which are ranks in a total order (`Precedes`, `Ranks`). So the map
of the memory comparison loses no row (`MapIs`), the window of the database gives the same
numbers (`OccurrencesAgree`), and the outer join has one row for each identity of
either crawl (`JoinedIs`). What differs between two rows is a question of three truth values
again (`FieldsAgree`), and the same in both directions (`ChangesAreMutual`). The lines are
where the two ways differ most: the memory comparison keeps a vector that it sorts and cuts
whenever it has reached twice the cap, appends the lines that only differ in the response, sorts and cuts
once more; the database sorts all and takes the first. The invariant of that fold is
`Retains`: each line kept once, and of the lines that were dropped each has as many kept
before it as the cap allows (`PushRetains`, `PushAllRetains`). What is so kept shows what all
lines would (`TopIsEnough`, `KeptIsEnough`), for any cap, 0 included. Two hypotheses are on the
constants (`ComparisonAssumption`): the cap is a number, and the URLs have an order. The proof
does not use that the rows are those of one site: `ComparisonsOfAnyCrawls` speaks of
any two sequences of records of their types.

*Result store.* The calls that are due were made by a commit from an item of a
queue and an answer of the site (`RowsInv`), so that what they bring has its type and
what is bounded stays bounded; a key has one row. `EvidenceIsComplete` holds where
the texts a crawl stores are not aliases of one another (`OneTextPerPage`): the crawl
stores normal forms, of which no two are. The one exception is a redirect that
names a fragment, which `store_fragment` shows to break it; the run `store` evaluates
that its site has the property. A row is then found for a link whenever one of its texts
is the target, as the tables compare them, or an alias of it, as the counts are
summed. The invariant relates three orders of the calls of a commit (`Evident`): the
count of a row is that of its aliases (`Summed`), an edge shows the row of the only
key that has answered for its target, and what has answered is stored
(`Answering`, `Showing`), and what is listed is flagged.

`StoresAnswerAlike` follows from a relation that every call keeps (`Mirrors`): the
vector of the memory store is the table in the order of its ids, its index by alias,
its indexes of sources and targets and its noted first edges are those of the vector
and of the edges, and its queue is the saved one in the order of the positions. The
counts it sums anew are those the database adds up because `EvidenceIsComplete` holds
of them. The graph is an induction over the vector: what has been admitted after each
record is what the database chooses by rank (`Fitting`), each URL with its last record.
Two hypotheses say where the stores do agree. `OneTextPerPage` is that of
`EvidenceIsComplete`: images are deleted by alias in one store and by text in the other.
`BatchesAreOrdered` is about the metrics a user imports: an entry that means a page
names it, and of two entries the later comes first in the order of the texts. A page
that redirects has two names, and where a batch has an entry for each in the other
order the stores do differ (section 5). The run `store` evaluates both of its site.

*Archives.* `ArchivesRestoreTheCrawl` rests on the same relation. The document of the
database lists its rows in a total order (`RowsAreRanked`), and a set sorted by rank
is enumerated (`SortedEnumerates`: the ranks of n elements are n different numbers
below n), that of the memory store is its vector. The upserts of the import are an
induction over the document: after k records the tables hold k rows, numbered by their
places (`StagedIs`), because no two records have one key, and the counts and edges
they could meet are not there yet. The numbers restored are then those of the
table, and the greatest of them its last id, because a table never loses a row. A
capture has a record, because its commit stores the record first: `Due` says so of
the calls that remain.

*Paths.* `PathsAreShortest` is about a state, any sequence of links and any page:
of the invariant it needs only that edges are edges. The layers of `Within` give each
page that links lead to its distance (`Distances`), which is at most the number of
links, because every layer with something new has a link of its own
(`LayersAreBounded`). While the search goes on (`Searching`), its queue holds the
pages of one distance and then those one link further, whatever the pages it left link to
has been met, so that a page met for the first time is one link further than the page left
(`NewIsFurther`), and the link kept for it says so (`Linked`). With the queue empty
everything within reach has been met (`NearPagesAreIn`); going back along the links
kept, the distance falls by one with each (`IsWay`). The hypothesis is
`OneTextPerPage`, as above, and one on the constants: `None` is no link.

*Caches.* The cached contributions are those of the table except for the records
in `dirty`, as long as the two revisions differ by the changes of others only;
a contribution taken out and put in again leaves the groups as a rebuild would.
The numbers of such a summary are those of a table (`Honest`): records are applied
to it one by one, in an order that is open, so that this is an induction over the
subsets of the records. A call remembers the tables there were since it began
(`Recalled`). A derived table of the current revision is that of the records
(`Trusted`); a rebuild in progress is of a table of the call, and of the current
one unless the revision has changed (`Rebuilding`); what the call knows it knows of
such tables (`Known`), in the order of its statements (`Planned`, `Found`).

*Jobs.* A cancellation is remembered early or sets the flag of the measurement it
means (`Remembered`, `Slot`), and never concerns the row in hand: one that is being
saved, or one a bulk PageSpeed run has the answer for. The rows of a measurement are
done in order, so that the later ones, and the one still being worked on, are not
saved (`Unsaved`); no row is begun after a cancellation, and the others check it
before they save. A preparation keeps its reservation, whose generation only it can
have (`Reserved`). While the card is the one that was read no crawl runs, and
then nothing changes unless the revision does (`Reading`, `Copied`). The report AI
takes and leaves the slot of a report and touches nothing else of this; the death of a
process ends every job and leaves no reservation, so that generations may count
from the start again.

*Report AI.* A version is running for the command that holds the slot and for no
other (`Owner`, `Mine`). Its tokens are what was billed, unless a request is in flight
or was when the process died, and then it is marked so before the request leaves
(`Counted`, `Usage`); it is complete only with every explanation and the overview,
which is asked for when all findings are explained (`Explained`). What a command
will ask was gathered by its preparation from findings without an explanation,
within the limits on a batch: an induction over the fold that gathers
(`BatchesAreGathered`); it keeps its budget and the deadline as it works the plan off
(`PlanInv`). A version that is complete is newer than those exported
before it, or was exported itself (`FinishedStays`).

Model-checked only: liveness (`StopEnds`, `RunEnds`, `WorkersEnd`, `TraversalEnds`,
`StopsReturn`, `QuitEnds`), which is out of the prover's reach. Every other property of a
passing run is stated by a theorem.

## 5. Where the code disagrees with its documentation or itself

Two disagreements are shown by a run.

* `sitemap_errors`. `README.md` line 107 of the repository says "Invalid or
  unreadable explicit sources show an error". When an explicit index lists
  another explicit source and that one cannot be read, the failure is met first
  inside the index, where it is only logged; the document stays marked, the
  explicit source is skipped without an error, and the crawl goes on.
* `store_fragment`. A redirect whose Location has a fragment stores that
  fragment in `final_url`. The database then compares the texts of a row with
  the aliases of a link's target, but not the aliases of the row: a link to the
  page without its fragment is counted when it was found before the page was
  stored, and not when it was found after. The memory store counts both, as a
  test of it says (`crates/storage/src/lib.rs:9797`).

The others were met while modelling. They lie outside the inputs of the runs, so
that the properties hold there; each is a place to look at.

* *The stores differ* on a metric batch that names both a redirecting URL and its
  target (memory takes the first alias in text order, SQL the later row), on the
  status shown for a target of anchor texts (first known against `MAX`), on their
  grouping (Unicode lowercase of the compacted text against `lower(trim())`) and
  the order of ties when descending, on the graph of List items that were
  committed out of order, and on images of pages with fragments.
* *Archives* (`README.md:233`: "complete resume state"). The table of link counts
  for pages without a record is not written. After importing and resuming, a
  page that was queued when the archive was made loses the links counted before,
  and may be reported as an orphan of the sitemap.
* *Near duplicates*. On a resume the fingerprints start empty and clusters are
  numbered from the beginning: new numbers collide with stored ones
  (`crawler-core` 1085, 3919).
* *Reference audits*. A branching page that is reached directly and through a
  redirect has its loop flagged only in the record that the way back leads to
  (`crates/storage` 7823 says otherwise); a record that met the redirect limit
  speaks for a URL that was never requested, and as an error for redirects whose
  end robots.txt refuses. A status of 600 or more is an error for a canonical and
  none for a link of a sequence (3802, 7910).
* *Report AI*. A death of the process or a Cancel between saving the overview and
  the final status leaves a generation that has everything but is not
  `complete`; the interface offers nothing to send for it (the button is disabled
  when no request is estimated, `AuditReportAiPanel.tsx:97`), so that a later
  partial version is exported in its place. A death between marking the usage
  unknown and writing the deadline of a retry loses the provider's deadline. A
  failed write of the file leaves the status at running for the rest of the
  process.
* *Imported metrics*. When a page is stored again, both stores restore what was
  measured for it (`crates/storage` 2315-2349: PageSpeed, field data, AI insights),
  and overwrite the search, analytics and backlink metrics that were imported (in
  SQL 2469-2472, 2497-2504). A page is stored again when a crawl is resumed
  after a crash between its record and the frontier, and when the command line
  crawls into a database that has records: an import made before is lost for these
  pages. `EnrichmentIsKept` allows that loss and no other.
* *Bulk PageSpeed* (`pagespeed.rs` 562-567). After a Cancel a bulk run still
  saves the answer it has; a run of one row (429) and field data (787) look at the
  cancellation once more and save nothing. `CancelIsKept` excuses that row.
* *Creating a crawl* (`sessions.rs` 277-278). When the creation fails and the row cannot
  be deleted either, the empty database is removed all the same, and the card
  stays without one. `CardHasData` and `DataOutlivesCard` excuse that card.
* *Google account* (`google_oauth.rs` 278, 311). A refresh or a connection in
  flight writes its tokens back after Disconnect, or over those of another
  account, while the interface says the account is disconnected.
* *Limits*. Links dropped at the limit on URLs are not found again when a resume
  under a narrower scope makes room for them.

## 6. Not modelled

The map covers about 15 percent of the lines of the implementation. Most of the
rest is not state or control of the program: the parser and the extractors
(documents to records, tested directly), texts and formats of exports and of
report pages, the components of the interface, bindings and settings, and SQL
projections that differ in their columns only. A model of these would be a
second copy of them. Left out by component:

* Rendering and capture: an external browser; its outcomes are those of a worker.
* Result store: filters, paging and text search of the grid, segments,
  `Clear`, schema upgrades. The in-memory store is used by the command line,
  which does not resume.
* Reports: what a report says is a chain of SQL projections over one copy; its
  preparation is in `Jobs`. Of the AI, the comparison of reports and failing
  writes.
* PageSpeed: the pace, the retries and the back-off of a request, which are part of
  its wait in `Jobs`; which rows a bulk run skips, and the progress it reports.
* Sessions: the checks of a resumed configuration, the legacy database.
* Query settings on a resume: the saved keys are rewritten, and two of them may
  become one (`crawler-core` 1679). This is a hazard without a property: the
  keys of the scheduler are fixed in the model, and its proofs rest on it.
* A panic inside the store (`crates/storage` 4419): its effect on the saved frontier
  is that of a crash, but the process lives on.
* The Google sign-in, keyring, update and window wrappers and the release scripts.
* The interface: its views guard late answers by counters of requests and its
  drafts by revisions; what it may ask at any moment is what the users in the
  models do. The order of events and answers over the bridge of Tauri, which such
  a model would need, is not in this code.

## 7. What is left to do

The rewriting of keys on a resume under other query settings needs a scheduler
whose items are not their keys.
