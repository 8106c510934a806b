-------------------------------- MODULE Jobs --------------------------------
(***************************************************************************)
(* The long commands of the desktop application that run beside each other *)
(* (src-tauri/src/main.rs, pagespeed.rs, audit_reports.rs): a measurement  *)
(* of one row or of many, the preparation or deletion of an audit report,  *)
(* the preparation of a comparison, a merge of metrics, one saved crawl    *)
(* with its automation, and Quit, which has to end them all.  They share   *)
(* the lock crawl_task, the slot and the file lock of report jobs, and the *)
(* database of the saved crawl.                                            *)
(*                                                                         *)
(* A comparison of counters (card stamp, database revision) is modelled by *)
(* what changed since the first reading: the counters only grow.           *)
(***************************************************************************)
EXTENDS Naturals, SequencesExt

CONSTANTS
  Measurements,    \* request identifiers; the interface makes a new one each time
  PreCancelLimit,  \* PRE_CANCEL_LIMIT
  BulkLimit,       \* BULK_LIMIT: rows of a bulk measurement
  Comparisons,     \* comparison identifiers
  MaxComparisons,  \* model bound: comparisons asked for
  Loads            \* model bound: what happens together, measurements by their
                   \* identifiers, with "rows" when bulk runs have more than one

None == "none"

ASSUME JobsAssumption ==
  /\ None \notin Measurements \cup Comparisons
  /\ PreCancelLimit \in Nat \ {0} /\ BulkLimit \in Nat \ {0} /\ MaxComparisons \in Nat
  /\ Loads \subseteq
       SUBSET ({"crawl", "rows", "report", "comparison", "ai", "quit", "crash"} \cup Measurements)

VARIABLES
  load,      \* what happens in this behaviour, a member of Loads
  lock,      \* holder of crawl_task: None, "quit", "stop", "measurement",
             \* "merge" or "comparison"
  \* the saved crawl
  crawl,     \* None, "crawling", "settled" or "automation"
  settled,   \* its card has a final status
  stopping,  \* its CrawlControl is cancelled
  \* PageSpeedState and the measurement
  closing, active, stopped, early, measurement,
  batch,     \* [kind, row]: the command and the row in hand, 0 before the first
  \* AuditReportsState and its job
  reportsClosing, job, jobCancelled, idle, files, sourceActive,
  noticed,   \* "card", "revision": what differs from the first reading
  \* ComparisonState and the preparations
  shown,     \* [id, generation, workspace]
  preparing, \* preparing[g]: [id, at] of the g-th reservation
  \* quit_app
  quit, exiting,
  \* history
  used,      \* identifiers of measurements that began
  kept,      \* <<id, row>>: cancelled while it could still be kept as it was
  saved,     \* <<id, row>>: measured and saved
  changed    \* records or links changed since the report read the revision

crawlVars == <<crawl, settled, stopping>>
speedVars == <<closing, active, stopped, early, measurement, batch>>
reportVars == <<reportsClosing, job, jobCancelled, idle, files, sourceActive>>
compareVars == <<shown, preparing>>
quitVars == <<quit, exiting>>
sourceVars == <<noticed, changed>>
speedHistory == <<used, kept, saved>>
vars == <<load, lock, crawlVars, speedVars, reportVars, compareVars, quitVars,
          sourceVars, speedHistory>>

Generations == 1..MaxComparisons
BulkRows == 1..BulkLimit
NoBatch == [kind |-> "single", row |-> 0]

Init ==
  /\ load \in Loads
  /\ lock = None
  /\ crawl = None /\ settled = TRUE /\ stopping = FALSE
  /\ closing = FALSE /\ active = None /\ stopped = FALSE /\ early = <<>>
  /\ measurement = None /\ batch = NoBatch
  /\ reportsClosing = FALSE /\ job = None /\ jobCancelled = FALSE
  /\ idle = FALSE /\ files = None /\ sourceActive = FALSE
  /\ shown = [id |-> None, generation |-> 0, workspace |-> 0]
  /\ preparing = [g \in Generations |-> [id |-> None, at |-> None]]
  /\ quit = None /\ exiting = FALSE
  /\ noticed = {} /\ used = {} /\ kept = {} /\ saved = {} /\ changed = FALSE

Up == quit # "exited"

(* A write of the database of the crawl: records count as a revision.      *)
WriteLinks == changed' = TRUE /\ UNCHANGED noticed
WriteRecords == changed' = TRUE /\ noticed' = noticed \cup {"revision"}
WriteCard == noticed' = noticed \cup {"card"} /\ UNCHANGED changed

-----------------------------------------------------------------------------
(* The saved crawl: resumed, stopped, or ending by itself.                 *)

CrawlUnchanged ==
  UNCHANGED <<load, speedVars, reportVars, compareVars, quitVars, speedHistory>>

StartCrawl ==
  /\ "crawl" \in load
  /\ Up /\ lock = None /\ ~exiting /\ crawl = None
  /\ crawl' = "crawling" /\ settled' = FALSE /\ stopping' = FALSE
  /\ WriteCard
  /\ CrawlUnchanged /\ UNCHANGED lock

CrawlWrites ==
  /\ Up /\ crawl = "crawling"
  /\ WriteLinks \/ WriteRecords
  /\ CrawlUnchanged /\ UNCHANGED <<lock, crawlVars>>

(* The last event gives the card its status, or else the task, when the    *)
(* crawl failed.  Nothing of the crawl is written after that ...           *)
CrawlSettles ==
  /\ Up /\ crawl = "crawling"
  /\ crawl' = "settled" /\ settled' = TRUE
  /\ WriteCard
  /\ CrawlUnchanged /\ UNCHANGED <<lock, stopping>>

(* ... but the card, when a progress event could not be saved.             *)
CrawlReturns ==
  /\ Up /\ crawl = "settled"
  /\ crawl' = "automation"
  /\ WriteCard \/ UNCHANGED sourceVars
  /\ CrawlUnchanged /\ UNCHANGED <<lock, settled, stopping>>

(* The automation writes files and calls out.                              *)
CrawlEnds ==
  /\ Up /\ crawl = "automation"
  /\ crawl' = None
  /\ CrawlUnchanged /\ UNCHANGED <<lock, settled, stopping, sourceVars>>

StopCrawl ==
  /\ Up /\ lock = None /\ crawl # None
  /\ lock' = "stop" /\ stopping' = TRUE
  /\ CrawlUnchanged /\ UNCHANGED <<crawl, settled, sourceVars>>

StopReturns ==
  /\ Up /\ lock = "stop" /\ crawl = None
  /\ lock' = None
  /\ CrawlUnchanged /\ UNCHANGED <<crawlVars, sourceVars>>

(* Search, analytics or backlink metrics, or the field data of one row:    *)
(* the lock is held over the request and the writes.                       *)
BeginMerge ==
  /\ "crawl" \in load
  /\ Up /\ lock = None /\ ~exiting /\ crawl = None
  /\ lock' = "merge"
  /\ CrawlUnchanged /\ UNCHANGED <<crawlVars, sourceVars>>

EndMerge ==
  /\ Up /\ lock = "merge"
  /\ lock' = None
  /\ WriteRecords \/ UNCHANGED sourceVars
  /\ CrawlUnchanged /\ UNCHANGED crawlVars

-----------------------------------------------------------------------------
(* A measurement: PageSpeedState::begin and cancel, and the three commands *)
(* that take its slot.  PageSpeed measures one row (run_with_fetcher) or   *)
(* many (run_page_speed_bulk_with_fetcher); field data are fetched for     *)
(* many (run_field_vitals_bulk_with_fetcher).                              *)

SpeedUnchanged == UNCHANGED <<load, crawlVars, reportVars, compareVars, quitVars>>

(* The rows of a command: one, unless the load allows a bulk run more.     *)
RowsOf(kind) == IF kind # "single" /\ "rows" \in load THEN BulkRows ELSE {1}

(* The first occurrence of the identifier is removed.                      *)
Without(ids, id) ==
  IF id \in ToSet(ids) THEN RemoveAt(ids, CHOOSE i \in DOMAIN ids : ids[i] = id) ELSE ids

BeginMeasurement(id) ==
  /\ id \in load
  /\ Up /\ id \notin used /\ ~closing
  /\ used' = used \cup {id}
  /\ early' = Without(early, id)
  /\ \/ /\ active = None /\ id \notin ToSet(early)
        /\ active' = id /\ stopped' = FALSE /\ measurement' = "begun"
        /\ batch' \in [kind : {"single", "bulk", "field"}, row : {0}]
     \/ /\ active # None \/ id \in ToSet(early)
        /\ UNCHANGED <<active, stopped, measurement, batch>>
  /\ SpeedUnchanged /\ UNCHANGED <<lock, closing, kept, saved, sourceVars>>

(* The identifiers to refuse, the latest last.                             *)
Remember(id) ==
  LET others == Without(early, id)
  IN  Append(IF Len(others) = PreCancelLimit THEN Tail(others) ELSE others, id)

(* The row that a cancellation comes too late for: it is being saved, or   *)
(* PageSpeed has answered for it to a bulk run.                            *)
InHand ==
  IF measurement = "saving" \/ (measurement = "answered" /\ batch.kind = "bulk")
  THEN {<<active, batch.row>>} ELSE {}

(* What a cancellation of the active measurement can still prevent.        *)
Preventable == ({active} \X BulkRows) \ (saved \cup InHand)

Cancel(id) ==
  /\ Up /\ id \in load
  /\ \/ /\ active = id
        /\ stopped' = TRUE /\ kept' = kept \cup Preventable
        /\ UNCHANGED early
     \/ /\ active # id
        /\ early' = Remember(id)
        /\ kept' = (kept \ ((ToSet(early) \ ToSet(early')) \X BulkRows))
                     \cup (({id} \ used) \X BulkRows)
        /\ UNCHANGED stopped
  /\ SpeedUnchanged
  /\ UNCHANGED <<lock, closing, active, measurement, batch, used, saved, sourceVars>>

(* The guard of crawl_task is dropped before the slot of the measurement.  *)
GiveUp ==
  /\ measurement' = "returned"
  /\ lock' = IF lock = "measurement" THEN None ELSE lock

MeasuresOn(at) == measurement' = at /\ UNCHANGED lock

(* try_lock, which does not wait, and the checks under the lock.           *)
TakeLock ==
  /\ Up /\ measurement = "begun"
  /\ \/ /\ lock = None /\ ~exiting /\ crawl = None
        /\ lock' = "measurement" /\ measurement' = "next"
     \/ /\ lock # None \/ exiting \/ crawl # None
        /\ GiveUp
  /\ SpeedUnchanged
  /\ UNCHANGED <<closing, active, stopped, early, batch, sourceVars, speedHistory>>

(* The head of the loop.  Rows that cannot be measured, or were when the   *)
(* run is resumed, are passed over.                                        *)
NextRow ==
  /\ Up /\ measurement = "next"
  /\ \/ /\ batch.kind = "single" \/ ~stopped
        /\ \E r \in RowsOf(batch.kind) :
             r > batch.row /\ batch' = [batch EXCEPT !.row = r]
        /\ MeasuresOn("fetching")
     \/ GiveUp /\ UNCHANGED batch
  /\ SpeedUnchanged
  /\ UNCHANGED <<closing, active, stopped, early, sourceVars, speedHistory>>

(* The request with its retries.  Every wait, for the answer, the pace or  *)
(* the quota, is a select biased towards the cancellation.  A bulk run     *)
(* goes on after a failure, field data not without their key.              *)
FetchEnds ==
  /\ Up /\ measurement = "fetching"
  /\ \/ ~stopped /\ MeasuresOn("answered")
     \/ ~stopped /\ batch.kind # "single" /\ MeasuresOn("next")
     \/ (stopped \/ batch.kind # "bulk") /\ GiveUp
  /\ SpeedUnchanged
  /\ UNCHANGED <<closing, active, stopped, early, batch, sourceVars, speedHistory>>

(* Fault: the worker saves what it was given.                              *)
CheckCancelledFault ==
  /\ Up /\ measurement = "answered"
  /\ MeasuresOn("saving")
  /\ SpeedUnchanged
  /\ UNCHANGED <<closing, active, stopped, early, batch, sourceVars, speedHistory>>

(* The worker looks at the cancellation before it saves; that of a bulk    *)
(* PageSpeed run does not.                                                 *)
CheckCancelled ==
  /\ Up /\ measurement = "answered"
  /\ IF stopped /\ batch.kind # "bulk" THEN GiveUp ELSE MeasuresOn("saving")
  /\ SpeedUnchanged
  /\ UNCHANGED <<closing, active, stopped, early, batch, sourceVars, speedHistory>>

SaveSnapshot ==
  /\ Up /\ measurement = "saving"
  /\ \/ saved' = saved \cup {<<active, batch.row>>} /\ WriteRecords
     \/ UNCHANGED <<saved, sourceVars>>  \* the write failed
  /\ IF batch.kind = "single" THEN GiveUp ELSE MeasuresOn("next")
  /\ SpeedUnchanged /\ UNCHANGED <<closing, active, stopped, early, batch, used, kept>>

LeaveSlot ==
  /\ Up /\ measurement = "returned"
  /\ measurement' = None /\ active' = None /\ batch' = NoBatch
  /\ SpeedUnchanged
  /\ UNCHANGED <<lock, closing, stopped, early, sourceVars, speedHistory>>

-----------------------------------------------------------------------------
(* Audit report jobs: prepare_audit_report, delete_audit_report, the       *)
(* library's queries, AuditReportsState.                                   *)

ReportUnchanged ==
  UNCHANGED <<load, lock, crawlVars, speedVars, compareVars, quitVars, speedHistory>>

BeginJob ==
  /\ "report" \in load
  /\ Up /\ job = None /\ ~reportsClosing
  /\ job' \in {"begun", "deletion"} /\ jobCancelled' = FALSE
  /\ ReportUnchanged
  /\ UNCHANGED <<reportsClosing, idle, files, sourceActive, sourceVars>>

CancelReport ==
  /\ Up /\ job # None /\ ~jobCancelled
  /\ jobCancelled' = TRUE
  /\ ReportUnchanged
  /\ UNCHANGED <<reportsClosing, job, idle, files, sourceActive, sourceVars>>

(* Fault: the job leaves without a notification.                           *)
DropJobFault ==
  /\ job' = None /\ files' = IF files = "job" THEN None ELSE files
  /\ UNCHANGED <<idle, reportsClosing, jobCancelled, sourceActive>>

(* The file lock goes first; dropping the job stores a notification.       *)
DropJob ==
  /\ job' = None /\ files' = IF files = "job" THEN None ELSE files
  /\ idle' = TRUE
  /\ UNCHANGED <<reportsClosing, jobCancelled, sourceActive>>

(* active_crawl_source: the crawl that runs now, if any.                   *)
ActiveSource ==
  /\ Up /\ job = "begun" /\ lock = None
  /\ \/ exiting /\ DropJob
     \/ /\ ~exiting
        /\ job' = "waiting" /\ sourceActive' = (crawl # None)
        /\ UNCHANGED <<reportsClosing, jobCancelled, idle, files>>
  /\ ReportUnchanged /\ UNCHANGED sourceVars

LockFiles ==
  /\ Up /\ job \in {"waiting", "deletion"} /\ files = None
  /\ files' = "job" /\ job' = IF job = "waiting" THEN "card" ELSE "deleting"
  /\ ReportUnchanged
  /\ UNCHANGED <<reportsClosing, jobCancelled, idle, sourceActive, sourceVars>>

(* The card has a final status and the crawl did not run before.           *)
SourceIsFree == settled /\ ~sourceActive

ReadCard ==
  /\ Up /\ job = "card"
  /\ \/ /\ SourceIsFree
        /\ job' = "revision" /\ noticed' = {}
        /\ UNCHANGED <<reportsClosing, jobCancelled, idle, files, sourceActive>>
     \/ ~SourceIsFree /\ DropJob /\ UNCHANGED noticed
  /\ ReportUnchanged /\ UNCHANGED changed

ReadRevision ==
  /\ Up /\ job = "revision"
  /\ job' = "copy"
  /\ noticed' = noticed \ {"revision"} /\ changed' = FALSE
  /\ ReportUnchanged
  /\ UNCHANGED <<reportsClosing, jobCancelled, idle, files, sourceActive>>

(* The source is copied in one transaction and the report built from the   *)
(* copy; every progress call looks at the cancellation.                    *)
CopyAndBuild ==
  /\ Up /\ job = "copy"
  /\ \/ /\ ~jobCancelled
        /\ job' = "publishing"
        /\ UNCHANGED <<reportsClosing, jobCancelled, idle, files, sourceActive>>
     \/ DropJob
  /\ ReportUnchanged /\ UNCHANGED sourceVars

(* Fault: only the revision of the database is compared.                   *)
SourceDiffersFault == "revision" \in noticed

(* Status, stamp, path or revision differ from the first reading.          *)
SourceDiffers == noticed # {}

(* The last progress call.                                                 *)
CheckSource ==
  /\ Up /\ job = "publishing"
  /\ \/ /\ ~jobCancelled /\ ~SourceDiffers
        /\ job' = "link"
        /\ UNCHANGED <<reportsClosing, jobCancelled, idle, files, sourceActive>>
     \/ (jobCancelled \/ SourceDiffers) /\ DropJob
  /\ ReportUnchanged /\ UNCHANGED sourceVars

(* The hard link, or the deletion: neither can be cancelled any more.      *)
EndJob ==
  /\ Up /\ job \in {"link", "deleting"}
  /\ DropJob
  /\ ReportUnchanged /\ UNCHANGED sourceVars

(* The library reads saved reports under the file lock.                    *)
QueryLibrary ==
  /\ "report" \in load
  /\ Up /\ files \in {None, "query"}
  /\ files' = IF files = None THEN "query" ELSE None
  /\ ReportUnchanged
  /\ UNCHANGED <<reportsClosing, job, jobCancelled, idle, sourceActive, sourceVars>>

-----------------------------------------------------------------------------
(* Comparisons: ComparisonState and prepare_crawl_comparison.              *)

CompareUnchanged ==
  UNCHANGED <<load, crawlVars, speedVars, reportVars, quitVars, sourceVars, speedHistory>>

Closed == [id |-> None, generation |-> shown.generation, workspace |-> 0]

Reserve(id) ==
  /\ "comparison" \in load
  /\ Up /\ shown.id # id /\ shown.generation < MaxComparisons
  /\ shown' = [id |-> id, generation |-> shown.generation + 1, workspace |-> 0]
  /\ preparing' = [preparing EXCEPT ![shown'.generation] = [id |-> id, at |-> "waiting"]]
  /\ CompareUnchanged /\ UNCHANGED lock

CloseComparison ==
  /\ Up /\ shown.id # None
  /\ shown' = Closed
  /\ CompareUnchanged /\ UNCHANGED <<lock, preparing>>

Gone(g) == preparing' = [preparing EXCEPT ![g] = [id |-> None, at |-> None]]

(* The preparation ends with an error.                                     *)
Abandon(g) ==
  /\ Gone(g)
  /\ shown' = IF shown.generation = g /\ shown.id = preparing[g].id THEN Closed ELSE shown

(* A comparison with the crawl that runs is refused.                       *)
LockSources(g) ==
  /\ Up /\ preparing[g].at = "waiting" /\ lock = None
  /\ \/ /\ ~exiting
        /\ lock' = "comparison" /\ preparing' = [preparing EXCEPT ![g].at = "building"]
        /\ UNCHANGED shown
     \/ /\ exiting \/ crawl # None
        /\ Abandon(g) /\ UNCHANGED lock
  /\ CompareUnchanged

BuildEnds(g) ==
  /\ Up /\ preparing[g].at = "building"
  /\ lock' = None
  /\ \/ preparing' = [preparing EXCEPT ![g].at = "built"] /\ UNCHANGED shown
     \/ Abandon(g)
  /\ CompareUnchanged

(* Fault: the identifier alone tells whose turn it is.                     *)
IsCurrentFault(g) == shown.id = preparing[g].id

IsCurrent(g) == shown.id = preparing[g].id /\ shown.generation = g

Publish(g) ==
  /\ Up /\ preparing[g].at = "built"
  /\ Gone(g)
  /\ shown' = IF IsCurrent(g) THEN [shown EXCEPT !.workspace = g] ELSE shown
  /\ CompareUnchanged /\ UNCHANGED lock

-----------------------------------------------------------------------------
(* quit_app.                                                               *)

QuitUnchanged ==
  UNCHANGED <<load, compareVars, sourceVars, used, saved, early, active, measurement,
              batch, crawl, settled, job, files, sourceActive>>

(* begin_shutdown: no measurement may begin, the current one is cancelled. *)
BeginQuit ==
  /\ "quit" \in load
  /\ quit = None /\ ~closing
  /\ quit' = "asked" /\ closing' = TRUE
  /\ stopped' = (stopped \/ active # None)
  /\ kept' = IF active = None THEN kept ELSE kept \cup Preventable
  /\ QuitUnchanged
  /\ UNCHANGED <<lock, stopping, reportsClosing, jobCancelled, idle, exiting>>

QuitLocks ==
  /\ quit = "asked" /\ lock = None
  /\ quit' = "stopping" /\ lock' = "quit" /\ stopping' = TRUE
  /\ QuitUnchanged
  /\ UNCHANGED <<closing, stopped, kept, reportsClosing, jobCancelled, idle, exiting>>

ExitConfirmed ==
  /\ quit = "stopping" /\ crawl = None
  /\ quit' = "reports" /\ exiting' = TRUE /\ lock' = None
  /\ reportsClosing' = TRUE
  /\ QuitUnchanged
  /\ UNCHANGED <<stopping, closing, stopped, kept, jobCancelled, idle>>

(* The crawl task could not be joined: Quit gives up and the shutdown of   *)
(* the measurements is taken back.                                         *)
QuitFails ==
  /\ quit = "stopping" /\ crawl = None
  /\ quit' = None /\ closing' = FALSE /\ lock' = None
  /\ QuitUnchanged
  /\ UNCHANGED <<stopping, stopped, kept, reportsClosing, jobCancelled, idle, exiting>>

(* cancel_for_shutdown: a busy job is cancelled and waited for.            *)
AskReports ==
  /\ quit = "reports"
  /\ \/ job # None /\ jobCancelled' = TRUE /\ quit' = "waiting"
     \/ job = None /\ UNCHANGED jobCancelled /\ quit' = "exited"
  /\ QuitUnchanged
  /\ UNCHANGED <<lock, stopping, closing, stopped, kept, reportsClosing, idle, exiting>>

Notified ==
  /\ quit = "waiting" /\ idle
  /\ quit' = "reports" /\ idle' = FALSE
  /\ QuitUnchanged
  /\ UNCHANGED <<lock, stopping, closing, stopped, kept, reportsClosing, jobCancelled, exiting>>

-----------------------------------------------------------------------------
Crawling ==
  \/ StartCrawl \/ CrawlWrites \/ CrawlSettles \/ CrawlReturns \/ CrawlEnds
  \/ StopCrawl \/ StopReturns \/ BeginMerge \/ EndMerge

MeasurementStep ==
  TakeLock \/ NextRow \/ FetchEnds \/ CheckCancelled \/ SaveSnapshot \/ LeaveSlot

ReportStep ==
  ActiveSource \/ LockFiles \/ ReadCard \/ ReadRevision \/ CopyAndBuild
    \/ CheckSource \/ EndJob

ComparisonStep ==
  \E g \in Generations : LockSources(g) \/ BuildEnds(g) \/ Publish(g)

QuitStep == QuitLocks \/ ExitConfirmed \/ QuitFails \/ AskReports \/ Notified

Next ==
  \/ Crawling
  \/ MeasurementStep \/ \E id \in Measurements : BeginMeasurement(id) \/ Cancel(id)
  \/ BeginJob \/ CancelReport \/ QueryLibrary \/ ReportStep
  \/ ComparisonStep \/ CloseComparison \/ \E id \in Comparisons : Reserve(id)
  \/ BeginQuit \/ QuitStep

Spec == Init /\ [][Next]_vars

(* A cancelled crawl ends, and so does its automation; requests and file   *)
(* work end, and with them what waits for the crawl under the lock; both   *)
(* locks are given to the one that waits longest.                          *)
Fairness ==
  /\ WF_vars((stopping /\ CrawlSettles) \/ CrawlReturns \/ CrawlEnds)
  /\ WF_vars(StopReturns \/ EndMerge \/ \E g \in Generations : BuildEnds(g))
  /\ WF_vars(MeasurementStep)
  /\ SF_vars(ActiveSource \/ LockFiles)
  /\ WF_vars(ReadCard \/ ReadRevision \/ CopyAndBuild \/ CheckSource \/ EndJob)
  /\ WF_vars(files = "query" /\ QueryLibrary)
  /\ SF_vars(QuitLocks)
  /\ WF_vars(ExitConfirmed \/ QuitFails \/ AskReports \/ Notified)

FairSpec == Spec /\ Fairness

-----------------------------------------------------------------------------
(* Properties.                                                             *)

(* A report passes its last check only when neither the records and links  *)
(* it was made from nor the card have changed since it read them: not by a *)
(* resumed crawl, a measurement or a merge.                                *)
ReportOfOneState ==
  [][job = "publishing" /\ job' = "link" => ~changed /\ settled /\ "card" \notin noticed]_vars

(* A measurement that was cancelled, by its user or by Quit, saves nothing *)
(* more - also when the cancellation came before the command, as long as   *)
(* it is remembered - but the row that was being saved already, or, in a   *)
(* bulk PageSpeed run, the row whose answer had arrived.                   *)
CancelIsKept == saved \cap kept = {}

(* A comparison is answered from the sources of its own reservation: one   *)
(* that was superseded or closed never appears, even under an identifier   *)
(* that is used again.                                                     *)
ComparisonIsCurrent ==
  shown.workspace # 0 => shown.workspace = shown.generation /\ shown.id # None

(* Quit ends, whatever runs, and the process is left when nothing writes:  *)
(* no crawl or automation, no merge, no measurement past its first checks, *)
(* no report job - unless the crawl could not be joined, and then          *)
(* everything can be asked for again.                                      *)
QuitEnds ==
  quit = "asked" ~>
    \/ /\ quit = "exited" /\ crawl = None /\ job = None /\ lock = None
       /\ measurement \in {None, "begun", "returned"}
    \/ quit = None /\ ~closing
=============================================================================
