------------------------------ MODULE Sessions ------------------------------
(***************************************************************************)
(* The library of saved crawls and the one crawl that may run              *)
(* (src-tauri/src/main.rs and sessions.rs).  A card is a row of the index  *)
(* database, its crawl a database file of its own.  Commands of the        *)
(* interface are serialised by the lock crawl_task, which Stop and Quit    *)
(* hold while they wait for the crawl; the crawl writes its progress to    *)
(* the index meanwhile.  Writes to the index and renames may fail, and the *)
(* process may die between any two of them.                                *)
(*                                                                         *)
(* An identifier is used again once its card and its file are gone.  Why a *)
(* resume may be refused (no queued URL, another target) is left open.     *)
(***************************************************************************)
EXTENDS Naturals, FiniteSets

CONSTANTS
  Crawls,        \* identifiers of saved crawls
  MaxFailures,   \* model bound: failed writes and renames
  MaxCrashes     \* model bound: crashes of the process

None == "none"

ASSUME SessionsAssumption ==
  None \notin Crawls /\ MaxFailures \in Nat /\ MaxCrashes \in Nat

VARIABLES
  \* durable: index rows and database files
  status,     \* status of the card, or None
  file,       \* None, "there", or "staged" for removal
  \* AppState
  up,         \* the process runs
  store,      \* crawl whose database is open; None: memory
  current,    \* current_session_id
  control,    \* crawl whose CrawlControl is kept, or None
  handle,     \* crawl whose JoinHandle is kept, or None
  lock,       \* command that holds crawl_task, or None
  target,     \* crawl that command is about, or None
  exiting,    \* exit_confirmed
  \* the task of each crawl
  phase,      \* None, "running", "returned", "automation"
  cancelled, paused,
  bad,        \* crawls that failed or whose progress could not be saved
  \* history and model bounds
  unsaved,    \* crawls whose last status write failed
  broken,     \* crawls whose creation or deletion was cut short
  clean,      \* the process ended by Quit
  failures, crashes

durable == <<status, file>>
opened  == <<store, current>>
handles == <<control, handle>>
command == <<lock, target>>
flags   == <<cancelled, paused>>
history == <<unsaved, broken, clean>>
bounds  == <<failures, crashes>>
vars == <<durable, up, opened, handles, command, exiting, phase, flags, bad,
          history, bounds>>

-----------------------------------------------------------------------------
LiveStatus == {"starting", "running", "paused", "importing"}

(* The crawl still does something, if only its automation.                 *)
Alive(c) == phase[c] # None

CanFail == failures < MaxFailures

(* Fault: an unfinished crawl does not keep the library busy.              *)
IdleFault == lock = None /\ up /\ ~exiting

(* ensure_idle, asked while the lock is taken.                             *)
Idle ==
  /\ up /\ lock = None /\ ~exiting
  /\ handle # None => ~Alive(handle)

Init ==
  /\ status = [c \in Crawls |-> None] /\ file = [c \in Crawls |-> None]
  /\ up = TRUE /\ store = None /\ current = None
  /\ control = None /\ handle = None
  /\ lock = None /\ target = None /\ exiting = FALSE
  /\ phase = [c \in Crawls |-> None]
  /\ cancelled = {} /\ paused = {} /\ bad = {}
  /\ unsaved = {} /\ broken = {} /\ clean = FALSE
  /\ failures = 0 /\ crashes = 0

(* The crawl task is spawned with a fresh CrawlControl.                    *)
Spawn(c) ==
  /\ phase' = [phase EXCEPT ![c] = "running"]
  /\ control' = c /\ handle' = c
  /\ cancelled' = cancelled \ {c} /\ paused' = paused \ {c}
  /\ bad' = bad \ {c}

-----------------------------------------------------------------------------
(* New cards: create_session for a start or an empty crawl, and            *)
(* publish_imported_session.  The file exists before the row.              *)

CreateFile(c, command_) ==
  /\ Idle /\ status[c] = None /\ file[c] = None
  /\ file' = [file EXCEPT ![c] = "there"]
  /\ lock' = command_ /\ target' = c
  /\ IF command_ = "start" THEN control' = None /\ handle' = None
                           ELSE UNCHANGED handles
  /\ unsaved' = unsaved \ {c} /\ broken' = broken \ {c}
  /\ UNCHANGED <<status, up, opened, exiting, phase, flags, bad, clean, bounds>>

(* The status a card is created with.                                      *)
NewStatus(command_) ==
  CASE command_ = "start"  -> "starting"
    [] command_ = "create" -> "ready"
    [] command_ = "import" -> "imported"

CreateRow ==
  /\ lock \in {"start", "create", "import"}
  /\ status' = [status EXCEPT ![target] = NewStatus(lock)]
  /\ store' = target /\ current' = target
  /\ IF lock = "start" THEN Spawn(target) ELSE UNCHANGED <<phase, handles, flags, bad>>
  /\ lock' = None /\ target' = None
  /\ UNCHANGED <<file, up, exiting, history, bounds>>

(* The row cannot be written, or was written and cannot be read back: the  *)
(* row is deleted, then the file, and the errors of both are ignored.  The *)
(* row of an import is in a transaction.                                   *)
CreateFails ==
  /\ lock \in {"start", "create", "import"} /\ CanFail
  /\ failures' = failures + 1
  /\ lock' = IF lock = "import" THEN "discard" ELSE "undo"
  /\ \/ UNCHANGED <<status, unsaved>>
     \/ /\ lock # "import"
        /\ status' = [status EXCEPT ![target] = NewStatus(lock)]
        /\ unsaved' = unsaved \cup {target}
  /\ UNCHANGED <<file, up, opened, handles, target, exiting, phase, flags, bad,
                 broken, clean, crashes>>

UndoRow ==
  /\ lock = "undo" /\ lock' = "discard"
  /\ \/ /\ status' = [status EXCEPT ![target] = None]
        /\ unsaved' = unsaved \ {target}
        /\ UNCHANGED failures
     \/ /\ CanFail /\ failures' = failures + 1
        /\ UNCHANGED <<status, unsaved>>
  /\ UNCHANGED <<file, up, opened, handles, target, exiting, phase, flags, bad,
                 broken, clean, crashes>>

UndoFile ==
  /\ lock = "discard"
  /\ \/ /\ file' = [file EXCEPT ![target] = None]
        /\ broken' = IF status[target] = None THEN broken ELSE broken \cup {target}
        /\ UNCHANGED failures
     \/ /\ CanFail /\ failures' = failures + 1
        /\ UNCHANGED <<file, broken>>
  /\ lock' = None /\ target' = None
  /\ UNCHANGED <<status, up, opened, handles, exiting, phase, flags, bad,
                 unsaved, clean, crashes>>

(* open_database_path on a file without a card.                            *)
RegisterFile(c) ==
  /\ Idle /\ status[c] = None /\ file[c] = "there"
  /\ status' = [status EXCEPT ![c] = "unknown"]
  /\ store' = c /\ current' = c
  /\ UNCHANGED <<file, up, handles, command, exiting, phase, flags, bad,
                 history, bounds>>

(* open_crawl_session and activate_session.                                *)
Open(c) ==
  /\ Idle /\ status[c] # None /\ file[c] = "there"
  /\ store' = c /\ current' = c
  /\ UNCHANGED <<durable, up, handles, command, exiting, phase, flags, bad,
                 history, bounds>>

(* start_crawl with resume: the card says starting before the task is      *)
(* spawned.                                                                *)
ResumeSaved ==
  /\ Idle /\ current # None
  /\ status[current] # None /\ file[current] = "there"
  /\ status' = [status EXCEPT ![current] = "starting"]
  /\ store' = current
  /\ Spawn(current)
  /\ unsaved' = unsaved \ {current}
  /\ UNCHANGED <<file, up, current, command, exiting, broken, clean, bounds>>

(* The card says starting, but cannot be read back: nothing is spawned.    *)
ResumeFails ==
  /\ Idle /\ current # None /\ CanFail
  /\ status[current] # None /\ file[current] = "there"
  /\ status' = [status EXCEPT ![current] = "starting"]
  /\ control' = None /\ handle' = None
  /\ unsaved' = unsaved \cup {current}
  /\ failures' = failures + 1
  /\ UNCHANGED <<file, up, opened, command, exiting, phase, flags, bad, broken,
                 clean, crashes>>

(* A start that is refused has let go of the last crawl.                   *)
StartRefused ==
  /\ Idle
  /\ control' = None /\ handle' = None
  /\ UNCHANGED <<durable, up, opened, command, exiting, phase, flags, bad,
                 history, bounds>>

-----------------------------------------------------------------------------
(* The task of a crawl.                                                    *)

(* save_progress; when it fails the error is kept and the crawl cancelled. *)
SaveProgress(c, s) ==
  \/ /\ status' = [status EXCEPT ![c] = s]
     /\ UNCHANGED <<bad, cancelled, failures>>
  \/ /\ CanFail /\ failures' = failures + 1
     /\ bad' = bad \cup {c} /\ cancelled' = cancelled \cup {c}
     /\ UNCHANGED status

Progress(c) ==
  /\ phase[c] = "running"
  /\ SaveProgress(c, "running")
  /\ UNCHANGED <<file, up, opened, handles, command, exiting, phase, paused,
                 history, crashes>>

(* crawl returns: after its last event, or with an error or a panic.       *)
Return(c) ==
  /\ phase[c] = "running"
  /\ phase' = [phase EXCEPT ![c] = "returned"]
  /\ \/ SaveProgress(c, IF c \in cancelled THEN "stopped" ELSE "finished")
     \/ bad' = bad \cup {c} /\ UNCHANGED <<status, cancelled, failures>>
  /\ UNCHANGED <<file, up, opened, handles, command, exiting, paused, history,
                 crashes>>

(* Fault: only a returned error is recorded as a failure.                  *)
SettleFault(c) ==
  /\ phase[c] = "returned"
  /\ phase' = [phase EXCEPT ![c] = "automation"]
  /\ IF c \in bad /\ status[c] \in LiveStatus
     THEN /\ status' = [status EXCEPT ![c] = "failed"]
          /\ UNCHANGED <<unsaved, failures>>
     ELSE UNCHANGED <<status, unsaved, failures>>
  /\ UNCHANGED <<file, up, opened, handles, command, exiting, flags, bad,
                 broken, clean, crashes>>

(* Errors, panics and unsaved progress all make the card say failed.       *)
Settle(c) ==
  /\ phase[c] = "returned"
  /\ phase' = [phase EXCEPT ![c] = "automation"]
  /\ IF c \in bad
     THEN \/ /\ status' = [status EXCEPT ![c] = "failed"]
             /\ UNCHANGED <<unsaved, failures>>
          \/ /\ CanFail /\ failures' = failures + 1
             /\ unsaved' = unsaved \cup {c}
             /\ UNCHANGED status
     ELSE UNCHANGED <<status, unsaved, failures>>
  /\ UNCHANGED <<file, up, opened, handles, command, exiting, flags, bad,
                 broken, clean, crashes>>

(* run_automation ends, and the task with it.                              *)
EndTask(c) ==
  /\ phase[c] = "automation"
  /\ phase' = [phase EXCEPT ![c] = None]
  /\ UNCHANGED <<durable, up, opened, handles, command, exiting, flags, bad,
                 history, bounds>>

-----------------------------------------------------------------------------
(* Pause, Resume, Stop, Quit.                                              *)

Pause ==
  /\ up /\ lock = None /\ control # None
  /\ paused' = paused \cup {control}
  /\ UNCHANGED <<durable, up, opened, handles, command, exiting, phase,
                 cancelled, bad, history, bounds>>

Resume ==
  /\ up /\ lock = None /\ control # None
  /\ paused' = paused \ {control}
  /\ UNCHANGED <<durable, up, opened, handles, command, exiting, phase,
                 cancelled, bad, history, bounds>>

(* Fault: Stop does not cancel the crawl it waits for.                     *)
StopActiveCrawlFaultCancel(command_) ==
  /\ up /\ lock = None
  /\ lock' = command_ /\ target' = handle
  /\ UNCHANGED cancelled
  /\ control' = None /\ handle' = None

(* stop_active_crawl: cancel the crawl whose control is kept, then wait    *)
(* for the task whose handle is kept.                                      *)
StopActiveCrawl(command_) ==
  /\ up /\ lock = None
  /\ lock' = command_ /\ target' = handle
  /\ cancelled' = IF control = None THEN cancelled ELSE cancelled \cup {control}
  /\ control' = None /\ handle' = None

Stop ==
  /\ StopActiveCrawl("stop")
  /\ UNCHANGED <<durable, up, opened, exiting, phase, paused, bad, history,
                 bounds>>

Quit ==
  /\ ~exiting
  /\ StopActiveCrawl("quit")
  /\ UNCHANGED <<durable, up, opened, exiting, phase, paused, bad, history,
                 bounds>>

(* The task is over: Stop returns, Quit refuses everything from now on,    *)
(* unless the task died (in run_automation), which ends both with an error.*)
StopReturns ==
  /\ lock \in {"stop", "quit"}
  /\ target # None => ~Alive(target)
  /\ lock' = None /\ target' = None
  /\ \/ exiting' = (exiting \/ lock = "quit") /\ UNCHANGED failures
     \/ /\ target # None /\ CanFail /\ failures' = failures + 1
        /\ UNCHANGED exiting
  /\ UNCHANGED <<durable, up, opened, handles, phase, flags, bad, history,
                 crashes>>

(* The report job is cancelled, and the process exits.                     *)
Exit ==
  /\ up /\ exiting
  /\ up' = FALSE /\ clean' = TRUE
  /\ UNCHANGED <<durable, opened, handles, command, exiting, phase, flags, bad,
                 unsaved, broken, bounds>>

(* cancel_for_shutdown failed: the application stays open.                 *)
ExitFails ==
  /\ up /\ exiting /\ CanFail
  /\ exiting' = FALSE /\ failures' = failures + 1
  /\ UNCHANGED <<durable, up, opened, handles, command, phase, flags, bad,
                 history, crashes>>

-----------------------------------------------------------------------------
(* delete_session: the file is set aside, the row is deleted, the file is  *)
(* removed.  Fault: it is removed at once.                                 *)

DeleteFault(c) ==
  /\ Idle /\ status[c] # None
  /\ lock' = "delete" /\ target' = c
  /\ store' = IF current = c /\ file[c] = "there" THEN None ELSE store
  /\ file' = [file EXCEPT ![c] = None]
  /\ UNCHANGED <<status, up, current, handles, exiting, phase, flags, bad,
                 history, bounds>>

Delete(c) ==
  /\ Idle /\ status[c] # None
  /\ lock' = "delete" /\ target' = c
  /\ store' = IF current = c /\ file[c] = "there" THEN None ELSE store
  /\ file' = [file EXCEPT ![c] = IF @ = "there" THEN "staged" ELSE @]
  /\ UNCHANGED <<status, up, current, handles, exiting, phase, flags, bad,
                 history, bounds>>

(* The row is deleted.                                                     *)
CommitDelete ==
  /\ lock = "delete"
  /\ status' = [status EXCEPT ![target] = None]
  /\ store' = IF current = target THEN None ELSE store
  /\ current' = IF current = target THEN None ELSE current
  /\ lock' = "remove"
  /\ UNCHANGED <<file, up, handles, target, exiting, phase, flags, bad,
                 history, bounds>>

(* This command has set the file aside, not an earlier one.                *)
SetAside == file[target] = "staged" /\ target \notin broken

(* Fault: the file is not put back.                                        *)
DeleteFailsFault ==
  /\ lock = "delete" /\ CanFail
  /\ failures' = failures + 1
  /\ lock' = None /\ target' = None
  /\ UNCHANGED <<durable, up, opened, handles, exiting, phase, flags, bad,
                 history, crashes>>

(* The file cannot be set aside or the row not be deleted: the file is put *)
(* back and opened again.  When that fails too it stays where it is.       *)
DeleteFails ==
  /\ lock = "delete" /\ CanFail
  /\ \/ /\ failures' = failures + 1
        /\ file' = [file EXCEPT ![target] = IF SetAside THEN "there" ELSE @]
        /\ store' = IF current = target /\ SetAside THEN target ELSE store
        /\ UNCHANGED broken
     \/ /\ SetAside /\ failures + 2 <= MaxFailures
        /\ failures' = failures + 2
        /\ \/ file' = [file EXCEPT ![target] = "there"] /\ UNCHANGED broken
           \/ UNCHANGED file /\ broken' = broken \cup {target}
        /\ UNCHANGED store
  /\ lock' = None /\ target' = None
  /\ UNCHANGED <<status, up, current, handles, exiting, phase, flags, bad,
                 unsaved, clean, crashes>>

(* Removing the file may fail: it stays aside, without a card.             *)
RemoveFile ==
  /\ lock = "remove"
  /\ \/ /\ file' = [file EXCEPT ![target] = IF SetAside THEN None ELSE @]
        /\ UNCHANGED failures
     \/ /\ CanFail /\ failures' = failures + 1
        /\ UNCHANGED file
  /\ lock' = None /\ target' = None
  /\ UNCHANGED <<status, up, opened, handles, exiting, phase, flags, bad,
                 history, crashes>>

-----------------------------------------------------------------------------
(* The process dies.  Its tasks are gone, a transaction is rolled back.    *)
Crash ==
  /\ up /\ crashes < MaxCrashes
  /\ crashes' = crashes + 1
  /\ up' = FALSE /\ clean' = FALSE
  /\ broken' = IF lock = "delete" /\ file[target] = "staged"
               THEN broken \cup {target} ELSE broken
  /\ UNCHANGED <<durable, opened, handles, command, exiting, phase, flags, bad,
                 unsaved, failures>>

(* Fault: a crawl that was starting is not marked.                         *)
MarkInterruptedFault ==
  [c \in Crawls |-> IF status[c] \in LiveStatus \ {"starting"}
                    THEN "interrupted" ELSE status[c]]

(* What setup makes of the cards of crawls the last process left running.  *)
MarkInterrupted ==
  [c \in Crawls |-> IF status[c] \in LiveStatus THEN "interrupted" ELSE status[c]]

Restart ==
  /\ ~up /\ up' = TRUE
  /\ \/ /\ status' = MarkInterrupted
        /\ unsaved' = {}
        /\ UNCHANGED failures
     \/ /\ CanFail /\ failures' = failures + 1
        /\ unsaved' = unsaved \cup {c \in Crawls : status[c] \in LiveStatus}
        /\ UNCHANGED status
  /\ store' = None /\ current' = None
  /\ control' = None /\ handle' = None
  /\ lock' = None /\ target' = None /\ exiting' = FALSE
  /\ phase' = [c \in Crawls |-> None]
  /\ cancelled' = {} /\ paused' = {} /\ bad' = {} /\ clean' = FALSE
  /\ UNCHANGED <<file, broken, crashes>>

-----------------------------------------------------------------------------
Library ==
  \/ \E c \in Crawls :
       \/ \E k \in {"start", "create", "import"} : CreateFile(c, k)
       \/ RegisterFile(c) \/ Open(c) \/ Delete(c)
  \/ ResumeSaved \/ ResumeFails \/ StartRefused \/ Pause \/ Resume \/ Stop \/ Quit

CommandStep ==
  \/ CreateRow \/ CreateFails \/ UndoRow \/ UndoFile \/ StopReturns \/ Exit \/ ExitFails
  \/ CommitDelete \/ DeleteFails \/ RemoveFile

Task(c) == up /\ (Progress(c) \/ Return(c) \/ Settle(c) \/ EndTask(c))

Next ==
  \/ Library
  \/ up /\ CommandStep
  \/ \E c \in Crawls : Task(c)
  \/ Crash \/ Restart

Spec == Init /\ [][Next]_vars

(* Commands go on; the crawl ends once cancelled (StopEnds of              *)
(* CrawlScheduler), its last write and its automation end.                 *)
Ending(c) ==
  up /\ ((c \in cancelled /\ Return(c)) \/ Settle(c) \/ EndTask(c))

FairSpec ==
  Spec /\ WF_vars(up /\ CommandStep) /\ \A c \in Crawls : WF_vars(Ending(c))

-----------------------------------------------------------------------------
(* Properties.                                                             *)

(* The values the variables take.                                          *)
TypeOK ==
  /\ status \in [Crawls -> {None, "ready", "starting", "running", "stopped",
                            "finished", "failed", "interrupted", "imported",
                            "unknown"}]
  /\ file \in [Crawls -> {None, "there", "staged"}]
  /\ up \in BOOLEAN /\ exiting \in BOOLEAN /\ clean \in BOOLEAN
  /\ {store, current, control, handle, target} \subseteq Crawls \cup {None}
  /\ lock \in {None, "start", "create", "import", "undo", "discard", "stop",
               "quit", "delete", "remove"}
  /\ phase \in [Crawls -> {None, "running", "returned", "automation"}]
  /\ {cancelled, paused, bad, unsaved, broken} \subseteq SUBSET Crawls
  /\ failures \in 0..MaxFailures /\ crashes \in 0..MaxCrashes

(* At most one crawl runs, and while it runs (its automation included)     *)
(* nothing closes, replaces or deletes the database it writes to: the      *)
(* interface shows that crawl and no other.                                *)
OneCrawl ==
  up => \A c \in Crawls : Alive(c) =>
          /\ \A d \in Crawls \ {c} : ~Alive(d)
          /\ store = c /\ current = c
          /\ status[c] # None /\ file[c] = "there"
          /\ c \in {handle, target}

(* History never stays running (the comment in start_crawl): unless a      *)
(* write of its card failed, a card says that its crawl runs only when it  *)
(* does, or when the process has died and not been started again.          *)
HistorySettles ==
  (up \/ clean) =>
    \A c \in Crawls : status[c] \in LiveStatus => Alive(c) \/ c \in unsaved

(* A crawl that failed, panicked or could not save its progress is never   *)
(* shown as finished or stopped once its task is over.                     *)
FailureShown ==
  up => \A c \in bad : ~Alive(c) /\ status[c] # None =>
          status[c] \notin {"finished", "stopped"} \/ c \in unsaved

(* Creating and deleting are all or nothing: a card without its file is    *)
(* left only by a crash in a deletion, or when undoing a failed step fails *)
(* too.                                                                    *)
CardHasData ==
  \A c \in Crawls : status[c] # None =>
    file[c] = "there" \/ c \in broken \/ (lock = "delete" /\ target = c)

(* Data is destroyed only after the deletion of its card was committed.    *)
(* A database that a failed creation takes back while its card stays has   *)
(* nothing in it yet.                                                      *)
DataOutlivesCard ==
  [][\A c \in Crawls : file[c] # None /\ file'[c] = None =>
       status[c] = None \/ (lock = "discard" /\ target = c)]_vars

(* Between two commands the open database is that of the current card; it  *)
(* takes two failures, of a delete and of what puts its file back, to lose *)
(* it, and even then no other crawl is shown.                              *)
StoreIsCurrent ==
  up /\ lock = None => store = current \/ (store = None /\ failures >= 2)

(* Once Quit has confirmed the exit, no crawl runs and none starts.        *)
ExitIsQuiet == up /\ exiting => \A c \in Crawls : ~Alive(c)

(* Stop and Quit return, also for a crawl that is paused.                  *)
StopsReturn == (up /\ lock \in {"stop", "quit"}) ~> (~up \/ lock = None)
=============================================================================
