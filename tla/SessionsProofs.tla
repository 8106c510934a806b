--------------------------- MODULE SessionsProofs ---------------------------
(***************************************************************************)
(* That one crawl at a time owns the open database, and that Quit is       *)
(* quiet, for every library, number of failures and crashes.               *)
(***************************************************************************)
EXTENDS Sessions, TLAPS

USE DEF None

(* A crawl that lives is the one whose handle is kept, or the one Stop or  *)
(* Quit waits for; while any other command holds the lock none lives.      *)
Owner ==
  up => \A c \in Crawls : Alive(c) =>
          \/ lock = None /\ handle = c
          \/ lock \in {"stop", "quit"} /\ target = c

(* What a command has established when it goes on.                         *)
Held ==
  /\ lock \in {"start", "create", "import"} =>
       target \in Crawls /\ file[target] = "there" /\ status[target] = None
  /\ lock \in {"undo", "discard"} => target \in Crawls /\ file[target] = "there"
  /\ lock = "delete" => target \in Crawls
                      /\ (file[target] = "staged" \/ target \in broken)
  /\ lock = "remove" => target \in Crawls /\ status[target] = None
  /\ exiting => lock \in {None, "stop", "quit"}

(* A task that has returned without its card telling so has failed, and is *)
(* settled before its automation; a failure then shows.                    *)
Outcomes ==
  \A c \in Crawls :
    /\ phase[c] = "returned" /\ status[c] \in LiveStatus => c \in bad
    /\ phase[c] = "automation" /\ status[c] \in LiveStatus => c \in unsaved
    /\ phase[c] \in {None, "automation"} /\ c \in bad =>
         status[c] \notin {"finished", "stopped"} \/ c \in unsaved

(* What was cut short has left no file, and a crash has cut a deletion     *)
(* short.                                                                  *)
Files ==
  /\ \A c \in broken : file[c] # "there"
  /\ ~up /\ lock = "delete" => target \in broken

(* The open database is that of the current card, but while this card is   *)
(* being deleted or after two failures.                                    *)
Opened ==
  up => \/ store = current
        \/ /\ store = None
           /\ failures >= 2 \/ (lock = "delete" /\ current = target /\ SetAside)

IInv ==
  /\ TypeOK /\ Owner /\ Held /\ Outcomes /\ Files /\ Opened
  /\ OneCrawl /\ ExitIsQuiet /\ HistorySettles /\ CardHasData

-----------------------------------------------------------------------------
(* ensure_idle does what its name says.                                    *)
LEMMA IdleIsQuiet ==
  ASSUME IInv, Idle
  PROVE  \A c \in Crawls : ~Alive(c)
  BY SessionsAssumption DEF IInv, Owner, Idle

(* A command that changes the library holds a lock under which no crawl    *)
(* lives.                                                                  *)
LEMMA LockIsQuiet ==
  ASSUME IInv, up, lock \notin {None, "stop", "quit"}
  PROVE  \A c \in Crawls : ~Alive(c)
  BY DEF IInv, Owner

(* When no crawl lives and none is spawned, nothing is claimed of crawls.  *)
LEMMA QuietKeeps ==
  ASSUME \A c \in Crawls : ~Alive(c), UNCHANGED phase
  PROVE  Owner' /\ OneCrawl' /\ ExitIsQuiet'
  BY DEF Owner, OneCrawl, ExitIsQuiet, Alive

(* The file of a new card.                                                 *)
LEMMA CreateFileKeeps ==
  ASSUME IInv, NEW d \in Crawls,
         NEW k \in {"start", "create", "import"}, CreateFile(d, k)
  PROVE  IInv'
<1>1. \A c \in Crawls : ~Alive(c)
  BY IdleIsQuiet DEF CreateFile
<1>2. Owner' /\ OneCrawl' /\ ExitIsQuiet'
  BY <1>1, QuietKeeps DEF CreateFile
<1>3. TypeOK'
  BY SessionsAssumption
     DEF IInv, TypeOK, Held, opened, handles, flags, bounds, Idle,
         CreateFile
<1>4. Held'
  BY DEF IInv, TypeOK, Held, CardHasData, opened, handles, flags,
         bounds, Idle, CreateFile
<1>5. Outcomes'
  BY <1>1
     DEF IInv, TypeOK, Outcomes, LiveStatus, Alive, opened,
         handles, flags, bounds, Idle, CreateFile
<1>6. Files'
  BY DEF IInv, TypeOK, Files, Held, opened, handles, flags, bounds,
         Idle, CreateFile
<1>7. Opened'
  BY SessionsAssumption
     DEF IInv, TypeOK, Opened, SetAside, Held, Files, opened,
         handles, flags, bounds, Idle, CreateFile
<1>8. HistorySettles'
  BY <1>1
     DEF IInv, TypeOK, HistorySettles, Alive, LiveStatus, Outcomes,
         opened, handles, flags, bounds, Idle, CreateFile
<1>9. CardHasData'
  BY DEF IInv, TypeOK, CardHasData, Held, Files, opened, handles,
         flags, bounds, Idle, CreateFile
<1> QED BY <1>2, <1>3, <1>4, <1>5, <1>6, <1>7, <1>8, <1>9 DEF IInv

(* A file without a card is registered.                                    *)
LEMMA RegisterFileKeeps ==
  ASSUME IInv, NEW d \in Crawls, RegisterFile(d)
  PROVE  IInv'
<1>1. \A c \in Crawls : ~Alive(c)
  BY IdleIsQuiet DEF RegisterFile
<1>2. Owner' /\ OneCrawl' /\ ExitIsQuiet'
  BY <1>1, QuietKeeps DEF RegisterFile
<1>3. TypeOK'
  BY SessionsAssumption
     DEF IInv, TypeOK, Held, handles, command, flags, history,
         bounds, Idle, RegisterFile
<1>4. Held'
  BY DEF IInv, TypeOK, Held, CardHasData, handles, command, flags,
         history, bounds, Idle, RegisterFile
<1>5. Outcomes'
  BY <1>1
     DEF IInv, TypeOK, Outcomes, LiveStatus, Alive, handles,
         command, flags, history, bounds, Idle, RegisterFile
<1>6. Opened'
  BY SessionsAssumption
     DEF IInv, TypeOK, Opened, SetAside, Held, Files, handles,
         command, flags, history, bounds, Idle, RegisterFile
<1>7. HistorySettles'
  BY <1>1
     DEF IInv, TypeOK, HistorySettles, Alive, LiveStatus, Outcomes,
         handles, command, flags, history, bounds, Idle,
         RegisterFile
<1>8. CardHasData'
  BY DEF IInv, TypeOK, CardHasData, Held, Files, handles, command,
         flags, history, bounds, Idle, RegisterFile
<1>9. Files'
  BY DEF IInv, Files, handles, command, flags, history, bounds,
         Idle, RegisterFile
<1> QED BY <1>2, <1>3, <1>4, <1>5, <1>6, <1>7, <1>8, <1>9 DEF IInv

(* A saved crawl is opened.                                                *)
LEMMA OpenKeeps ==
  ASSUME IInv, NEW d \in Crawls, Open(d)
  PROVE  IInv'
<1>1. \A c \in Crawls : ~Alive(c)
  BY IdleIsQuiet DEF Open
<1>2. Owner' /\ OneCrawl' /\ ExitIsQuiet'
  BY <1>1, QuietKeeps DEF Open
<1>3. TypeOK'
  BY SessionsAssumption
     DEF IInv, TypeOK, Held, durable, handles, command, flags,
         history, bounds, Idle, Open
<1>4. Opened'
  BY SessionsAssumption
     DEF IInv, TypeOK, Opened, SetAside, Held, Files, durable,
         handles, command, flags, history, bounds, Idle, Open
<1>5. Held' /\ Outcomes' /\ Files' /\ HistorySettles' /\ CardHasData'
  BY DEF IInv, Held, Outcomes, LiveStatus, Files, HistorySettles,
         Alive, CardHasData, durable, handles, command, flags,
         history, bounds, Idle, Open
<1> QED BY <1>2, <1>3, <1>4, <1>5 DEF IInv

(* The file of a card is set aside.                                        *)
LEMMA DeleteKeeps ==
  ASSUME IInv, NEW d \in Crawls, Delete(d)
  PROVE  IInv'
<1>1. \A c \in Crawls : ~Alive(c)
  BY IdleIsQuiet DEF Delete
<1>2. Owner' /\ OneCrawl' /\ ExitIsQuiet'
  BY <1>1, QuietKeeps DEF Delete
<1>3. TypeOK'
  BY SessionsAssumption
     DEF IInv, TypeOK, Held, handles, flags, history, bounds, Idle,
         Delete
<1>4. Held'
  BY DEF IInv, TypeOK, Held, CardHasData, handles, flags, history,
         bounds, Idle, Delete
<1>5. Files'
  BY DEF IInv, TypeOK, Files, Held, handles, flags, history,
         bounds, Idle, Delete
<1>6. Opened'
  BY SessionsAssumption
     DEF IInv, TypeOK, Opened, SetAside, Held, Files, handles,
         flags, history, bounds, Idle, Delete
<1>7. CardHasData'
  BY DEF IInv, TypeOK, CardHasData, Held, Files, handles, flags,
         history, bounds, Idle, Delete
<1>8. Outcomes' /\ HistorySettles'
  BY DEF IInv, Outcomes, LiveStatus, HistorySettles, Alive,
         handles, flags, history, bounds, Idle, Delete
<1> QED BY <1>2, <1>3, <1>4, <1>5, <1>6, <1>7, <1>8 DEF IInv

(* A resume that fails after its card was written.                         *)
LEMMA ResumeFailsKeeps ==
  ASSUME IInv, ResumeFails
  PROVE  IInv'
<1>1. \A c \in Crawls : ~Alive(c)
  BY IdleIsQuiet DEF ResumeFails
<1>2. Owner' /\ OneCrawl' /\ ExitIsQuiet'
  BY <1>1, QuietKeeps DEF ResumeFails
<1>3. TypeOK'
  BY SessionsAssumption
     DEF IInv, TypeOK, Held, CanFail, opened, command, flags, Idle,
         ResumeFails
<1>4. Held'
  BY DEF IInv, TypeOK, Held, CardHasData, CanFail, opened, command,
         flags, Idle, ResumeFails
<1>5. Outcomes'
  BY <1>1
     DEF IInv, TypeOK, Outcomes, LiveStatus, Alive, CanFail,
         opened, command, flags, Idle, ResumeFails
<1>6. Opened'
  BY SessionsAssumption
     DEF IInv, TypeOK, Opened, SetAside, Held, Files, CanFail,
         opened, command, flags, Idle, ResumeFails
<1>7. HistorySettles'
  BY <1>1
     DEF IInv, TypeOK, HistorySettles, Alive, LiveStatus, Outcomes,
         CanFail, opened, command, flags, Idle, ResumeFails
<1>8. CardHasData'
  BY DEF IInv, TypeOK, CardHasData, Held, Files, CanFail, opened,
         command, flags, Idle, ResumeFails
<1>9. Files'
  BY DEF IInv, Files, CanFail, opened, command, flags, Idle,
         ResumeFails
<1> QED BY <1>2, <1>3, <1>4, <1>5, <1>6, <1>7, <1>8, <1>9 DEF IInv

(* A refused start.                                                        *)
LEMMA StartRefusedKeeps ==
  ASSUME IInv, StartRefused
  PROVE  IInv'
<1>1. \A c \in Crawls : ~Alive(c)
  BY IdleIsQuiet DEF StartRefused
<1>2. Owner' /\ OneCrawl' /\ ExitIsQuiet'
  BY <1>1, QuietKeeps DEF StartRefused
<1>3. TypeOK'
  BY SessionsAssumption
     DEF IInv, TypeOK, Held, durable, opened, command, flags,
         history, bounds, Idle, StartRefused
<1>4. Held' /\ Outcomes' /\ Files' /\ Opened' /\ HistorySettles' /\ CardHasData'
  BY DEF IInv, Held, Outcomes, LiveStatus, Files, Opened, SetAside,
         HistorySettles, Alive, CardHasData, durable, opened,
         command, flags, history, bounds, Idle, StartRefused
<1> QED BY <1>2, <1>3, <1>4 DEF IInv

(* A card that cannot be created; its row and its file are taken back.     *)
LEMMA CreateFailsKeeps ==
  ASSUME IInv, up, CreateFails
  PROVE  IInv'
<1>1. \A c \in Crawls : ~Alive(c)
  BY LockIsQuiet DEF CreateFails
<1>2. Owner' /\ OneCrawl' /\ ExitIsQuiet'
  BY <1>1, QuietKeeps DEF CreateFails
<1>3. TypeOK'
  BY SessionsAssumption
     DEF IInv, TypeOK, Held, CanFail, opened, handles, flags, NewStatus,
         CreateFails
<1>4. Held'
  BY DEF IInv, TypeOK, Held, CardHasData, CanFail, opened, handles,
         flags, NewStatus, CreateFails
<1>5. Outcomes'
  BY <1>1
     DEF IInv, TypeOK, Held, Outcomes, LiveStatus, Alive, CanFail,
         opened, handles, flags, NewStatus, CreateFails
<1>6. Files'
  BY DEF IInv, TypeOK, Files, Held, CanFail, opened, handles,
         flags, NewStatus, CreateFails
<1>7. Opened'
  BY SessionsAssumption
     DEF IInv, TypeOK, Opened, SetAside, Held, Files, CanFail,
         opened, handles, flags, NewStatus, CreateFails
<1>8. HistorySettles'
  BY <1>1
     DEF IInv, TypeOK, Held, HistorySettles, Alive, LiveStatus, Outcomes,
         CanFail, opened, handles, flags, NewStatus, CreateFails
<1>9. CardHasData'
  BY DEF IInv, TypeOK, CardHasData, Held, Files, CanFail, opened,
         handles, flags, NewStatus, CreateFails
<1> QED BY <1>2, <1>3, <1>4, <1>5, <1>6, <1>7, <1>8, <1>9 DEF IInv

LEMMA UndoRowKeeps ==
  ASSUME IInv, up, UndoRow
  PROVE  IInv'
<1>1. \A c \in Crawls : ~Alive(c)
  BY LockIsQuiet DEF UndoRow
<1>2. Owner' /\ OneCrawl' /\ ExitIsQuiet'
  BY <1>1, QuietKeeps DEF UndoRow
<1>3. TypeOK'
  BY SessionsAssumption
     DEF IInv, TypeOK, Held, CanFail, opened, handles, flags,
         UndoRow
<1>4. Held'
  BY DEF IInv, TypeOK, Held, CardHasData, CanFail, opened, handles,
         flags, UndoRow
<1>5. Outcomes'
  BY <1>1
     DEF IInv, TypeOK, Held, Outcomes, LiveStatus, Alive, CanFail,
         opened, handles, flags, UndoRow
<1>6. Files'
  BY DEF IInv, TypeOK, Files, Held, CanFail, opened, handles,
         flags, UndoRow
<1>7. Opened'
  BY SessionsAssumption
     DEF IInv, TypeOK, Opened, SetAside, Held, Files, CanFail,
         opened, handles, flags, UndoRow
<1>8. HistorySettles'
  BY <1>1
     DEF IInv, TypeOK, Held, HistorySettles, Alive, LiveStatus, Outcomes,
         CanFail, opened, handles, flags, UndoRow
<1>9. CardHasData'
  BY DEF IInv, TypeOK, CardHasData, Held, Files, CanFail, opened,
         handles, flags, UndoRow
<1> QED BY <1>2, <1>3, <1>4, <1>5, <1>6, <1>7, <1>8, <1>9 DEF IInv

LEMMA UndoFileKeeps ==
  ASSUME IInv, up, UndoFile
  PROVE  IInv'
<1>1. \A c \in Crawls : ~Alive(c)
  BY LockIsQuiet DEF UndoFile
<1>2. Owner' /\ OneCrawl' /\ ExitIsQuiet'
  BY <1>1, QuietKeeps DEF UndoFile
<1>3. TypeOK'
  BY SessionsAssumption
     DEF IInv, TypeOK, Held, CanFail, opened, handles, flags,
         UndoFile
<1>4. Held'
  BY DEF IInv, TypeOK, Held, CardHasData, CanFail, opened, handles,
         flags, UndoFile
<1>5. Outcomes'
  BY <1>1
     DEF IInv, TypeOK, Held, Outcomes, LiveStatus, Alive, CanFail,
         opened, handles, flags, UndoFile
<1>6. Files'
  BY DEF IInv, TypeOK, Files, Held, CanFail, opened, handles,
         flags, UndoFile
<1>7. Opened'
  BY SessionsAssumption
     DEF IInv, TypeOK, Opened, SetAside, Held, Files, CanFail,
         opened, handles, flags, UndoFile
<1>8. HistorySettles'
  BY <1>1
     DEF IInv, TypeOK, Held, HistorySettles, Alive, LiveStatus, Outcomes,
         CanFail, opened, handles, flags, UndoFile
<1>9. CardHasData'
  BY DEF IInv, TypeOK, CardHasData, Held, Files, CanFail, opened,
         handles, flags, UndoFile
<1> QED BY <1>2, <1>3, <1>4, <1>5, <1>6, <1>7, <1>8, <1>9 DEF IInv

(* The card is deleted.                                                    *)
LEMMA CommitDeleteKeeps ==
  ASSUME IInv, up, CommitDelete
  PROVE  IInv'
<1>1. \A c \in Crawls : ~Alive(c)
  BY LockIsQuiet DEF CommitDelete
<1>2. Owner' /\ OneCrawl' /\ ExitIsQuiet'
  BY <1>1, QuietKeeps DEF CommitDelete
<1>3. TypeOK'
  BY SessionsAssumption
     DEF IInv, TypeOK, Held, handles, flags, history, bounds,
         CommitDelete
<1>4. Held'
  BY DEF IInv, TypeOK, Held, CardHasData, handles, flags, history,
         bounds, CommitDelete
<1>5. Outcomes'
  BY <1>1
     DEF IInv, TypeOK, Outcomes, LiveStatus, Alive, handles, flags,
         history, bounds, CommitDelete
<1>6. Files'
  BY DEF IInv, TypeOK, Files, Held, handles, flags, history,
         bounds, CommitDelete
<1>7. Opened'
  BY SessionsAssumption
     DEF IInv, TypeOK, Opened, SetAside, Held, Files, handles,
         flags, history, bounds, CommitDelete
<1>8. HistorySettles'
  BY <1>1
     DEF IInv, TypeOK, HistorySettles, Alive, LiveStatus, Outcomes,
         handles, flags, history, bounds, CommitDelete
<1>9. CardHasData'
  BY DEF IInv, TypeOK, CardHasData, Held, Files, handles, flags,
         history, bounds, CommitDelete
<1> QED BY <1>2, <1>3, <1>4, <1>5, <1>6, <1>7, <1>8, <1>9 DEF IInv

(* A deletion is undone.                                                   *)
LEMMA DeleteFailsKeeps ==
  ASSUME IInv, up, DeleteFails
  PROVE  IInv'
<1>1. \A c \in Crawls : ~Alive(c)
  BY LockIsQuiet DEF DeleteFails
<1>2. Owner' /\ OneCrawl' /\ ExitIsQuiet'
  BY <1>1, QuietKeeps DEF DeleteFails
<1>3. TypeOK'
  BY SessionsAssumption
     DEF IInv, TypeOK, Held, CanFail, handles, flags, SetAside,
         DeleteFails
<1>4. Held'
  BY DEF IInv, TypeOK, Held, CardHasData, CanFail, handles, flags,
         SetAside, DeleteFails
<1>5. Files'
  BY DEF IInv, TypeOK, Files, Held, CanFail, handles, flags,
         SetAside, DeleteFails
<1>6. Opened'
  BY SessionsAssumption
     DEF IInv, TypeOK, Opened, SetAside, Held, Files, CanFail,
         handles, flags, SetAside, DeleteFails
<1>7. CardHasData'
  BY DEF IInv, TypeOK, CardHasData, Held, Files, CanFail, handles,
         flags, SetAside, DeleteFails
<1>8. Outcomes' /\ HistorySettles'
  BY DEF IInv, Outcomes, LiveStatus, HistorySettles, Alive,
         CanFail, handles, flags, SetAside, DeleteFails
<1> QED BY <1>2, <1>3, <1>4, <1>5, <1>6, <1>7, <1>8 DEF IInv

(* The file of a deleted card is removed.                                  *)
LEMMA RemoveFileKeeps ==
  ASSUME IInv, up, RemoveFile
  PROVE  IInv'
<1>1. \A c \in Crawls : ~Alive(c)
  BY LockIsQuiet DEF RemoveFile
<1>2. Owner' /\ OneCrawl' /\ ExitIsQuiet'
  BY <1>1, QuietKeeps DEF RemoveFile
<1>3. TypeOK'
  BY SessionsAssumption
     DEF IInv, TypeOK, Held, CanFail, opened, handles, flags,
         history, SetAside, RemoveFile
<1>4. Held'
  BY DEF IInv, TypeOK, Held, CardHasData, CanFail, opened, handles,
         flags, history, SetAside, RemoveFile
<1>5. Files'
  BY DEF IInv, TypeOK, Files, Held, CanFail, opened, handles,
         flags, history, SetAside, RemoveFile
<1>6. Opened'
  BY SessionsAssumption
     DEF IInv, TypeOK, Opened, SetAside, Held, Files, CanFail,
         opened, handles, flags, history, SetAside, RemoveFile
<1>7. CardHasData'
  BY DEF IInv, TypeOK, CardHasData, Held, Files, CanFail, opened,
         handles, flags, history, SetAside, RemoveFile
<1>8. Outcomes' /\ HistorySettles'
  BY DEF IInv, Outcomes, LiveStatus, HistorySettles, Alive,
         CanFail, opened, handles, flags, history, SetAside,
         RemoveFile
<1> QED BY <1>2, <1>3, <1>4, <1>5, <1>6, <1>7, <1>8 DEF IInv

(* Pause.                                                                  *)
LEMMA PauseKeeps ==
  ASSUME IInv, Pause
  PROVE  IInv'
<1>1. TypeOK'
  BY SessionsAssumption
     DEF IInv, TypeOK, Held, durable, opened, handles, command,
         history, bounds, Pause
<1>2. Owner' /\ Held' /\ Outcomes' /\ Files' /\ Opened' /\ OneCrawl' /\ ExitIsQuiet' /\ HistorySettles' /\ CardHasData'
  BY DEF IInv, Owner, Alive, Held, Outcomes, LiveStatus, Files,
         Opened, SetAside, OneCrawl, ExitIsQuiet, HistorySettles,
         CardHasData, durable, opened, handles, command, history,
         bounds, Pause
<1> QED BY <1>1, <1>2 DEF IInv

(* Resume.                                                                 *)
LEMMA ResumeKeeps ==
  ASSUME IInv, Resume
  PROVE  IInv'
<1>1. TypeOK'
  BY SessionsAssumption
     DEF IInv, TypeOK, Held, durable, opened, handles, command,
         history, bounds, Resume
<1>2. Owner' /\ Held' /\ Outcomes' /\ Files' /\ Opened' /\ OneCrawl' /\ ExitIsQuiet' /\ HistorySettles' /\ CardHasData'
  BY DEF IInv, Owner, Alive, Held, Outcomes, LiveStatus, Files,
         Opened, SetAside, OneCrawl, ExitIsQuiet, HistorySettles,
         CardHasData, durable, opened, handles, command, history,
         bounds, Resume
<1> QED BY <1>1, <1>2 DEF IInv

(* Stop.                                                                   *)
LEMMA StopKeeps ==
  ASSUME IInv, Stop
  PROVE  IInv'
<1>1. TypeOK'
  BY SessionsAssumption
     DEF IInv, TypeOK, Held, durable, opened, history, bounds,
         StopActiveCrawl, Stop
<1>2. Owner'
  BY SessionsAssumption
     DEF IInv, TypeOK, Owner, Alive, ExitIsQuiet, durable, opened,
         history, bounds, StopActiveCrawl, Stop
<1>3. Held'
  BY DEF IInv, TypeOK, Held, CardHasData, Owner, Alive, durable,
         opened, history, bounds, StopActiveCrawl, Stop
<1>4. Files'
  BY DEF IInv, TypeOK, Files, Held, durable, opened, history,
         bounds, StopActiveCrawl, Stop
<1>5. Opened'
  BY SessionsAssumption
     DEF IInv, TypeOK, Opened, SetAside, Held, Files, durable,
         opened, history, bounds, StopActiveCrawl, Stop
<1>6. OneCrawl'
  BY SessionsAssumption
     DEF IInv, TypeOK, OneCrawl, Alive, Owner, Held, durable,
         opened, history, bounds, StopActiveCrawl, Stop
<1>7. CardHasData'
  BY DEF IInv, TypeOK, CardHasData, Held, Files, durable, opened,
         history, bounds, StopActiveCrawl, Stop
<1>8. Outcomes' /\ ExitIsQuiet' /\ HistorySettles'
  BY DEF IInv, Outcomes, LiveStatus, ExitIsQuiet, Alive,
         HistorySettles, durable, opened, history, bounds,
         StopActiveCrawl, Stop
<1> QED BY <1>1, <1>2, <1>3, <1>4, <1>5, <1>6, <1>7, <1>8 DEF IInv

(* Quit.                                                                   *)
LEMMA QuitKeeps ==
  ASSUME IInv, Quit
  PROVE  IInv'
<1>1. TypeOK'
  BY SessionsAssumption
     DEF IInv, TypeOK, Held, durable, opened, history, bounds,
         StopActiveCrawl, Quit
<1>2. Owner'
  BY SessionsAssumption
     DEF IInv, TypeOK, Owner, Alive, ExitIsQuiet, durable, opened,
         history, bounds, StopActiveCrawl, Quit
<1>3. Held'
  BY DEF IInv, TypeOK, Held, CardHasData, Owner, Alive, durable,
         opened, history, bounds, StopActiveCrawl, Quit
<1>4. Files'
  BY DEF IInv, TypeOK, Files, Held, durable, opened, history,
         bounds, StopActiveCrawl, Quit
<1>5. Opened'
  BY SessionsAssumption
     DEF IInv, TypeOK, Opened, SetAside, Held, Files, durable,
         opened, history, bounds, StopActiveCrawl, Quit
<1>6. OneCrawl'
  BY SessionsAssumption
     DEF IInv, TypeOK, OneCrawl, Alive, Owner, Held, durable,
         opened, history, bounds, StopActiveCrawl, Quit
<1>7. CardHasData'
  BY DEF IInv, TypeOK, CardHasData, Held, Files, durable, opened,
         history, bounds, StopActiveCrawl, Quit
<1>8. Outcomes' /\ ExitIsQuiet' /\ HistorySettles'
  BY DEF IInv, Outcomes, LiveStatus, ExitIsQuiet, Alive,
         HistorySettles, durable, opened, history, bounds,
         StopActiveCrawl, Quit
<1> QED BY <1>1, <1>2, <1>3, <1>4, <1>5, <1>6, <1>7, <1>8 DEF IInv

(* Stop and Quit return.                                                   *)
LEMMA StopReturnsKeeps ==
  ASSUME IInv, up, StopReturns
  PROVE  IInv'
<1>1. TypeOK'
  <2>1. exiting' \in BOOLEAN
    BY DEF IInv, TypeOK, StopReturns
  <2>2. failures' \in 0..MaxFailures
    BY SessionsAssumption DEF IInv, TypeOK, CanFail, StopReturns
  <2>3. /\ lock' = None /\ target' = None
        /\ UNCHANGED <<durable, up, opened, handles, phase, flags, bad, history,
                       crashes>>
    BY DEF StopReturns
  <2> QED BY <2>1, <2>2, <2>3
          DEF IInv, TypeOK, durable, opened, handles, flags, history
<1>2. Owner'
  BY SessionsAssumption
     DEF IInv, TypeOK, Owner, Alive, ExitIsQuiet, CanFail, durable,
         opened, handles, flags, history, StopReturns
<1>3. Held'
  BY DEF IInv, TypeOK, Held, CardHasData, Owner, Alive, CanFail,
         durable, opened, handles, flags, history, StopReturns
<1>4. Files'
  BY DEF IInv, TypeOK, Files, Held, CanFail, durable, opened,
         handles, flags, history, StopReturns
<1>5. Opened'
  BY SessionsAssumption
     DEF IInv, TypeOK, Opened, SetAside, Held, Files, CanFail,
         durable, opened, handles, flags, history, StopReturns
<1>6. OneCrawl'
  BY SessionsAssumption
     DEF IInv, TypeOK, OneCrawl, Alive, Owner, Held, CanFail,
         durable, opened, handles, flags, history, StopReturns
<1>7. ExitIsQuiet'
  BY SessionsAssumption
     DEF IInv, TypeOK, ExitIsQuiet, Alive, Owner, Held, CanFail,
         durable, opened, handles, flags, history, StopReturns
<1>8. CardHasData'
  BY DEF IInv, TypeOK, CardHasData, Held, Files, CanFail, durable,
         opened, handles, flags, history, StopReturns
<1>9. Outcomes' /\ HistorySettles'
  BY DEF IInv, Outcomes, LiveStatus, HistorySettles, Alive,
         CanFail, durable, opened, handles, flags, history,
         StopReturns
<1> QED BY <1>1, <1>2, <1>3, <1>4, <1>5, <1>6, <1>7, <1>8, <1>9 DEF IInv

(* The process exits.                                                      *)
LEMMA ExitKeeps ==
  ASSUME IInv, Exit
  PROVE  IInv'
<1>1. TypeOK'
  BY SessionsAssumption
     DEF IInv, TypeOK, Held, durable, opened, handles, command,
         flags, bounds, Exit
<1>2. Owner'
  BY SessionsAssumption
     DEF IInv, TypeOK, Owner, Alive, ExitIsQuiet, durable, opened,
         handles, command, flags, bounds, Exit
<1>3. Files'
  BY DEF IInv, TypeOK, Files, Held, durable, opened, handles,
         command, flags, bounds, Exit
<1>4. Opened'
  BY SessionsAssumption
     DEF IInv, TypeOK, Opened, SetAside, Held, Files, durable,
         opened, handles, command, flags, bounds, Exit
<1>5. OneCrawl'
  BY SessionsAssumption
     DEF IInv, TypeOK, OneCrawl, Alive, Owner, Held, durable,
         opened, handles, command, flags, bounds, Exit
<1>6. ExitIsQuiet'
  BY SessionsAssumption
     DEF IInv, TypeOK, ExitIsQuiet, Alive, Owner, Held, durable,
         opened, handles, command, flags, bounds, Exit
<1>7. HistorySettles'
  BY DEF IInv, TypeOK, HistorySettles, Alive, LiveStatus, Outcomes,
         Owner, ExitIsQuiet, Held, durable, opened, handles,
         command, flags, bounds, Exit
<1>8. Held' /\ Outcomes' /\ CardHasData'
  BY DEF IInv, Held, Outcomes, LiveStatus, CardHasData, durable,
         opened, handles, command, flags, bounds, Exit
<1> QED BY <1>1, <1>2, <1>3, <1>4, <1>5, <1>6, <1>7, <1>8 DEF IInv

(* The exit fails.                                                         *)
LEMMA ExitFailsKeeps ==
  ASSUME IInv, ExitFails
  PROVE  IInv'
<1>1. TypeOK'
  <2>1. failures' \in 0..MaxFailures
    BY SessionsAssumption DEF IInv, TypeOK, CanFail, ExitFails
  <2>2. /\ exiting' = FALSE
        /\ UNCHANGED <<durable, up, opened, handles, command, phase, flags, bad,
                       history, crashes>>
    BY DEF ExitFails
  <2> QED BY <2>1, <2>2
          DEF IInv, TypeOK, durable, opened, handles, command, flags, history
<1>2. Held'
  BY DEF IInv, TypeOK, Held, CardHasData, Owner, Alive, CanFail,
         durable, opened, handles, command, flags, history,
         ExitFails
<1>3. Opened'
  BY SessionsAssumption
     DEF IInv, TypeOK, Opened, SetAside, Held, Files, CanFail,
         durable, opened, handles, command, flags, history,
         ExitFails
<1>4. ExitIsQuiet'
  BY SessionsAssumption
     DEF IInv, TypeOK, ExitIsQuiet, Alive, Owner, Held, CanFail,
         durable, opened, handles, command, flags, history,
         ExitFails
<1>5. Owner' /\ Outcomes' /\ Files' /\ OneCrawl' /\ HistorySettles' /\ CardHasData'
  BY DEF IInv, Owner, Alive, Outcomes, LiveStatus, Files, OneCrawl,
         HistorySettles, CardHasData, CanFail, durable, opened,
         handles, command, flags, history, ExitFails
<1> QED BY <1>1, <1>2, <1>3, <1>4, <1>5 DEF IInv

(* The crawl saves its progress.                                           *)
LEMMA ProgressKeeps ==
  ASSUME IInv, NEW d \in Crawls, up, Progress(d)
  PROVE  IInv'
<1>1. TypeOK'
  BY SessionsAssumption
     DEF IInv, TypeOK, Held, CanFail, opened, handles, command,
         history, SaveProgress, Progress
<1>2. Held'
  BY DEF IInv, TypeOK, Held, CardHasData, Owner, Alive, CanFail,
         opened, handles, command, history, SaveProgress, Progress
<1>3. Outcomes'
  BY DEF IInv, TypeOK, Outcomes, LiveStatus, Alive, Owner,
         OneCrawl, CanFail, opened, handles, command, history,
         SaveProgress, Progress
<1>4. Opened'
  BY SessionsAssumption
     DEF IInv, TypeOK, Opened, SetAside, Held, Files, CanFail,
         opened, handles, command, history, SaveProgress, Progress
<1>5. OneCrawl'
  BY SessionsAssumption
     DEF IInv, TypeOK, OneCrawl, Alive, Owner, Held, CanFail,
         opened, handles, command, history, SaveProgress, Progress
<1>6. HistorySettles'
  BY DEF IInv, TypeOK, HistorySettles, Alive, LiveStatus, Outcomes,
         Owner, ExitIsQuiet, Held, CanFail, opened, handles,
         command, history, SaveProgress, Progress
<1>7. CardHasData'
  BY DEF IInv, TypeOK, CardHasData, OneCrawl, Alive, CanFail,
         opened, handles, command, history, SaveProgress, Progress
<1>8. Owner' /\ Files' /\ ExitIsQuiet'
  BY DEF IInv, Owner, Alive, Files, ExitIsQuiet, CanFail, opened,
         handles, command, history, SaveProgress, Progress
<1> QED BY <1>1, <1>2, <1>3, <1>4, <1>5, <1>6, <1>7, <1>8 DEF IInv

(* The crawl returns.                                                      *)
LEMMA ReturnKeeps ==
  ASSUME IInv, NEW d \in Crawls, up, Return(d)
  PROVE  IInv'
<1>1. TypeOK'
  BY SessionsAssumption
     DEF IInv, TypeOK, Held, CanFail, opened, handles, command,
         history, SaveProgress, Return
<1>2. Owner'
  BY SessionsAssumption
     DEF IInv, TypeOK, Owner, Alive, ExitIsQuiet, CanFail, opened,
         handles, command, history, SaveProgress, Return
<1>3. Held'
  BY DEF IInv, TypeOK, Held, CardHasData, Owner, Alive, CanFail,
         opened, handles, command, history, SaveProgress, Return
<1>4. Outcomes'
  BY DEF IInv, TypeOK, Outcomes, LiveStatus, Alive, Owner,
         OneCrawl, CanFail, opened, handles, command, history,
         SaveProgress, Return
<1>5. Opened'
  BY SessionsAssumption
     DEF IInv, TypeOK, Opened, SetAside, Held, Files, CanFail,
         opened, handles, command, history, SaveProgress, Return
<1>6. OneCrawl'
  BY SessionsAssumption
     DEF IInv, TypeOK, OneCrawl, Alive, Owner, Held, CanFail,
         opened, handles, command, history, SaveProgress, Return
<1>7. ExitIsQuiet'
  BY SessionsAssumption
     DEF IInv, TypeOK, ExitIsQuiet, Alive, Owner, Held, CanFail,
         opened, handles, command, history, SaveProgress, Return
<1>8. HistorySettles'
  BY DEF IInv, TypeOK, HistorySettles, Alive, LiveStatus, Outcomes,
         Owner, ExitIsQuiet, Held, CanFail, opened, handles,
         command, history, SaveProgress, Return
<1>9. CardHasData'
  BY DEF IInv, TypeOK, CardHasData, OneCrawl, Alive, CanFail,
         opened, handles, command, history, SaveProgress, Return
<1>10. Files'
  BY DEF IInv, Files, CanFail, opened, handles, command, history,
         SaveProgress, Return
<1> QED BY <1>1, <1>2, <1>3, <1>4, <1>5, <1>6, <1>7, <1>8, <1>9,
           <1>10 DEF IInv

(* Its outcome is settled.                                                 *)
LEMMA SettleKeeps ==
  ASSUME IInv, NEW d \in Crawls, up, Settle(d)
  PROVE  IInv'
<1>1. TypeOK'
  BY SessionsAssumption
     DEF IInv, TypeOK, Held, CanFail, opened, handles, command,
         flags, Settle
<1>2. Owner'
  BY SessionsAssumption
     DEF IInv, TypeOK, Owner, Alive, ExitIsQuiet, CanFail, opened,
         handles, command, flags, Settle
<1>3. Held'
  BY DEF IInv, TypeOK, Held, CardHasData, Owner, Alive, CanFail,
         opened, handles, command, flags, Settle
<1>4. Outcomes'
  BY DEF IInv, TypeOK, Outcomes, LiveStatus, Alive, Owner,
         OneCrawl, CanFail, opened, handles, command, flags, Settle
<1>5. Opened'
  BY SessionsAssumption
     DEF IInv, TypeOK, Opened, SetAside, Held, Files, CanFail,
         opened, handles, command, flags, Settle
<1>6. OneCrawl'
  BY SessionsAssumption
     DEF IInv, TypeOK, OneCrawl, Alive, Owner, Held, CanFail,
         opened, handles, command, flags, Settle
<1>7. ExitIsQuiet'
  BY SessionsAssumption
     DEF IInv, TypeOK, ExitIsQuiet, Alive, Owner, Held, CanFail,
         opened, handles, command, flags, Settle
<1>8. HistorySettles'
  BY DEF IInv, TypeOK, HistorySettles, Alive, LiveStatus, Outcomes,
         Owner, ExitIsQuiet, Held, CanFail, opened, handles,
         command, flags, Settle
<1>9. CardHasData'
  BY DEF IInv, TypeOK, CardHasData, OneCrawl, Alive, CanFail,
         opened, handles, command, flags, Settle
<1>10. Files'
  BY DEF IInv, Files, CanFail, opened, handles, command, flags,
         Settle
<1> QED BY <1>1, <1>2, <1>3, <1>4, <1>5, <1>6, <1>7, <1>8, <1>9,
           <1>10 DEF IInv

(* Its task ends.                                                          *)
LEMMA EndTaskKeeps ==
  ASSUME IInv, NEW d \in Crawls, up, EndTask(d)
  PROVE  IInv'
<1>1. TypeOK'
  BY SessionsAssumption
     DEF IInv, TypeOK, Held, durable, opened, handles, command,
         flags, history, bounds, EndTask
<1>2. Owner'
  BY SessionsAssumption
     DEF IInv, TypeOK, Owner, Alive, ExitIsQuiet, durable, opened,
         handles, command, flags, history, bounds, EndTask
<1>3. Outcomes'
  BY DEF IInv, TypeOK, Outcomes, LiveStatus, Alive, Owner,
         OneCrawl, durable, opened, handles, command, flags,
         history, bounds, EndTask
<1>4. OneCrawl'
  BY SessionsAssumption
     DEF IInv, TypeOK, OneCrawl, Alive, Owner, Held, durable,
         opened, handles, command, flags, history, bounds, EndTask
<1>5. ExitIsQuiet'
  BY SessionsAssumption
     DEF IInv, TypeOK, ExitIsQuiet, Alive, Owner, Held, durable,
         opened, handles, command, flags, history, bounds, EndTask
<1>6. HistorySettles'
  BY DEF IInv, TypeOK, HistorySettles, Alive, LiveStatus, Outcomes,
         Owner, ExitIsQuiet, Held, durable, opened, handles,
         command, flags, history, bounds, EndTask
<1>7. Held' /\ Files' /\ Opened' /\ CardHasData'
  BY DEF IInv, Held, Files, Opened, SetAside, CardHasData, durable,
         opened, handles, command, flags, history, bounds, EndTask
<1> QED BY <1>1, <1>2, <1>3, <1>4, <1>5, <1>6, <1>7 DEF IInv

(* The process dies.                                                       *)
LEMMA CrashKeeps ==
  ASSUME IInv, Crash
  PROVE  IInv'
<1>1. TypeOK'
  <2>1. broken' \in SUBSET Crawls
    BY DEF IInv, TypeOK, Held, Crash
  <2>2. crashes' \in 0..MaxCrashes
    BY SessionsAssumption DEF IInv, TypeOK, Crash
  <2>3. /\ up' = FALSE /\ clean' = FALSE
        /\ UNCHANGED <<durable, opened, handles, command, exiting, phase, flags,
                       bad, unsaved, failures>>
    BY DEF Crash
  <2> QED BY <2>1, <2>2, <2>3
          DEF IInv, TypeOK, durable, opened, handles, command, flags
<1>2. Owner'
  BY SessionsAssumption
     DEF IInv, TypeOK, Owner, Alive, ExitIsQuiet, durable, opened,
         handles, command, flags, Crash
<1>3. Held'
  BY DEF IInv, TypeOK, Held, CardHasData, Owner, Alive, durable,
         opened, handles, command, flags, Crash
<1>4. Files'
  BY DEF IInv, TypeOK, Files, Held, durable, opened, handles,
         command, flags, Crash
<1>5. Opened'
  BY SessionsAssumption
     DEF IInv, TypeOK, Opened, SetAside, Held, Files, durable,
         opened, handles, command, flags, Crash
<1>6. OneCrawl'
  BY SessionsAssumption
     DEF IInv, TypeOK, OneCrawl, Alive, Owner, Held, durable,
         opened, handles, command, flags, Crash
<1>7. ExitIsQuiet'
  BY SessionsAssumption
     DEF IInv, TypeOK, ExitIsQuiet, Alive, Owner, Held, durable,
         opened, handles, command, flags, Crash
<1>8. HistorySettles'
  BY DEF IInv, TypeOK, HistorySettles, Alive, LiveStatus, Outcomes,
         Owner, ExitIsQuiet, Held, durable, opened, handles,
         command, flags, Crash
<1>9. CardHasData'
  BY DEF IInv, TypeOK, CardHasData, Held, Files, durable, opened,
         handles, command, flags, Crash
<1>10. Outcomes'
  BY DEF IInv, Outcomes, LiveStatus, durable, opened, handles,
         command, flags, Crash
<1> QED BY <1>1, <1>2, <1>3, <1>4, <1>5, <1>6, <1>7, <1>8, <1>9,
           <1>10 DEF IInv

(* It starts again.                                                        *)
LEMMA RestartKeeps ==
  ASSUME IInv, Restart
  PROVE  IInv'
<1>1. TypeOK'
  <2>1. status' \in [Crawls -> {None, "ready", "starting", "running", "stopped",
                               "finished", "failed", "interrupted", "imported",
                               "unknown"}]
    BY DEF IInv, TypeOK, Restart, MarkInterrupted
  <2>2. unsaved' \in SUBSET Crawls
    BY DEF IInv, TypeOK, Restart
  <2>3. failures' \in 0..MaxFailures
    BY SessionsAssumption DEF IInv, TypeOK, CanFail, Restart
  <2>4. /\ up' = TRUE /\ exiting' = FALSE /\ clean' = FALSE
        /\ store' = None /\ current' = None /\ control' = None /\ handle' = None
        /\ lock' = None /\ target' = None
        /\ phase' = [c \in Crawls |-> None]
        /\ cancelled' = {} /\ paused' = {} /\ bad' = {}
        /\ UNCHANGED <<file, broken, crashes>>
    BY DEF Restart
  <2> QED BY <2>1, <2>2, <2>3, <2>4 DEF IInv, TypeOK
<1>2. Owner'
  BY SessionsAssumption
     DEF IInv, TypeOK, Owner, Alive, ExitIsQuiet, CanFail,
         MarkInterrupted, Restart
<1>3. Held'
  BY DEF IInv, TypeOK, Held, CardHasData, Owner, Alive, CanFail,
         MarkInterrupted, Restart
<1>4. Outcomes'
  BY DEF IInv, TypeOK, Outcomes, LiveStatus, Alive, Owner,
         OneCrawl, CanFail, MarkInterrupted, Restart
<1>5. Files'
  BY DEF IInv, TypeOK, Files, Held, CanFail, MarkInterrupted,
         Restart
<1>6. Opened'
  BY SessionsAssumption
     DEF IInv, TypeOK, Opened, SetAside, Held, Files, CanFail,
         MarkInterrupted, Restart
<1>7. OneCrawl'
  BY SessionsAssumption
     DEF IInv, TypeOK, OneCrawl, Alive, Owner, Held, CanFail,
         MarkInterrupted, Restart
<1>8. ExitIsQuiet'
  BY SessionsAssumption
     DEF IInv, TypeOK, ExitIsQuiet, Alive, Owner, Held, CanFail,
         MarkInterrupted, Restart
<1>9. HistorySettles'
  BY DEF IInv, TypeOK, HistorySettles, Alive, LiveStatus, Outcomes,
         Owner, ExitIsQuiet, Held, CanFail, MarkInterrupted,
         Restart
<1>10. CardHasData'
  BY DEF IInv, TypeOK, CardHasData, Files, Held, LiveStatus,
         CanFail, MarkInterrupted, Restart
<1> QED BY <1>1, <1>2, <1>3, <1>4, <1>5, <1>6, <1>7, <1>8, <1>9,
           <1>10 DEF IInv

(* A saved crawl is resumed.                                               *)
LEMMA ResumeSavedKeeps ==
  ASSUME IInv, ResumeSaved
  PROVE  IInv'
<1>1. TypeOK'
  BY SessionsAssumption
     DEF IInv, TypeOK, Held, command, bounds, Spawn, Idle,
         ResumeSaved
<1>2. Owner'
  BY SessionsAssumption
     DEF IInv, TypeOK, Owner, Alive, ExitIsQuiet, command, bounds,
         Spawn, Idle, ResumeSaved
<1>3. Held'
  BY DEF IInv, TypeOK, Held, CardHasData, Owner, Alive, command,
         bounds, Spawn, Idle, ResumeSaved
<1>4. Outcomes'
  BY DEF IInv, TypeOK, Outcomes, LiveStatus, Alive, Owner,
         OneCrawl, command, bounds, Spawn, Idle, ResumeSaved
<1>5. Opened'
  BY SessionsAssumption
     DEF IInv, TypeOK, Opened, SetAside, Held, Files, command,
         bounds, Spawn, Idle, ResumeSaved
<1>6. OneCrawl'
  BY SessionsAssumption
     DEF IInv, TypeOK, OneCrawl, Alive, Owner, Held, command,
         bounds, Spawn, Idle, ResumeSaved
<1>7. ExitIsQuiet'
  BY SessionsAssumption
     DEF IInv, TypeOK, ExitIsQuiet, Alive, Owner, Held, command,
         bounds, Spawn, Idle, ResumeSaved
<1>8. HistorySettles'
  BY DEF IInv, TypeOK, HistorySettles, Alive, LiveStatus, Outcomes,
         Owner, ExitIsQuiet, Held, command, bounds, Spawn, Idle,
         ResumeSaved
<1>9. CardHasData'
  BY DEF IInv, TypeOK, CardHasData, Held, Files, command, bounds,
         Spawn, Idle, ResumeSaved
<1>10. Files'
  BY DEF IInv, Files, command, bounds, Spawn, Idle, ResumeSaved
<1> QED BY <1>1, <1>2, <1>3, <1>4, <1>5, <1>6, <1>7, <1>8, <1>9,
           <1>10 DEF IInv

(* The card of a new crawl is written.                                     *)
LEMMA CreateRowKeeps ==
  ASSUME IInv, up, CreateRow
  PROVE  IInv'
<1>1. TypeOK'
  BY SessionsAssumption
     DEF IInv, TypeOK, Held, handles, flags, history, bounds,
         Spawn, NewStatus, CreateRow
<1>2. Owner'
  BY SessionsAssumption
     DEF IInv, TypeOK, Owner, Alive, ExitIsQuiet, handles, flags,
         history, bounds, Spawn, NewStatus, CreateRow
<1>3. Held'
  BY DEF IInv, TypeOK, Held, CardHasData, Owner, Alive, handles,
         flags, history, bounds, Spawn, NewStatus, CreateRow
<1>4. Outcomes'
  BY DEF IInv, TypeOK, Outcomes, LiveStatus, Alive, Owner,
         OneCrawl, handles, flags, history, bounds, Spawn,
         NewStatus, CreateRow
<1>5. Files'
  BY DEF IInv, TypeOK, Files, Held, handles, flags, history,
         bounds, Spawn, NewStatus, CreateRow
<1>6. Opened'
  BY SessionsAssumption
     DEF IInv, TypeOK, Opened, SetAside, Held, Files, handles,
         flags, history, bounds, Spawn, NewStatus, CreateRow
<1>7. OneCrawl'
  BY SessionsAssumption
     DEF IInv, TypeOK, OneCrawl, Alive, Owner, Held, handles,
         flags, history, bounds, Spawn, NewStatus, CreateRow
<1>8. ExitIsQuiet'
  BY SessionsAssumption
     DEF IInv, TypeOK, ExitIsQuiet, Alive, Owner, Held, handles,
         flags, history, bounds, Spawn, NewStatus, CreateRow
<1>9. HistorySettles'
  BY DEF IInv, TypeOK, HistorySettles, Alive, LiveStatus, Outcomes,
         Owner, ExitIsQuiet, Held, handles, flags, history, bounds,
         Spawn, NewStatus, CreateRow
<1>10. CardHasData'
  BY DEF IInv, TypeOK, CardHasData, Held, Files, handles, flags,
         history, bounds, Spawn, NewStatus, CreateRow
<1> QED BY <1>1, <1>2, <1>3, <1>4, <1>5, <1>6, <1>7, <1>8, <1>9,
           <1>10 DEF IInv

-----------------------------------------------------------------------------
(* A new library is empty and nothing runs.                                *)
LEMMA InitHolds == Init => IInv
<1> SUFFICES ASSUME Init PROVE IInv
  OBVIOUS
<1>1. TypeOK
  <2>1. failures \in 0..MaxFailures /\ crashes \in 0..MaxCrashes
    BY SessionsAssumption DEF Init
  <2>2. up \in BOOLEAN /\ exiting \in BOOLEAN /\ clean \in BOOLEAN
    BY DEF Init
  <2> QED BY <2>1, <2>2 DEF Init, TypeOK
<1>2. Owner /\ OneCrawl /\ ExitIsQuiet
  BY DEF Init, Owner, OneCrawl, ExitIsQuiet, Alive
<1>3. Held /\ Outcomes /\ Files /\ Opened
  BY DEF Init, Held, Outcomes, Files, Opened
<1>4. HistorySettles /\ CardHasData
  BY DEF Init, HistorySettles, LiveStatus, CardHasData
<1> QED BY <1>1, <1>2, <1>3, <1>4 DEF IInv

LEMMA StutterKeeps ==
  ASSUME IInv, UNCHANGED vars
  PROVE  IInv'
  BY DEF IInv, TypeOK, Owner, Held, Outcomes, Files, Opened, SetAside,
         OneCrawl, ExitIsQuiet, HistorySettles, CardHasData, Alive, LiveStatus,
         vars, durable, opened, handles, command, flags, history, bounds

(* Every step keeps the invariant.                                         *)
LEMMA NextKeeps ==
  ASSUME IInv, [Next]_vars
  PROVE  IInv'
<1>1. CASE Library
  <2>1. CASE \E d \in Crawls, k \in {"start", "create", "import"} :
               CreateFile(d, k)
    BY <2>1, CreateFileKeeps
  <2>2. CASE \E d \in Crawls : RegisterFile(d) \/ Open(d) \/ Delete(d)
    BY <2>2, RegisterFileKeeps, OpenKeeps, DeleteKeeps
  <2>3. CASE ResumeSaved \/ ResumeFails \/ StartRefused
    BY <2>3, ResumeSavedKeeps, ResumeFailsKeeps, StartRefusedKeeps
  <2>4. CASE Pause \/ Resume \/ Stop \/ Quit
    BY <2>4, PauseKeeps, ResumeKeeps, StopKeeps, QuitKeeps
  <2> QED BY <1>1, <2>1, <2>2, <2>3, <2>4 DEF Library
<1>2. CASE up /\ CommandStep
  <2>1. CASE CreateRow \/ CreateFails \/ UndoRow \/ UndoFile
    BY <1>2, <2>1, CreateRowKeeps, CreateFailsKeeps, UndoRowKeeps, UndoFileKeeps
  <2>2. CASE CommitDelete \/ DeleteFails \/ RemoveFile
    BY <1>2, <2>2, CommitDeleteKeeps, DeleteFailsKeeps, RemoveFileKeeps
  <2>3. CASE StopReturns \/ Exit \/ ExitFails
    BY <1>2, <2>3, StopReturnsKeeps, ExitKeeps, ExitFailsKeeps
  <2> QED BY <1>2, <2>1, <2>2, <2>3 DEF CommandStep
<1>3. CASE \E d \in Crawls : Task(d)
  BY <1>3, ProgressKeeps, ReturnKeeps, SettleKeeps, EndTaskKeeps DEF Task
<1>4. CASE Crash \/ Restart
  BY <1>4, CrashKeeps, RestartKeeps
<1>5. CASE UNCHANGED vars
  BY <1>5, StutterKeeps
<1> QED BY <1>1, <1>2, <1>3, <1>4, <1>5 DEF Next

LEMMA Invariance == Spec => []IInv
<1>1. IInv /\ [Next]_vars => IInv'
  BY NextKeeps
<1> QED BY <1>1, InitHolds, PTL DEF Spec

-----------------------------------------------------------------------------
(* Every variable keeps its type.                                          *)
THEOREM TypeCorrect == Spec => []TypeOK
<1>1. IInv => TypeOK
  BY DEF IInv
<1> QED BY <1>1, Invariance, PTL

(* At most one crawl runs, on the open database, which no command closes,  *)
(* replaces or deletes under it.                                           *)
THEOREM OneCrawlOnly == Spec => []OneCrawl
<1>1. IInv => OneCrawl
  BY DEF IInv
<1> QED BY <1>1, Invariance, PTL

(* Unless its last write failed, a card says that its crawl runs only when *)
(* it does.                                                                *)
THEOREM HistoryTells == Spec => []HistorySettles
<1>1. IInv => HistorySettles
  BY DEF IInv
<1> QED BY <1>1, Invariance, PTL

(* A failed crawl is never shown as finished or stopped.                   *)
THEOREM FailuresShow == Spec => []FailureShown
<1>1. IInv => FailureShown
  BY DEF IInv, TypeOK, Outcomes, FailureShown, Alive
<1> QED BY <1>1, Invariance, PTL

(* A card has its file, unless undoing a failed step failed too or a crash *)
(* cut a deletion short.                                                   *)
THEOREM CardsKeepData == Spec => []CardHasData
<1>1. IInv => CardHasData
  BY DEF IInv
<1> QED BY <1>1, Invariance, PTL

(* Between two commands the open database is that of the current card.     *)
THEOREM StoreFollows == Spec => []StoreIsCurrent
<1>1. IInv => StoreIsCurrent
  BY DEF IInv, Opened, StoreIsCurrent
<1> QED BY <1>1, Invariance, PTL

(* Once Quit has confirmed the exit no crawl runs and none starts.         *)
THEOREM QuitIsQuiet == Spec => []ExitIsQuiet
<1>1. IInv => ExitIsQuiet
  BY DEF IInv
<1> QED BY <1>1, Invariance, PTL

(* No step destroys the file of a crawl that has a card, but for the empty *)
(* one of a card that could neither be created nor taken back.             *)
THEOREM DataGoesLast == Spec => DataOutlivesCard
<1> DEFINE Lasts ==
             \A c \in Crawls : file[c] # None /\ file'[c] = None =>
               status[c] = None \/ (lock = "discard" /\ target = c)
<1>1. IInv /\ [Next]_vars => [Lasts]_vars
  <2> SUFFICES ASSUME IInv, Next
               PROVE  Lasts
    OBVIOUS
  <2>1. CASE UndoFile
    BY <2>1 DEF UndoFile, IInv, TypeOK, Held
  <2>2. CASE RemoveFile
    BY <2>2 DEF RemoveFile, IInv, TypeOK, Held
  <2>3. CASE DeleteFails
    BY <2>3 DEF DeleteFails, IInv, TypeOK, Held
  <2>4. CASE \E d \in Crawls, k \in {"start", "create", "import"} :
               CreateFile(d, k)
    BY <2>4 DEF CreateFile, IInv, TypeOK
  <2>5. CASE \E d \in Crawls : Delete(d)
    BY <2>5 DEF Delete, IInv, TypeOK
  <2>6. CASE UNCHANGED file
    BY <2>6 DEF IInv, TypeOK
  <2>7. \/ UndoFile \/ RemoveFile \/ DeleteFails \/ UNCHANGED file
        \/ \E d \in Crawls, k \in {"start", "create", "import"} : CreateFile(d, k)
        \/ \E d \in Crawls : Delete(d)
    BY DEF Next, Library, CommandStep, Task, durable, SaveProgress, Spawn,
           StopActiveCrawl, RegisterFile, Open, ResumeSaved, ResumeFails,
           StartRefused, Pause, Resume, Stop, Quit, CreateRow, CreateFails,
           UndoRow, StopReturns,
           Exit, ExitFails, CommitDelete, Progress, Return, Settle, EndTask,
           Crash, Restart
  <2> QED BY <2>1, <2>2, <2>3, <2>4, <2>5, <2>6, <2>7
<1> QED BY <1>1, Invariance, PTL DEF Spec, DataOutlivesCard
=============================================================================
