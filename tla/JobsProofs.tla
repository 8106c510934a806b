----------------------------- MODULE JobsProofs -----------------------------
(***************************************************************************)
(* What the long commands promise, proved for any number of measurements,  *)
(* comparisons, versions, findings and deaths of the process: a cancelled  *)
(* measurement saves nothing, only the comparison that was asked for last  *)
(* appears, a report describes one state of its crawl, and a generation of *)
(* explanations shows what was spent on it.                                *)
(*                                                                         *)
(* And what these commands read of a running crawl: the summary of the     *)
(* records is repaired soundly, and what a call answers is true of the     *)
(* table, for any number of records, keys, writers, failures and calls.    *)
(***************************************************************************)
EXTENDS ReportAi, SummaryCache, SeqLemmas

USE DEF None

-----------------------------------------------------------------------------
(* The measurement.                                                        *)

MeasurementStates ==
  {None, "begun", "next", "fetching", "answered", "saving", "returned"}

\* A row is in hand.
Working == {"fetching", "answered", "saving"}

SpeedTypes ==
  /\ active \in Measurements \cup {None}
  /\ stopped \in BOOLEAN
  /\ early \in Seq(Measurements) /\ IsInjective(early)
  /\ measurement \in MeasurementStates
  /\ batch \in [kind : {"single", "bulk", "field"}, row : 0..BulkLimit]
  /\ used \subseteq Measurements
  /\ kept \subseteq Measurements \X BulkRows /\ saved \subseteq used \X BulkRows

(* The slot names the measurement that runs, which began.                  *)
Slot ==
  /\ active = None <=> measurement = None
  /\ active # None => active \in used
  /\ measurement \in Working => batch.row # 0

(* No row is saved before its turn, nor the row in hand before it saves.   *)
Unsaved ==
  active # None =>
    \A r \in BulkRows :
      r > batch.row \/ (r = batch.row /\ measurement \in Working) => <<active, r>> \notin saved

(* A cancellation is either remembered for a measurement that has not      *)
(* begun or has set the flag of the one that runs.  It never means the row *)
(* that is in hand.                                                        *)
Remembered ==
  /\ \A id \in Measurements \ used, r \in BulkRows : <<id, r>> \in kept => id \in ToSet(early)
  /\ active # None /\ ~stopped => \A r \in BulkRows : <<active, r>> \notin kept
  /\ InHand \cap kept = {}

SpeedInv == SpeedTypes /\ Slot /\ Unsaved /\ Remembered /\ CancelIsKept

speedAll == <<active, stopped, early, measurement, batch, used, kept, saved>>

LEMMA ToSetIsRange == \A s : ToSet(s) = Range(s)
BY DEF ToSet, Range

(* The list without an identifier holds the others, once each.             *)
LEMMA WithoutRange ==
  ASSUME NEW q \in Seq(Measurements), IsInjective(q), NEW id
  PROVE  /\ Without(q, id) \in Seq(Measurements)
         /\ Range(Without(q, id)) = Range(q) \ {id}
         /\ IsInjective(Without(q, id))
<1>1. CASE id \in ToSet(q)
  <2> DEFINE k == CHOOSE i \in DOMAIN q : q[i] = id
  <2>1. k \in DOMAIN q /\ q[k] = id
    BY <1>1 DEF ToSet
  <2>2. k \in 1..Len(q)
    BY <2>1, RangeDef
  <2>3. Without(q, id) = RemoveAt(q, k)
    BY <1>1 DEF Without
  <2> HIDE DEF k
  <2> QED BY <2>1, <2>2, <2>3, RemoveAtRange
<1>2. CASE id \notin ToSet(q)
  BY <1>2, ToSetIsRange DEF Without
<1> QED BY <1>1, <1>2

(* The last identifier cancelled early is remembered.                      *)
LEMMA RememberRange ==
  ASSUME NEW id \in Measurements, early \in Seq(Measurements), IsInjective(early)
  PROVE  /\ Remember(id) \in Seq(Measurements)
         /\ IsInjective(Remember(id))
         /\ id \in ToSet(Remember(id))
<1> DEFINE others == Without(early, id)
           rest == IF Len(others) = PreCancelLimit THEN Tail(others) ELSE others
<1>1. /\ others \in Seq(Measurements) /\ IsInjective(others)
      /\ id \notin Range(others)
  BY WithoutRange
<1> HIDE DEF others
<1>2. others # <<>> \/ Len(others) # PreCancelLimit
  BY JobsAssumption, EmptySeq
<1>3. /\ rest \in Seq(Measurements) /\ IsInjective(rest)
      /\ id \notin Range(rest)
  <2>1. CASE Len(others) = PreCancelLimit
    BY <2>1, <1>1, <1>2, TailRange
  <2>2. CASE Len(others) # PreCancelLimit
    BY <2>2, <1>1
  <2> QED BY <2>1, <2>2
<1> HIDE DEF rest
<1>4. <<id>> \in Seq(Measurements) /\ Range(<<id>>) = {id} /\ IsInjective(<<id>>)
  BY DEF Range, IsInjective
<1>5. Remember(id) = rest \o <<id>>
  <2>1. Remember(id) = Append(rest, id)
    BY DEF Remember, others, rest
  <2> QED BY <2>1, <1>3, AppendIsConcat
<1> DEFINE one == <<id>>
<1>6. one \in Seq(Measurements) /\ Range(one) = {id} /\ IsInjective(one)
  BY <1>4
<1>7. Remember(id) = rest \o one
  BY <1>5
<1> HIDE DEF one
<1>8. /\ rest \o one \in Seq(Measurements)
      /\ Range(rest \o one) = Range(rest) \cup Range(one)
      /\ IsInjective(rest \o one)
  BY <1>3, <1>6, ConcatRange
<1> QED BY <1>6, <1>7, <1>8, ToSetIsRange

LEMMA NoBatchIs == NoBatch \in [kind : {"single", "bulk", "field"}, row : 0..BulkLimit]
<1>1. 0 \in 0..BulkLimit
  BY JobsAssumption
<1> QED BY <1>1 DEF NoBatch

(* The invariant speaks of nothing else.                                   *)
LEMMA SpeedUntouched ==
  ASSUME SpeedInv, UNCHANGED speedAll
  PROVE  SpeedInv'
<1>1. SpeedTypes'
  BY DEF SpeedInv, SpeedTypes, speedAll
<1>2. Slot' /\ Unsaved' /\ Remembered' /\ CancelIsKept'
  BY DEF SpeedInv, Slot, Unsaved, Remembered, InHand, Working, CancelIsKept, speedAll
<1> QED BY <1>1, <1>2 DEF SpeedInv

LEMMA SpeedInit == Init => SpeedInv
<1> SUFFICES ASSUME Init PROVE SpeedInv
  OBVIOUS
<1>1. SpeedTypes
  BY EmptyRange, NoBatchIs DEF Init, SpeedTypes, MeasurementStates
<1>2. Slot /\ Unsaved /\ Remembered /\ CancelIsKept
  BY DEF Init, Slot, Unsaved, Remembered, InHand, Working, CancelIsKept
<1> QED BY <1>1, <1>2 DEF SpeedInv

LEMMA BeginMeasurementKeeps ==
  ASSUME SpeedInv, NEW id \in Measurements, BeginMeasurement(id)
  PROVE  SpeedInv'
<1> USE DEF SpeedInv
<1>1. /\ early' \in Seq(Measurements) /\ IsInjective(early')
      /\ ToSet(early') = ToSet(early) \ {id}
  BY WithoutRange, ToSetIsRange DEF SpeedTypes, BeginMeasurement
<1>2. id \notin used /\ used' = used \cup {id} /\ kept' = kept /\ saved' = saved
  BY DEF BeginMeasurement
<1>3. id # None
  BY JobsAssumption
<1>4. /\ \A r \in BulkRows : <<id, r>> \notin saved
      /\ id \notin ToSet(early) => \A r \in BulkRows : <<id, r>> \notin kept
  BY <1>2 DEF Remembered, SpeedTypes
<1>5. CancelIsKept'
  BY <1>2 DEF CancelIsKept
<1>6. \A other \in Measurements \ used', r \in BulkRows :
        <<other, r>> \in kept' => other \in ToSet(early')
  BY <1>1, <1>2 DEF Remembered
<1>7. CASE active = None /\ id \notin ToSet(early)
  <2>1. /\ active' = id /\ stopped' = FALSE /\ measurement' = "begun"
        /\ batch' \in [kind : {"single", "bulk", "field"}, row : {0}]
    BY <1>7 DEF BeginMeasurement
  <2>2. SpeedTypes'
    <3>1. batch' \in [kind : {"single", "bulk", "field"}, row : 0..BulkLimit]
      BY <2>1, JobsAssumption
    <3> QED BY <1>1, <1>2, <2>1, <3>1 DEF SpeedTypes, MeasurementStates
  <2>3. Slot' /\ Unsaved'
    BY <1>2, <1>3, <1>4, <2>1 DEF Slot, Unsaved, Working
  <2>4. Remembered'
    BY <1>2, <1>4, <1>6, <1>7, <2>1 DEF Remembered, InHand
  <2> QED BY <2>2, <2>3, <2>4, <1>5
<1>8. CASE active # None \/ id \in ToSet(early)
  <2>1. UNCHANGED <<active, stopped, measurement, batch>>
    BY <1>8 DEF BeginMeasurement
  <2>2. SpeedTypes'
    BY <1>1, <1>2, <2>1 DEF SpeedTypes
  <2>3. Slot' /\ Unsaved'
    BY <1>2, <2>1 DEF Slot, Unsaved
  <2>4. Remembered'
    BY <1>2, <1>6, <2>1 DEF Remembered, InHand
  <2> QED BY <2>2, <2>3, <2>4, <1>5
<1> QED BY <1>7, <1>8

(* What a cancellation of the active measurement adds.                     *)
LEMMA PreventableIs ==
  ASSUME SpeedInv, active # None
  PROVE  /\ Preventable \subseteq Measurements \X BulkRows
         /\ Preventable \cap saved = {} /\ Preventable \cap InHand = {}
         /\ \A pair \in Preventable : pair[1] = active
BY DEF SpeedInv, SpeedTypes, Preventable

(* The flag is set and the rest is what could be prevented.                *)
LEMMA StoppedKeeps ==
  ASSUME SpeedInv, active # None, stopped' = TRUE, kept' = kept \cup Preventable,
         UNCHANGED <<active, early, measurement, batch, used, saved>>
  PROVE  SpeedInv'
<1> USE DEF SpeedInv
<1>1. active \in used
  BY DEF Slot
<1>2. InHand' = InHand
  BY DEF InHand
<1>3. SpeedTypes'
  BY PreventableIs DEF SpeedTypes
<1>4. Slot' /\ Unsaved'
  BY DEF Slot, Unsaved
<1>5. Remembered'
  <2>1. \A id \in Measurements \ used, r \in BulkRows :
          <<id, r>> \in kept' => <<id, r>> \in kept
    BY PreventableIs, <1>1
  <2>2. InHand' \cap kept' = {}
    BY PreventableIs, <1>2 DEF Remembered
  <2> QED BY <2>1, <2>2 DEF Remembered
<1>6. CancelIsKept'
  BY PreventableIs DEF CancelIsKept
<1> QED BY <1>3, <1>4, <1>5, <1>6

LEMMA CancelKeeps ==
  ASSUME SpeedInv, NEW id \in Measurements, Cancel(id)
  PROVE  SpeedInv'
<1> USE DEF SpeedInv
<1>1. UNCHANGED <<active, measurement, batch, used, saved>> /\ id # None
  BY JobsAssumption DEF Cancel
<1>2. CASE active = id
  BY <1>1, <1>2, StoppedKeeps DEF Cancel
<1>3. CASE active # id
  <2>1. /\ early' = Remember(id) /\ stopped' = stopped
        /\ kept' = (kept \ ((ToSet(early) \ ToSet(early')) \X BulkRows))
                     \cup (({id} \ used) \X BulkRows)
    BY <1>3 DEF Cancel
  <2>2. early' \in Seq(Measurements) /\ IsInjective(early') /\ id \in ToSet(early')
    BY <2>1, RememberRange DEF SpeedTypes
  <2>3. /\ kept' \subseteq Measurements \X BulkRows
        /\ \A other \in used, r \in BulkRows : <<other, r>> \in kept' => <<other, r>> \in kept
        /\ \A other \in Measurements \ used, r \in BulkRows :
             <<other, r>> \in kept' =>
               \/ other = id
               \/ <<other, r>> \in kept /\ (other \in ToSet(early) => other \in ToSet(early'))
    <3> DEFINE forgotten == ToSet(early) \ ToSet(early')
    <3>1. kept' = (kept \ (forgotten \X BulkRows)) \cup (({id} \ used) \X BulkRows)
      BY <2>1
    <3>2. \A other \in Measurements, r \in BulkRows :
            <<other, r>> \in kept' <=>
              \/ <<other, r>> \in kept /\ other \notin forgotten
              \/ other = id /\ id \notin used
      <4> HIDE DEF forgotten
      <4> QED BY <3>1
    <3>3. kept' \subseteq Measurements \X BulkRows
      <4> HIDE DEF forgotten
      <4> QED BY <3>1 DEF SpeedTypes
    <3> QED BY <3>2, <3>3 DEF SpeedTypes
  <2>4. SpeedTypes' /\ Slot' /\ Unsaved'
    BY <1>1, <2>1, <2>2, <2>3 DEF SpeedTypes, Slot, Unsaved
  <2>5. Remembered'
    <3>1. \A other \in Measurements \ used, r \in BulkRows :
            <<other, r>> \in kept' => other \in ToSet(early')
      BY <2>2, <2>3 DEF Remembered
    <3>2. active # None => \A r \in BulkRows : <<active, r>> \in kept' => <<active, r>> \in kept
      BY <2>3 DEF Slot
    <3>3. InHand' = InHand /\ InHand \subseteq {active} \X {batch.row}
      BY <1>1 DEF InHand
    <3>4. InHand # {} => active # None
      BY DEF InHand, Slot
    <3>5. InHand' \cap kept' = {}
      BY <2>3, <3>2, <3>3, <3>4 DEF Remembered
    <3> QED BY <1>1, <2>1, <3>1, <3>2, <3>5 DEF Remembered
  <2>6. CancelIsKept'
    BY <1>1, <2>3 DEF CancelIsKept, SpeedTypes
  <2> QED BY <2>4, <2>5, <2>6
<1> QED BY <1>2, <1>3

(* A step of the measurement that saves nothing and begins nothing: the    *)
(* row in hand is one that nobody has cancelled.                           *)
LEMMA MeasuringKeeps ==
  ASSUME SpeedInv, UNCHANGED <<active, stopped, early, speedHistory>>, active # None,
         measurement' \in MeasurementStates \ {None},
         batch' \in [kind : {"single", "bulk", "field"}, row : 0..BulkLimit],
         \/ batch'.row > batch.row
         \/ batch'.row = batch.row /\ measurement' \in {"next", "returned"}
         \/ batch'.row = batch.row /\ measurement \in Working,
         InHand' \subseteq InHand \/ ~stopped
  PROVE  SpeedInv'
<1> USE DEF SpeedInv
<1>1. SpeedTypes'
  BY DEF SpeedTypes, speedHistory
<1>2. CancelIsKept'
  BY DEF CancelIsKept, speedHistory
<1>3. Slot' /\ Unsaved'
  <2>1. batch.row \in Nat /\ batch'.row \in Nat /\ \A r \in BulkRows : r \in Nat
    BY JobsAssumption DEF SpeedTypes, BulkRows
  <2>2. Slot'
    BY <2>1 DEF Slot, Working, speedHistory
  <2>3. Unsaved'
    BY <2>1 DEF Unsaved, Working, speedHistory
  <2> QED BY <2>2, <2>3
<1>4. Remembered'
  <2>1. InHand' \cap kept = {}
    <3>1. CASE InHand' \subseteq InHand
      BY <3>1 DEF Remembered
    <3>2. CASE ~stopped
      <4>1. InHand' = {} \/ (InHand' = {<<active, batch'.row>>} /\ batch'.row \in BulkRows)
        BY <1>3, JobsAssumption DEF InHand, Slot, Working, BulkRows
      <4> QED BY <3>2, <4>1 DEF Remembered
    <3> QED BY <3>1, <3>2
  <2> QED BY <2>1 DEF Remembered, speedHistory
<1> QED BY <1>1, <1>2, <1>3, <1>4

LEMMA SaveSnapshotKeeps ==
  ASSUME SpeedInv, SaveSnapshot
  PROVE  SpeedInv'
<1> USE DEF SpeedInv
<1>1. /\ UNCHANGED <<active, stopped, early, batch, used, kept>>
      /\ saved' \in {saved, saved \cup {<<active, batch.row>>}}
      /\ measurement = "saving" /\ measurement' \in {"next", "returned"}
  BY DEF SaveSnapshot, GiveUp, MeasuresOn
<1>2. active # None /\ active \in used
  BY <1>1 DEF Slot
<1>3. InHand = {<<active, batch.row>>} /\ InHand' = {}
  BY <1>1 DEF InHand
<1>4. batch.row \in BulkRows
  BY <1>1, JobsAssumption DEF Slot, Working, SpeedTypes, BulkRows
<1>5. SpeedTypes' /\ Slot'
  BY <1>1, <1>2, <1>4 DEF SpeedTypes, Slot, Working, MeasurementStates
<1>6. Unsaved'
  BY <1>1, <1>2, JobsAssumption DEF Unsaved, Working, BulkRows, SpeedTypes
<1>7. Remembered' /\ CancelIsKept'
  BY <1>1, <1>3 DEF Remembered, CancelIsKept
<1> QED BY <1>5, <1>6, <1>7

LEMMA MeasurementKeeps ==
  ASSUME SpeedInv, MeasurementStep
  PROVE  SpeedInv'
<1> USE DEF SpeedInv
<1>1. measurement # None => active # None
  BY DEF Slot
<1>2. CASE TakeLock
  <2>1. /\ UNCHANGED <<active, stopped, early, batch, speedHistory>>
        /\ measurement # None /\ measurement' \in {"next", "returned"} /\ InHand' = {}
    BY <1>2 DEF TakeLock, GiveUp, InHand
  <2> QED BY <1>1, <2>1, MeasuringKeeps DEF MeasurementStates, SpeedTypes
<1>3. CASE NextRow
  <2>1. /\ UNCHANGED <<active, stopped, early, speedHistory>> /\ measurement # None
        /\ measurement' \in {"fetching", "returned"} /\ InHand' = {}
    BY <1>3 DEF NextRow, GiveUp, MeasuresOn, InHand
  <2>2. CASE batch' = batch /\ measurement' = "returned"
    BY <1>1, <2>1, <2>2, MeasuringKeeps DEF MeasurementStates, SpeedTypes
  <2>3. ASSUME NEW r \in RowsOf(batch.kind), r > batch.row, batch' = [batch EXCEPT !.row = r]
        PROVE  SpeedInv'
    <3>1. /\ batch' \in [kind : {"single", "bulk", "field"}, row : 0..BulkLimit]
          /\ batch'.row > batch.row
      BY <2>3, JobsAssumption DEF SpeedTypes, RowsOf, BulkRows
    <3> QED BY <1>1, <2>1, <3>1, MeasuringKeeps DEF MeasurementStates
  <2> QED BY <1>3, <2>2, <2>3 DEF NextRow, GiveUp
<1>4. CASE FetchEnds
  <2>1. /\ UNCHANGED <<active, stopped, early, batch, speedHistory>>
        /\ measurement = "fetching"
        /\ measurement' \in {"answered", "next", "returned"}
        /\ measurement' \in {"next", "returned"} \/ ~stopped
    BY <1>4 DEF FetchEnds, GiveUp, MeasuresOn
  <2>2. InHand' = {} \/ ~stopped
    BY <2>1 DEF InHand
  <2> QED BY <1>1, <2>1, <2>2, MeasuringKeeps DEF MeasurementStates, SpeedTypes, Working
<1>5. CASE CheckCancelled
  <2>1. /\ UNCHANGED <<active, stopped, early, batch, speedHistory>>
        /\ measurement = "answered" /\ measurement' \in {"saving", "returned"}
        /\ measurement' = "returned" \/ ~stopped \/ batch.kind = "bulk"
    BY <1>5 DEF CheckCancelled, GiveUp, MeasuresOn
  <2>2. InHand' \subseteq InHand \/ ~stopped
    BY <2>1 DEF InHand
  <2> QED BY <1>1, <2>1, <2>2, MeasuringKeeps DEF MeasurementStates, SpeedTypes, Working
<1>6. CASE SaveSnapshot
  BY <1>6, SaveSnapshotKeeps
<1>7. CASE LeaveSlot
  <2>1. /\ measurement' = None /\ active' = None /\ batch' = NoBatch
        /\ UNCHANGED <<stopped, early, used, kept, saved>>
    BY <1>7 DEF LeaveSlot, speedHistory
  <2>2. SpeedTypes'
    BY <2>1, NoBatchIs DEF SpeedTypes, MeasurementStates
  <2>3. Slot' /\ Unsaved' /\ Remembered' /\ CancelIsKept'
    BY <2>1 DEF Slot, Unsaved, Remembered, InHand, Working, CancelIsKept
  <2> QED BY <2>2, <2>3
<1> QED BY <1>2, <1>3, <1>4, <1>5, <1>6, <1>7 DEF MeasurementStep

LEMMA BeginQuitKeepsSpeed ==
  ASSUME SpeedInv, BeginQuit
  PROVE  SpeedInv'
<1>1. /\ UNCHANGED <<used, saved, early, active, measurement, batch>>
      /\ stopped' = (stopped \/ active # None)
      /\ kept' = IF active = None THEN kept ELSE kept \cup Preventable
  BY DEF BeginQuit, QuitUnchanged
<1>2. CASE active # None
  BY <1>1, <1>2, StoppedKeeps
<1>3. CASE active = None
  <2>1. stopped' = stopped
    BY <1>1, <1>3 DEF SpeedInv, SpeedTypes
  <2> QED BY <1>1, <1>3, <2>1, SpeedUntouched DEF speedAll
<1> QED BY <1>2, <1>3

LEMMA SpeedStep ==
  ASSUME SpeedInv, [Next]_vars
  PROVE  SpeedInv'
<1>1. CASE Crawling
  <2>1. UNCHANGED speedAll
    BY <1>1 DEF Crawling, StartCrawl, CrawlWrites, CrawlSettles, CrawlReturns, CrawlEnds,
        StopCrawl, StopReturns, BeginMerge, EndMerge, CrawlUnchanged, speedVars, speedHistory,
        speedAll
  <2> QED BY <2>1, SpeedUntouched
<1>2. CASE MeasurementStep
  BY <1>2, MeasurementKeeps
<1>3. ASSUME NEW id \in Measurements, BeginMeasurement(id) \/ Cancel(id) PROVE SpeedInv'
  BY <1>3, BeginMeasurementKeeps, CancelKeeps
<1>4. CASE BeginJob \/ CancelReport \/ QueryLibrary \/ ReportStep
  <2>1. UNCHANGED speedAll
    BY <1>4 DEF BeginJob, CancelReport, QueryLibrary, ReportStep, ActiveSource, LockFiles,
        ReadCard, ReadRevision, CopyAndBuild, CheckSource, EndJob, ReportUnchanged, speedVars,
        speedHistory, speedAll
  <2> QED BY <2>1, SpeedUntouched
<1>5. CASE ComparisonStep \/ CloseComparison \/ \E id \in Comparisons : Reserve(id)
  <2>1. UNCHANGED speedAll
    BY <1>5 DEF ComparisonStep, LockSources, BuildEnds, Publish, CloseComparison, Reserve,
        CompareUnchanged, speedVars, speedHistory, speedAll
  <2> QED BY <2>1, SpeedUntouched
<1>6. CASE BeginQuit
  BY <1>6, BeginQuitKeepsSpeed
<1>7. CASE QuitStep
  <2>1. UNCHANGED speedAll
    BY <1>7 DEF QuitStep, QuitLocks, ExitConfirmed, QuitFails, AskReports, Notified,
        QuitUnchanged, speedAll
  <2> QED BY <2>1, SpeedUntouched
<1>8. CASE UNCHANGED vars
  BY <1>8, SpeedUntouched DEF vars, speedVars, speedHistory, speedAll
<1> QED BY <1>1, <1>2, <1>3, <1>4, <1>5, <1>6, <1>7, <1>8 DEF Next

(* A cancelled measurement saves nothing, for any number of measurements   *)
(* and of remembered cancellations (PageSpeedState).                       *)
THEOREM CancellationsAreKept == Spec => []CancelIsKept
<1>1. SpeedInv => CancelIsKept
  BY DEF SpeedInv
<1> QED BY SpeedInit, SpeedStep, <1>1, PTL DEF Spec

-----------------------------------------------------------------------------
(* The comparison.                                                         *)

CompareTypes ==
  /\ shown \in [id : Comparisons \cup {None}, generation : 0..MaxComparisons,
               workspace : 0..MaxComparisons]
  /\ preparing \in [Generations -> [id : Comparisons \cup {None},
                                   at : {None, "waiting", "building", "built"}]]

(* A preparation keeps the identifier it was reserved under.               *)
Reserved == \A g \in Generations : preparing[g].at # None => preparing[g].id # None

CompareInv == CompareTypes /\ Reserved /\ ComparisonIsCurrent

LEMMA CompareInit == Init => CompareInv
BY JobsAssumption
   DEF Init, CompareInv, CompareTypes, Reserved, ComparisonIsCurrent, Generations

LEMMA ClosedIsCurrent ==
  ASSUME CompareTypes
  PROVE  /\ Closed \in [id : Comparisons \cup {None}, generation : 0..MaxComparisons,
                        workspace : 0..MaxComparisons]
         /\ Closed.workspace = 0
BY JobsAssumption DEF CompareTypes, Closed

LEMMA GoneKeeps ==
  ASSUME CompareInv, NEW g \in Generations, Gone(g),
         \/ shown' = shown
         \/ shown' = Closed
         \/ IsCurrent(g) /\ preparing[g].at # None /\ shown' = [shown EXCEPT !.workspace = g]
  PROVE  CompareInv'
<1>1. CompareTypes'
  BY ClosedIsCurrent DEF CompareInv, CompareTypes, Gone, Generations
<1>2. Reserved'
  BY DEF CompareInv, CompareTypes, Reserved, Gone
<1>3. ComparisonIsCurrent'
  BY ClosedIsCurrent DEF CompareInv, CompareTypes, Reserved, ComparisonIsCurrent, IsCurrent
<1> QED BY <1>1, <1>2, <1>3 DEF CompareInv

LEMMA ReserveKeeps ==
  ASSUME CompareInv, NEW id \in Comparisons, Reserve(id)
  PROVE  CompareInv'
<1> DEFINE g == shown.generation + 1
<1>1. /\ g \in Generations
      /\ shown' = [id |-> id, generation |-> g, workspace |-> 0]
      /\ preparing' = [preparing EXCEPT ![g] = [id |-> id, at |-> "waiting"]]
      /\ id # None
  BY JobsAssumption DEF CompareInv, CompareTypes, Reserve, Generations
<1> HIDE DEF g
<1>2. CompareTypes'
  BY <1>1, JobsAssumption DEF CompareInv, CompareTypes, Generations
<1>3. Reserved'
  BY <1>1 DEF CompareInv, CompareTypes, Reserved
<1>4. ComparisonIsCurrent'
  BY <1>1 DEF ComparisonIsCurrent
<1> QED BY <1>2, <1>3, <1>4 DEF CompareInv

LEMMA PreparationKeeps ==
  ASSUME CompareInv, ComparisonStep
  PROVE  CompareInv'
<1>1. PICK g \in Generations : LockSources(g) \/ BuildEnds(g) \/ Publish(g)
  BY DEF ComparisonStep
<1>2. CASE /\ preparing[g].at # None /\ shown' = shown
           /\ \E at \in {"building", "built"} : preparing' = [preparing EXCEPT ![g].at = at]
  <2>1. CompareTypes'
    BY <1>2 DEF CompareInv, CompareTypes
  <2>2. Reserved'
    BY <1>2 DEF CompareInv, CompareTypes, Reserved
  <2>3. ComparisonIsCurrent'
    BY <1>2 DEF CompareInv, ComparisonIsCurrent
  <2> QED BY <2>1, <2>2, <2>3 DEF CompareInv
<1>3. CASE Abandon(g)
  BY <1>3, GoneKeeps DEF Abandon
<1>4. CASE Publish(g)
  BY <1>4, GoneKeeps DEF Publish
<1> QED BY <1>1, <1>2, <1>3, <1>4 DEF LockSources, BuildEnds

LEMMA CompareStep ==
  ASSUME CompareInv, [Next]_vars
  PROVE  CompareInv'
<1>1. CASE ComparisonStep
  BY <1>1, PreparationKeeps
<1>2. CASE CloseComparison
  BY <1>2, ClosedIsCurrent
     DEF CloseComparison, CompareInv, CompareTypes, Reserved, ComparisonIsCurrent
<1>3. CASE \E id \in Comparisons : Reserve(id)
  BY <1>3, ReserveKeeps
<1>4. CASE UNCHANGED compareVars
  BY <1>4 DEF compareVars, CompareInv, CompareTypes, Reserved, ComparisonIsCurrent
<1>5. CASE Crawling
  BY <1>4, <1>5 DEF Crawling, StartCrawl, CrawlWrites, CrawlSettles, CrawlReturns, CrawlEnds,
      StopCrawl, StopReturns, BeginMerge, EndMerge, CrawlUnchanged
<1>6. CASE MeasurementStep \/ \E id \in Measurements : BeginMeasurement(id) \/ Cancel(id)
  BY <1>4, <1>6 DEF MeasurementStep, TakeLock, NextRow, FetchEnds, CheckCancelled, SaveSnapshot,
      LeaveSlot, BeginMeasurement, Cancel, SpeedUnchanged
<1>7. CASE BeginJob \/ CancelReport \/ QueryLibrary \/ ReportStep
  BY <1>4, <1>7 DEF BeginJob, CancelReport, QueryLibrary, ReportStep, ActiveSource, LockFiles,
      ReadCard, ReadRevision, CopyAndBuild, CheckSource, EndJob, ReportUnchanged
<1>8. CASE BeginQuit \/ QuitStep
  BY <1>4, <1>8 DEF BeginQuit, QuitStep, QuitLocks, ExitConfirmed, QuitFails, AskReports,
      Notified, QuitUnchanged
<1>9. CASE UNCHANGED vars
  BY <1>4, <1>9 DEF vars
<1> QED BY <1>1, <1>2, <1>3, <1>5, <1>6, <1>7, <1>8, <1>9 DEF Next

(* The comparison that appears is the one reserved last (ComparisonState). *)
THEOREM ComparisonsAreCurrent == Spec => []ComparisonIsCurrent
<1>1. CompareInv => ComparisonIsCurrent
  BY DEF CompareInv
<1> QED BY CompareInit, CompareStep, <1>1, PTL DEF Spec

-----------------------------------------------------------------------------
(* The report.                                                             *)

ReportTypes ==
  /\ settled \in BOOLEAN /\ changed \in BOOLEAN /\ noticed \subseteq {"card", "revision"}
  /\ settled <=> crawl # "crawling"

(* As long as the card is the one that was read, no crawl runs; and then   *)
(* nothing changes unless the revision does.                               *)
Reading ==
  job \in {"revision", "copy", "publishing"} /\ "card" \notin noticed => settled

Copied ==
  job \in {"copy", "publishing"} /\ noticed = {} => ~changed

ReportInv == ReportTypes /\ Reading /\ Copied

LEMMA ReportInit == Init => ReportInv
BY DEF Init, ReportInv, ReportTypes, Reading, Copied

(* The report forgets what it has read, or goes on with what it has read.  *)
LEMMA ReportKeepsSource ==
  ASSUME ReportInv, UNCHANGED <<crawl, settled>>, UNCHANGED sourceVars,
         \/ job' \notin {"revision", "copy", "publishing"}
         \/ job' = job
         \/ job = "copy" /\ job' = "publishing"
  PROVE  ReportInv'
<1>1. noticed' = noticed
  BY DEF sourceVars
<1>2. changed' = changed
  BY DEF sourceVars
<1>3. ReportTypes'
  BY <1>1, <1>2 DEF ReportInv, ReportTypes
<1>4. Reading'
  BY <1>1 DEF ReportInv, Reading
<1>5. Copied'
  BY <1>1, <1>2 DEF ReportInv, Copied
<1> QED BY <1>3, <1>4, <1>5 DEF ReportInv

LEMMA CrawlingKeeps ==
  ASSUME ReportInv, Crawling
  PROVE  ReportInv'
<1>1. job' = job
  BY DEF Crawling, StartCrawl, CrawlWrites, CrawlSettles, CrawlReturns, CrawlEnds,
      StopCrawl, StopReturns, BeginMerge, EndMerge, CrawlUnchanged, reportVars
<1>2. CASE StartCrawl \/ CrawlSettles
  BY <1>1, <1>2 DEF ReportInv, ReportTypes, Reading, Copied, StartCrawl, CrawlSettles, WriteCard
<1>3. CASE CrawlWrites
  BY <1>1, <1>3 DEF ReportInv, ReportTypes, Reading, Copied, CrawlWrites, WriteLinks,
      WriteRecords, crawlVars
<1>4. CASE UNCHANGED <<crawl, settled>> /\ UNCHANGED sourceVars
  BY <1>1, <1>4, ReportKeepsSource
<1>5. CASE EndMerge
  <2>1. UNCHANGED <<crawl, settled>> /\ (WriteRecords \/ UNCHANGED sourceVars)
    BY <1>5 DEF EndMerge, crawlVars
  <2>2. CASE WriteRecords
    BY <1>1, <2>1, <2>2 DEF ReportInv, ReportTypes, Reading, Copied, WriteRecords
  <2> QED BY <1>4, <2>1, <2>2
<1>6. CASE CrawlReturns
  <2>1. settled' = settled /\ crawl # "crawling" /\ crawl' # "crawling"
    BY <1>6 DEF CrawlReturns
  <2>2. noticed \subseteq noticed' /\ noticed' \subseteq noticed \cup {"card"} /\ changed' = changed
    BY <1>6 DEF CrawlReturns, WriteCard, sourceVars
  <2> QED BY <1>1, <2>1, <2>2 DEF ReportInv, ReportTypes, Reading, Copied
<1>7. CASE CrawlEnds
  <2>1. settled' = settled /\ crawl # "crawling" /\ crawl' # "crawling"
    BY <1>7 DEF CrawlEnds
  <2>2. noticed' = noticed /\ changed' = changed
    BY <1>7 DEF CrawlEnds, sourceVars
  <2> QED BY <1>1, <2>1, <2>2 DEF ReportInv, ReportTypes, Reading, Copied
<1>8. CASE StopCrawl \/ StopReturns \/ BeginMerge
  BY <1>4, <1>8 DEF StopCrawl, StopReturns, BeginMerge, crawlVars
<1> QED BY <1>2, <1>3, <1>5, <1>6, <1>7, <1>8 DEF Crawling

LEMMA ReportStepKeeps ==
  ASSUME ReportInv, BeginJob \/ CancelReport \/ QueryLibrary \/ ReportStep
  PROVE  ReportInv'
<1>1. UNCHANGED <<crawl, settled>>
  BY DEF BeginJob, CancelReport, QueryLibrary, ReportStep, ActiveSource, LockFiles,
      ReadCard, ReadRevision, CopyAndBuild, CheckSource, EndJob, ReportUnchanged, crawlVars
<1>2. CASE ReadCard
  BY <1>1, <1>2 DEF ReportInv, ReportTypes, Reading, Copied, ReadCard, SourceIsFree, DropJob
<1>3. CASE ReadRevision
  BY <1>1, <1>3 DEF ReportInv, ReportTypes, Reading, Copied, ReadRevision
<1>4. CASE CopyAndBuild \/ CheckSource \/ EndJob
  BY <1>1, <1>4, ReportKeepsSource DEF CopyAndBuild, CheckSource, EndJob, DropJob
<1>5. CASE BeginJob \/ CancelReport \/ QueryLibrary \/ ActiveSource \/ LockFiles
  BY <1>1, <1>5, ReportKeepsSource
     DEF BeginJob, CancelReport, QueryLibrary, ActiveSource, LockFiles, DropJob
<1> QED BY <1>2, <1>3, <1>4, <1>5 DEF ReportStep

LEMMA OneStateStep ==
  ASSUME ReportInv, [Next]_vars
  PROVE  ReportInv'
<1>1. CASE Crawling
  BY <1>1, CrawlingKeeps
<1>2. CASE BeginJob \/ CancelReport \/ QueryLibrary \/ ReportStep
  BY <1>2, ReportStepKeeps
<1>3. CASE SaveSnapshot
  <2>1. UNCHANGED <<crawlVars, reportVars>> /\ (WriteRecords \/ UNCHANGED sourceVars)
    BY <1>3 DEF SaveSnapshot, SpeedUnchanged
  <2>2. CASE WriteRecords
    BY <2>1, <2>2
       DEF ReportInv, ReportTypes, Reading, Copied, WriteRecords, crawlVars, reportVars
  <2>3. CASE UNCHANGED sourceVars
    BY <2>1, <2>3
       DEF ReportInv, ReportTypes, Reading, Copied, crawlVars, sourceVars, reportVars
  <2> QED BY <2>1, <2>2, <2>3
<1>4. CASE UNCHANGED <<crawl, settled, noticed, changed, job>>
  BY <1>4 DEF ReportInv, ReportTypes, Reading, Copied
<1>5. CASE \/ TakeLock \/ NextRow \/ FetchEnds \/ CheckCancelled \/ LeaveSlot
           \/ \E id \in Measurements : BeginMeasurement(id) \/ Cancel(id)
  BY <1>4, <1>5 DEF TakeLock, NextRow, FetchEnds, CheckCancelled, LeaveSlot, BeginMeasurement,
      Cancel, SpeedUnchanged, crawlVars, sourceVars, reportVars
<1>6. CASE ComparisonStep \/ CloseComparison \/ \E id \in Comparisons : Reserve(id)
  BY <1>4, <1>6 DEF ComparisonStep, LockSources, BuildEnds, Publish, CloseComparison, Reserve,
      CompareUnchanged, crawlVars, sourceVars, reportVars
<1>7. CASE BeginQuit \/ QuitStep
  BY <1>4, <1>7 DEF BeginQuit, QuitStep, QuitLocks, ExitConfirmed, QuitFails, AskReports,
      Notified, QuitUnchanged, sourceVars
<1>8. CASE UNCHANGED vars
  BY <1>4, <1>8 DEF vars, crawlVars, sourceVars, reportVars
<1> QED BY <1>1, <1>2, <1>3, <1>5, <1>6, <1>7, <1>8 DEF Next, MeasurementStep

LEMMA PublishesOneState ==
  ASSUME ReportInv, [Next]_vars
  PROVE  [job = "publishing" /\ job' = "link" => ~changed /\ settled /\ "card" \notin noticed]_vars
<1>1. SUFFICES ASSUME Next, job = "publishing", job' = "link"
               PROVE  ~changed /\ settled /\ "card" \notin noticed
  OBVIOUS
<1>2. CASE CheckSource
  BY <1>1, <1>2 DEF CheckSource, SourceDiffers, DropJob, ReportInv, Reading, Copied
<1>3. CASE BeginJob \/ CancelReport \/ QueryLibrary \/ ReportStep
  BY <1>1, <1>2, <1>3 DEF BeginJob, CancelReport, QueryLibrary, ReportStep, ActiveSource,
      LockFiles, ReadCard, ReadRevision, CopyAndBuild, EndJob, DropJob
<1>4. job' # job
  BY <1>1
<1>5. CASE Crawling
  BY <1>4, <1>5 DEF Crawling, StartCrawl, CrawlWrites, CrawlSettles, CrawlReturns, CrawlEnds,
      StopCrawl, StopReturns, BeginMerge, EndMerge, CrawlUnchanged, reportVars
<1>6. CASE MeasurementStep \/ \E id \in Measurements : BeginMeasurement(id) \/ Cancel(id)
  BY <1>4, <1>6 DEF MeasurementStep, TakeLock, NextRow, FetchEnds, CheckCancelled, SaveSnapshot,
      LeaveSlot, BeginMeasurement, Cancel, SpeedUnchanged, reportVars
<1>7. CASE ComparisonStep \/ CloseComparison \/ \E id \in Comparisons : Reserve(id)
  BY <1>4, <1>7 DEF ComparisonStep, LockSources, BuildEnds, Publish, CloseComparison, Reserve,
      CompareUnchanged, reportVars
<1>8. CASE BeginQuit \/ QuitStep
  BY <1>4, <1>8 DEF BeginQuit, QuitStep, QuitLocks, ExitConfirmed, QuitFails, AskReports,
      Notified, QuitUnchanged
<1> QED BY <1>1, <1>3, <1>5, <1>6, <1>7, <1>8 DEF Next

(* A report is published from one state of its crawl (prepare_audit_report *)
(* and its last check of the source).                                      *)
THEOREM ReportsOfOneState == Spec => ReportOfOneState
<1>1. ReportInv /\ [Next]_vars
        => [job = "publishing" /\ job' = "link" => ~changed /\ settled /\ "card" \notin noticed]_vars
  BY PublishesOneState
<1> QED BY ReportInit, OneStateStep, <1>1, PTL DEF Spec, ReportOfOneState

-----------------------------------------------------------------------------
(* The same beside the report AI, whose command only takes and leaves the  *)
(* slot of the report, and across the deaths of the process.               *)

LEMMA AiTakesTheSlot ==
  ASSUME \/ AiStep \/ BeginAi
         \/ \E v \in Versions, budget \in Budgets : Review(v, budget)
         \/ \E v \in Versions : Tick(v)
  PROVE  /\ UNCHANGED <<crawlVars, speedVars, compareVars, sourceVars, speedHistory>>
         /\ job' = job \/ job' \in {"ai", None}
<1>1. CASE BeginAi
  BY <1>1 DEF BeginAi, ReportUnchanged
<1>2. CASE \/ \E v \in Versions, budget \in Budgets : Review(v, budget)
           \/ \E v \in Versions : Tick(v)
  BY <1>2 DEF Review, Tick, vars, reportVars
<1>3. CASE Prepare \/ OpenGeneration \/ Finish
  BY <1>3 DEF Prepare, OpenGeneration, Finish, AiEnds, AiGoesOn, DropJob, ReportUnchanged, vars,
      reportVars
<1>4. CASE Ask \/ CancelAdmission \/ Send \/ CancelRequest \/ Fail
  BY <1>4 DEF Ask, CancelAdmission, Send, CancelRequest, Fail, AiStops, AiGoesOn, vars,
      reportVars
<1>5. CASE (\E usage \in {{1}, {}} : Complete(usage)) \/ Retryable \/ RecordRetry
  BY <1>5 DEF Complete, Retryable, RecordRetry, AiStops, AiGoesOn, vars, reportVars
<1>6. CASE Delay \/ Unusable
  BY <1>6 DEF Delay, Unusable, AiStops, AiGoesOn, vars, reportVars
<1>7. CASE Save
  BY <1>7 DEF Save, AiStops, vars, reportVars
<1> QED BY <1>1, <1>2, <1>3, <1>4, <1>5, <1>6, <1>7 DEF AiStep

(* What the death of the process leaves of a measurement.                  *)
LEMMA ProcessEndsKeepsSpeed ==
  ASSUME SpeedInv, ProcessEnds
  PROVE  SpeedInv'
<1>1. /\ early' = <<>> /\ active' = None /\ stopped' = FALSE /\ measurement' = None
      /\ batch' = NoBatch /\ used' = used \cup {cancelled[1] : cancelled \in kept}
      /\ kept' = kept /\ saved' = saved
  BY DEF ProcessEnds
<1>2. /\ used' \subseteq Measurements /\ used \subseteq used'
      /\ \A id \in Measurements \ used', r \in BulkRows : <<id, r>> \notin kept
  BY <1>1 DEF SpeedInv, SpeedTypes
<1>3. SpeedTypes'
  BY <1>1, <1>2, EmptyRange, NoBatchIs DEF SpeedInv, SpeedTypes, MeasurementStates
<1>4. Slot' /\ Unsaved' /\ Remembered' /\ CancelIsKept'
  BY <1>1, <1>2 DEF SpeedInv, Slot, Unsaved, Remembered, InHand, Working, CancelIsKept
<1> QED BY <1>3, <1>4 DEF SpeedInv

LEMMA JobsBesideAi ==
  ASSUME SpeedInv, CompareInv, ReportInv, [AiNext]_allVars
  PROVE  /\ SpeedInv' /\ CompareInv' /\ ReportInv'
         /\ [job = "publishing" /\ job' = "link" => ~changed /\ settled /\ "card" \notin noticed]_vars
<1>1. CASE [Next]_vars
  BY <1>1, SpeedStep, CompareStep, OneStateStep, PublishesOneState
<1>2. CASE \/ AiStep \/ BeginAi
           \/ \E v \in Versions, budget \in Budgets : Review(v, budget)
           \/ \E v \in Versions : Tick(v)
  <2>1. /\ UNCHANGED <<crawlVars, speedVars, compareVars, sourceVars, speedHistory>>
        /\ job' = job \/ job' \in {"ai", None}
    BY <1>2, AiTakesTheSlot
  <2>2. SpeedInv'
    BY <2>1, SpeedUntouched DEF speedVars, speedHistory, speedAll
  <2>3. CompareInv'
    BY <2>1 DEF compareVars, CompareInv, CompareTypes, Reserved, ComparisonIsCurrent
  <2>4. ReportInv'
    BY <2>1 DEF crawlVars, sourceVars, ReportInv, ReportTypes, Reading, Copied
  <2> QED BY <2>1, <2>2, <2>3, <2>4
<1>3. CASE ProcessEnds
  <2>1. CompareInv'
    BY <1>3, JobsAssumption
       DEF ProcessEnds, CompareInv, CompareTypes, Reserved, ComparisonIsCurrent, Generations
  <2>2. ReportInv' /\ job' # "link"
    BY <1>3 DEF ProcessEnds, sourceVars, ReportInv, ReportTypes, Reading, Copied
  <2> QED BY <1>3, <2>1, <2>2, ProcessEndsKeepsSpeed
<1>4. CASE UNCHANGED allVars
  <2>1. UNCHANGED vars
    BY <1>4 DEF allVars
  <2> QED BY <1>1, <2>1
<1> QED BY <1>1, <1>2, <1>3, <1>4 DEF AiNext

(* No result of a measurement that was cancelled is ever saved, whatever   *)
(* the report AI does and whenever the process dies (fetch_pagespeed).     *)
THEOREM CancellationsAreKeptBesideAi == AiSpec => []CancelIsKept
<1>1. AiInit => SpeedInv /\ CompareInv /\ ReportInv
  BY SpeedInit, CompareInit, ReportInit DEF AiInit
<1>2. SpeedInv /\ CompareInv /\ ReportInv /\ [AiNext]_allVars
        => (SpeedInv /\ CompareInv /\ ReportInv)'
  BY JobsBesideAi
<1>3. SpeedInv => CancelIsKept
  BY DEF SpeedInv
<1> QED BY <1>1, <1>2, <1>3, PTL DEF AiSpec

(* No comparison that was superseded appears, over the deaths of the       *)
(* process too: the generations count from the start again with no builder *)
(* left (compare_archive_issues).                                          *)
THEOREM ComparisonsAreCurrentBesideAi == AiSpec => []ComparisonIsCurrent
<1>1. AiInit => SpeedInv /\ CompareInv /\ ReportInv
  BY SpeedInit, CompareInit, ReportInit DEF AiInit
<1>2. SpeedInv /\ CompareInv /\ ReportInv /\ [AiNext]_allVars
        => (SpeedInv /\ CompareInv /\ ReportInv)'
  BY JobsBesideAi
<1>3. CompareInv => ComparisonIsCurrent
  BY DEF CompareInv
<1> QED BY <1>1, <1>2, <1>3, PTL DEF AiSpec

(* A report is published from one state of its crawl, though its slot is   *)
(* the one the report AI takes and leaves (prepare_audit_report).          *)
THEOREM ReportsOfOneStateBesideAi == AiSpec => ReportOfOneState
<1>1. AiInit => SpeedInv /\ CompareInv /\ ReportInv
  BY SpeedInit, CompareInit, ReportInit DEF AiInit
<1>2. SpeedInv /\ CompareInv /\ ReportInv /\ [AiNext]_allVars
        => (SpeedInv /\ CompareInv /\ ReportInv)'
  BY JobsBesideAi
<1>3. SpeedInv /\ CompareInv /\ ReportInv /\ [AiNext]_allVars
        => [job = "publishing" /\ job' = "link" => ~changed /\ settled /\ "card" \notin noticed]_vars
  BY JobsBesideAi
<1> QED BY <1>1, <1>2, <1>3, PTL DEF AiSpec, ReportOfOneState

-----------------------------------------------------------------------------
(* The explanations of a report.                                           *)

RunStates == {"files", "open", "ask", "admit", "sent", "parse", "retry", "delay", "finish"}
RunStatus == {"budgetLimited", "cancelled", "failed", "retryPending"}
RunFields == {"at", "asked", "plan", "requests", "chars", "retries", "status"}

Rows == [status : {None, "running", "complete"} \cup RunStatus, mine : BOOLEAN,
         requests : 0..2, tokens : SUBSET Nat, pending : BOOLEAN, retry : BOOLEAN]

IsFunctionOf(f, S) == f = [x \in S |-> f[x]]

AiTypes ==
  /\ row \in [Versions -> Rows]
  /\ IsFunctionOf(explained, Versions)
  /\ overview \in [Versions -> BOOLEAN]
  /\ bill \in [Versions -> Nat] /\ unbilled \in [Versions -> BOOLEAN]
  /\ \A seen \in preview : seen.version \in Versions
  /\ run # NoRun =>
       /\ IsFunctionOf(run, RunFields)
       /\ run.at \in RunStates /\ run.status \in RunStatus
       /\ run.asked.version \in Versions

(* The slot of the jobs is taken as long as the command runs.              *)
Owner == job = "ai" <=> run # NoRun

(* It opens its generation once, and that one alone is running.            *)
Opened == run # NoRun /\ run.at \notin {"files", "open"}

Mine ==
  /\ \A v \in Versions : row[v].status = "running" /\ row[v].mine => Opened /\ Version = v
  /\ Opened => row[Version].status = "running"

InFlight(v) == run # NoRun /\ run.at = "sent" /\ Version = v

(* A count of tokens is what was spent, up to a request that is in flight  *)
(* or that a dead process has left behind.                                 *)
Counted(v) ==
  row[v].tokens # {} /\ (row[v].pending => InFlight(v)) =>
    row[v].tokens = {bill[v]} /\ ~unbilled[v]

Untouched(v) == row[v].tokens = {} /\ bill[v] = 0 /\ ~unbilled[v]

Usage ==
  \A v \in Versions :
    /\ Counted(v)
    /\ row[v].requests = 0 => Untouched(v) /\ ~row[v].pending
    /\ InFlight(v) => row[v].pending /\ row[v].requests # 0
    /\ InFlight(v) /\ row[v].requests = 1 => Untouched(v)
    /\ Opened /\ Version = v /\ row[v].pending => InFlight(v)

(* The overview is asked for when every finding is explained.              *)
Explained ==
  /\ \A v \in Versions : overview[v] => All \subseteq explained[v]
  /\ \A v \in Versions : row[v].status = "complete" => All \subseteq explained[v] /\ overview[v]
  /\ run # NoRun /\ run.at \in {"admit", "sent", "parse"} /\ Prompt = Overview =>
       All \subseteq explained[Version]

AiInv == AiTypes /\ Owner /\ Mine /\ Usage /\ Explained

LEMMA AiInvInit == AiInit => AiInv
<1> SUFFICES ASSUME AiInit PROVE AiInv
  OBVIOUS
<1>1. run = NoRun /\ job = None /\ preview = {}
  BY DEF AiInit, Init
<1>2. \A v \in Versions : row[v] = [status |-> None, mine |-> FALSE, requests |-> 0,
                                  tokens |-> {}, pending |-> FALSE, retry |-> FALSE]
  BY DEF AiInit
<1>3. AiTypes
  BY <1>1 DEF AiInit, AiTypes, Rows, RunStatus, IsFunctionOf
<1>4. Owner
  BY <1>1 DEF Owner
<1>5. Mine
  BY <1>1, <1>2 DEF Mine, Opened
<1>6. Usage
  BY <1>1, <1>2 DEF AiInit, Usage, Counted, Untouched, InFlight, Opened
<1>7. Explained
  BY <1>1, <1>2 DEF AiInit, Explained
<1> QED BY <1>3, <1>4, <1>5, <1>6, <1>7 DEF AiInv

(* The other jobs leave the slot of this one alone.                        *)
LEMMA JobsKeepOwner ==
  ASSUME Next
  PROVE  job' = "ai" <=> job = "ai"
<1>1. CASE BeginJob \/ CancelReport \/ QueryLibrary \/ ReportStep
  BY <1>1 DEF BeginJob, CancelReport, QueryLibrary, ReportStep, ActiveSource, LockFiles,
      ReadCard, ReadRevision, CopyAndBuild, CheckSource, EndJob, DropJob
<1>2. CASE job' = job
  BY <1>2
<1>3. CASE Crawling
  BY <1>2, <1>3 DEF Crawling, StartCrawl, CrawlWrites, CrawlSettles, CrawlReturns, CrawlEnds,
      StopCrawl, StopReturns, BeginMerge, EndMerge, CrawlUnchanged, reportVars
<1>4. CASE MeasurementStep \/ \E id \in Measurements : BeginMeasurement(id) \/ Cancel(id)
  BY <1>2, <1>4 DEF MeasurementStep, TakeLock, NextRow, FetchEnds, CheckCancelled, SaveSnapshot,
      LeaveSlot, BeginMeasurement, Cancel, SpeedUnchanged, reportVars
<1>5. CASE ComparisonStep \/ CloseComparison \/ \E id \in Comparisons : Reserve(id)
  BY <1>2, <1>5 DEF ComparisonStep, LockSources, BuildEnds, Publish, CloseComparison, Reserve,
      CompareUnchanged, reportVars
<1>6. CASE BeginQuit \/ QuitStep
  BY <1>2, <1>6 DEF BeginQuit, QuitStep, QuitLocks, ExitConfirmed, QuitFails, AskReports,
      Notified, QuitUnchanged
<1> QED BY <1>1, <1>3, <1>4, <1>5, <1>6 DEF Next

(* The command goes on with the same request of the user.                  *)
SameRun ==
  /\ run # NoRun /\ run' # NoRun
  /\ IsFunctionOf(run', RunFields) /\ run'.status \in RunStatus
  /\ run'.asked = run.asked

LEMMA GoesOnFacts ==
  ASSUME AiTypes, run # NoRun, NEW at, AiGoesOn(at), at \in RunStates
  PROVE  SameRun /\ run'.at = at /\ run'.plan = run.plan /\ UNCHANGED vars
<1>1. IsFunctionOf(run, RunFields) /\ run' = [run EXCEPT !.at = at] /\ UNCHANGED vars
  BY DEF AiTypes, AiGoesOn
<1>2. /\ IsFunctionOf(run', RunFields) /\ run'.at = at /\ run'.plan = run.plan
      /\ run'.status = run.status /\ run'.asked = run.asked
  BY <1>1 DEF IsFunctionOf, RunFields
<1>3. run' # NoRun
  BY <1>2 DEF NoRun, RunStates
<1> QED BY <1>1, <1>2, <1>3 DEF SameRun, AiTypes

LEMMA StopsFacts ==
  ASSUME AiTypes, run # NoRun, NEW status \in RunStatus, AiStops(status)
  PROVE  SameRun /\ run'.at = "finish" /\ UNCHANGED vars
<1>1. IsFunctionOf(run, RunFields) /\ run' = [run EXCEPT !.at = "finish", !.status = status]
  BY DEF AiTypes, AiStops
<1>2. /\ IsFunctionOf(run', RunFields) /\ run'.at = "finish"
      /\ run'.status = status /\ run'.asked = run.asked
  BY <1>1 DEF IsFunctionOf, RunFields
<1>3. run' # NoRun
  BY <1>2 DEF NoRun
<1> QED BY <1>1, <1>2, <1>3 DEF SameRun, AiStops

(* A step of the command that leaves the file and the bills alone.         *)
LEMMA QuietKeeps ==
  ASSUME AiInv, SameRun, Opened, UNCHANGED vars, UNCHANGED <<fileVars, billVars>>,
         UNCHANGED preview, run.at # "sent", run'.at \in {"ask", "admit", "finish", "delay", "retry"},
         run'.at = "admit" /\ Prompt' = Overview => All \subseteq explained[Version]
  PROVE  AiInv'
<1>1. /\ UNCHANGED <<row, explained, overview, bill, unbilled, job>>
      /\ run'.asked.version = run.asked.version
  BY DEF fileVars, billVars, vars, reportVars, SameRun
<1>2. AiTypes'
  BY <1>1 DEF AiInv, AiTypes, SameRun, RunStates
<1>3. Owner'
  BY <1>1 DEF AiInv, Owner, SameRun
<1>4. Version' = Version /\ Opened'
  BY <1>1 DEF Version, Opened, SameRun
<1>5. \A v \in Versions : ~InFlight(v) /\ ~InFlight(v)'
  BY DEF InFlight
<1>6. Mine'
  BY <1>1, <1>4 DEF AiInv, Mine
<1>7. Usage'
  BY <1>1, <1>4, <1>5 DEF AiInv, Usage, Counted, Untouched
<1>8. Explained'
  BY <1>1, <1>4 DEF AiInv, Explained
<1> QED BY <1>2, <1>3, <1>6, <1>7, <1>8 DEF AiInv

LEMMA EndsFacts ==
  ASSUME AiEnds
  PROVE  run' = NoRun /\ job' = None
BY DEF AiEnds, DropJob

(* A command that ends before it opens its generation.                     *)
LEMMA RefusalKeeps ==
  ASSUME AiInv, run # NoRun, ~Opened, AiEnds, UNCHANGED <<fileVars, billVars>>, UNCHANGED preview
  PROVE  AiInv'
<1>1. UNCHANGED <<row, explained, overview, bill, unbilled>> /\ run' = NoRun /\ job' = None
  BY EndsFacts DEF fileVars, billVars
<1>2. AiTypes'
  BY <1>1 DEF AiInv, AiTypes
<1>3. Owner'
  BY <1>1 DEF Owner
<1>4. Mine'
  BY <1>1 DEF AiInv, Mine, Opened
<1>5. \A v \in Versions : ~InFlight(v) /\ ~InFlight(v)'
  BY <1>1 DEF InFlight, Opened
<1>6. Usage'
  BY <1>1, <1>5 DEF AiInv, Usage, Counted, Untouched, Opened
<1>7. Explained'
  BY <1>1 DEF AiInv, Explained
<1> QED BY <1>2, <1>3, <1>4, <1>6, <1>7 DEF AiInv

LEMMA StandsKeeps ==
  ASSUME AiInv, UNCHANGED <<row, explained, overview, bill, unbilled, job, run>>,
         preview' = preview \/ \A seen \in preview' : seen.version \in Versions
  PROVE  AiInv'
<1>1. AiTypes'
  BY DEF AiInv, AiTypes
<1>2. Version' = Version /\ Opened' = Opened /\ Prompt' = Prompt
  BY DEF Version, Opened, Prompt
<1>3. \A v : InFlight(v)' = InFlight(v)
  BY DEF InFlight, Version
<1>4. Owner' /\ Mine'
  BY <1>2 DEF AiInv, Owner, Mine
<1>5. Usage'
  BY <1>2, <1>3 DEF AiInv, Usage, Counted, Untouched
<1>6. Explained'
  BY <1>2 DEF AiInv, Explained
<1> QED BY <1>1, <1>4, <1>5, <1>6 DEF AiInv

LEMMA ReviewKeeps ==
  ASSUME AiInv, NEW v \in Versions, NEW budget \in Budgets, Review(v, budget)
  PROVE  AiInv'
<1>1. /\ UNCHANGED <<row, explained, overview, bill, unbilled, job, run>>
      /\ preview' = {PrepareAi(v, budget)}
  BY DEF Review, fileVars, billVars, vars, reportVars
<1>2. PrepareAi(v, budget).version = v
  BY DEF PrepareAi
<1> QED BY <1>1, <1>2, StandsKeeps

LEMMA BeginAiKeeps ==
  ASSUME AiInv, BeginAi
  PROVE  AiInv'
<1>1. UNCHANGED <<row, explained, overview, bill, unbilled>> /\ preview' = {}
  BY DEF BeginAi, fileVars, billVars
<1>2. CASE job' = job /\ run' = run
  BY <1>1, <1>2, StandsKeeps
<1>3. ASSUME NEW seen \in preview, job = None, job' = "ai",
             run' = [at |-> "files", asked |-> seen, plan |-> <<>>, requests |-> 0,
                     chars |-> 0, retries |-> 0, status |-> "budgetLimited"]
      PROVE  AiInv'
  <2>1. run = NoRun
    BY <1>3 DEF AiInv, Owner
  <2>2. run' # NoRun /\ run'.at = "files" /\ run'.asked.version \in Versions
    BY <1>3 DEF AiInv, AiTypes, NoRun
  <2>3. IsFunctionOf(run', RunFields) /\ run'.status = "budgetLimited"
    BY <1>3 DEF IsFunctionOf, RunFields
  <2>4. AiTypes'
    BY <1>1, <2>2, <2>3 DEF AiInv, AiTypes, RunStates, RunStatus
  <2>5. Owner'
    BY <1>3, <2>2 DEF Owner
  <2>6. ~Opened /\ ~Opened' /\ \A v \in Versions : ~InFlight(v) /\ ~InFlight(v)'
    BY <2>1, <2>2 DEF Opened, InFlight
  <2>7. Mine'
    BY <1>1, <2>6 DEF AiInv, Mine
  <2>8. Usage'
    BY <1>1, <2>6 DEF AiInv, Usage, Counted, Untouched
  <2>9. Explained'
    BY <1>1, <2>2 DEF AiInv, Explained
  <2> QED BY <2>4, <2>5, <2>7, <2>8, <2>9 DEF AiInv
<1> QED BY <1>2, <1>3 DEF BeginAi

LEMMA PrepareKeeps ==
  ASSUME AiInv, Prepare
  PROVE  AiInv'
<1>1. /\ run # NoRun /\ run.at = "files" /\ UNCHANGED <<fileVars, billVars>> /\ UNCHANGED preview
  BY DEF Prepare, Generating, AiUnchanged
<1>2. CASE AiEnds
  BY <1>1, <1>2, RefusalKeeps DEF Opened
<1>3. ASSUME NEW plan, run' = [run EXCEPT !.at = "open", !.plan = plan], UNCHANGED vars
      PROVE  AiInv'
  <2>1. /\ IsFunctionOf(run', RunFields) /\ run'.at = "open" /\ run'.status = run.status
        /\ run'.asked = run.asked
    BY <1>1, <1>3 DEF AiInv, AiTypes, IsFunctionOf, RunFields
  <2>2. UNCHANGED <<row, explained, overview, bill, unbilled, job>> /\ run' # NoRun
    BY <1>1, <1>3, <2>1 DEF fileVars, billVars, vars, reportVars, NoRun
  <2>3. AiTypes'
    BY <1>1, <2>1, <2>2 DEF AiInv, AiTypes, RunStates
  <2>4. ~Opened /\ ~Opened' /\ \A v \in Versions : ~InFlight(v) /\ ~InFlight(v)'
    BY <1>1, <2>1 DEF Opened, InFlight
  <2>5. Owner' /\ Mine' /\ Usage' /\ Explained'
    BY <1>1, <2>1, <2>2, <2>4 DEF AiInv, Owner, Mine, Usage, Counted, Untouched, Explained
  <2> QED BY <2>3, <2>5 DEF AiInv
<1> QED BY <1>2, <1>3 DEF Prepare

(* The command changes the row of its own version, and no other.           *)
LEMMA OwnRowFacts ==
  ASSUME AiTypes, run # NoRun, NEW r \in Rows, Writes(r)
  PROVE  /\ Version \in Versions
         /\ row' \in [Versions -> Rows] /\ row'[Version] = r
         /\ \A v \in Versions \ {Version} : row'[v] = row[v]
BY DEF AiTypes, Writes, Version

(* A step of the command that writes its row and keeps the explanations.   *)
LEMMA RowWriteKeeps ==
  ASSUME AiInv, SameRun, UNCHANGED vars, UNCHANGED preview,
         UNCHANGED <<explained, overview>>, NEW r \in Rows, Writes(r),
         bill' \in [Versions -> Nat], unbilled' \in [Versions -> BOOLEAN],
         \A v \in Versions \ {Version} : bill'[v] = bill[v] /\ unbilled'[v] = unbilled[v],
         run.at \in RunStates \ {"files"},
         run'.at \in RunStates \ {"files", "open"},
         r.status = "running",
         run'.at = "sent" => /\ r.pending /\ r.requests # 0
                             /\ r.requests = 1 => Untouched(Version)',
         run'.at # "sent" => ~r.pending,
         r.requests = 0 => Untouched(Version)',
         Counted(Version)',
         run'.at \in {"admit", "sent", "parse"} /\ Prompt' = Overview
           => All \subseteq explained[Version]
  PROVE  AiInv'
<1>1. /\ Version \in Versions /\ row'[Version] = r
      /\ \A v \in Versions \ {Version} : row'[v] = row[v]
      /\ row' \in [Versions -> Rows]
  BY OwnRowFacts DEF AiInv, SameRun
<1>2. Version' = Version /\ Opened'
  BY DEF Version, Opened, SameRun
<1>3. job' = job
  BY DEF vars, reportVars
<1>4. AiTypes'
  BY <1>1 DEF AiInv, AiTypes, SameRun
<1>5. Owner'
  BY <1>3 DEF AiInv, Owner, SameRun
<1>6. Mine'
  BY <1>1, <1>2 DEF AiInv, Mine
<1>7. Usage'
  <2>1. ASSUME NEW v \in Versions, v # Version
        PROVE  /\ ~InFlight(v) /\ ~InFlight(v)'
               /\ row'[v] = row[v] /\ bill'[v] = bill[v] /\ unbilled'[v] = unbilled[v]
    BY <1>1, <1>2, <2>1 DEF InFlight
  <2>2. ASSUME NEW v \in Versions, v # Version
        PROVE  /\ Counted(v)'
               /\ row'[v].requests = 0 => Untouched(v)' /\ ~row'[v].pending
    BY <2>1, <2>2 DEF AiInv, Usage, Counted, Untouched
  <2>3. InFlight(Version)' <=> run'.at = "sent"
    BY <1>2 DEF InFlight, SameRun
  <2>4. r.requests = 0 => ~r.pending
    OBVIOUS
  <2> QED BY <1>1, <1>2, <2>1, <2>2, <2>3, <2>4 DEF Usage
<1>8. Explained'
  BY <1>1, <1>2 DEF AiInv, Explained
<1> QED BY <1>4, <1>5, <1>6, <1>7, <1>8 DEF AiInv

LEMMA OpenGenerationKeeps ==
  ASSUME AiInv, OpenGeneration
  PROVE  AiInv'
<1>1. /\ run # NoRun /\ run.at = "open" /\ UNCHANGED billVars /\ UNCHANGED preview
      /\ Version \in Versions /\ row[Version] \in Rows
  BY DEF OpenGeneration, Generating, AiUnchanged, AiInv, AiTypes, Version
<1>2. CASE AiEnds /\ UNCHANGED fileVars
  BY <1>1, <1>2, RefusalKeeps DEF Opened
<1>3. CASE ~MustWait(Version)
  <2> DEFINE old == row[Version]
             r == [old EXCEPT !.status = "running", !.mine = TRUE, !.retry = FALSE,
                              !.pending = FALSE,
                              !.tokens = IF old.pending THEN {} ELSE old.tokens]
  <2>1. AiGoesOn("ask") /\ Writes(r) /\ UNCHANGED <<explained, overview>>
    BY <1>3 DEF OpenGeneration
  <2>2. /\ r \in Rows /\ r.status = "running" /\ ~r.pending /\ r.requests = old.requests
        /\ r.tokens = IF old.pending THEN {} ELSE old.tokens
    BY <1>1 DEF Rows
  <2>3. /\ SameRun /\ run'.at = "ask" /\ UNCHANGED vars /\ Version' = Version
    BY <1>1, <2>1, GoesOnFacts DEF AiInv, RunStates, SameRun, Version
  <2> HIDE DEF r
  <2>4. row'[Version] = r
    BY <1>1, <2>1, <2>2, OwnRowFacts DEF AiInv
  <2>5. bill' = bill /\ unbilled' = unbilled
    BY <1>1 DEF billVars
  <2>6. Counted(Version)'
    BY <1>1, <2>2, <2>3, <2>4, <2>5 DEF AiInv, Usage, Counted
  <2>7. r.requests = 0 => Untouched(Version)'
    BY <1>1, <2>2, <2>3, <2>4, <2>5 DEF AiInv, Usage, Untouched
  <2> QED BY <1>1, <2>1, <2>2, <2>3, <2>5, <2>6, <2>7, RowWriteKeeps DEF RunStates, AiInv, AiTypes
<1> QED BY <1>2, <1>3 DEF OpenGeneration

LEMMA SendKeeps ==
  ASSUME AiInv, Send
  PROVE  AiInv'
<1> DEFINE old == row[Version]
           n == IF old.requests = 0 THEN 1 ELSE 2
           r == [old EXCEPT !.requests = n, !.pending = TRUE]
<1>1. /\ run # NoRun /\ run.at = "admit" /\ UNCHANGED billVars /\ UNCHANGED preview
      /\ UNCHANGED <<explained, overview>> /\ Writes(r) /\ UNCHANGED vars
  BY DEF Send, Generating, AiUnchanged
<1>2. /\ Version \in Versions /\ old \in Rows /\ old.status = "running" /\ ~old.pending
  BY <1>1 DEF AiInv, AiTypes, Mine, Usage, Opened, InFlight, Version
<1>3. /\ IsFunctionOf(run', RunFields) /\ run'.at = "sent" /\ run'.plan = run.plan
      /\ run'.status = run.status /\ run'.asked = run.asked
  BY <1>1 DEF Send, AiInv, AiTypes, IsFunctionOf, RunFields
<1>4. SameRun /\ Version' = Version /\ Prompt' = Prompt
  BY <1>1, <1>3 DEF SameRun, NoRun, Version, Prompt, AiInv, AiTypes
<1>5. /\ r \in Rows /\ r.status = old.status /\ r.pending /\ r.tokens = old.tokens
      /\ r.requests = n
  <2>1. n \in 0..2
    OBVIOUS
  <2> HIDE DEF n
  <2> QED BY <1>2, <2>1 DEF Rows
<1> HIDE DEF r
<1>6. row'[Version] = r /\ bill' = bill /\ unbilled' = unbilled
  BY <1>1, <1>5, OwnRowFacts DEF AiInv, billVars
<1>7. Counted(Version)'
  BY <1>2, <1>4, <1>5, <1>6 DEF AiInv, Usage, Counted
<1>8. r.requests = 1 => Untouched(Version)'
  BY <1>2, <1>4, <1>5, <1>6 DEF AiInv, Usage, Untouched
<1>9. r.requests # 0
  BY <1>5
<1> QED BY <1>1, <1>2, <1>3, <1>4, <1>5, <1>6, <1>7, <1>8, <1>9, RowWriteKeeps
        DEF RunStates, AiInv, AiTypes, Explained

(* mark_unknown_usage keeps the row of the command, without a count.       *)
LEMMA UsageUnknownKeeps ==
  ASSUME AiInv, SameRun, run.at = "sent", run'.at \in {"retry", "finish"},
         UsageUnknown, UNCHANGED vars, UNCHANGED preview
  PROVE  AiInv'
<1> DEFINE old == row[Version]
           r == [old EXCEPT !.tokens = {}, !.pending = FALSE]
<1>1. /\ Version \in Versions /\ old \in Rows /\ old.status = "running" /\ old.requests # 0
      /\ Version' = Version /\ bill' = bill
  BY DEF AiInv, AiTypes, Mine, Usage, Opened, InFlight, Version, SameRun, UsageUnknown
<1>2. Writes(r) /\ unbilled' = [unbilled EXCEPT ![Version] = TRUE]
  BY DEF UsageUnknown
<1>3. r \in Rows /\ r.status = "running" /\ ~r.pending /\ r.tokens = {} /\ r.requests # 0
  BY <1>1 DEF Rows
<1> HIDE DEF r
<1>4. row'[Version] = r
  BY <1>2, <1>3, OwnRowFacts DEF AiInv, SameRun
<1>5. Counted(Version)'
  BY <1>1, <1>3, <1>4 DEF Counted
<1>6. UNCHANGED <<explained, overview>>
  BY DEF UsageUnknown
<1>7. /\ unbilled' \in [Versions -> BOOLEAN]
      /\ \A v \in Versions \ {Version} : unbilled'[v] = unbilled[v]
  BY <1>1, <1>2 DEF AiInv, AiTypes
<1> QED BY <1>1, <1>2, <1>3, <1>5, <1>6, <1>7, RowWriteKeeps DEF RunStates, AiInv, AiTypes

LEMMA UnansweredKeeps ==
  ASSUME AiInv, CancelRequest \/ Fail \/ Retryable
  PROVE  AiInv'
<1>1. run # NoRun /\ run.at = "sent" /\ UsageUnknown /\ UNCHANGED preview
  BY DEF CancelRequest, Fail, Retryable, Generating, AiUnchanged
<1>2. CASE CancelRequest \/ Fail
  <2>1. \E status \in RunStatus : AiStops(status)
    BY <1>2 DEF CancelRequest, Fail, RunStatus
  <2> QED BY <1>1, <2>1, StopsFacts, UsageUnknownKeeps DEF AiInv
<1>3. CASE Retryable
  <2>1. AiGoesOn("retry")
    BY <1>3 DEF Retryable
  <2> QED BY <1>1, <2>1, GoesOnFacts, UsageUnknownKeeps DEF AiInv, RunStates
<1> QED BY <1>2, <1>3

(* What an answer said is added to what is known of all before it.         *)
LEMMA TokensAdd ==
  ASSUME NEW r \in Rows, r.requests # 0, NEW n \in Nat, NEW usage \in {{1}, {}},
         r.requests = 1 => r.tokens = {} /\ n = 0,
         r.tokens # {} => r.tokens = {n}
  PROVE  /\ TokensAfter(r, usage) \in SUBSET Nat
         /\ TokensAfter(r, usage) # {} => usage = {1} /\ TokensAfter(r, usage) = {n + 1}
         /\ TokensAfter(r, usage) # {} /\ r.requests # 1 => r.tokens # {}
<1>1. CASE r.requests = 1
  <2>1. TokensAfter(r, usage) = usage
    BY <1>1 DEF TokensAfter
  <2>2. n = 0
    BY <1>1
  <2>3. CASE usage = {}
    BY <1>1, <2>1, <2>3
  <2>4. CASE usage = {1}
    BY <1>1, <2>1, <2>2, <2>4
  <2> QED BY <2>3, <2>4
<1>2. CASE r.requests # 1 /\ r.tokens = {}
  BY <1>2 DEF TokensAfter
<1>3. CASE r.requests # 1 /\ r.tokens = {n} /\ usage = {}
  BY <1>3 DEF TokensAfter
<1>4. CASE r.requests # 1 /\ r.tokens = {n} /\ usage = {1}
  <2>1. TokensAfter(r, usage) = {n + 1}
    BY <1>4 DEF TokensAfter
  <2> QED BY <1>4, <2>1
<1> QED BY <1>1, <1>2, <1>3, <1>4

LEMMA CompleteKeeps ==
  ASSUME AiInv, NEW usage \in {{1}, {}}, Complete(usage)
  PROVE  AiInv'
<1> DEFINE old == row[Version]
           t == TokensAfter(old, usage)
           r == [old EXCEPT !.tokens = t, !.pending = FALSE]
<1>1. /\ run # NoRun /\ run.at = "sent" /\ UNCHANGED preview /\ UNCHANGED <<explained, overview>>
      /\ Writes(r) /\ AiGoesOn("parse")
      /\ bill' = [bill EXCEPT ![Version] = IF usage = {} THEN bill[Version] ELSE bill[Version] + 1]
      /\ unbilled' = [unbilled EXCEPT ![Version] = unbilled[Version] \/ usage = {}]
  BY DEF Complete, Generating, AiUnchanged
<1>2. /\ Version \in Versions /\ old \in Rows /\ old.status = "running" /\ old.requests # 0
      /\ bill[Version] \in Nat /\ unbilled[Version] \in BOOLEAN /\ InFlight(Version)
  BY <1>1 DEF AiInv, AiTypes, Mine, Usage, Opened, InFlight, Version
<1>3. /\ old.requests = 1 => old.tokens = {} /\ bill[Version] = 0 /\ ~unbilled[Version]
      /\ old.tokens # {} => old.tokens = {bill[Version]} /\ ~unbilled[Version]
  BY <1>2 DEF AiInv, Usage, Counted, Untouched
<1>4. /\ t \in SUBSET Nat
      /\ t # {} => usage = {1} /\ t = {bill[Version] + 1} /\ ~unbilled[Version]
  BY <1>2, <1>3, TokensAdd
<1>5. SameRun /\ run'.at = "parse" /\ run'.plan = run.plan /\ UNCHANGED vars
  BY <1>1, GoesOnFacts DEF AiInv, RunStates
<1>6. Version' = Version /\ Prompt' = Prompt
  BY <1>5 DEF SameRun, Version, Prompt
<1> HIDE DEF t
<1>7. r \in Rows /\ r.status = "running" /\ ~r.pending /\ r.tokens = t /\ r.requests # 0
  BY <1>2, <1>4 DEF Rows
<1> HIDE DEF r
<1>8. /\ bill' \in [Versions -> Nat] /\ unbilled' \in [Versions -> BOOLEAN]
      /\ \A v \in Versions \ {Version} : bill'[v] = bill[v] /\ unbilled'[v] = unbilled[v]
      /\ bill'[Version] = IF usage = {} THEN bill[Version] ELSE bill[Version] + 1
      /\ unbilled'[Version] <=> unbilled[Version] \/ usage = {}
  <2> DEFINE b == IF usage = {} THEN bill[Version] ELSE bill[Version] + 1
             u == unbilled[Version] \/ usage = {}
  <2>1. b \in Nat /\ u \in BOOLEAN
    BY <1>2
  <2>2. bill' = [bill EXCEPT ![Version] = b] /\ unbilled' = [unbilled EXCEPT ![Version] = u]
    BY <1>1
  <2>3. bill \in [Versions -> Nat] /\ unbilled \in [Versions -> BOOLEAN]
    BY DEF AiInv, AiTypes
  <2> HIDE DEF b, u
  <2>4. /\ bill' \in [Versions -> Nat] /\ unbilled' \in [Versions -> BOOLEAN]
        /\ \A v \in Versions \ {Version} : bill'[v] = bill[v] /\ unbilled'[v] = unbilled[v]
        /\ bill'[Version] = b /\ unbilled'[Version] = u
    BY <1>2, <2>1, <2>2, <2>3
  <2> QED BY <2>4 DEF b, u
<1>9. row'[Version] = r
  BY <1>1, <1>7, OwnRowFacts DEF AiInv
<1>10. Counted(Version)'
  BY <1>4, <1>6, <1>7, <1>8, <1>9 DEF Counted
<1> QED BY <1>1, <1>2, <1>5, <1>6, <1>7, <1>8, <1>10, RowWriteKeeps DEF RunStates, AiInv, Explained

LEMMA AskKeeps ==
  ASSUME AiInv, Ask
  PROVE  AiInv'
<1>1. /\ run # NoRun /\ run.at = "ask" /\ UNCHANGED <<fileVars, billVars>> /\ UNCHANGED preview
      /\ Opened
  BY DEF Ask, Generating, AiUnchanged, Opened
<1>2. CASE AiGoesOn("finish")
  BY <1>1, <1>2, GoesOnFacts, QuietKeeps DEF AiInv, RunStates
<1>3. CASE AiStops("cancelled")
  BY <1>1, <1>3, StopsFacts, QuietKeeps DEF AiInv, RunStatus
<1>4. CASE AiGoesOn("admit") /\ (Prompt = Overview => All \subseteq explained[Version])
  <2>1. SameRun /\ run'.at = "admit" /\ run'.plan = run.plan /\ UNCHANGED vars
    BY <1>1, <1>4, GoesOnFacts DEF AiInv, RunStates
  <2>2. Prompt' = Prompt
    BY <2>1 DEF Prompt
  <2> QED BY <1>1, <1>4, <2>1, <2>2, QuietKeeps
<1> QED BY <1>2, <1>3, <1>4 DEF Ask

LEMMA GivesUpKeeps ==
  ASSUME AiInv, CancelAdmission \/ Unusable
  PROVE  AiInv'
<1>1. /\ run # NoRun /\ run.at \in {"admit", "parse"} /\ UNCHANGED <<fileVars, billVars>>
      /\ UNCHANGED preview /\ Opened
      /\ \E status \in RunStatus : AiStops(status)
  BY DEF CancelAdmission, Unusable, Generating, AiUnchanged, Opened, RunStatus
<1> QED BY <1>1, StopsFacts, QuietKeeps DEF AiInv

(* The deadline of a retry is written and removed without another change.  *)
LEMMA DeadlineKeeps ==
  ASSUME AiInv, SameRun, run.at \in {"retry", "delay"}, run'.at \in {"delay", "ask", "finish"},
         NEW retry \in BOOLEAN, Writes([row[Version] EXCEPT !.retry = retry]),
         UNCHANGED <<explained, overview, billVars>>, UNCHANGED vars, UNCHANGED preview
  PROVE  AiInv'
<1> DEFINE old == row[Version]
           r == [old EXCEPT !.retry = retry]
<1>1. /\ Version \in Versions /\ old \in Rows /\ old.status = "running" /\ ~old.pending
      /\ Version' = Version /\ bill' = bill /\ unbilled' = unbilled
  BY DEF AiInv, AiTypes, Mine, Usage, Opened, InFlight, Version, SameRun, billVars
<1>2. /\ r \in Rows /\ r.status = "running" /\ ~r.pending /\ r.tokens = old.tokens
      /\ r.requests = old.requests
  BY <1>1 DEF Rows
<1>3. Writes(r)
  OBVIOUS
<1> HIDE DEF r
<1>4. row'[Version] = r
  BY <1>2, <1>3, OwnRowFacts DEF AiInv, SameRun
<1>5. Counted(Version)' /\ (r.requests = 0 => Untouched(Version)')
  BY <1>1, <1>2, <1>4 DEF AiInv, Usage, Counted, Untouched
<1> QED BY <1>1, <1>2, <1>3, <1>5, RowWriteKeeps DEF RunStates, AiInv, AiTypes

LEMMA RecordRetryKeeps ==
  ASSUME AiInv, RecordRetry
  PROVE  AiInv'
<1>1. /\ run # NoRun /\ run.at = "retry" /\ UNCHANGED <<explained, overview, billVars>>
      /\ UNCHANGED preview /\ Writes([row[Version] EXCEPT !.retry = TRUE])
  BY DEF RecordRetry, Generating
<1>2. SameRun /\ run'.at \in {"delay", "finish"} /\ UNCHANGED vars
  <2>1. CASE AiStops("retryPending")
    BY <1>1, <2>1, StopsFacts DEF AiInv, RunStatus
  <2>2. CASE run' = [run EXCEPT !.at = "delay", !.retries = run.retries + 1] /\ UNCHANGED vars
    <3>1. IsFunctionOf(run, RunFields) /\ run.status \in RunStatus
      BY <1>1 DEF AiInv, AiTypes
    <3>2. /\ IsFunctionOf(run', RunFields) /\ run'.at = "delay"
          /\ run'.status = run.status /\ run'.asked = run.asked
      BY <2>2, <3>1 DEF IsFunctionOf, RunFields
    <3>3. run' # NoRun
      BY <3>2 DEF NoRun
    <3> QED BY <1>1, <2>2, <3>1, <3>2, <3>3 DEF SameRun
  <2> QED BY <2>1, <2>2 DEF RecordRetry
<1> QED BY <1>1, <1>2, DeadlineKeeps

LEMMA DelayKeeps ==
  ASSUME AiInv, Delay
  PROVE  AiInv'
<1>1. /\ run # NoRun /\ run.at = "delay" /\ UNCHANGED <<explained, overview, newest, billVars>>
      /\ UNCHANGED preview /\ Opened
  BY DEF Delay, Generating, AiUnchanged, Opened
<1>2. CASE AiStops("cancelled") /\ UNCHANGED row
  <2>1. UNCHANGED <<fileVars, billVars>>
    BY <1>1, <1>2 DEF fileVars
  <2> QED BY <1>1, <1>2, <2>1, StopsFacts, QuietKeeps DEF AiInv, RunStatus
<1>3. CASE Writes([row[Version] EXCEPT !.retry = FALSE]) /\ AiGoesOn("ask")
  BY <1>1, <1>3, GoesOnFacts, DeadlineKeeps DEF AiInv, RunStates
<1> QED BY <1>2, <1>3 DEF Delay

LEMMA SaveKeeps ==
  ASSUME AiInv, Save
  PROVE  AiInv'
<1>1. /\ run # NoRun /\ run.at = "parse" /\ UNCHANGED <<row, newest, billVars>> /\ UNCHANGED preview
      /\ Opened /\ Version \in Versions
  BY DEF Save, Generating, AiUnchanged, Opened, AiInv, AiTypes, Version
<1>2. CASE AiStops("cancelled") /\ UNCHANGED <<explained, overview>>
  <2>1. UNCHANGED <<fileVars, billVars>>
    BY <1>1, <1>2 DEF fileVars
  <2> QED BY <1>1, <1>2, <2>1, StopsFacts, QuietKeeps DEF AiInv, RunStatus
<1>3. ASSUME run' = [run EXCEPT !.at = "ask", !.plan = Tail(run.plan), !.retries = 0],
             UNCHANGED vars,
             \/ /\ Prompt = Overview /\ UNCHANGED explained
                /\ overview' = [overview EXCEPT ![Version] = TRUE]
             \/ /\ explained' = [explained EXCEPT ![Version] = explained[Version] \cup {Prompt}]
                /\ UNCHANGED overview
      PROVE  AiInv'
  <2>1. IsFunctionOf(run, RunFields) /\ run.status \in RunStatus
    BY <1>1 DEF AiInv, AiTypes
  <2>2. /\ IsFunctionOf(run', RunFields) /\ run'.at = "ask"
        /\ run'.status = run.status /\ run'.asked = run.asked
    BY <1>3, <2>1 DEF IsFunctionOf, RunFields
  <2>3. run' # NoRun
    BY <2>2 DEF NoRun
  <2>4. SameRun /\ Version' = Version /\ Opened'
    BY <1>1, <2>1, <2>2, <2>3 DEF SameRun, Version, Opened
  <2>5. UNCHANGED <<row, bill, unbilled, job>>
    BY <1>1, <1>3 DEF billVars, vars, reportVars
  <2>6. /\ IsFunctionOf(explained', Versions) /\ overview' \in [Versions -> BOOLEAN]
        /\ \A v \in Versions : explained[v] \subseteq explained'[v]
        /\ \A v \in Versions : overview[v] => overview'[v]
        /\ \A v \in Versions : overview'[v] => overview[v] \/ (v = Version /\ Prompt = Overview)
    BY <1>1, <1>3 DEF AiInv, AiTypes, IsFunctionOf
  <2>7. AiTypes'
    BY <1>1, <2>2, <2>4, <2>5, <2>6 DEF AiInv, AiTypes, RunStates, SameRun
  <2>8. \A v \in Versions : ~InFlight(v) /\ ~InFlight(v)'
    BY <1>1, <2>2 DEF InFlight
  <2>9. Owner' /\ Mine'
    <3>1. Owner'
      BY <2>4, <2>5 DEF AiInv, Owner, SameRun
    <3>2. Mine'
      BY <1>1, <2>4, <2>5 DEF AiInv, Mine
    <3> QED BY <3>1, <3>2
  <2>10. Usage'
    BY <1>1, <2>4, <2>5, <2>8 DEF AiInv, Usage, Counted, Untouched
  <2>11. Prompt = Overview => All \subseteq explained[Version]
    BY <1>1 DEF AiInv, Explained
  <2>12. Explained'
    BY <2>2, <2>4, <2>5, <2>6, <2>11 DEF AiInv, Explained
  <2> QED BY <2>7, <2>9, <2>10, <2>12 DEF AiInv
<1> QED BY <1>2, <1>3 DEF Save

LEMMA FinishKeeps ==
  ASSUME AiInv, Finish
  PROVE  AiInv'
<1> DEFINE old == row[Version]
           r == [old EXCEPT !.status = FinalStatus]
<1>1. /\ run # NoRun /\ run.at = "finish" /\ AiEnds /\ Writes(r)
      /\ UNCHANGED <<explained, overview, billVars>> /\ UNCHANGED preview
  BY DEF Finish, Generating, AiUnchanged
<1>2. /\ Version \in Versions /\ old \in Rows /\ ~old.pending /\ run.status \in RunStatus
  BY <1>1 DEF AiInv, AiTypes, Usage, Opened, InFlight, Version
<1>3. /\ FinalStatus \in RunStatus \cup {"complete"}
      /\ FinalStatus = "complete" => All \subseteq explained[Version] /\ overview[Version]
  BY <1>2 DEF FinalStatus, RunStatus
<1> HIDE DEF FinalStatus
<1>4. /\ r \in Rows /\ r.status = FinalStatus /\ ~r.pending /\ r.tokens = old.tokens
      /\ r.requests = old.requests
  BY <1>2, <1>3 DEF Rows
<1> HIDE DEF r
<1>5. /\ row' \in [Versions -> Rows] /\ row'[Version] = r
      /\ \A v \in Versions \ {Version} : row'[v] = row[v]
  BY <1>1, <1>4, OwnRowFacts DEF AiInv
<1>6. run' = NoRun /\ job' = None /\ bill' = bill /\ unbilled' = unbilled
  BY <1>1, EndsFacts DEF billVars
<1>7. AiTypes'
  BY <1>1, <1>5, <1>6 DEF AiInv, AiTypes
<1>8. Owner'
  BY <1>6 DEF Owner
<1>9. ~Opened'
  BY <1>6 DEF Opened
<1>10. Mine'
  BY <1>3, <1>4, <1>5, <1>9 DEF AiInv, Mine, RunStatus
<1>11. \A v \in Versions : ~InFlight(v) /\ ~InFlight(v)'
  BY <1>1, <1>6 DEF InFlight
<1>12. Usage'
  BY <1>2, <1>4, <1>5, <1>6, <1>9, <1>11 DEF AiInv, Usage, Counted, Untouched
<1>13. Explained'
  BY <1>1, <1>3, <1>4, <1>5, <1>6 DEF AiInv, Explained
<1> QED BY <1>7, <1>8, <1>10, <1>12, <1>13 DEF AiInv

LEMMA ProcessEndsKeeps ==
  ASSUME AiInv, ProcessEnds
  PROVE  AiInv'
<1>1. /\ run' = NoRun /\ preview' = {} /\ job' = None /\ UNCHANGED <<explained, overview, bill>>
      /\ row' = [v \in Versions |-> [row[v] EXCEPT !.mine = FALSE]]
      /\ unbilled' = [v \in Versions |-> unbilled[v] \/ (run.at = "sent" /\ v = Version)]
  BY DEF ProcessEnds
<1>2. \A v \in Versions :
        /\ row'[v] \in Rows /\ ~row'[v].mine /\ row'[v].status = row[v].status
        /\ row'[v].tokens = row[v].tokens /\ row'[v].pending = row[v].pending
        /\ row'[v].requests = row[v].requests
  <2> TAKE v \in Versions
  <2>1. row[v] \in Rows /\ row'[v] = [row[v] EXCEPT !.mine = FALSE]
    BY <1>1 DEF AiInv, AiTypes
  <2> QED BY <2>1 DEF Rows
<1>3. row' \in [Versions -> Rows]
  BY <1>1, <1>2
<1>4. AiTypes'
  BY <1>1, <1>3 DEF AiInv, AiTypes
<1>5. Owner' /\ Mine'
  BY <1>1, <1>2 DEF Owner, Mine, Opened
<1>6. \A v \in Versions : ~InFlight(v)' /\ (~InFlight(v) /\ unbilled'[v] => unbilled[v])
  BY <1>1 DEF InFlight, NoRun, AiInv, AiTypes
<1>7. Usage'
  BY <1>1, <1>2, <1>6 DEF AiInv, Usage, Counted, Untouched, Opened
<1>8. Explained'
  BY <1>1, <1>2 DEF AiInv, Explained
<1> QED BY <1>4, <1>5, <1>7, <1>8 DEF AiInv

LEMMA OthersKeep ==
  ASSUME AiInv, [Next]_vars, UNCHANGED aiVars
  PROVE  AiInv'
<1>1. /\ UNCHANGED <<row, explained, overview, bill, unbilled, run, preview>>
      /\ job' = "ai" <=> job = "ai"
  BY JobsKeepOwner DEF aiVars, fileVars, billVars, vars, reportVars
<1>2. AiTypes'
  BY <1>1 DEF AiInv, AiTypes
<1>3. Version' = Version /\ Opened' = Opened /\ Prompt' = Prompt
  BY <1>1 DEF Version, Opened, Prompt
<1>4. \A v : InFlight(v)' = InFlight(v)
  BY <1>1, <1>3 DEF InFlight, Version
<1>5. Owner' /\ Mine'
  BY <1>1, <1>3 DEF AiInv, Owner, Mine
<1>6. Usage'
  BY <1>1, <1>3, <1>4 DEF AiInv, Usage, Counted, Untouched
<1>7. Explained'
  BY <1>1, <1>3 DEF AiInv, Explained
<1> QED BY <1>2, <1>5, <1>6, <1>7 DEF AiInv

LEMMA AiStepKeeps ==
  ASSUME AiInv, [AiNext]_allVars
  PROVE  AiInv'
<1>1. CASE Next /\ UNCHANGED aiVars
  BY <1>1, OthersKeep
<1>2. CASE UNCHANGED allVars
  BY <1>2, OthersKeep DEF allVars
<1>3. CASE AiStep
  BY <1>3, PrepareKeeps, OpenGenerationKeeps, AskKeeps, GivesUpKeeps, SendKeeps, UnansweredKeeps,
     CompleteKeeps, RecordRetryKeeps, DelayKeeps, SaveKeeps, FinishKeeps DEF AiStep
<1>4. CASE BeginAi \/ ProcessEnds
  BY <1>4, BeginAiKeeps, ProcessEndsKeeps
<1>5. CASE \E v \in Versions, budget \in Budgets : Review(v, budget)
  BY <1>5, ReviewKeeps
<1>6. CASE \E v \in Versions : Tick(v)
  <2>1. UNCHANGED <<row, explained, overview, bill, unbilled, job, run>> /\ preview' = preview
    BY <1>6 DEF Tick, fileVars, billVars, vars, reportVars
  <2> QED BY <2>1, StandsKeeps
<1> QED BY <1>1, <1>2, <1>3, <1>4, <1>5, <1>6 DEF AiNext

(* What is shown of a generation is true at every moment: token counts,    *)
(* "complete" and "running" (read_status_row, export_generation_version).  *)
THEOREM GenerationsAreTrue == AiSpec => []GenerationsTellTheTruth
<1>1. AiInv => GenerationsTellTheTruth
  <2> SUFFICES ASSUME AiInv, NEW v \in Versions
               PROVE  /\ ShownTokens(v) # {} => ShownTokens(v) = {bill[v]} /\ ~unbilled[v]
                      /\ ShownStatus(v) = "complete" => All \subseteq explained[v] /\ overview[v]
                      /\ overview[v] => All \subseteq explained[v]
                      /\ ShownStatus(v) = "running" => job = "ai" /\ run # NoRun /\ Version = v
    BY DEF GenerationsTellTheTruth
  <2>1. ShownTokens(v) # {} => ShownTokens(v) = {bill[v]} /\ ~unbilled[v]
    BY DEF AiInv, Usage, Counted, ShownTokens
  <2>2. ShownStatus(v) = "complete" => All \subseteq explained[v] /\ overview[v]
    BY DEF AiInv, Explained, ShownStatus
  <2>3. overview[v] => All \subseteq explained[v]
    BY DEF AiInv, Explained
  <2>4. ShownStatus(v) = "running" => job = "ai" /\ run # NoRun /\ Version = v
    BY DEF AiInv, Owner, Mine, Opened, ShownStatus
  <2> QED BY <2>1, <2>2, <2>3, <2>4
<1> QED BY AiInvInit, AiStepKeeps, <1>1, PTL DEF AiSpec

-----------------------------------------------------------------------------
(* What a command would send.                                              *)

(* How they are gathered, from what is gathered of fewer findings.         *)
Gathers(v, budget) ==
  \E h \in [0..Len(Findings) -> Seq(All)] :
    /\ h[0] = <<>> /\ h[Len(Findings)] = Batches(v, budget)
    /\ \A k \in 1..Len(Findings) :
         \/ h[k] = h[k-1]
         \/ h[k] = Append(h[k-1], Findings[k]) /\ Findings[k] \notin explained[v]

LEMMA BatchesAreGathered ==
  ASSUME NEW v \in Versions, NEW budget \in Budgets
  PROVE  Gathers(v, budget)
<1> DEFINE base == <<>>
           n == Len(Findings)
           V == Seq(All)
           Skip(sofar, f) == \/ f \in explained[v] \/ Len(sofar) >= budget.requests
                             \/ Cost(sofar) + Size[f] > budget.chars
           Put(sofar, f) == IF Skip(sofar, f) THEN sofar ELSE Append(sofar, f)
           H == [p \in (1..n) \X V |-> Put(p[2], Findings[p[1]])]
           Step(g, s) == IF s = {} THEN <<>> ELSE Put(g[s \ {Max(s)}], Findings[Max(s)])
           IsIter(g) == g = [s \in SUBSET (1..n) |-> Step(g, s)]
           iter == CHOOSE g : IsIter(g)
<1>1. /\ n \in Nat /\ DOMAIN Findings = 1..n /\ <<>> \in V
      /\ \A k \in 1..n : Findings[k] \in All
      /\ \A sofar \in V, f \in All : Put(sofar, f) \in V
  BY ReportAiAssumption, LenProperties, EmptySeq, AppendProperties, ElementOfSeq
<1>2. Batches(v, budget) = iter[1..n]
  BY <1>1 DEF Batches, FoldLeft, MapThenFoldSet
<1>3. H \in [(1..n) \X V -> V]
  <2> HIDE DEF Put
  <2> QED BY <1>1
<1>4. \E g \in [SUBSET (1..n) -> V] : IsIter(g)
  <2>1. PICK g \in [SUBSET (1..n) -> V] : \A s \in SUBSET (1..n) :
             g[s] = IF s = {} THEN <<>> ELSE H[<<Max(s), g[s \ {Max(s)}]>>]
    <3>1. HasPrefixRecursion(n, V, base, H)
      <4>1. base \in V
        BY <1>1
      <4> HIDE DEF H, n, V, base
      <4> QED BY <1>1, <1>3, <4>1, RecursionOnPrefixes
    <3> HIDE DEF H
    <3> QED BY <3>1 DEF HasPrefixRecursion
  <2>2. ASSUME NEW s \in SUBSET (1..n)
        PROVE  g[s] = Step(g, s)
    <3> HIDE DEF Put, n, V
    <3>1. CASE s = {}
      BY <2>1, <3>1
    <3>2. CASE s # {}
      <4>1. Max(s) \in 1..n
        BY <1>1, <3>2, MaxOfIndices
      <4> QED BY <2>1, <3>2, <4>1
    <3> QED BY <3>1, <3>2
  <2> HIDE DEF Step
  <2> QED BY <2>2
<1>5. IsIter(iter)
  <2> HIDE DEF IsIter
  <2> QED BY <1>4
<1>6. iter[{}] = <<>> /\ \A k \in 1..n : iter[1..k] = Put(iter[1..k-1], Findings[k])
  <2> HIDE DEF iter, Put, n
  <2>1. \A s \in SUBSET (1..n) : iter[s] = Step(iter, s)
    BY <1>5
  <2> QED BY <1>1, <2>1, PrefixMax
<1>7. \A k \in 1..n : iter[1..k-1] \in V => iter[1..k] = H[<<k, iter[1..k-1]>>]
  <2> HIDE DEF iter, Put, n, V
  <2> QED BY <1>6
<1>11. FoldsPrefixes(iter, n, V, base, H)
  <2> HIDE DEF H, n, V, iter, Put
  <2> QED BY <1>6, <1>7 DEF FoldsPrefixes
<1>8. (\A k \in 0..n : iter[1..k] \in V) /\ iter[1..0] = <<>>
  <2>1. base \in V
    BY <1>1
  <2>2. \A k \in 0..n : iter[1..k] \in V
    <3> HIDE DEF H, n, V, iter, base
    <3> QED BY <1>1, <1>3, <1>11, <2>1, PrefixFold
  <2>3. iter[1..0] = base
    <3>1. 1..0 = {}
      OBVIOUS
    <3> HIDE DEF iter
    <3> QED BY <1>6, <3>1
  <2> QED BY <2>2, <2>3
<1> DEFINE h == [k \in 0..n |-> iter[1..k]]
<1>9. h \in [0..n -> V] /\ h[0] = <<>> /\ h[n] = Batches(v, budget)
  <2> HIDE DEF iter, n, V
  <2> QED BY <1>1, <1>2, <1>8
<1>10. \A k \in 1..n : h[k] = Put(h[k-1], Findings[k])
  <2> HIDE DEF iter, n, V, Put
  <2> QED BY <1>1, <1>6, SMTT(30)
<1>12. ASSUME NEW k \in 1..n
       PROVE  \/ h[k] = h[k-1]
              \/ h[k] = Append(h[k-1], Findings[k]) /\ Findings[k] \notin explained[v]
  <2>1. CASE Skip(h[k-1], Findings[k])
    <3> HIDE DEF Skip, h
    <3> QED BY <1>10, <2>1
  <2>2. CASE ~Skip(h[k-1], Findings[k])
    <3>1. Findings[k] \notin explained[v]
      BY <2>2
    <3> HIDE DEF Skip, h
    <3> QED BY <1>10, <2>2, <3>1
  <2> QED BY <2>1, <2>2
<1> HIDE DEF h
<1> QED BY <1>9, <1>12 DEF Gathers

(* What a command would send: findings without an explanation, each once.  *)
LEMMA BatchFacts ==
  ASSUME NEW v \in Versions, NEW budget \in Budgets
  PROVE  /\ Batches(v, budget) \in Seq(All)
         /\ IsInjective(Batches(v, budget))
         /\ \A i \in 1..Len(Batches(v, budget)) : Batches(v, budget)[i] \notin explained[v]
<1> DEFINE n == Len(Findings)
           Early(k) == {Findings[i] : i \in 1..k}
           Good(q, k) == /\ q \in Seq(All) /\ IsInjective(q)
                         /\ \A i \in 1..Len(q) : q[i] \in Early(k) \ explained[v]
<1>1. PICK h \in [0..n -> Seq(All)] :
           /\ h[0] = <<>> /\ h[n] = Batches(v, budget)
           /\ \A k \in 1..n :
                \/ h[k] = h[k-1]
                \/ h[k] = Append(h[k-1], Findings[k]) /\ Findings[k] \notin explained[v]
  BY BatchesAreGathered DEF Gathers
<1>2. n \in Nat /\ DOMAIN Findings = 1..n /\ \A k \in 1..n : Findings[k] \in All
  BY ReportAiAssumption, LenProperties, ElementOfSeq
<1> HIDE DEF n
<1>3. Good(h[0], 0)
  BY <1>1, EmptySeq DEF IsInjective
<1>4. ASSUME NEW k \in 1..n, Good(h[k-1], k-1)
      PROVE  Good(h[k], k)
  <2> DEFINE q == h[k-1]
             f == Findings[k]
  <2>1. Early(k-1) \subseteq Early(k) /\ f \in Early(k) /\ f \notin Early(k-1)
    <3>1. \A i \in 1..k-1 : i \in 1..k /\ i \in 1..n /\ i # k
      BY <1>2
    <3>2. \A i \in 1..k-1 : Findings[i] # f
      BY ReportAiAssumption, <1>2, <3>1 DEF IsInjective
    <3> QED BY <3>1, <3>2, <1>2
  <2>2. CASE h[k] = q
    BY <1>4, <2>1, <2>2
  <2>3. CASE h[k] = Append(q, f) /\ f \notin explained[v]
    <3> HIDE DEF Early
    <3>1. /\ q \in Seq(All) /\ f \in All /\ Len(q) \in Nat /\ DOMAIN q = 1..Len(q)
      BY <1>2, <1>4, LenProperties
    <3> DEFINE a == Append(q, f)
    <3>2. /\ a \in Seq(All) /\ Len(a) = Len(q) + 1 /\ DOMAIN a = 1..Len(q)+1
          /\ \A i \in 1..Len(q) : a[i] = q[i]
          /\ a[Len(q)+1] = f
      BY <3>1, AppendProperties, LenProperties
    <3> HIDE DEF a, q, f
    <3>3. \A i \in 1..Len(q) : a[i] \in Early(k-1) \ explained[v]
      BY <3>2, <1>4 DEF q
    <3>4. \A i \in 1..Len(a) : i \in 1..Len(q) \/ i = Len(q) + 1
      BY <3>1, <3>2
    <3>5. \A i \in 1..Len(a) : a[i] \in Early(k) \ explained[v]
      BY <3>2, <3>3, <3>4, <2>1, <2>3 DEF q, f
    <3>6. IsInjective(a)
      <4>1. \A i, j \in 1..Len(q) : q[i] = q[j] => i = j
        BY <1>4, <3>1 DEF IsInjective, q
      <4>2. \A i, j \in 1..Len(a) : a[i] = a[j] => i = j
        <5> TAKE i, j \in 1..Len(a)
        <5>1. CASE i \in 1..Len(q) /\ j \in 1..Len(q)
          BY <5>1, <4>1, <3>2
        <5>2. CASE i = Len(q) + 1 /\ j \in 1..Len(q)
          BY <5>2, <3>2, <3>3, <2>1 DEF f
        <5>3. CASE i \in 1..Len(q) /\ j = Len(q) + 1
          BY <5>3, <3>2, <3>3, <2>1 DEF f
        <5>4. CASE i = Len(q) + 1 /\ j = Len(q) + 1
          BY <5>4
        <5> QED BY <3>4, <5>1, <5>2, <5>3, <5>4
      <4> QED BY <4>2, <3>2 DEF IsInjective
    <3> QED BY <2>3, <3>2, <3>5, <3>6 DEF a, q, f
  <2> QED BY <1>1, <2>2, <2>3
<1> DEFINE Bad == {k \in 0..n : ~Good(h[k], k)}
<1>5. Bad = {}
  <2> SUFFICES ASSUME Bad # {} PROVE FALSE
    OBVIOUS
  <2> HIDE DEF Good
  <2>1. PICK k \in Bad : \A j \in Bad : k <= j
    <3>1. Bad \subseteq Nat
      BY <1>2
    <3> HIDE DEF Bad
    <3> QED BY <3>1, LeastNatural
  <2>2. k # 0
    BY <1>3
  <2>3. k \in 1..n /\ k - 1 \in 0..n /\ ~(k <= k - 1)
    BY <1>2, <2>2
  <2>4. Good(h[k-1], k-1)
    BY <2>1, <2>3
  <2> QED BY <2>1, <2>3, <2>4, <1>4
<1>6. Good(h[n], n)
  <2>1. n \in 0..n
    BY <1>2
  <2> HIDE DEF Good
  <2> QED BY <1>5, <2>1
<1> QED BY <1>1, <1>6

Prompts == All \cup {Overview}

(* A plan: findings without an explanation, and the overview after them.   *)
MeantFor(q, told, summed) ==
  /\ q \in Seq(Prompts) /\ IsInjective(q)
  /\ \A i \in 1..Len(q) :
       /\ q[i] = Overview => i = Len(q) /\ ~summed
       /\ q[i] # Overview => q[i] \notin told

LEMMA PromptsFacts ==
  ASSUME NEW v \in Versions, NEW budget \in Budgets
  PROVE  MeantFor(PrepareAi(v, budget).prompts, explained[v], overview[v])
<1> DEFINE b == Batches(v, budget)
           planned == OverviewPlanned(v, budget)
           q == b \o (IF planned THEN <<Overview>> ELSE <<>>)
<1>1. /\ b \in Seq(All) /\ IsInjective(b) /\ Len(b) \in Nat /\ DOMAIN b = 1..Len(b)
      /\ \A i \in 1..Len(b) : b[i] \notin explained[v] /\ b[i] \in All
  BY BatchFacts, LenProperties, ElementOfSeq
<1>2. planned => ~overview[v]
  BY DEF OverviewPlanned
<1>3. PrepareAi(v, budget).prompts = q
  BY DEF PrepareAi
<1> HIDE DEF b, planned
<1>4. CASE planned
  <2>1. q = b \o <<Overview>> /\ b \in Seq(Prompts)
    BY <1>1, <1>4 DEF Prompts
  <2>2. /\ q = Append(b, Overview) /\ q \in Seq(Prompts) /\ Len(q) = Len(b) + 1
        /\ \A i \in 1..Len(b) : q[i] = b[i]
        /\ q[Len(b)+1] = Overview /\ DOMAIN q = 1..Len(q)
    <3>1. Overview \in Prompts
      BY DEF Prompts
    <3>2. q = Append(b, Overview)
      BY <2>1, <3>1, AppendIsConcat
    <3> HIDE DEF q
    <3> QED BY <2>1, <3>1, <3>2, AppendProperties, LenProperties
  <2> HIDE DEF q
  <2>3. \A i \in 1..Len(q) : i \in 1..Len(b) \/ i = Len(q)
    BY <1>1, <2>2
  <2>4. \A i \in 1..Len(b) : q[i] # Overview /\ q[i] \notin explained[v]
    BY <1>1, <2>2, ReportAiAssumption
  <2>5. ASSUME NEW i \in 1..Len(q), NEW j \in 1..Len(q), q[i] = q[j]
        PROVE  i = j
    BY <1>1, <2>2, <2>3, <2>4, <2>5 DEF IsInjective
  <2>6. IsInjective(q)
    BY <2>2, <2>5, SMTT(30) DEF IsInjective
  <2> QED BY <1>2, <1>3, <1>4, <2>2, <2>3, <2>4, <2>6 DEF MeantFor
<1>5. CASE ~planned
  <2>1. q = b /\ b \in Seq(Prompts)
    BY <1>1, <1>5 DEF Prompts
  <2> HIDE DEF q
  <2> QED BY <1>1, <1>3, <2>1, ReportAiAssumption DEF MeantFor
<1> QED BY <1>4, <1>5

-----------------------------------------------------------------------------
(* The requests of a command.                                              *)

PlanTypes ==
  /\ \A seen \in preview : seen.budget \in Budgets
  /\ run # NoRun => /\ run.requests \in Nat /\ run.chars \in Nat /\ Budget \in Budgets

(* The command works through what the user was shown.                      *)
PlanIsMeant ==
  run # NoRun =>
    /\ run.asked.prompts # <<>>
    /\ run.at # "files" =>
         /\ MeantFor(run.plan, explained[Version], overview[Version])
         /\ \A i \in 1..Len(run.plan) : Contains(run.asked.prompts, run.plan[i])
    /\ run.at \in {"open", "admit", "sent", "parse", "retry", "delay"} => run.plan # <<>>

Admitted == run # NoRun /\ run.at = "admit" => ~OverBudget

(* A deadline that has not come is written, and the command is not at work *)
(* before it.                                                              *)
Waited ==
  /\ \A v \in Versions : v \in ahead => row[v].retry
  /\ run # NoRun /\ run.at \in {"ask", "admit", "sent", "parse", "retry"} => Version \notin ahead

PlanInv == PlanTypes /\ PlanIsMeant /\ Admitted /\ Waited

LEMMA PlanInit == AiInit => PlanInv
BY DEF AiInit, PlanInv, PlanTypes, PlanIsMeant, Admitted, Waited

(* A step that ends the command, or leaves it as it was.                   *)
LEMMA PlanStands ==
  ASSUME AiInv, PlanInv, UNCHANGED <<row, explained, overview, ahead>>, run' \in {run, NoRun},
         \A seen \in preview' : seen.budget \in Budgets
  PROVE  PlanInv'
<1>1. CASE run' = NoRun
  BY <1>1 DEF PlanInv, PlanTypes, PlanIsMeant, Admitted, Waited
<1>2. CASE run' = run
  <2>1. Version' = Version /\ Prompt' = Prompt /\ Budget' = Budget
    BY <1>2 DEF Version, Prompt, Budget
  <2>2. PlanTypes' /\ Admitted' /\ Waited'
    BY <1>2, <2>1 DEF PlanInv, PlanTypes, Admitted, OverBudget, Waited
  <2>3. PlanIsMeant'
    BY <1>2, <2>1 DEF PlanInv, PlanIsMeant
  <2> QED BY <2>2, <2>3 DEF PlanInv
<1> QED BY <1>1, <1>2

SamePlan ==
  /\ run # NoRun /\ run' # NoRun /\ run'.asked = run.asked /\ run'.plan = run.plan
  /\ run'.requests = run.requests /\ run'.chars = run.chars

LEMMA GoesOnPlan ==
  ASSUME AiTypes, run # NoRun, NEW at \in RunStates, AiGoesOn(at)
  PROVE  SamePlan /\ run'.at = at
<1>1. IsFunctionOf(run, RunFields) /\ run' = [run EXCEPT !.at = at]
  BY DEF AiTypes, AiGoesOn
<1>2. /\ run'.at = at /\ run'.plan = run.plan /\ run'.asked = run.asked
      /\ run'.requests = run.requests /\ run'.chars = run.chars
  BY <1>1 DEF IsFunctionOf, RunFields
<1>3. run' # NoRun
  BY <1>2 DEF NoRun, RunStates
<1> QED BY <1>2, <1>3 DEF SamePlan

LEMMA StopsPlan ==
  ASSUME AiTypes, run # NoRun, NEW status, AiStops(status)
  PROVE  SamePlan /\ run'.at = "finish"
<1>1. IsFunctionOf(run, RunFields) /\ run' = [run EXCEPT !.at = "finish", !.status = status]
  BY DEF AiTypes, AiStops
<1>2. /\ run'.at = "finish" /\ run'.plan = run.plan /\ run'.asked = run.asked
      /\ run'.requests = run.requests /\ run'.chars = run.chars
  BY <1>1 DEF IsFunctionOf, RunFields
<1>3. run' # NoRun
  BY <1>2 DEF NoRun
<1> QED BY <1>2, <1>3 DEF SamePlan

(* A step of the command within one request.                               *)
LEMMA SamePlanKeeps ==
  ASSUME AiTypes, PlanInv, SamePlan, UNCHANGED <<explained, overview, preview>>,
         run.at # "files", run'.at # "files",
         run.at = "ask" => run'.at \in {"finish", "admit"},
         run.at = "finish" => run'.at = "finish",
         run'.at = "admit" => run.plan # <<>> /\ ~OverBudget,
         Waited'
  PROVE  PlanInv'
<1>1. Version' = Version /\ Prompt' = Prompt /\ Budget' = Budget
  BY DEF SamePlan, Version, Prompt, Budget
<1>2. PlanTypes'
  BY <1>1 DEF PlanInv, PlanTypes, SamePlan
<1>4. PlanIsMeant'
  <2>1. run.at \in RunStates /\ run # NoRun /\ run' # NoRun
    BY DEF AiTypes, SamePlan
  <2>2. run'.at \in {"open", "admit", "sent", "parse", "retry", "delay"} => run'.plan # <<>>
    BY <2>1 DEF PlanInv, PlanIsMeant, SamePlan, RunStates
  <2>3. /\ run'.asked.prompts # <<>> /\ MeantFor(run'.plan, explained'[Version'], overview'[Version'])
        /\ \A i \in 1..Len(run'.plan) : Contains(run'.asked.prompts, run'.plan[i])
    BY <2>1, <1>1 DEF PlanInv, PlanIsMeant, SamePlan
  <2> QED BY <2>2, <2>3 DEF PlanIsMeant
<1>5. OverBudget' = OverBudget
  BY <1>1 DEF OverBudget, SamePlan
<1>6. Admitted'
  BY <1>5 DEF Admitted, SamePlan
<1> QED BY <1>2, <1>4, <1>6 DEF PlanInv

LEMMA WaitedKeeps ==
  ASSUME AiTypes, PlanInv, run # NoRun, run' # NoRun, run'.asked = run.asked, UNCHANGED ahead,
         NEW r \in Rows, Writes(r), Version \in ahead => r.retry,
         run'.at \in {"ask", "admit", "sent", "parse", "retry"} => Version \notin ahead
  PROVE  Waited'
<1>1. /\ Version \in Versions /\ row'[Version] = r
      /\ \A v \in Versions \ {Version} : row'[v] = row[v]
  BY OwnRowFacts
<1>2. Version' = Version
  BY DEF Version
<1>3. \A v \in Versions : v \in ahead' => row'[v].retry
  BY <1>1 DEF PlanInv, Waited
<1>4. run' # NoRun /\ run'.at \in {"ask", "admit", "sent", "parse", "retry"} => Version' \notin ahead'
  BY <1>2
<1> QED BY <1>3, <1>4 DEF Waited

LEMMA ReviewPlan ==
  ASSUME AiInv, PlanInv, NEW v \in Versions, NEW budget \in Budgets, Review(v, budget)
  PROVE  PlanInv'
<1>1. /\ UNCHANGED <<row, explained, overview, ahead>> /\ run' = run
      /\ preview' = {PrepareAi(v, budget)}
  BY DEF Review, fileVars
<1>2. PrepareAi(v, budget).budget = budget
  BY DEF PrepareAi
<1>3. \A seen \in preview' : seen.budget \in Budgets
  BY <1>1, <1>2
<1> QED BY <1>1, <1>3, PlanStands

LEMMA BeginAiPlan ==
  ASSUME AiInv, PlanInv, BeginAi
  PROVE  PlanInv'
<1>1. UNCHANGED <<row, explained, overview, ahead>> /\ preview' = {}
  BY DEF BeginAi, fileVars
<1>2. CASE run' = run
  BY <1>1, <1>2, PlanStands
<1>3. ASSUME NEW seen \in preview, seen.prompts # <<>>,
             run' = [at |-> "files", asked |-> seen, plan |-> <<>>, requests |-> 0,
                     chars |-> 0, retries |-> 0, status |-> "budgetLimited"]
      PROVE  PlanInv'
  <2>1. run'.at = "files" /\ run'.asked = seen /\ run'.requests = 0 /\ run'.chars = 0
    BY <1>3
  <2>2. seen.budget \in Budgets
    BY DEF PlanInv, PlanTypes
  <2>3. PlanTypes'
    BY <1>1, <2>1, <2>2 DEF PlanTypes, Budget
  <2>4. PlanIsMeant' /\ Admitted'
    BY <1>3, <2>1 DEF PlanIsMeant, Admitted
  <2>5. Waited'
    BY <1>1, <2>1 DEF PlanInv, Waited
  <2> QED BY <2>3, <2>4, <2>5 DEF PlanInv
<1> QED BY <1>2, <1>3 DEF BeginAi

LEMMA PreparePlan ==
  ASSUME AiInv, PlanInv, Prepare
  PROVE  PlanInv'
<1>1. /\ run # NoRun /\ run.at = "files" /\ UNCHANGED <<row, explained, overview, ahead, preview>>
      /\ Budget \in Budgets
  BY DEF Prepare, Generating, AiUnchanged, fileVars, PlanInv, PlanTypes
<1>2. CASE AiEnds
  BY <1>1, <1>2, EndsFacts, PlanStands DEF PlanInv, PlanTypes
<1>3. ASSUME NEW v \in Versions, AsShown(PrepareAi(v, Budget)),
             run' = [run EXCEPT !.at = "open", !.plan = PrepareAi(v, Budget).prompts]
      PROVE  PlanInv'
  <2> DEFINE q == PrepareAi(v, Budget).prompts
  <2>1. run.asked.prompts = q /\ run.asked.version = v
    BY <1>3 DEF AsShown, PrepareAi
  <2>2. MeantFor(q, explained[v], overview[v])
    BY <1>1, PromptsFacts
  <2> HIDE DEF q
  <2>3. /\ run'.at = "open" /\ run'.plan = q /\ run'.asked = run.asked
        /\ run'.requests = run.requests /\ run'.chars = run.chars
    BY <1>1, <1>3 DEF AiInv, AiTypes, IsFunctionOf, RunFields, q
  <2>4. Version' = v /\ Budget' = Budget
    BY <2>1, <2>3 DEF Version, Budget
  <2>5. PlanTypes' /\ Admitted' /\ Waited'
    BY <1>1, <2>3, <2>4 DEF PlanInv, PlanTypes, Admitted, Waited
  <2>6. q # <<>>
    BY <1>1, <2>1 DEF PlanInv, PlanIsMeant
  <2>7. MeantFor(run'.plan, explained'[Version'], overview'[Version'])
    BY <1>1, <2>2, <2>3, <2>4
  <2>8. \A i \in 1..Len(q) : Contains(q, q[i])
    BY DEF Contains
  <2>9. PlanIsMeant'
    BY <2>1, <2>3, <2>6, <2>7, <2>8 DEF PlanIsMeant
  <2> QED BY <2>5, <2>9 DEF PlanInv
<1> QED BY <1>2, <1>3 DEF Prepare

LEMMA OpenGenerationPlan ==
  ASSUME AiInv, PlanInv, OpenGeneration
  PROVE  PlanInv'
<1>1. /\ run # NoRun /\ run.at = "open" /\ UNCHANGED <<explained, overview, ahead, preview>>
      /\ Version \in Versions /\ row[Version] \in Rows
  BY DEF OpenGeneration, Generating, AiUnchanged, AiInv, AiTypes, Version, fileVars
<1>2. CASE AiEnds /\ UNCHANGED fileVars
  BY <1>1, <1>2, EndsFacts, PlanStands DEF PlanInv, PlanTypes, fileVars
<1>3. CASE ~MustWait(Version)
  <2> DEFINE old == row[Version]
             r == [old EXCEPT !.status = "running", !.mine = TRUE, !.retry = FALSE,
                              !.pending = FALSE,
                              !.tokens = IF old.pending THEN {} ELSE old.tokens]
  <2>1. AiGoesOn("ask") /\ Writes(r)
    BY <1>3 DEF OpenGeneration
  <2>2. r \in Rows
    BY <1>1 DEF Rows
  <2> HIDE DEF r
  <2>3. Version \notin ahead
    BY <1>1, <1>3 DEF MustWait, PlanInv, Waited
  <2>4. SamePlan /\ run'.at = "ask"
    BY <1>1, <2>1, GoesOnPlan DEF AiInv, RunStates
  <2>5. Waited'
    BY <1>1, <2>1, <2>2, <2>3, <2>4, WaitedKeeps DEF AiInv, SamePlan
  <2> QED BY <1>1, <2>4, <2>5, SamePlanKeeps DEF AiInv
<1> QED BY <1>2, <1>3 DEF OpenGeneration

LEMMA WaitedStands ==
  ASSUME PlanInv, SamePlan, UNCHANGED <<row, ahead>>,
         run'.at \in {"ask", "admit", "sent", "parse", "retry"} =>
           run.at \in {"ask", "admit", "sent", "parse", "retry"}
  PROVE  Waited'
<1>1. Version' = Version
  BY DEF Version, SamePlan
<1> QED BY <1>1 DEF PlanInv, Waited, SamePlan

LEMMA AskPlan ==
  ASSUME AiInv, PlanInv, Ask
  PROVE  PlanInv'
<1>1. /\ run # NoRun /\ run.at = "ask" /\ UNCHANGED <<row, explained, overview, ahead, preview>>
  BY DEF Ask, Generating, AiUnchanged, fileVars
<1>2. CASE AiGoesOn("finish") \/ AiStops("cancelled")
  <2>1. SamePlan /\ run'.at = "finish"
    BY <1>1, <1>2, GoesOnPlan, StopsPlan DEF AiInv, RunStates
  <2>2. Waited'
    BY <1>1, <2>1, WaitedStands
  <2> QED BY <1>1, <2>1, <2>2, SamePlanKeeps DEF AiInv
<1>3. CASE run.plan # <<>> /\ ~OverBudget /\ AiGoesOn("admit")
  <2>1. SamePlan /\ run'.at = "admit"
    BY <1>1, <1>3, GoesOnPlan DEF AiInv, RunStates
  <2>2. Waited'
    BY <1>1, <2>1, WaitedStands
  <2> QED BY <1>1, <1>3, <2>1, <2>2, SamePlanKeeps DEF AiInv
<1> QED BY <1>2, <1>3 DEF Ask

LEMMA GivesUpPlan ==
  ASSUME AiInv, PlanInv, CancelAdmission \/ Unusable
  PROVE  PlanInv'
<1>1. /\ run # NoRun /\ run.at \in {"admit", "parse"}
      /\ UNCHANGED <<row, explained, overview, ahead, preview>>
      /\ \E status : AiStops(status)
  BY DEF CancelAdmission, Unusable, Generating, AiUnchanged, fileVars
<1>2. SamePlan /\ run'.at = "finish"
  BY <1>1, StopsPlan DEF AiInv
<1>3. Waited'
  BY <1>1, <1>2, WaitedStands
<1> QED BY <1>1, <1>2, <1>3, SamePlanKeeps DEF AiInv

(* What a prompt adds to the count of what was sent.                       *)
LEMMA PromptSize ==
  ASSUME PlanInv, run # NoRun, run.at \in {"admit", "sent", "parse"}
  PROVE  /\ run.plan \in Seq(Prompts) /\ run.plan # <<>> /\ Len(run.plan) \in Nat /\ Len(run.plan) > 0
         /\ Prompt \in Prompts /\ Prompt = run.plan[1] /\ Size[Prompt] \in Nat
<1>1. run.plan \in Seq(Prompts) /\ run.plan # <<>>
  BY DEF PlanInv, PlanIsMeant, MeantFor
<1>2. /\ Len(run.plan) \in Nat /\ Len(run.plan) > 0 /\ Head(run.plan) = run.plan[1]
      /\ run.plan[1] \in Prompts
  BY <1>1, EmptySeq, LenProperties, HeadTailProperties, ElementOfSeq
<1>3. Size[run.plan[1]] \in Nat
  BY <1>2, ReportAiAssumption DEF Prompts
<1> QED BY <1>1, <1>2, <1>3 DEF Prompt

LEMMA SendPlan ==
  ASSUME AiInv, PlanInv, Send
  PROVE  PlanInv'
<1> DEFINE old == row[Version]
           n == IF old.requests = 0 THEN 1 ELSE 2
           r == [old EXCEPT !.requests = n, !.pending = TRUE]
<1>1. /\ run # NoRun /\ run.at = "admit" /\ UNCHANGED <<explained, overview, ahead, preview>>
      /\ Writes(r)
      /\ run' = [run EXCEPT !.at = "sent", !.requests = run.requests + 1,
                            !.chars = run.chars + Size[Prompt]]
  BY DEF Send, Generating, AiUnchanged
<1>2. Version \in Versions /\ old \in Rows
  BY <1>1 DEF AiInv, AiTypes, Version
<1>3. r \in Rows /\ r.retry = old.retry
  <2>1. n \in 0..2
    OBVIOUS
  <2> HIDE DEF n
  <2> QED BY <1>2, <2>1 DEF Rows
<1> HIDE DEF r
<1>4. /\ run'.at = "sent" /\ run'.plan = run.plan /\ run'.asked = run.asked
      /\ run'.requests = run.requests + 1 /\ run'.chars = run.chars + Size[Prompt]
  BY <1>1 DEF AiInv, AiTypes, IsFunctionOf, RunFields
<1>5. run' # NoRun
  BY <1>4 DEF NoRun
<1>6. Waited'
  BY <1>1, <1>2, <1>3, <1>4, <1>5, WaitedKeeps DEF AiInv, PlanInv, Waited
<1>7. Version' = Version /\ Budget' = Budget
  BY <1>4 DEF Version, Budget
<1>8. PlanTypes'
  BY <1>1, <1>4, <1>7, PromptSize DEF PlanInv, PlanTypes
<1>9. PlanIsMeant' /\ Admitted'
  BY <1>1, <1>4, <1>5, <1>7 DEF PlanInv, PlanIsMeant, Admitted
<1> QED BY <1>6, <1>8, <1>9 DEF PlanInv

LEMMA UnansweredPlan ==
  ASSUME AiInv, PlanInv, CancelRequest \/ Fail \/ Retryable
  PROVE  PlanInv'
<1> DEFINE old == row[Version]
           r == [old EXCEPT !.tokens = {}, !.pending = FALSE]
<1>1. /\ run # NoRun /\ run.at = "sent" /\ UNCHANGED <<explained, overview, ahead, preview>>
      /\ Writes(r)
  BY DEF CancelRequest, Fail, Retryable, Generating, AiUnchanged, UsageUnknown
<1>2. Version \in Versions /\ old \in Rows
  BY <1>1 DEF AiInv, AiTypes, Version
<1>3. r \in Rows /\ r.retry = old.retry
  BY <1>2 DEF Rows
<1>4. SamePlan /\ run'.at \in {"finish", "retry"}
  <2>1. AiGoesOn("retry") \/ \E status : AiStops(status)
    BY DEF CancelRequest, Fail, Retryable
  <2> QED BY <1>1, <2>1, GoesOnPlan, StopsPlan DEF AiInv, RunStates
<1> HIDE DEF r
<1>5. Waited'
  BY <1>1, <1>2, <1>3, <1>4, WaitedKeeps DEF AiInv, PlanInv, Waited, SamePlan
<1> QED BY <1>1, <1>4, <1>5, SamePlanKeeps DEF AiInv

LEMMA CompletePlan ==
  ASSUME AiInv, PlanInv, NEW usage \in {{1}, {}}, Complete(usage)
  PROVE  PlanInv'
<1> DEFINE old == row[Version]
           t == TokensAfter(old, usage)
           r == [old EXCEPT !.tokens = t, !.pending = FALSE]
<1>1. /\ run # NoRun /\ run.at = "sent" /\ UNCHANGED <<explained, overview, ahead, preview>>
      /\ Writes(r) /\ AiGoesOn("parse")
  BY DEF Complete, Generating, AiUnchanged
<1>2. Version \in Versions /\ old \in Rows
  BY <1>1 DEF AiInv, AiTypes, Version
<1>3. t \in SUBSET Nat
  BY <1>2 DEF TokensAfter, Rows
<1> HIDE DEF t
<1>4. r \in Rows /\ r.retry = old.retry
  BY <1>2, <1>3 DEF Rows
<1> HIDE DEF r
<1>5. SamePlan /\ run'.at = "parse"
  BY <1>1, GoesOnPlan DEF AiInv, RunStates
<1>6. Waited'
  BY <1>1, <1>2, <1>4, <1>5, WaitedKeeps DEF AiInv, PlanInv, Waited, SamePlan
<1> QED BY <1>1, <1>5, <1>6, SamePlanKeeps DEF AiInv

LEMMA RecordRetryPlan ==
  ASSUME AiInv, PlanInv, RecordRetry
  PROVE  PlanInv'
<1> DEFINE old == row[Version]
           r == [old EXCEPT !.retry = TRUE]
<1>1. /\ run # NoRun /\ run.at = "retry" /\ UNCHANGED <<explained, overview, preview>>
      /\ Writes(r) /\ ahead' = ahead \cup {Version}
  BY DEF RecordRetry, Generating
<1>2. Version \in Versions /\ old \in Rows
  BY <1>1 DEF AiInv, AiTypes, Version
<1>3. r \in Rows /\ r.retry
  BY <1>2 DEF Rows
<1> HIDE DEF r
<1>4. SamePlan /\ run'.at \in {"delay", "finish"}
  <2>1. CASE AiStops("retryPending")
    BY <1>1, <2>1, StopsPlan DEF AiInv
  <2>2. CASE run' = [run EXCEPT !.at = "delay", !.retries = run.retries + 1]
    <3>1. /\ run'.at = "delay" /\ run'.plan = run.plan /\ run'.asked = run.asked
          /\ run'.requests = run.requests /\ run'.chars = run.chars
      BY <1>1, <2>2 DEF AiInv, AiTypes, IsFunctionOf, RunFields
    <3>2. run' # NoRun
      BY <3>1 DEF NoRun
    <3> QED BY <1>1, <3>1, <3>2 DEF SamePlan
  <2> QED BY <2>1, <2>2 DEF RecordRetry
<1>5. Waited'
  <2>1. /\ row'[Version] = r /\ \A v \in Versions \ {Version} : row'[v] = row[v]
    BY <1>1, <1>2, <1>3, OwnRowFacts DEF AiInv
  <2> QED BY <1>1, <1>3, <1>4, <2>1 DEF PlanInv, Waited
<1> QED BY <1>1, <1>4, <1>5, SamePlanKeeps DEF AiInv

LEMMA DelayPlan ==
  ASSUME AiInv, PlanInv, Delay
  PROVE  PlanInv'
<1>1. /\ run # NoRun /\ run.at = "delay" /\ UNCHANGED <<explained, overview, ahead, preview>>
  BY DEF Delay, Generating, AiUnchanged
<1>2. CASE AiStops("cancelled") /\ UNCHANGED row
  <2>1. SamePlan /\ run'.at = "finish"
    BY <1>1, <1>2, StopsPlan DEF AiInv
  <2>2. Waited'
    BY <1>1, <1>2, <2>1, WaitedStands
  <2> QED BY <1>1, <2>1, <2>2, SamePlanKeeps DEF AiInv
<1>3. CASE Version \notin ahead /\ Writes([row[Version] EXCEPT !.retry = FALSE]) /\ AiGoesOn("ask")
  <2> DEFINE r == [row[Version] EXCEPT !.retry = FALSE]
  <2>1. r \in Rows
    BY <1>1, ZenonT(60) DEF AiInv, AiTypes, Version, Rows
  <2>2. Writes(r)
    BY <1>3
  <2> HIDE DEF r
  <2>3. SamePlan /\ run'.at = "ask"
    BY <1>1, <1>3, GoesOnPlan DEF AiInv, RunStates
  <2>4. Waited'
    BY <1>1, <1>3, <2>1, <2>2, <2>3, WaitedKeeps DEF AiInv, SamePlan
  <2> QED BY <1>1, <2>3, <2>4, SamePlanKeeps DEF AiInv
<1> QED BY <1>2, <1>3 DEF Delay

(* What is left of a plan when its head is saved.                          *)
LEMMA TailIsMeant ==
  ASSUME NEW q, q # <<>>, NEW told, NEW summed \in BOOLEAN, MeantFor(q, told, summed),
         NEW told2, NEW summed2,
         \/ Head(q) = Overview /\ told2 = told
         \/ Head(q) # Overview /\ told2 = told \cup {Head(q)} /\ summed2 = summed
  PROVE  /\ MeantFor(Tail(q), told2, summed2)
         /\ \A i \in 1..Len(Tail(q)) : i + 1 \in 1..Len(q) /\ Tail(q)[i] = q[i + 1]
<1>1. /\ q \in Seq(Prompts) /\ Len(q) \in Nat /\ Len(q) > 0 /\ DOMAIN q = 1..Len(q)
      /\ Head(q) = q[1] /\ Tail(q) \in Seq(Prompts) /\ Len(Tail(q)) = Len(q) - 1
      /\ \A i \in 1..Len(Tail(q)) : Tail(q)[i] = q[i + 1]
  BY EmptySeq, LenProperties, HeadTailProperties, SMTT(30) DEF MeantFor
<1>2. IsInjective(Tail(q))
  BY <1>1, TailRange DEF MeantFor
<1> DEFINE t == Tail(q)
<1> HIDE DEF t
<1>3. ASSUME NEW i \in 1..Len(t)
      PROVE  /\ i + 1 \in 1..Len(q) /\ t[i] = q[i + 1] /\ q[i + 1] # q[1]
             /\ i + 1 = Len(q) => i = Len(t)
  <2>1. i + 1 \in 1..Len(q) /\ 1 \in 1..Len(q) /\ i + 1 # 1 /\ t[i] = q[i + 1]
    BY <1>1, SMTT(30) DEF t
  <2>2. q[i + 1] # q[1]
    BY <1>1, <2>1 DEF MeantFor, IsInjective
  <2>3. i + 1 = Len(q) => i = Len(t)
    <3>1. Len(t) = Len(q) - 1 /\ Len(q) \in Int /\ i \in Int
      BY <1>1 DEF t
    <3> QED BY <3>1
  <2> QED BY <2>1, <2>2, <2>3
<1>4. ASSUME NEW i \in 1..Len(t)
      PROVE  /\ t[i] = Overview => i = Len(t) /\ ~summed2
             /\ t[i] # Overview => t[i] \notin told2
  <2>1. CASE Head(q) = Overview
    <3>1. 1 \in 1..Len(q) /\ q[1] = Overview
      BY <1>1, <2>1
    <3>2. Len(q) = 1
      BY <3>1 DEF MeantFor
    <3>3. Len(t) = 0
      BY <1>1, <3>2 DEF t
    <3> QED BY <3>3
  <2>2. CASE Head(q) # Overview
    <3>1. /\ q[i + 1] = Overview => i + 1 = Len(q) /\ ~summed
          /\ q[i + 1] # Overview => q[i + 1] \notin told
      BY <1>3 DEF MeantFor
    <3>2. told2 = told \cup {q[1]} /\ summed2 = summed
      BY <1>1, <2>2
    <3> QED BY <1>3, <3>1, <3>2
  <2> QED BY <2>1, <2>2
<1> QED BY <1>1, <1>2, <1>3, <1>4 DEF MeantFor, t

LEMMA SavePlan ==
  ASSUME AiInv, PlanInv, Save
  PROVE  PlanInv'
<1>1. /\ run # NoRun /\ run.at = "parse" /\ UNCHANGED <<row, ahead, preview>>
      /\ Version \in Versions
  BY DEF Save, Generating, AiUnchanged, AiInv, AiTypes, Version
<1>2. CASE AiStops("cancelled") /\ UNCHANGED <<explained, overview>>
  <2>1. SamePlan /\ run'.at = "finish"
    BY <1>1, <1>2, StopsPlan DEF AiInv
  <2>2. Waited'
    BY <1>1, <2>1, WaitedStands
  <2> QED BY <1>1, <1>2, <2>1, <2>2, SamePlanKeeps DEF AiInv
<1>3. ASSUME run' = [run EXCEPT !.at = "ask", !.plan = Tail(run.plan), !.retries = 0],
             \/ /\ Prompt = Overview /\ UNCHANGED explained
             \/ /\ Prompt # Overview /\ UNCHANGED overview
                /\ explained' = [explained EXCEPT ![Version] = explained[Version] \cup {Prompt}]
      PROVE  PlanInv'
  <2>1. /\ run'.at = "ask" /\ run'.plan = Tail(run.plan) /\ run'.asked = run.asked
        /\ run'.requests = run.requests /\ run'.chars = run.chars
    BY <1>1, <1>3 DEF AiInv, AiTypes, IsFunctionOf, RunFields
  <2>2. run' # NoRun
    BY <2>1 DEF NoRun
  <2>3. Version' = Version /\ Budget' = Budget
    BY <2>1 DEF Version, Budget
  <2>4. PlanTypes' /\ Admitted' /\ Waited'
    BY <1>1, <2>1, <2>2, <2>3 DEF PlanInv, PlanTypes, Admitted, Waited
  <2>5. /\ MeantFor(run.plan, explained[Version], overview[Version])
        /\ \A i \in 1..Len(run.plan) : Contains(run.asked.prompts, run.plan[i])
        /\ run.plan # <<>> /\ run.asked.prompts # <<>> /\ overview[Version] \in BOOLEAN
    BY <1>1 DEF PlanInv, PlanIsMeant, AiInv, AiTypes
  <2>6. \/ Head(run.plan) = Overview /\ explained'[Version] = explained[Version]
        \/ /\ Head(run.plan) # Overview /\ overview'[Version] = overview[Version]
           /\ explained'[Version] = explained[Version] \cup {Head(run.plan)}
    BY <1>1, <1>3 DEF Prompt, AiInv, AiTypes, IsFunctionOf
  <2>7. /\ MeantFor(Tail(run.plan), explained'[Version], overview'[Version])
        /\ \A i \in 1..Len(Tail(run.plan)) :
             i + 1 \in 1..Len(run.plan) /\ Tail(run.plan)[i] = run.plan[i + 1]
    BY <2>5, <2>6, TailIsMeant
  <2>8. PlanIsMeant'
    BY <2>1, <2>3, <2>5, <2>7 DEF PlanIsMeant
  <2> QED BY <2>4, <2>8 DEF PlanInv
<1> QED BY <1>2, <1>3 DEF Save

(* The command ends: what is left is the deadlines.                        *)
LEMMA EndedPlan ==
  ASSUME PlanInv, run' = NoRun, UNCHANGED ahead,
         \A v \in Versions : row'[v].retry = row[v].retry,
         \A seen \in preview' : seen \in preview
  PROVE  PlanInv'
BY DEF PlanInv, PlanTypes, PlanIsMeant, Admitted, Waited

LEMMA EndsPlan ==
  ASSUME AiInv, PlanInv, Finish \/ ProcessEnds
  PROVE  PlanInv'
<1>1. CASE Finish
  <2> DEFINE r == [row[Version] EXCEPT !.status = FinalStatus]
  <2>1. run # NoRun /\ run.at = "finish" /\ Writes(r) /\ run' = NoRun /\ UNCHANGED <<ahead, preview>>
    BY <1>1, EndsFacts DEF Finish, Generating, AiUnchanged
  <2>2. Version \in Versions /\ row[Version] \in Rows /\ run.status \in RunStatus
    BY <2>1 DEF AiInv, AiTypes, Version
  <2>3. FinalStatus \in RunStatus \cup {"complete"}
    BY <2>2 DEF FinalStatus, RunStatus
  <2>4. r \in Rows /\ r.retry = row[Version].retry
    <3> HIDE DEF FinalStatus
    <3> QED BY <2>2, <2>3 DEF Rows
  <2> HIDE DEF r
  <2>5. /\ row'[Version] = r /\ \A v \in Versions \ {Version} : row'[v] = row[v]
    BY <2>1, <2>2, <2>4, OwnRowFacts DEF AiInv
  <2>6. \A v \in Versions : row'[v].retry = row[v].retry
    BY <2>4, <2>5
  <2> QED BY <2>1, <2>6, EndedPlan
<1>2. CASE ProcessEnds
  <2>1. /\ run' = NoRun /\ preview' = {} /\ UNCHANGED ahead
        /\ row' = [v \in Versions |-> [row[v] EXCEPT !.mine = FALSE]]
    BY <1>2 DEF ProcessEnds
  <2>2. \A v \in Versions : row'[v].retry = row[v].retry
    <3> TAKE v \in Versions
    <3>1. row[v] \in Rows /\ row'[v] = [row[v] EXCEPT !.mine = FALSE]
      BY <2>1 DEF AiInv, AiTypes
    <3> QED BY <3>1 DEF Rows
  <2> QED BY <2>1, <2>2, EndedPlan
<1> QED BY <1>1, <1>2

LEMMA TickPlan ==
  ASSUME AiInv, PlanInv, NEW v \in Versions, Tick(v)
  PROVE  PlanInv'
<1>1. /\ UNCHANGED <<row, explained, overview, run, preview>> /\ ahead' = ahead \ {v}
  BY DEF Tick, fileVars
<1>2. Version' = Version /\ Prompt' = Prompt /\ Budget' = Budget
  BY <1>1 DEF Version, Prompt, Budget
<1>3. PlanTypes' /\ Admitted' /\ Waited'
  BY <1>1, <1>2 DEF PlanInv, PlanTypes, Admitted, OverBudget, Waited
<1>4. PlanIsMeant'
  BY <1>1, <1>2 DEF PlanInv, PlanIsMeant
<1> QED BY <1>3, <1>4 DEF PlanInv

LEMMA PlanStep ==
  ASSUME AiInv, PlanInv, [AiNext]_allVars
  PROVE  PlanInv'
<1>1. CASE UNCHANGED aiVars
  BY <1>1, PlanStands DEF aiVars, fileVars, PlanInv, PlanTypes
<1>2. CASE UNCHANGED allVars
  BY <1>1, <1>2 DEF allVars
<1>3. CASE AiStep
  BY <1>3, PreparePlan, OpenGenerationPlan, AskPlan, GivesUpPlan, SendPlan, UnansweredPlan,
     CompletePlan, RecordRetryPlan, DelayPlan, SavePlan, EndsPlan DEF AiStep
<1>4. CASE BeginAi \/ ProcessEnds
  BY <1>4, BeginAiPlan, EndsPlan
<1>5. CASE \E v \in Versions, budget \in Budgets : Review(v, budget)
  BY <1>5, ReviewPlan
<1>6. CASE \E v \in Versions : Tick(v)
  BY <1>6, TickPlan
<1> QED BY <1>1, <1>2, <1>3, <1>4, <1>5, <1>6 DEF AiNext

LEMMA AiInvariants == AiSpec => [](AiInv /\ PlanInv)
<1>1. AiInv /\ PlanInv /\ [AiNext]_allVars => (AiInv /\ PlanInv)'
  BY AiStepKeeps, PlanStep
<1> QED BY AiInvInit, PlanInit, <1>1, PTL DEF AiSpec

(* Every request is one that the user was shown, for a finding that has no *)
(* explanation yet or for the overview of all of them, within the budget   *)
(* and after the deadline of the provider (request_with_budget).           *)
THEOREM RequestsAreThoseShown == AiSpec => RequestsAreMeant
<1> DEFINE Meant ==
      /\ Contains(run.asked.prompts, Prompt)
      /\ IF Prompt = Overview THEN All \subseteq explained[Version] /\ ~overview[Version]
         ELSE Prompt \notin explained[Version]
      /\ run.requests < Budget.requests /\ run.chars + Size[Prompt] <= Budget.chars
      /\ Version \notin ahead
<1>1. ASSUME AiInv, PlanInv, Send PROVE Meant
  <2>1. run # NoRun /\ run.at = "admit"
    BY <1>1 DEF Send, Generating
  <2>2. /\ Len(run.plan) \in Nat /\ Len(run.plan) > 0 /\ Prompt = run.plan[1] /\ Size[Prompt] \in Nat
    BY <1>1, <2>1, PromptSize
  <2>3. 1 \in 1..Len(run.plan)
    BY <2>2
  <2>4. /\ Contains(run.asked.prompts, Prompt)
        /\ Prompt = Overview => ~overview[Version]
        /\ Prompt # Overview => Prompt \notin explained[Version]
    BY <1>1, <2>1, <2>2, <2>3 DEF PlanInv, PlanIsMeant, MeantFor
  <2>5. Prompt = Overview => All \subseteq explained[Version]
    BY <1>1, <2>1 DEF AiInv, Explained
  <2>6. run.requests < Budget.requests /\ run.chars + Size[Prompt] <= Budget.chars
    <3>1. /\ run.requests \in Nat /\ run.chars \in Nat
          /\ Budget.requests \in Nat /\ Budget.chars \in Nat
      BY <1>1, <2>1, ReportAiAssumption DEF PlanInv, PlanTypes
    <3>2. ~OverBudget
      BY <1>1, <2>1 DEF PlanInv, Admitted
    <3> QED BY <2>2, <3>1, <3>2 DEF OverBudget
  <2>7. Version \notin ahead
    BY <1>1, <2>1 DEF PlanInv, Waited
  <2> QED BY <2>4, <2>5, <2>6, <2>7
<1>2. AiInv /\ PlanInv => (Send => Meant)
  BY <1>1
<1>3. RequestsAreMeant <=> [][Send => Meant]_allVars
  BY DEF RequestsAreMeant
<1> HIDE DEF Meant
<1> QED BY AiInvariants, <1>2, <1>3, PTL

-----------------------------------------------------------------------------
(* The export of a complete generation.                                    *)

Finished(v) == (explained[v] # {} \/ overview[v]) /\ row[v].status = "complete"

LEMMA ExportedFacts ==
  Exported # None /\ row[Exported].status = "complete" <=> \E v \in Versions : Finished(v)
<1> DEFINE usable == {v \in Versions : explained[v] # {} \/ overview[v]}
           finished == {v \in usable : row[v].status = "complete"}
           best == IF finished # {} THEN finished ELSE usable
<1>1. Exported = IF best = {} THEN None
                 ELSE IF newest \in best THEN newest ELSE CHOOSE v \in best : TRUE
  BY DEF Exported
<1>2. (\E v \in Versions : Finished(v)) <=> finished # {}
  BY DEF Finished
<1>3. finished \subseteq best /\ best \subseteq usable /\ (finished # {} => best = finished)
  OBVIOUS
<1>4. None \notin usable
  BY ReportAiAssumption
<1>5. best # {} => Exported \in best
  <2> HIDE DEF best
  <2> QED BY <1>1
<1>6. best = {} => Exported = None
  <2> HIDE DEF best
  <2> QED BY <1>1
<1>7. \A v \in usable : row[v].status = "complete" <=> v \in finished
  OBVIOUS
<1> HIDE DEF best, finished, usable
<1> QED BY <1>2, <1>3, <1>4, <1>5, <1>6, <1>7

(* A generation that is taken up has something left to ask.                *)
LEMMA OpenedIsUnfinished ==
  ASSUME AiInv, PlanInv, run # NoRun, run.at = "open"
  PROVE  row[Version].status # "complete"
<1>1. /\ MeantFor(run.plan, explained[Version], overview[Version]) /\ run.plan # <<>>
      /\ Version \in Versions
  BY DEF PlanInv, PlanIsMeant, AiInv, AiTypes, Version
<1>2. Len(run.plan) \in Nat /\ Len(run.plan) > 0 /\ run.plan[1] \in Prompts
  BY <1>1, EmptySeq, LenProperties, ElementOfSeq DEF MeantFor
<1>3. 1 \in 1..Len(run.plan)
  BY <1>2
<1>4. \/ run.plan[1] = Overview /\ ~overview[Version]
      \/ run.plan[1] \in All /\ run.plan[1] \notin explained[Version]
  BY <1>1, <1>2, <1>3 DEF MeantFor, Prompts
<1> QED BY <1>1, <1>4 DEF AiInv, Explained

LEMMA FinishedStays ==
  ASSUME AiInv, PlanInv, [AiNext]_allVars, NEW v \in Versions, Finished(v)
  PROVE  Finished(v)'
<1> DEFINE Keeps == /\ explained[v] \subseteq explained'[v] /\ (overview[v] => overview'[v])
                    /\ row'[v].status = row[v].status
<1>1. Keeps => Finished(v)'
  BY DEF Finished
<1> SUFFICES Keeps
  BY <1>1
<1>2. run # NoRun => Version \in Versions
  BY DEF AiInv, AiTypes, Version
<1>3. ASSUME run # NoRun, run.at # "files", NEW r, Writes(r), UNCHANGED <<explained, overview>>
      PROVE  Keeps
  <2>1. row[Version].status # "complete"
    BY <1>3, OpenedIsUnfinished DEF AiInv, Mine, Opened
  <2>2. v # Version
    BY <2>1 DEF Finished
  <2>3. row'[v] = row[v]
    BY <1>2, <1>3, <2>2 DEF Writes, AiInv, AiTypes
  <2> QED BY <1>3, <2>3
<1>4. CASE UNCHANGED fileVars
  BY <1>4 DEF fileVars
<1>5. CASE OpenGeneration
  <2>1. run # NoRun /\ run.at = "open"
    BY <1>5 DEF OpenGeneration, Generating
  <2>2. \/ UNCHANGED fileVars
        \/ UNCHANGED <<explained, overview>> /\ \E r : Writes(r)
    BY <1>5 DEF OpenGeneration
  <2> QED BY <1>3, <1>4, <2>1, <2>2
<1>6. CASE Send \/ CancelRequest \/ Fail \/ Retryable \/ RecordRetry \/ Finish
           \/ \E usage \in {{1}, {}} : Complete(usage)
  <2>1. /\ run # NoRun /\ run.at # "files" /\ UNCHANGED <<explained, overview>>
        /\ \E r : Writes(r)
    BY <1>6 DEF Send, CancelRequest, Fail, Retryable, RecordRetry, Finish, Complete, UsageUnknown,
       Generating
  <2> QED BY <1>3, <2>1
<1>7. CASE Delay
  <2>1. /\ run # NoRun /\ run.at # "files" /\ UNCHANGED <<explained, overview, newest>>
        /\ UNCHANGED row \/ \E r : Writes(r)
    BY <1>7 DEF Delay, Generating
  <2> QED BY <1>3, <1>4, <2>1 DEF fileVars
<1>8. CASE Save
  <2>1. /\ UNCHANGED row /\ run # NoRun
        /\ \/ UNCHANGED <<explained, overview>>
           \/ overview' = [overview EXCEPT ![Version] = TRUE] /\ UNCHANGED explained
           \/ /\ explained' = [explained EXCEPT ![Version] = explained[Version] \cup {Prompt}]
              /\ UNCHANGED overview
    BY <1>8 DEF Save, Generating
  <2> QED BY <1>2, <2>1 DEF AiInv, AiTypes, IsFunctionOf
<1>9. CASE ProcessEnds
  <2>1. /\ UNCHANGED <<explained, overview>>
        /\ row' = [w \in Versions |-> [row[w] EXCEPT !.mine = FALSE]]
    BY <1>9 DEF ProcessEnds
  <2>2. row[v] \in Rows /\ row'[v] = [row[v] EXCEPT !.mine = FALSE]
    BY <2>1 DEF AiInv, AiTypes
  <2>3. row'[v].status = row[v].status
    BY <2>2 DEF Rows
  <2> QED BY <2>1, <2>3
<1>10. CASE Prepare \/ Ask \/ CancelAdmission \/ Unusable \/ BeginAi
            \/ (\E w \in Versions : Tick(w) \/ \E budget \in Budgets : Review(w, budget))
            \/ UNCHANGED aiVars \/ UNCHANGED allVars
  <2>1. UNCHANGED fileVars
    BY <1>10 DEF Prepare, Ask, CancelAdmission, Unusable, BeginAi, Tick, Review, aiVars, allVars
  <2> QED BY <1>4, <2>1
<1> HIDE DEF Keeps
<1> QED BY <1>5, <1>6, <1>7, <1>8, <1>9, <1>10 DEF AiNext, AiStep

(* Once a complete generation is what an export shows, exports go on       *)
(* showing a complete one (export_generation_version).                     *)
THEOREM CompleteGenerationsStay == AiSpec => CompleteStaysExported
<1> DEFINE Complete1 == Exported # None /\ row[Exported].status = "complete"
           Later == Exported' # None /\ row'[Exported'].status = "complete"
           Some == \E v \in Versions : Finished(v)
<1>1. Complete1 <=> Some
  BY ExportedFacts
<1>2. AiInv /\ PlanInv /\ [AiNext]_allVars => (Some => Some')
  BY FinishedStays
<1>3. Complete1' <=> Later
  OBVIOUS
<1>4. CompleteStaysExported <=> [][Complete1 => Later]_allVars
  BY DEF CompleteStaysExported
<1> HIDE DEF Complete1, Later, Some
<1> QED BY AiInvariants, <1>1, <1>2, <1>3, <1>4, PTL DEF AiSpec

-----------------------------------------------------------------------------
(* The cache of the summary.                                               *)

\* Nobody is ahead of the persistent revision.
Revisions ==
    /\ localRevision \in Nat /\ revision \in Nat
    /\ localRevision <= revision
    /\ cache # Null => cache.revision \in Nat /\ cache.revision <= revision

\* While only this connection wrote, what it did not touch is as it was summarised.
Repairable ==
    cache # Null /\ localRevision = revision =>
        \A i \in Ids \ dirty : cache.summary.records[i] = Contribution(rows[i])

IInv == Revisions /\ Repairable /\ ContributionsAreExact

-----------------------------------------------------------------------------
\* A change moves the persistent revision.
LEMMA ChangeMoves ==
    ASSUME Revisions, NEW ids \in SUBSET Ids, NEW change, Change(ids, change)
    PROVE  /\ Cardinality(ids) \in Nat \ {0}
           /\ revision' = revision + Cardinality(ids)
           /\ \A i \in Ids \ ids : rows'[i] = rows[i]
<1>1. IsFiniteSet(ids)
  BY CacheAssumption, FS_Subset
<1>2. Cardinality(ids) \in Nat /\ Cardinality(ids) # 0
  BY <1>1, FS_CardinalityType, FS_EmptySet DEF Change
<1> QED
  BY <1>2 DEF Change

\* Adding the rows of some records makes those contributions the current ones.
LEMMA AddRecords ==
    ASSUME NEW STATE summary, NEW STATE ids, NEW i \in Ids
    PROVE  Add(summary, ids).records[i] =
               IF i \in ids /\ rows[i] # Null THEN Contribution(rows[i])
               ELSE summary.records[i]
BY DEF Add

LEMMA SubtractRecords ==
    ASSUME NEW STATE summary, NEW STATE ids, NEW i \in Ids
    PROVE  Subtract(summary, ids).records[i] =
               IF i \in ids THEN Null ELSE summary.records[i]
<1>1. CASE i \in ids /\ summary.records[i] # Null
  BY <1>1 DEF Subtract
<1>2. CASE i \in ids /\ summary.records[i] = Null
  BY <1>2 DEF Subtract
<1>3. CASE i \notin ids
  BY <1>3 DEF Subtract
<1> QED
  BY <1>1, <1>2, <1>3

\* Rebuilt or repaired, the next summary is that of the records there are.
LEMMA RefreshedIsExact ==
    ASSUME Repairable, dirty \subseteq Ids, NEW i \in Ids
    PROVE  Refreshed.records[i] = Contribution(rows[i])
<1>1. CASE cache = Null \/ localRevision # revision
  <2>1. Refreshed = Add(EmptySummary, Ids)
    BY <1>1 DEF Refreshed
  <2>2. EmptySummary.records[i] = Null
    BY DEF EmptySummary
  <2> QED
    BY <2>1, <2>2, AddRecords DEF Contribution
<1>2. CASE cache # Null /\ localRevision = revision
  <2>1. Refreshed = Add(Subtract(cache.summary, dirty), dirty)
    BY <1>2 DEF Refreshed
  <2>2. CASE i \in dirty
    <3>1. Subtract(cache.summary, dirty).records[i] = Null
      BY <2>2, SubtractRecords
    <3>2. Refreshed.records[i] = IF rows[i] # Null THEN Contribution(rows[i]) ELSE Null
      BY <2>1, <2>2, <3>1, AddRecords
    <3> QED
      BY <3>2 DEF Contribution
  <2>3. CASE i \notin dirty
    <3>1. cache.summary.records[i] = Contribution(rows[i])
      BY <1>2, <2>3 DEF Repairable
    <3> QED
      BY <2>1, <2>3, <3>1, AddRecords, SubtractRecords
  <2> QED
    BY <2>2, <2>3
<1> QED
  BY <1>1, <1>2

-----------------------------------------------------------------------------
(* One lemma per action that changes what the invariant speaks of. *)

LEMMA WriteKeeps ==
    ASSUME IInv, NEW ids \in SUBSET Ids, NEW change, Write(ids, change)
    PROVE  IInv'
<1> USE DEF IInv
<1>1. /\ Cardinality(ids) \in Nat \ {0}
      /\ revision' = revision + Cardinality(ids)
      /\ \A i \in Ids \ ids : rows'[i] = rows[i]
  BY ChangeMoves DEF Write
<1>2. /\ dirty' = dirty \cup ids
      /\ localRevision' = localRevision + Cardinality(ids)
      /\ cache' = cache
  BY DEF Write, Touch, caches
<1>3. Revisions'
  BY <1>1, <1>2 DEF Revisions
<1>4. Repairable'
  BY <1>1, <1>2 DEF Repairable, Revisions, Contribution
<1>5. ContributionsAreExact'
  BY <1>1, <1>2 DEF ContributionsAreExact, Current, Revisions
<1> QED
  BY <1>3, <1>4, <1>5

LEMMA ExternalWriteKeeps ==
    ASSUME IInv, NEW ids \in SUBSET Ids, NEW change, ExternalWrite(ids, change)
    PROVE  IInv'
<1> USE DEF IInv
<1>1. Cardinality(ids) \in Nat \ {0} /\ revision' = revision + Cardinality(ids)
  BY ChangeMoves DEF ExternalWrite
<1>2. localRevision' = localRevision /\ cache' = cache
  BY DEF ExternalWrite, connection, caches
<1>3. Revisions'
  BY <1>1, <1>2 DEF Revisions
<1>4. Repairable' /\ ContributionsAreExact'
  BY <1>1, <1>2 DEF Repairable, ContributionsAreExact, Current, Revisions
<1> QED
  BY <1>3, <1>4

LEMMA ProgressSummaryKeeps ==
    ASSUME IInv, dirty \subseteq Ids, ProgressSummary
    PROVE  IInv'
<1> USE DEF IInv
<1>1. rows' = rows /\ revision' = revision
  BY DEF ProgressSummary, store
<1>2. CASE Current
  <2>1. UNCHANGED <<connection, cache>>
    BY <1>2 DEF ProgressSummary
  <2> QED
    BY <1>1, <2>1 DEF Revisions, Repairable, ContributionsAreExact, Current, Contribution, connection
<1>3. CASE ~Current
  <2>1. /\ cache' = [revision |-> revision, summary |-> Refreshed]
        /\ dirty' = {} /\ localRevision' = revision
    BY <1>3 DEF ProgressSummary
  <2>2. \A i \in Ids : Refreshed.records[i] = Contribution(rows[i])
    BY RefreshedIsExact
  <2>3. \A i \in Ids : cache'.summary.records[i] = Contribution(rows'[i])
    BY <1>1, <2>1, <2>2
  <2>4. Revisions'
    BY <1>1, <2>1 DEF Revisions
  <2>5. Repairable'
    BY <2>3 DEF Repairable, Contribution
  <2>6. ContributionsAreExact'
    BY <2>3 DEF ContributionsAreExact, Contribution
  <2> QED
    BY <2>4, <2>5, <2>6
<1> QED
  BY <1>2, <1>3

\* A step that changes neither records, revisions nor what is dirty, and at
\* most loses the cache.
LEMMA CacheQuietKeeps ==
    ASSUME IInv, rows' = rows, revision' = revision, localRevision' = localRevision,
           dirty' = dirty, cache' = cache \/ cache' = Null
    PROVE  IInv'
BY DEF IInv, Revisions, Repairable, ContributionsAreExact, Current, Contribution

LEMMA ReopenKeeps ==
    ASSUME IInv, Reopen
    PROVE  IInv'
BY DEF IInv, Reopen, Revisions, Repairable, ContributionsAreExact, Current, store

-----------------------------------------------------------------------------
\* The records changed since the summary are records.
DirtyAreIds == dirty \subseteq Ids

LEMMA DirtyStep ==
    ASSUME DirtyAreIds, [CacheNext]_cacheVars
    PROVE  DirtyAreIds'
<1> USE DEF DirtyAreIds
<1>1. ASSUME NEW ids \in SUBSET Ids, NEW change, Write(ids, change)
      PROVE  DirtyAreIds'
  BY <1>1 DEF Write, Touch
<1>2. ASSUME NEW ids \in SUBSET Ids, NEW change, ExternalWrite(ids, change)
      PROVE  DirtyAreIds'
  BY <1>2 DEF ExternalWrite, connection
<1>3. CASE Reopen
  BY <1>3 DEF Reopen
<1>4. ASSUME NEW kind \in Kinds, BeginCall(kind)
      PROVE  DirtyAreIds'
  BY <1>4 DEF BeginCall, connection
<1>5. CASE ProgressSummary
  BY <1>5 DEF ProgressSummary, connection
<1>6. CASE ProgressFails \/ CountAndPage \/ ReturnCall
  BY <1>6 DEF ProgressFails, CountAndPage, ReturnCall, connection
<1>7. ASSUME NEW d \in Derived, EnsureReads(d) \/ Snapshot(d) \/ KeepRevision(d) \/ EnsureFails(d)
      PROVE  DirtyAreIds'
  BY <1>7 DEF EnsureReads, Snapshot, KeepRevision, EnsureFails, connection
<1>8. CASE UNCHANGED cacheVars
  BY <1>8 DEF cacheVars, connection
<1> QED
  BY <1>1, <1>2, <1>3, <1>4, <1>5, <1>6, <1>7, <1>8 DEF CacheNext

LEMMA NextKeeps ==
    ASSUME IInv, DirtyAreIds, [CacheNext]_cacheVars
    PROVE  IInv'
<1>1. ASSUME NEW ids \in SUBSET Ids, NEW change, Write(ids, change)
      PROVE  IInv'
  BY <1>1, WriteKeeps
<1>2. ASSUME NEW ids \in SUBSET Ids, NEW change, ExternalWrite(ids, change)
      PROVE  IInv'
  BY <1>2, ExternalWriteKeeps
<1>3. CASE Reopen
  BY <1>3, ReopenKeeps
<1>4. ASSUME NEW kind \in Kinds, BeginCall(kind)
      PROVE  IInv'
  BY <1>4, CacheQuietKeeps DEF BeginCall, store, connection, caches
<1>5. CASE ProgressSummary
  BY <1>5, ProgressSummaryKeeps DEF DirtyAreIds
<1>6. CASE ProgressFails
  BY <1>6, CacheQuietKeeps DEF ProgressFails, store, connection
<1>7. CASE CountAndPage \/ ReturnCall
  BY <1>7, CacheQuietKeeps DEF CountAndPage, ReturnCall, store, connection, caches
<1>8. ASSUME NEW d \in Derived, EnsureReads(d) \/ Snapshot(d) \/ EnsureFails(d)
      PROVE  IInv'
  BY <1>8, CacheQuietKeeps DEF EnsureReads, Snapshot, EnsureFails, store, connection, caches
<1>9. ASSUME NEW d \in Derived, KeepRevision(d)
      PROVE  IInv'
  BY <1>9, CacheQuietKeeps DEF KeepRevision, store, connection
<1>10. CASE UNCHANGED cacheVars
  BY <1>10, CacheQuietKeeps DEF cacheVars, store, connection, caches
<1> QED
  BY <1>1, <1>2, <1>3, <1>4, <1>5, <1>6, <1>7, <1>8, <1>9, <1>10 DEF CacheNext

\* The cached summary of the current revision was built from exactly the records
\* there are, for any number of records, writers, failed calls and reopenings
\* (progress_summary_with_connection and the two sets of triggers).
THEOREM SummaryIsRepaired == CacheSpec => []ContributionsAreExact
<1>1. CacheInit => IInv /\ DirtyAreIds
  BY DEF CacheInit, IInv, DirtyAreIds, Revisions, Repairable, ContributionsAreExact, Current
<1>2. IInv /\ DirtyAreIds /\ [CacheNext]_cacheVars => (IInv /\ DirtyAreIds)'
  BY NextKeeps, DirtyStep
<1>3. IInv => ContributionsAreExact
  BY DEF IInv
<1> QED
  BY <1>1, <1>2, <1>3, PTL DEF CacheSpec

-----------------------------------------------------------------------------
(* What the counts of a summary are counts of, and what one contribution  *)
(* more, or one less, does to them: CachedSummary::apply and update_group. *)

(* What a summary of given contributions counts.                           *)
Contribs == [flag : BOOLEAN, key : Keys \cup {Null}]
Maps == [Ids -> Contribs \cup {Null}]

Has(R) == {i \in Ids : R[i] # Null}
Raised(R) == {i \in Has(R) : R[i].flag}
Group(R, k) == {i \in Has(R) : R[i].key = k}
Twins(R) == {i \in Has(R) : R[i].key # Null /\ \E j \in Has(R) \ {i} : R[j].key = R[i].key}
Others(R, k) == {i \in Twins(R) : R[i].key # k}

CountsOf(R) == [total   |-> Cardinality(Has(R)),
               flagged |-> Cardinality(Raised(R)),
               shared  |-> Cardinality(Twins(R))]

Sums(s, R) == /\ s.groups = [k \in Keys |-> Cardinality(Group(R, k))]
              /\ s.counts = CountsOf(R)

(* There are as many records as ids at most.                               *)
LEMMA SetsAreFinite ==
  ASSUME NEW R
  PROVE  /\ IsFiniteSet(Has(R)) /\ IsFiniteSet(Raised(R)) /\ IsFiniteSet(Twins(R))
         /\ \A k : IsFiniteSet(Group(R, k)) /\ IsFiniteSet(Others(R, k))
<1>1. /\ Has(R) \subseteq Ids /\ Raised(R) \subseteq Ids /\ Twins(R) \subseteq Ids
      /\ \A k : Group(R, k) \subseteq Ids /\ Others(R, k) \subseteq Ids
  BY DEF Has, Raised, Twins, Group, Others
<1> QED BY <1>1, CacheAssumption, FS_Subset

(* The shared records are those of one key, if it has two, and the others. *)
LEMMA TwinsOfKey ==
  ASSUME NEW R \in Maps, NEW k \in Keys
  PROVE  Cardinality(Twins(R)) = Cardinality(Others(R, k)) + Large(Cardinality(Group(R, k)))
<1> DEFINE G == Group(R, k)
           O == Others(R, k)
           T == Twins(R)
<1>1. IsFiniteSet(G) /\ IsFiniteSet(O) /\ IsFiniteSet(T)
  BY SetsAreFinite
<1>2. Cardinality(G) \in Nat /\ Cardinality(O) \in Nat
  BY <1>1, FS_CardinalityType
<1>3. k # Null
  BY CacheAssumption
<1>4. CASE \E i, j \in G : i # j
  <2>1. T = O \cup G /\ O \cap G = {}
    BY <1>3, <1>4 DEF Twins, Others, Group
  <2>2. Cardinality(T) = Cardinality(O) + Cardinality(G) - Cardinality(O \cap G)
    BY <1>1, <2>1, FS_Union
  <2>3. Cardinality(O \cap G) = 0
    BY <2>1, FS_EmptySet
  <2>4. Cardinality(G) > 1
    <3>1. PICK i, j \in G : i # j
      BY <1>4
    <3>2. Cardinality(G \ {i}) = Cardinality(G) - 1 /\ IsFiniteSet(G \ {i})
      BY <1>1, FS_RemoveElement
    <3>3. G \ {i} # {}
      BY <3>1
    <3>4. Cardinality(G \ {i}) # 0 /\ Cardinality(G \ {i}) \in Nat
      BY <3>2, <3>3, FS_EmptySet, FS_CardinalityType
    <3> HIDE DEF G
    <3> QED BY <3>2, <3>4, <1>2
  <2> HIDE DEF G, O, T
  <2> QED BY <1>2, <2>2, <2>3, <2>4 DEF Large, G, O, T
<1>5. CASE \A i, j \in G : i = j
  <2>1. T = O
    BY <1>3, <1>5 DEF Twins, Others, Group
  <2>2. Cardinality(G) <= 1
    <3>1. CASE G = {}
      <4>1. Cardinality(G) = 0
        BY <3>1, FS_EmptySet
      <4> QED BY <4>1
    <3>2. CASE G # {}
      <4>1. \E i : G = {i}
        BY <1>5, <3>2
      <4>2. Cardinality(G) = 1
        BY <4>1, FS_Singleton
      <4> QED BY <4>2
    <3> QED BY <3>1, <3>2
  <2> HIDE DEF G, O, T
  <2> QED BY <1>2, <2>1, <2>2 DEF Large, G, O, T
<1> QED BY <1>4, <1>5

(* One more contribution c turns R into B.                                 *)
Gains(R, c, B) ==
  /\ B \in Maps
  /\ Cardinality(Has(B)) = Cardinality(Has(R)) + 1
  /\ Cardinality(Raised(B)) = Cardinality(Raised(R)) + (IF c.flag THEN 1 ELSE 0)
  /\ \A k \in Keys : k # c.key => Cardinality(Group(B, k)) = Cardinality(Group(R, k))
  /\ c.key \in Keys => Cardinality(Group(B, c.key)) = Cardinality(Group(R, c.key)) + 1
  /\ Cardinality(Twins(B)) =
       IF c.key = Null THEN Cardinality(Twins(R))
       ELSE Cardinality(Twins(R)) - Large(Cardinality(Group(R, c.key)))
              + Large(Cardinality(Group(B, c.key)))

LEMMA OneMore ==
  ASSUME NEW R \in Maps, NEW x \in Ids, R[x] = Null, NEW c \in Contribs,
         NEW B, B = [R EXCEPT ![x] = c]
  PROVE  Gains(R, c, B)
<1>1. /\ B \in Maps /\ B[x] = c /\ c # Null
      /\ \A i \in Ids \ {x} : B[i] = R[i]
  BY CacheAssumption DEF Maps, Contribs
<1>2. Has(B) = Has(R) \cup {x} /\ x \notin Has(R)
  BY <1>1 DEF Has
<1>3. Cardinality(Has(B)) = Cardinality(Has(R)) + 1
  BY <1>2, SetsAreFinite, FS_AddElement
<1>4. /\ Cardinality(Has(R)) \in Nat /\ Cardinality(Raised(R)) \in Nat
      /\ Cardinality(Twins(R)) \in Nat /\ Cardinality(Twins(B)) \in Nat
      /\ \A k : Cardinality(Group(R, k)) \in Nat /\ Cardinality(Group(B, k)) \in Nat
      /\ \A k : Cardinality(Others(R, k)) \in Nat
  BY SetsAreFinite, FS_CardinalityType
<1>5. Cardinality(Raised(B)) = Cardinality(Raised(R)) + (IF c.flag THEN 1 ELSE 0)
  <2>1. CASE c.flag
    <3>1. Raised(B) = Raised(R) \cup {x} /\ x \notin Raised(R)
      BY <1>1, <1>2, <2>1 DEF Raised, Has
    <3>2. Cardinality(Raised(B)) = Cardinality(Raised(R)) + 1
      BY <3>1, SetsAreFinite, FS_AddElement
    <3> QED BY <2>1, <3>2
  <2>2. CASE ~c.flag
    <3>1. Raised(B) = Raised(R)
      BY <1>1, <1>2, <2>2 DEF Raised, Has
    <3> QED BY <2>2, <3>1, <1>4
  <2> QED BY <2>1, <2>2
<1>6. ASSUME NEW k \in Keys
      PROVE  /\ c.key = k => Cardinality(Group(B, k)) = Cardinality(Group(R, k)) + 1
             /\ c.key # k => Cardinality(Group(B, k)) = Cardinality(Group(R, k))
  <2>1. CASE c.key = k
    <3>1. Group(B, k) = Group(R, k) \cup {x} /\ x \notin Group(R, k)
      BY <1>1, <1>2, <2>1 DEF Group, Has
    <3>2. Cardinality(Group(B, k)) = Cardinality(Group(R, k)) + 1
      BY <3>1, SetsAreFinite, FS_AddElement
    <3> QED BY <2>1, <3>2
  <2>2. CASE c.key # k
    <3>1. Group(B, k) = Group(R, k)
      BY <1>1, <1>2, <2>2 DEF Group, Has
    <3> QED BY <2>2, <3>1, <1>4
  <2> QED BY <2>1, <2>2
<1>7. CASE c.key = Null
  <2>1. Twins(B) = Twins(R)
    BY <1>1, <1>2, <1>7 DEF Twins, Has
  <2> QED BY <1>1, <1>3, <1>5, <1>6, <1>7, <2>1 DEF Gains
<1>8. CASE c.key # Null
  <2>1. c.key \in Keys
    BY <1>8 DEF Contribs
  <2>2. Others(B, c.key) = Others(R, c.key)
    BY <1>1, <1>2 DEF Others, Twins, Has
  <2>3. /\ Cardinality(Twins(B)) = Cardinality(Others(B, c.key)) + Large(Cardinality(Group(B, c.key)))
        /\ Cardinality(Twins(R)) = Cardinality(Others(R, c.key)) + Large(Cardinality(Group(R, c.key)))
    BY <1>1, <2>1, TwinsOfKey
  <2>4. Large(Cardinality(Group(B, c.key))) \in Nat /\ Large(Cardinality(Group(R, c.key))) \in Nat
    BY <1>4 DEF Large
  <2>5. Cardinality(Twins(B)) = Cardinality(Twins(R)) - Large(Cardinality(Group(R, c.key)))
                     + Large(Cardinality(Group(B, c.key)))
    BY <1>4, <2>2, <2>3, <2>4
  <2> QED BY <1>1, <1>3, <1>5, <1>6, <1>8, <2>5 DEF Gains
<1> QED BY <1>7, <1>8

Summaries(told) ==
  [records : {told}, groups : [Keys -> Int],
   counts : [total : Int, flagged : Int, shared : Int]]

Moved(n, insert) == IF insert THEN n + 1 ELSE n - 1

(* What t is when contribution c was added to s, or taken away.            *)
Applied(t, s, c, insert, told) ==
  /\ t \in Summaries(told)
  /\ t.counts.total = Moved(s.counts.total, insert)
  /\ t.counts.flagged = IF c.flag THEN Moved(s.counts.flagged, insert) ELSE s.counts.flagged
  /\ c.key = Null => t.counts.shared = s.counts.shared /\ t.groups = s.groups
  /\ c.key # Null =>
       /\ t.groups = [s.groups EXCEPT ![c.key] = Moved(s.groups[c.key], insert)]
       /\ t.counts.shared = (s.counts.shared - Large(s.groups[c.key]))
                              + Large(Moved(s.groups[c.key], insert))

(* Apply moves the counts and the group of the key.                        *)
LEMMA ApplyIs ==
  ASSUME NEW told, NEW s \in Summaries(told), NEW c \in Contribs, NEW insert \in BOOLEAN
  PROVE  Applied(Apply(s, c, insert), s, c, insert, told)
<1> DEFINE total == Moved(s.counts.total, insert)
           flagged == IF c.flag THEN Moved(s.counts.flagged, insert) ELSE s.counts.flagged
           counted == [s EXCEPT !.counts.total = total, !.counts.flagged = flagged]
<1>1. total \in Int /\ flagged \in Int
  BY DEF Moved, Summaries
<1>2. Apply(s, c, insert) = IF c.key = Null THEN counted ELSE InGroup(counted, c.key, insert)
  BY DEF Apply, Moved
<1> HIDE DEF total, flagged
<1>3. /\ counted \in Summaries(told) /\ counted.groups = s.groups
      /\ counted.counts.total = total /\ counted.counts.flagged = flagged
      /\ counted.counts.shared = s.counts.shared
  BY <1>1 DEF Summaries
<1> HIDE DEF counted
<1>4. CASE c.key = Null
  BY <1>2, <1>3, <1>4 DEF total, flagged, Applied
<1>5. CASE c.key # Null
  <2> DEFINE before == s.groups[c.key]
             after == Moved(before, insert)
             shared == (s.counts.shared - Large(before)) + Large(after)
             moved == [counted EXCEPT !.groups[c.key] = after, !.counts.shared = shared]
  <2>1. c.key \in Keys /\ before \in Int
    BY <1>5 DEF Contribs, Summaries
  <2>2. after \in Int
    BY <2>1 DEF Moved
  <2>3. shared \in Int
    BY <2>1, <2>2 DEF Large, Summaries
  <2>4. InGroup(counted, c.key, insert) = moved
    BY <1>3 DEF InGroup, Moved
  <2> HIDE DEF before, after, shared
  <2>5. /\ moved \in Summaries(told) /\ moved.groups = [s.groups EXCEPT ![c.key] = after]
        /\ moved.counts.total = total /\ moved.counts.flagged = flagged
        /\ moved.counts.shared = shared
    BY <1>3, <2>1, <2>2, <2>3 DEF Summaries
  <2> HIDE DEF moved
  <2> QED BY <1>2, <1>5, <2>4, <2>5 DEF total, flagged, before, after, shared, Applied
<1> QED BY <1>4, <1>5

(* The counts are numbers.                                                 *)
LEMMA CountsAreNumbers ==
  ASSUME NEW R
  PROVE  /\ Cardinality(Has(R)) \in Nat /\ Cardinality(Raised(R)) \in Nat
         /\ Cardinality(Twins(R)) \in Nat /\ \A k : Cardinality(Group(R, k)) \in Nat
BY SetsAreFinite, FS_CardinalityType

(* Applying a contribution that was not there keeps the counts true.       *)
LEMMA ApplyInsert ==
  ASSUME NEW R \in Maps, NEW x \in Ids, R[x] = Null, NEW c \in Contribs,
         NEW B, B = [R EXCEPT ![x] = c],
         NEW told, NEW s \in Summaries(told), Sums(s, R)
  PROVE  Sums(Apply(s, c, TRUE), B)
<1> DEFINE t == Apply(s, c, TRUE)
<1>1. /\ Cardinality(Has(B)) = Cardinality(Has(R)) + 1
      /\ Cardinality(Raised(B)) = Cardinality(Raised(R)) + (IF c.flag THEN 1 ELSE 0)
      /\ \A k \in Keys : k # c.key => Cardinality(Group(B, k)) = Cardinality(Group(R, k))
      /\ c.key \in Keys => Cardinality(Group(B, c.key)) = Cardinality(Group(R, c.key)) + 1
      /\ Cardinality(Twins(B)) =
           IF c.key = Null THEN Cardinality(Twins(R))
           ELSE Cardinality(Twins(R)) - Large(Cardinality(Group(R, c.key)))
                  + Large(Cardinality(Group(B, c.key)))
  <2>1. Gains(R, c, B)
    BY OneMore
  <2> QED BY <2>1 DEF Gains
<1>2. /\ t \in Summaries(told)
      /\ t.counts.total = s.counts.total + 1
      /\ t.counts.flagged = IF c.flag THEN s.counts.flagged + 1 ELSE s.counts.flagged
      /\ c.key = Null => t.counts.shared = s.counts.shared /\ t.groups = s.groups
      /\ c.key # Null =>
           /\ t.groups = [s.groups EXCEPT ![c.key] = s.groups[c.key] + 1]
           /\ t.counts.shared = (s.counts.shared - Large(s.groups[c.key]))
                                  + Large(s.groups[c.key] + 1)
  <2>1. Applied(t, s, c, TRUE, told)
    <3> TRUE \in BOOLEAN
      OBVIOUS
    <3> QED BY ApplyIs
  <2> HIDE DEF t
  <2> QED BY <2>1 DEF Applied, Moved
<1>3. /\ s.counts.total = Cardinality(Has(R)) /\ s.counts.flagged = Cardinality(Raised(R))
      /\ s.counts.shared = Cardinality(Twins(R))
      /\ s.groups = [k \in Keys |-> Cardinality(Group(R, k))]
  BY DEF Sums, CountsOf
<1>4. /\ Cardinality(Raised(R)) \in Nat /\ Cardinality(Twins(R)) \in Nat
      /\ \A k : Cardinality(Group(R, k)) \in Nat /\ Cardinality(Group(B, k)) \in Nat
  BY CountsAreNumbers
<1> HIDE DEF t
<1>5. t.counts.total = Cardinality(Has(B))
  BY <1>1, <1>2, <1>3
<1>6. t.counts.flagged = Cardinality(Raised(B))
  BY <1>1, <1>2, <1>3, <1>4
<1>7. /\ t.counts.shared = Cardinality(Twins(B))
      /\ t.groups = [k \in Keys |-> Cardinality(Group(B, k))]
  <2>1. CASE c.key = Null
    <3>1. Null \notin Keys
      BY CacheAssumption
    <3>2. \A k \in Keys : Cardinality(Group(B, k)) = Cardinality(Group(R, k))
      BY <1>1, <2>1, <3>1
    <3> QED BY <1>1, <1>2, <1>3, <2>1, <3>2
  <2>2. CASE c.key # Null
    <3> DEFINE g == Cardinality(Group(R, c.key))
    <3>1. c.key \in Keys /\ s.groups[c.key] = g /\ g \in Nat
      BY <1>3, <1>4, <2>2 DEF Contribs
    <3>2. Cardinality(Group(B, c.key)) = g + 1
      BY <1>1, <3>1
    <3>3. Cardinality(Twins(B)) = Cardinality(Twins(R)) - Large(g) + Large(g + 1)
      BY <1>1, <2>2, <3>2
    <3>4. t.counts.shared = (Cardinality(Twins(R)) - Large(g)) + Large(g + 1)
      BY <1>2, <1>3, <2>2, <3>1
    <3>5. t.groups = [k \in Keys |-> IF k = c.key THEN g + 1 ELSE Cardinality(Group(R, k))]
      BY <1>2, <1>3, <2>2, <3>1
    <3>6. \A k \in Keys : Cardinality(Group(B, k)) =
                            IF k = c.key THEN g + 1 ELSE Cardinality(Group(R, k))
      BY <1>1, <3>1, <3>2
    <3> QED BY <3>3, <3>4, <3>5, <3>6
  <2> QED BY <2>1, <2>2
<1>8. t.counts = [total |-> t.counts.total, flagged |-> t.counts.flagged, shared |-> t.counts.shared]
  BY <1>2 DEF Summaries
<1> QED BY <1>5, <1>6, <1>7, <1>8 DEF Sums, CountsOf, t

(* So does taking away one that was.                                       *)
LEMMA ApplyRemove ==
  ASSUME NEW R \in Maps, NEW x \in Ids, R[x] = Null, NEW c \in Contribs,
         NEW B, B = [R EXCEPT ![x] = c],
         NEW told, NEW s \in Summaries(told), Sums(s, B)
  PROVE  Sums(Apply(s, c, FALSE), R)
<1> DEFINE t == Apply(s, c, FALSE)
<1>1. /\ Cardinality(Has(B)) = Cardinality(Has(R)) + 1
      /\ Cardinality(Raised(B)) = Cardinality(Raised(R)) + (IF c.flag THEN 1 ELSE 0)
      /\ \A k \in Keys : k # c.key => Cardinality(Group(B, k)) = Cardinality(Group(R, k))
      /\ c.key \in Keys => Cardinality(Group(B, c.key)) = Cardinality(Group(R, c.key)) + 1
      /\ Cardinality(Twins(B)) =
           IF c.key = Null THEN Cardinality(Twins(R))
           ELSE Cardinality(Twins(R)) - Large(Cardinality(Group(R, c.key)))
                  + Large(Cardinality(Group(B, c.key)))
  <2>1. Gains(R, c, B)
    BY OneMore
  <2> QED BY <2>1 DEF Gains
<1>2. /\ t \in Summaries(told)
      /\ t.counts.total = s.counts.total - 1
      /\ t.counts.flagged = IF c.flag THEN s.counts.flagged - 1 ELSE s.counts.flagged
      /\ c.key = Null => t.counts.shared = s.counts.shared /\ t.groups = s.groups
      /\ c.key # Null =>
           /\ t.groups = [s.groups EXCEPT ![c.key] = s.groups[c.key] - 1]
           /\ t.counts.shared = (s.counts.shared - Large(s.groups[c.key]))
                                  + Large(s.groups[c.key] - 1)
  <2>1. Applied(t, s, c, FALSE, told)
    <3> FALSE \in BOOLEAN
      OBVIOUS
    <3> QED BY ApplyIs
  <2> HIDE DEF t
  <2> QED BY <2>1 DEF Applied, Moved
<1>3. /\ s.counts.total = Cardinality(Has(B)) /\ s.counts.flagged = Cardinality(Raised(B))
      /\ s.counts.shared = Cardinality(Twins(B))
      /\ s.groups = [k \in Keys |-> Cardinality(Group(B, k))]
  BY DEF Sums, CountsOf
<1>4. /\ Cardinality(Has(R)) \in Nat /\ Cardinality(Raised(R)) \in Nat
      /\ Cardinality(Twins(R)) \in Nat /\ Cardinality(Twins(B)) \in Nat
      /\ \A k : Cardinality(Group(R, k)) \in Nat /\ Cardinality(Group(B, k)) \in Nat
  BY CountsAreNumbers
<1> HIDE DEF t
<1>5. t.counts.total = Cardinality(Has(R))
  BY <1>1, <1>2, <1>3, <1>4
<1>6. t.counts.flagged = Cardinality(Raised(R))
  BY <1>1, <1>2, <1>3, <1>4
<1>7. /\ t.counts.shared = Cardinality(Twins(R))
      /\ t.groups = [k \in Keys |-> Cardinality(Group(R, k))]
  <2>1. CASE c.key = Null
    <3>1. Null \notin Keys
      BY CacheAssumption
    <3>2. \A k \in Keys : Cardinality(Group(B, k)) = Cardinality(Group(R, k))
      BY <1>1, <2>1, <3>1
    <3> QED BY <1>1, <1>2, <1>3, <2>1, <3>2
  <2>2. CASE c.key # Null
    <3> DEFINE g == Cardinality(Group(R, c.key))
    <3>1. c.key \in Keys /\ g \in Nat
      BY <1>4, <2>2 DEF Contribs
    <3>2. Cardinality(Group(B, c.key)) = g + 1 /\ s.groups[c.key] = g + 1
      BY <1>1, <1>3, <3>1
    <3>3. Cardinality(Twins(B)) = Cardinality(Twins(R)) - Large(g) + Large(g + 1)
      BY <1>1, <2>2, <3>2
    <3> HIDE DEF g
    <3>4. t.counts.shared = (Cardinality(Twins(B)) - Large(g + 1)) + Large(g)
      <4>1. s.groups[c.key] - 1 = g
        BY <3>1, <3>2
      <4> QED BY <1>2, <1>3, <2>2, <3>2, <4>1
    <3>7. Large(g) \in Nat /\ Large(g + 1) \in Nat
      BY <3>1 DEF Large
    <3>8. t.counts.shared = Cardinality(Twins(R))
      BY <1>4, <3>3, <3>4, <3>7
    <3>5. t.groups = [k \in Keys |-> IF k = c.key THEN g ELSE Cardinality(Group(B, k))]
      <4>1. s.groups[c.key] - 1 = g
        BY <3>1, <3>2
      <4>2. t.groups = [s.groups EXCEPT ![c.key] = g]
        BY <1>2, <2>2, <4>1
      <4> QED BY <1>3, <4>2
    <3>6. \A k \in Keys : Cardinality(Group(R, k)) =
                            IF k = c.key THEN g ELSE Cardinality(Group(B, k))
      BY <1>1, <3>1 DEF g
    <3> QED BY <3>5, <3>6, <3>8
  <2> QED BY <2>1, <2>2
<1>8. t.counts = [total |-> t.counts.total, flagged |-> t.counts.flagged, shared |-> t.counts.shared]
  BY <1>2 DEF Summaries
<1> QED BY <1>5, <1>6, <1>7, <1>8 DEF Sums, CountsOf, t

(* What the loops compute, one record after the other.                     *)
HasSteps(base, S, c, insert, V) ==
  \E f \in [SUBSET S -> V] :
    /\ f[{}] = base /\ f[S] = ApplyAll(base, c, S, insert)
    /\ \A s \in SUBSET S : s # {} =>
         \E x \in s : f[s] = Apply(f[s \ {x}], c[x], insert)

(* ApplyAll goes through the records one by one, in an order of its own.   *)
LEMMA ApplyAllSteps ==
  ASSUME NEW told, NEW base \in Summaries(told), NEW S \in SUBSET Ids, NEW c,
         \A i \in S : c[i] \in Contribs, NEW insert \in BOOLEAN
  PROVE  HasSteps(base, S, c, insert, Summaries(told))
<1> DEFINE V == Summaries(told)
           Pick(s) == CHOOSE x \in s : TRUE
           ch == [s \in SUBSET S |-> Pick(s)]
           H == [p \in S \X V |-> Apply(p[2], c[p[1]], insert)]
           IsIter(g) == g = [s \in SUBSET S |->
                               IF s = {} THEN base
                               ELSE Apply(g[s \ {Pick(s)}], c[Pick(s)], insert)]
           iter == CHOOSE g : IsIter(g)
<1>1. IsFiniteSet(S)
  BY CacheAssumption, FS_Subset
<1>2. ApplyAll(base, c, S, insert) = iter[S]
  BY DEF ApplyAll, FoldSet, MapThenFoldSet
<1>3. H \in [S \X V -> V]
  <2>1. \A i \in S, t \in V : Apply(t, c[i], insert) \in V
    <3> SUFFICES ASSUME NEW i \in S, NEW t \in V PROVE Apply(t, c[i], insert) \in V
      OBVIOUS
    <3>1. Applied(Apply(t, c[i], insert), t, c[i], insert, told)
      BY ApplyIs
    <3> QED BY <3>1 DEF Applied
  <2> QED BY <2>1
<1>4. Chooses(ch, S) /\ \A s \in SUBSET S : ch[s] = Pick(s)
  BY DEF Chooses
<1>5. \A i \in S, t \in V : H[<<i, t>>] = Apply(t, c[i], insert)
  OBVIOUS
<1> HIDE DEF H, ch, Pick
<1>6. \E g : IsIter(g)
  <2>1. HasRecursion(S, V, base, H, ch)
    <3> HIDE DEF V
    <3> QED BY <1>1, <1>3, <1>4, RecursionOnSubsets DEF V
  <2>2. PICK g \in [SUBSET S -> V] : \A s \in SUBSET S :
             g[s] = IF s = {} THEN base ELSE H[<<ch[s], g[s \ {ch[s]}]>>]
    BY <2>1 DEF HasRecursion
  <2>3. ASSUME NEW s \in SUBSET S
        PROVE  g[s] = IF s = {} THEN base ELSE Apply(g[s \ {Pick(s)}], c[Pick(s)], insert)
    <3> HIDE DEF V
    <3>1. CASE s = {}
      BY <2>2, <3>1
    <3>2. CASE s # {}
      <4>1. ch[s] \in S /\ ch[s] = Pick(s) /\ g[s \ {ch[s]}] \in V
        BY <1>4, <2>2, <3>2 DEF Chooses
      <4> QED BY <1>5, <2>2, <3>2, <4>1
    <3> QED BY <3>1, <3>2
  <2> QED BY <2>3
<1>7. IsIter(iter)
  <2> HIDE DEF IsIter
  <2> QED BY <1>6
<1>8. /\ iter[{}] = base
      /\ \A s \in SUBSET S : s # {} => iter[s] = Apply(iter[s \ {ch[s]}], c[ch[s]], insert)
  <2> HIDE DEF iter
  <2> QED BY <1>4, <1>7
<1>9. FoldsSubsets(iter, S, V, base, H, ch)
  <2> HIDE DEF iter, V
  <2> QED BY <1>4, <1>5, <1>8 DEF FoldsSubsets, Chooses
<1>10. \A s \in SUBSET S : iter[s] \in V
  <2> HIDE DEF iter, V
  <2> QED BY <1>1, <1>3, <1>4, <1>9, SubsetFold DEF V
<1> DEFINE f == [s \in SUBSET S |-> iter[s]]
<1>11. f \in [SUBSET S -> V] /\ f[{}] = base /\ f[S] = iter[S]
  <2> HIDE DEF iter, V
  <2> QED BY <1>8, <1>10
<1>12. ASSUME NEW s \in SUBSET S, s # {}
       PROVE  \E x \in s : f[s] = Apply(f[s \ {x}], c[x], insert)
  <2> HIDE DEF iter
  <2>1. ch[s] \in s
    BY <1>4, <1>12 DEF Chooses
  <2>2. f[s] = Apply(f[s \ {ch[s]}], c[ch[s]], insert)
    BY <1>8, <1>12
  <2> QED BY <2>1, <2>2
<1> HIDE DEF f, iter
<1> QED BY <1>2, <1>11, <1>12 DEF HasSteps

(* Adding records that had nothing, and removing what records had.         *)
With(R, S, c) == [i \in Ids |-> IF i \in S THEN c[i] ELSE R[i]]
LessRows(R, S) == [i \in Ids |-> IF i \in S THEN Null ELSE R[i]]

(* The second loop keeps the counts true, in whatever order.               *)
LEMMA ApplyAllAdds ==
  ASSUME NEW R \in Maps, NEW S \in SUBSET Ids, NEW c, \A i \in S : c[i] \in Contribs,
         \A i \in S : R[i] = Null, NEW told, NEW base \in Summaries(told), Sums(base, R)
  PROVE  /\ ApplyAll(base, c, S, TRUE) \in Summaries(told)
         /\ Sums(ApplyAll(base, c, S, TRUE), With(R, S, c))
<1>1. PICK f \in [SUBSET S -> Summaries(told)] :
        /\ f[{}] = base /\ f[S] = ApplyAll(base, c, S, TRUE)
        /\ \A s \in SUBSET S : s # {} => \E x \in s : f[s] = Apply(f[s \ {x}], c[x], TRUE)
  <2>1. HasSteps(base, S, c, TRUE, Summaries(told))
    <3> TRUE \in BOOLEAN
      OBVIOUS
    <3> QED BY ApplyAllSteps
  <2> QED BY <2>1 DEF HasSteps
<1> DEFINE T == {s \in SUBSET S : Sums(f[s], With(R, s, c))}
<1>2. {} \in T
  <2>1. With(R, {}, c) = R
    BY DEF With, Maps
  <2> QED BY <1>1, <2>1
<1>3. ASSUME NEW s \in SUBSET S, s # {}, \A x \in s : s \ {x} \in T
      PROVE  s \in T
  <2>1. PICK x \in s : f[s] = Apply(f[s \ {x}], c[x], TRUE)
    BY <1>1, <1>3
  <2> DEFINE less == With(R, s \ {x}, c)
  <2>2. /\ less \in Maps /\ less[x] = Null /\ x \in Ids
        /\ With(R, s, c) = [less EXCEPT ![x] = c[x]]
    BY DEF With, Maps
  <2>3. Sums(f[s \ {x}], less) /\ f[s \ {x}] \in Summaries(told)
    BY <1>1, <1>3
  <2> HIDE DEF less
  <2>4. Sums(f[s], With(R, s, c))
    <3> DEFINE more == With(R, s, c)
               r == f[s \ {x}]
               cx == c[x]
    <3>1. more = [less EXCEPT ![x] = cx] /\ cx \in Contribs
      BY <2>2
    <3>2. Sums(r, less) /\ r \in Summaries(told)
      BY <2>3
    <3> HIDE DEF more, r, cx
    <3>3. Sums(Apply(r, cx, TRUE), more)
      BY <2>2, <3>1, <3>2, ApplyInsert
    <3> QED BY <2>1, <3>3 DEF more, r, cx
  <2> QED BY <2>4
<1>4. S \in T
  <2>1. IsFiniteSet(S)
    BY CacheAssumption, FS_Subset
  <2>2. \A s \in SUBSET S : s \in T
    <3> HIDE DEF T
    <3> QED BY <1>2, <1>3, <2>1, InductionOnSubsets
  <2>3. S \in SUBSET S
    OBVIOUS
  <2> HIDE DEF T
  <2> QED BY <2>2, <2>3
<1>5. f[S] \in Summaries(told) /\ Sums(f[S], With(R, S, c))
  BY <1>4
<1> QED BY <1>1, <1>5

(* So does the first.                                                      *)
LEMMA ApplyAllRemoves ==
  ASSUME NEW R \in Maps, NEW S \in SUBSET Ids, \A i \in S : R[i] # Null,
         NEW told, NEW base \in Summaries(told), Sums(base, R)
  PROVE  /\ ApplyAll(base, R, S, FALSE) \in Summaries(told)
         /\ Sums(ApplyAll(base, R, S, FALSE), LessRows(R, S))
<1>0. \A i \in S : R[i] \in Contribs
  BY DEF Maps
<1>1. PICK f \in [SUBSET S -> Summaries(told)] :
        /\ f[{}] = base /\ f[S] = ApplyAll(base, R, S, FALSE)
        /\ \A s \in SUBSET S : s # {} => \E x \in s : f[s] = Apply(f[s \ {x}], R[x], FALSE)
  <2>1. HasSteps(base, S, R, FALSE, Summaries(told))
    <3> FALSE \in BOOLEAN
      OBVIOUS
    <3> QED BY <1>0, ApplyAllSteps
  <2> QED BY <2>1 DEF HasSteps
<1> DEFINE T == {s \in SUBSET S : Sums(f[s], LessRows(R, s))}
<1>2. {} \in T
  <2>1. LessRows(R, {}) = R
    BY DEF LessRows, Maps
  <2> QED BY <1>1, <2>1
<1>3. ASSUME NEW s \in SUBSET S, s # {}, \A x \in s : s \ {x} \in T
      PROVE  s \in T
  <2>1. PICK x \in s : f[s] = Apply(f[s \ {x}], R[x], FALSE)
    BY <1>1, <1>3
  <2> DEFINE less == LessRows(R, s)
             more == LessRows(R, s \ {x})
  <2>2. /\ less \in Maps /\ less[x] = Null /\ x \in Ids
        /\ more = [less EXCEPT ![x] = R[x]]
    BY DEF LessRows, Maps
  <2>3. Sums(f[s \ {x}], more) /\ f[s \ {x}] \in Summaries(told)
    BY <1>1, <1>3
  <2> HIDE DEF less, more
  <2>4. Sums(f[s], less)
    BY <1>0, <2>1, <2>2, <2>3, ApplyRemove
  <2> QED BY <2>4 DEF less
<1>4. S \in T
  <2>1. IsFiniteSet(S)
    BY CacheAssumption, FS_Subset
  <2>2. \A s \in SUBSET S : s \in T
    <3> HIDE DEF T
    <3> QED BY <1>2, <1>3, <2>1, InductionOnSubsets
  <2>3. S \in SUBSET S
    OBVIOUS
  <2> HIDE DEF T
  <2> QED BY <2>2, <2>3
<1>5. f[S] \in Summaries(told) /\ Sums(f[S], LessRows(R, S))
  BY <1>4
<1> QED BY <1>1, <1>5

-----------------------------------------------------------------------------
(* Rebuilt or repaired, a summary counts its own contributions; of the     *)
(* current revision these are the rows, so it counts the rows.             *)

(* A summary that counts what its own contributions are.                   *)
Honest(s) == /\ s.records \in Maps
             /\ s \in Summaries(s.records)
             /\ Sums(s, s.records)

(* The empty summary counts nothing.                                       *)
LEMMA EmptyIsHonest == Honest(EmptySummary)
<1> DEFINE R == [i \in Ids |-> Null]
<1>1. R \in Maps /\ EmptySummary.records = R /\ EmptySummary \in Summaries(R)
  BY DEF EmptySummary, Summaries, Maps
<1>2. Has(R) = {} /\ Raised(R) = {} /\ Twins(R) = {} /\ \A k : Group(R, k) = {}
  BY DEF Has, Raised, Twins, Group
<1>3. Cardinality({}) = 0
  BY FS_EmptySet
<1> HIDE DEF R
<1>4. Sums(EmptySummary, R)
  BY <1>2, <1>3 DEF Sums, CountsOf, EmptySummary
<1> QED BY <1>1, <1>4 DEF Honest

(* What a row contributes.                                                 *)
LEMMA ContributionIs ==
  ASSUME NEW entry \in Contents \cup {Null}
  PROVE  /\ Contribution(entry) \in Contribs \cup {Null}
         /\ entry # Null => /\ Contribution(entry) \in Contribs /\ Contribution(entry) # Null
                          /\ Contribution(entry).flag = entry.flag
                          /\ Contribution(entry).key = entry.key
         /\ entry = Null => Contribution(entry) = Null
BY CacheAssumption DEF Contribution, Contribs

(* Subtract leaves a summary that counts what is left.                     *)
LEMMA SubtractIsHonest ==
  ASSUME NEW s, Honest(s), NEW ids \in SUBSET Ids
  PROVE  /\ Honest(Subtract(s, ids))
         /\ \A i \in ids : Subtract(s, ids).records[i] = Null
<1> DEFINE R == s.records
           gone == {i \in ids : R[i] # Null}
           less == ApplyAll(s, R, gone, FALSE)
           t == Subtract(s, ids)
           left == LessRows(R, gone)
<1>1. /\ t.records = left /\ t.groups = less.groups /\ t.counts = less.counts
      /\ t = [records |-> left, groups |-> less.groups, counts |-> less.counts]
  BY DEF Subtract, LessRows
<1>2. less \in Summaries(R) /\ Sums(less, left)
  <2>1. R \in Maps /\ gone \in SUBSET Ids /\ (\A i \in gone : R[i] # Null)
        /\ s \in Summaries(R) /\ Sums(s, R)
    BY DEF Honest
  <2> HIDE DEF R, gone
  <2> QED BY <2>1, ApplyAllRemoves
<1>3. left \in Maps
  BY DEF Honest, LessRows, Maps
<1>4. \A i \in ids : left[i] = Null
  BY DEF LessRows
<1> HIDE DEF t, less, left, R
<1>5. t \in Summaries(left) /\ Sums(t, left)
  BY <1>1, <1>2 DEF Summaries, Sums
<1> QED BY <1>1, <1>3, <1>4, <1>5 DEF Honest, t

(* Add leaves one that counts what came, too.                              *)
LEMMA AddIsHonest ==
  ASSUME rows \in Tables, NEW s, Honest(s), NEW ids \in SUBSET Ids,
         \A i \in ids : s.records[i] = Null
  PROVE  Honest(Add(s, ids))
<1> DEFINE R == s.records
           present == {i \in ids : rows[i] # Null}
           now == [i \in Ids |-> Contribution(rows[i])]
           more == ApplyAll(s, now, present, TRUE)
           t == Add(s, ids)
           full == With(R, present, now)
<1>0. \A i \in present : now[i] \in Contribs
  BY ContributionIs DEF Tables
<1>1. /\ t.records = full /\ t.groups = more.groups /\ t.counts = more.counts
      /\ t = [records |-> full, groups |-> more.groups, counts |-> more.counts]
  BY DEF Add, With
<1>2. more \in Summaries(R) /\ Sums(more, full)
  <2>1. R \in Maps /\ present \in SUBSET Ids /\ (\A i \in present : R[i] = Null)
        /\ s \in Summaries(R) /\ Sums(s, R)
    BY DEF Honest
  <2> HIDE DEF R, present, now
  <2> QED BY <1>0, <2>1, ApplyAllAdds
<1>3. full \in Maps
  <2> HIDE DEF present, now
  <2> QED BY <1>0 DEF Honest, With, Maps
<1> HIDE DEF t, more, full, R, now, present
<1>5. t \in Summaries(full) /\ Sums(t, full)
  BY <1>1, <1>2 DEF Summaries, Sums
<1> QED BY <1>1, <1>3, <1>5 DEF Honest, t

(* What a summary built from all the rows counts.                          *)
Image(table) == [i \in Ids |-> Contribution(table[i])]

(* A summary of the rows counts what try_progress_summary promises.        *)
LEMMA ImageCounts ==
  ASSUME NEW table \in Tables
  PROVE  CountsOf(Image(table)) = Progress(table)
<1> DEFINE R == Image(table)
<1>1. \A i \in Ids : /\ R[i] # Null <=> table[i] # Null
                     /\ table[i] # Null => R[i].flag = table[i].flag /\ R[i].key = table[i].key
  BY ContributionIs DEF Image, Tables
<1> HIDE DEF R
<1>2. Has(R) = Stored(table) /\ Stored(table) \subseteq Ids
  BY <1>1 DEF Has, Stored
<1>3. Raised(R) = Flagged(table)
  BY <1>1, <1>2 DEF Raised, Flagged
<1>4. Twins(R) = Shared(table)
  BY <1>1, <1>2 DEF Twins, Shared
<1> QED BY <1>2, <1>3, <1>4 DEF CountsOf, Progress, R

CacheHonest == /\ rows \in Tables /\ versions \subseteq Tables
               /\ cache # Null => Honest(cache.summary)

LEMMA ExactCounts ==
  ASSUME NEW s, Honest(s), NEW table \in Tables,
         \A i \in Ids : s.records[i] = Contribution(table[i])
  PROVE  s.counts = Progress(table)
<1>1. s.records = Image(table)
  BY DEF Honest, Maps, Image
<1>2. s.counts = CountsOf(Image(table))
  BY <1>1 DEF Honest, Sums
<1> QED BY <1>2, ImageCounts

(* Rebuilt or repaired, the summary counts its own contributions.          *)
LEMMA RefreshedIsHonest ==
  ASSUME CacheHonest, dirty \in SUBSET Ids
  PROVE  Honest(Refreshed)
<1>1. CASE cache = Null \/ localRevision # revision
  <2>1. Refreshed = Add(EmptySummary, Ids) /\ \A i \in Ids : EmptySummary.records[i] = Null
    BY <1>1 DEF Refreshed, EmptySummary
  <2>2. Honest(Add(EmptySummary, Ids))
    <3>1. Ids \in SUBSET Ids /\ rows \in Tables
      BY DEF CacheHonest
    <3> QED BY <2>1, <3>1, EmptyIsHonest, AddIsHonest
  <2> QED BY <2>1, <2>2
<1>2. CASE cache # Null /\ localRevision = revision
  <2> DEFINE s == Subtract(cache.summary, dirty)
  <2>1. Refreshed = Add(s, dirty)
    BY <1>2 DEF Refreshed
  <2>2. Honest(s) /\ (\A i \in dirty : s.records[i] = Null) /\ rows \in Tables
    <3>1. Honest(cache.summary) /\ rows \in Tables
      BY <1>2 DEF CacheHonest
    <3> QED BY <3>1, SubtractIsHonest
  <2> HIDE DEF s
  <2>3. Honest(Add(s, dirty))
    BY <2>2, AddIsHonest
  <2> QED BY <2>1, <2>3
<1> QED BY <1>1, <1>2

LEMMA ChangeKeepsTables ==
  ASSUME rows \in Tables, NEW ids \in SUBSET Ids, NEW change \in [ids -> Contents \cup {Null}],
         Change(ids, change)
  PROVE  rows' \in Tables
BY DEF Change, Tables

(* No step loses this.                                                     *)
LEMMA HonestStep ==
  ASSUME CacheHonest, DirtyAreIds, [CacheNext]_cacheVars
  PROVE  CacheHonest'
<1> USE DEF CacheHonest
<1>1. ASSUME NEW ids \in SUBSET Ids, NEW change \in [ids -> Contents \cup {Null}],
             Write(ids, change) \/ ExternalWrite(ids, change)
      PROVE  CacheHonest'
  <2>1. Change(ids, change) /\ cache' = cache /\ versions' \subseteq versions \cup {rows'}
    BY <1>1 DEF Write, ExternalWrite, caches, call
  <2>2. rows' \in Tables
    BY <2>1, ChangeKeepsTables
  <2> QED BY <2>1, <2>2
<1>2. CASE Reopen
  BY <1>2 DEF Reopen, store, call
<1>3. ASSUME NEW kind \in Kinds, BeginCall(kind)
      PROVE  CacheHonest'
  BY <1>3 DEF BeginCall, store, caches
<1>4. CASE ProgressSummary
  <2>1. rows' = rows /\ versions' = versions
    BY <1>4 DEF ProgressSummary, store
  <2>2. CASE Current
    BY <1>4, <2>1, <2>2 DEF ProgressSummary
  <2>3. CASE ~Current
    <3>1. cache'.summary = Refreshed
      BY <1>4, <2>3 DEF ProgressSummary
    <3>2. Honest(Refreshed)
      BY RefreshedIsHonest DEF DirtyAreIds
    <3>3. Honest(cache'.summary)
      BY <3>1, <3>2
    <3> QED BY <2>1, <3>3
  <2> QED BY <2>2, <2>3
<1>5. CASE ProgressFails
  BY <1>5 DEF ProgressFails, Leave, store
<1>6. CASE CountAndPage \/ ReturnCall
  BY <1>6 DEF CountAndPage, ReturnCall, Leave, store, caches
<1>7. ASSUME NEW d \in Derived, EnsureReads(d) \/ Snapshot(d) \/ EnsureFails(d)
      PROVE  CacheHonest'
  BY <1>7 DEF EnsureReads, Snapshot, EnsureFails, Leave, store, caches
<1>8. ASSUME NEW d \in Derived, KeepRevision(d)
      PROVE  CacheHonest'
  BY <1>8 DEF KeepRevision, store
<1>9. CASE UNCHANGED cacheVars
  BY <1>9 DEF cacheVars, store, caches, call
<1> QED BY <1>1, <1>2, <1>3, <1>4, <1>5, <1>6, <1>7, <1>8, <1>9 DEF CacheNext

-----------------------------------------------------------------------------
(* The invariant of a call.                                                *)

(* Between two calls nothing of the last one is left.                      *)
Quiet == /\ todo = <<>> /\ view = "all" /\ read = Null /\ fresh = Null
         /\ \A s \in Steps : answer[s] = Null

Recalled == /\ IsFiniteSet(versions)
            /\ answer = [s \in Steps |-> answer[s]]
            /\ versions # {} => rows \in versions
            /\ versions = {} => Quiet

(* A derived table of the current revision is that of the records.         *)
Trusted == /\ cachedAt = [d \in Derived |-> cachedAt[d]]
           /\ derived = [d \in Derived |-> derived[d]]
           /\ \A d \in Derived : cachedAt[d] # Null =>
                /\ cachedAt[d] \in Nat /\ cachedAt[d] <= revision
                /\ cachedAt[d] = revision => derived[d] = Derive(d, rows)

(* What a rebuild has read, in the order it reads it.                      *)
Rebuilding ==
  /\ read # Null => /\ read \in Nat /\ read <= revision
                    /\ todo # <<>> /\ Head(todo) \in Derived
  /\ fresh # Null => /\ read # Null
                     /\ fresh \in {Derive(Head(todo), t) : t \in versions}
                     /\ read = revision => fresh = Derive(Head(todo), rows)

(* What a call knows, it knows of tables there were since it began.        *)
Known ==
  /\ answer["progress"] # Null => answer["progress"] \in {Progress(t) : t \in versions}
  /\ \A d \in Derived : answer[d] # Null =>
        /\ answer[d] = Cardinality(derived[d])
        /\ derived[d] \in {Derive(d, t) : t \in versions}

(* rest is what is left of q after k steps, found what those have found.   *)
Stage(q, k, rest, found) ==
  /\ rest = SubSeq(q, k + 1, Len(q))
  /\ \A i \in 1..k : q[i] # "rows" => found[q[i]] # Null
  /\ \A s \in Steps : found[s] # Null => \E i \in 1..k : q[i] = s

OnCourse(rest, found) ==
  \E kind \in Kinds : \E k \in 0..Len(StepsOf(kind)) : Stage(StepsOf(kind), k, rest, found)

Planned == versions # {} => OnCourse(todo, answer)

(* The view a page is of, and what the call must know before it.           *)
Prepared(v, found) ==
  IF found["progress"] = Null
  THEN v = "aliases" /\ "aliases" \in Derived /\ found["aliases"] # Null
  ELSE v \in TableViews \ {"aliases"} /\ \A d \in Derived \ {"aliases"} : found[d] # Null

Found ==
  /\ answer["total"] # Null =>
       /\ Prepared(view, answer)
       /\ versions = {rows} => answer["total"] = Cardinality(InView(view, rows, derived))
  /\ answer["rows"] # Null =>
       /\ answer["total"] # Null
       /\ versions = {rows} => answer["rows"] = InView(view, rows, derived)

CallInv == Recalled /\ Trusted /\ Rebuilding /\ Known /\ Planned /\ Found

-----------------------------------------------------------------------------
(* The order of the steps of a call.                                       *)
Orderly(q) ==
  /\ q \in Seq(Steps)
  /\ \A i, j \in 1..Len(q) : q[i] = q[j] => i = j
  /\ \A i, j \in 1..Len(q) :
       /\ q[i] \in Derived \cup {"progress"} /\ q[j] \in {"total", "rows"} => i < j
       /\ q[i] = "total" /\ q[j] = "rows" => i < j
  /\ \A j \in 1..Len(q) : q[j] = "rows" => \E i \in 1..Len(q) : q[i] = "total"
  /\ \A j \in 1..Len(q) : q[j] = "total" =>
       IF \E i \in 1..Len(q) : q[i] = "progress"
       THEN \A d \in Derived \ {"aliases"} : \E i \in 1..Len(q) : q[i] = d
       ELSE "aliases" \in Derived /\ \E i \in 1..Len(q) : q[i] = "aliases"

Cat(s, t) == s \o t

(* Concatenations of short sequences, spelt out.                           *)
LEMMA ShortConcats ==
  /\ \A a : Cat(<<a>>, <<>>) = <<a>>
  /\ \A a, b : Cat(<<a>>, <<b>>) = <<a, b>>
  /\ \A a, b : Cat(<<a, b>>, <<>>) = <<a, b>>
  /\ \A a, b, c : Cat(<<a, b>>, <<c>>) = <<a, b, c>>
  /\ \A a, x, y : Cat(<<a>>, <<x, y>>) = <<a, x, y>>
  /\ \A a, b, x, y : Cat(<<a, b>>, <<x, y>>) = <<a, b, x, y>>
  /\ \A a, b, c, x, y : Cat(<<a, b, c>>, <<x, y>>) = <<a, b, c, x, y>>
<1>1. \A a : <<a>> = <<a>> \o <<>>
  OBVIOUS
<1>2. ASSUME NEW a, NEW b PROVE <<a, b>> = <<a>> \o <<b>>
  <2>1. <<a, b>> = Append(<<a>>, b) /\ <<a>> \in Seq({a, b}) /\ b \in {a, b}
    OBVIOUS
  <2>2. Append(<<a>>, b) = <<a>> \o <<b>>
    BY <2>1, AppendIsConcat
  <2> QED BY <2>1, <2>2
<1>3. \A a, b : <<a, b>> = <<a, b>> \o <<>>
  OBVIOUS
<1>4. \A a, b, c : <<a, b, c>> = <<a, b>> \o <<c>>
  OBVIOUS
<1>5. \A a, x, y : <<a, x, y>> = <<a>> \o <<x, y>>
  OBVIOUS
<1>8. (\A a : Cat(<<a>>, <<>>) = <<a>>) /\ (\A a, b : Cat(<<a>>, <<b>>) = <<a, b>>)
  BY <1>1, <1>2, Zenon DEF Cat
<1>9. (\A a, b : Cat(<<a, b>>, <<>>) = <<a, b>>) /\ (\A a, b, c : Cat(<<a, b>>, <<c>>) = <<a, b, c>>)
  BY <1>3, <1>4, Zenon DEF Cat
<1>10. \A a, x, y : Cat(<<a>>, <<x, y>>) = <<a, x, y>>
  BY <1>5, Zenon DEF Cat
<1>11. ASSUME NEW a, NEW b, NEW x, NEW y
       PROVE  Cat(<<a, b>>, <<x, y>>) = <<a, b, x, y>>
  <2>1. <<a, b, x, y>> = <<a, b>> \o <<x, y>>
    OBVIOUS
  <2> QED BY <2>1, Zenon DEF Cat
<1>12. ASSUME NEW a, NEW b, NEW c, NEW x, NEW y
       PROVE  Cat(<<a, b, c>>, <<x, y>>) = <<a, b, c, x, y>>
  <2>1. <<a, b, c, x, y>> = <<a, b, c>> \o <<x, y>>
    OBVIOUS
  <2> QED BY <2>1, Zenon DEF Cat
<1> QED BY <1>8, <1>9, <1>10, <1>11, <1>12

(* So are the steps of every kind of call, whichever tables are in use.    *)
LEMMA StepsAreOrderly ==
  ASSUME NEW kind \in Kinds
  PROVE  Orderly(StepsOf(kind))
<1> DEFINE p == "progress"
           r == "references"
           d == "duplicates"
<1>1. /\ Derived \subseteq {"references", "duplicates", "aliases"}
      /\ p \in Steps /\ "total" \in Steps /\ "rows" \in Steps /\ Derived \subseteq Steps
  BY CacheAssumption DEF Steps
<1>2. CASE kind = "progress"
  <2>1. StepsOf(kind) = <<"progress">>
    BY <1>2 DEF StepsOf
  <2> QED BY <1>1, <2>1 DEF Orderly
<1>3. CASE kind = "images"
  <2>1. StepsOf(kind) = <<"aliases", "total", "rows">> /\ "aliases" \in Derived
    BY <1>3 DEF StepsOf, Kinds
  <2> QED BY <1>1, <2>1 DEF Orderly
<1>4. CASE kind = "summary"
  <2>1. StepsOf(kind) = Cat(Cat(<<p>>, IF r \in Derived THEN <<r>> ELSE <<>>),
                            IF d \in Derived THEN <<d>> ELSE <<>>)
    BY <1>4 DEF StepsOf, Cat
  <2>2. \/ StepsOf(kind) = <<p>>
        \/ StepsOf(kind) = <<p, r>> /\ r \in Derived
        \/ StepsOf(kind) = <<p, d>> /\ d \in Derived
        \/ StepsOf(kind) = <<p, r, d>> /\ r \in Derived /\ d \in Derived
    <3> HIDE DEF p, r, d
    <3>1. CASE r \in Derived /\ d \in Derived
      BY <2>1, <3>1, ShortConcats
    <3>2. CASE r \in Derived /\ d \notin Derived
      BY <2>1, <3>2, ShortConcats
    <3>3. CASE r \notin Derived /\ d \in Derived
      BY <2>1, <3>3, ShortConcats
    <3>4. CASE r \notin Derived /\ d \notin Derived
      BY <2>1, <3>4, ShortConcats
    <3> QED BY <3>1, <3>2, <3>3, <3>4
  <2>3. CASE StepsOf(kind) = <<p>>
    BY <1>1, <2>3 DEF Orderly
  <2>4. CASE StepsOf(kind) = <<p, r>> /\ r \in Derived
    BY <1>1, <2>4 DEF Orderly
  <2>5. CASE StepsOf(kind) = <<p, d>> /\ d \in Derived
    BY <1>1, <2>5 DEF Orderly
  <2>6. CASE StepsOf(kind) = <<p, r, d>> /\ r \in Derived /\ d \in Derived
    BY <1>1, <2>6 DEF Orderly
  <2> QED BY <2>2, <2>3, <2>4, <2>5, <2>6
<1>5. CASE kind = "grid"
  <2>1. StepsOf(kind) = Cat(Cat(Cat(<<p>>, IF r \in Derived THEN <<r>> ELSE <<>>),
                                IF d \in Derived THEN <<d>> ELSE <<>>), <<"total", "rows">>)
    BY <1>5 DEF StepsOf, Cat
  <2>2. \/ StepsOf(kind) = <<p, "total", "rows">> /\ r \notin Derived /\ d \notin Derived
        \/ StepsOf(kind) = <<p, r, "total", "rows">> /\ r \in Derived /\ d \notin Derived
        \/ StepsOf(kind) = <<p, d, "total", "rows">> /\ d \in Derived /\ r \notin Derived
        \/ StepsOf(kind) = <<p, r, d, "total", "rows">> /\ r \in Derived /\ d \in Derived
    <3> HIDE DEF p, r, d
    <3>1. CASE r \in Derived /\ d \in Derived
      BY <2>1, <3>1, ShortConcats
    <3>2. CASE r \in Derived /\ d \notin Derived
      BY <2>1, <3>2, ShortConcats
    <3>3. CASE r \notin Derived /\ d \in Derived
      BY <2>1, <3>3, ShortConcats
    <3>4. CASE r \notin Derived /\ d \notin Derived
      BY <2>1, <3>4, ShortConcats
    <3> QED BY <3>1, <3>2, <3>3, <3>4
  <2>3. CASE StepsOf(kind) = <<p, "total", "rows">> /\ r \notin Derived /\ d \notin Derived
    BY <1>1, <2>3 DEF Orderly
  <2>4. CASE StepsOf(kind) = <<p, r, "total", "rows">> /\ r \in Derived /\ d \notin Derived
    BY <1>1, <2>4 DEF Orderly
  <2>5. CASE StepsOf(kind) = <<p, d, "total", "rows">> /\ d \in Derived /\ r \notin Derived
    BY <1>1, <2>5 DEF Orderly
  <2>6. CASE StepsOf(kind) = <<p, r, d, "total", "rows">> /\ r \in Derived /\ d \in Derived
    BY <1>1, <2>6 DEF Orderly
  <2> QED BY <2>2, <2>3, <2>4, <2>5, <2>6
<1> QED BY <1>2, <1>3, <1>4, <1>5 DEF Kinds

-----------------------------------------------------------------------------
(* A call goes through the steps of its kind in order.                     *)

(* A call at its first step.                                               *)
LEMMA CourseBegins ==
  ASSUME NEW kind \in Kinds, NEW found, \A s \in Steps : found[s] = Null
  PROVE  OnCourse(StepsOf(kind), found)
<1> DEFINE q == StepsOf(kind)
<1>1. q \in Seq(Steps) /\ Len(q) \in Nat /\ \A i \in 1..Len(q) : q[i] \in Steps
  BY StepsAreOrderly, LenProperties, ElementOfSeq DEF Orderly
<1>2. SubSeq(q, 1, Len(q)) = q
  <2> HIDE DEF q
  <2> DEFINE t == SubSeq(q, 1, Len(q))
  <2>1. t \in Seq(Steps) /\ Len(t) = Len(q) /\ \A i \in 1..Len(q) : t[i] = q[i]
    <3>1. \A i \in 1..Len(q) : q[i] \in Steps
      BY <1>1
    <3>2. /\ t \in Seq(Steps) /\ Len(t) = IF 1 <= Len(q) THEN Len(q) - 1 + 1 ELSE 0
          /\ \A i \in 1..Len(q)-1+1 : t[i] = q[1+i-1]
      BY <1>1, <3>1, SubSeqProperties
    <3> QED BY <1>1, <3>2
  <2> HIDE DEF t
  <2> QED BY <1>1, <2>1, SeqEqual DEF t
<1>3. Stage(q, 0, q, found)
  BY <1>1, <1>2 DEF Stage
<1>4. 0 \in 0..Len(q)
  BY <1>1
<1> QED BY <1>3, <1>4 DEF OnCourse

(* A call at a step of its own.                                            *)
AtStep(q, k, rest, found) ==
  /\ Stage(q, k - 1, rest, found)
  /\ Head(rest) = q[k] /\ Tail(rest) = SubSeq(q, k + 1, Len(q))

(* Where a call is that has steps left.                                    *)
LEMMA CourseAtStep ==
  ASSUME NEW rest, NEW found, OnCourse(rest, found), rest # <<>>
  PROVE  \E kind \in Kinds : \E k \in 1..Len(StepsOf(kind)) : AtStep(StepsOf(kind), k, rest, found)
<1>1. PICK kind \in Kinds : \E k \in 0..Len(StepsOf(kind)) : Stage(StepsOf(kind), k, rest, found)
  BY DEF OnCourse
<1> DEFINE q == StepsOf(kind)
           n == Len(q)
<1>2. PICK k \in 0..n : Stage(q, k, rest, found)
  BY <1>1
<1>3. q \in Seq(Steps) /\ n \in Nat
  BY StepsAreOrderly, LenProperties DEF Orderly
<1>4. rest = SubSeq(q, k + 1, n)
  BY <1>2 DEF Stage
<1> HIDE DEF q, n
<1>5. k + 1 \in 1..n /\ n \in k+1..n /\ k + 1 - 1 = k
  <2>1. n < k + 1 => rest = <<>>
    BY <1>3, <1>4, SubSeqEmpty
  <2> QED BY <1>3, <2>1
<1>6. Head(SubSeq(q, k + 1, n)) = q[k + 1] /\ Tail(SubSeq(q, k + 1, n)) = SubSeq(q, k + 1 + 1, n)
  <2> DEFINE m == k + 1
  <2>1. m \in 1..n /\ n \in m..n
    BY <1>5
  <2> HIDE DEF m
  <2>2. Head(SubSeq(q, m, n)) = q[m] /\ Tail(SubSeq(q, m, n)) = SubSeq(q, m + 1, n)
    BY <1>3, <2>1, HeadTailOfSubSeq DEF n
  <2> QED BY <2>2 DEF m
<1>7. AtStep(q, k + 1, rest, found)
  BY <1>2, <1>4, <1>5, <1>6 DEF AtStep, n
<1> QED BY <1>5, <1>7 DEF q, n

(* Answering its step takes it to the next.                                *)
LEMMA CourseGoesOn ==
  ASSUME NEW rest, NEW found, OnCourse(rest, found), rest # <<>>,
         found = [s \in Steps |-> found[s]],
         NEW value, Head(rest) # "rows" => value # Null
  PROVE  OnCourse(Tail(rest), [found EXCEPT ![Head(rest)] = value])
<1>1. PICK kind \in Kinds : \E k \in 1..Len(StepsOf(kind)) : AtStep(StepsOf(kind), k, rest, found)
  BY CourseAtStep
<1> DEFINE q == StepsOf(kind)
           more == [found EXCEPT ![Head(rest)] = value]
<1>2. PICK k \in 1..Len(q) : AtStep(q, k, rest, found)
  BY <1>1
<1>3. Len(q) \in Nat /\ Orderly(q) /\ \A i \in 1..Len(q) : q[i] \in Steps
  BY StepsAreOrderly, LenProperties, ElementOfSeq DEF Orderly
<1> HIDE DEF q
<1>4. /\ more[q[k]] = value /\ \A s \in Steps : s # q[k] => more[s] = found[s]
  BY <1>2, <1>3 DEF AtStep
<1> HIDE DEF more
<1>5. \A i \in 1..k : q[i] # "rows" => more[q[i]] # Null
  <2> SUFFICES ASSUME NEW i \in 1..k, q[i] # "rows" PROVE more[q[i]] # Null
    OBVIOUS
  <2>1. CASE i = k
    BY <1>2, <1>4, <2>1 DEF AtStep
  <2>2. CASE i # k
    <3>1. i \in 1..k-1 /\ i \in 1..Len(q)
      BY <1>3, <2>2
    <3>2. q[i] # q[k] /\ q[i] \in Steps
      BY <1>3, <2>2, <3>1 DEF Orderly
    <3> QED BY <1>2, <1>4, <3>1, <3>2 DEF AtStep, Stage
  <2> QED BY <2>1, <2>2
<1>6. ASSUME NEW s \in Steps, more[s] # Null
      PROVE  \E i \in 1..k : q[i] = s
  <2>1. CASE s = q[k]
    BY <2>1
  <2>2. CASE s # q[k]
    <3>1. \E i \in 1..k-1 : q[i] = s
      BY <1>2, <1>4, <1>6, <2>2 DEF AtStep, Stage
    <3> QED BY <1>3, <3>1
  <2> QED BY <2>1, <2>2
<1>7. Stage(q, k, Tail(rest), more)
  BY <1>2, <1>5, <1>6 DEF Stage, AtStep
<1>8. k \in 0..Len(q)
  BY <1>3
<1> QED BY <1>7, <1>8 DEF OnCourse, q, more

(* What it has found where it is.                                          *)
LEMMA CourseFacts ==
  ASSUME NEW rest, NEW found, OnCourse(rest, found), rest # <<>>
  PROVE  /\ Head(rest) \in Steps
         /\ Head(rest) \in Derived \cup {"progress"} => found["total"] = Null /\ found["rows"] = Null
         /\ Head(rest) = "total" =>
              /\ found["rows"] = Null
              /\ IF found["progress"] = Null
                 THEN "aliases" \in Derived /\ found["aliases"] # Null
                 ELSE \A d \in Derived \ {"aliases"} : found[d] # Null
         /\ Head(rest) = "rows" => found["total"] # Null
<1>1. PICK kind \in Kinds : \E k \in 1..Len(StepsOf(kind)) : AtStep(StepsOf(kind), k, rest, found)
  BY CourseAtStep
<1> DEFINE q == StepsOf(kind)
<1>2. PICK k \in 1..Len(q) : AtStep(q, k, rest, found)
  BY <1>1
<1>3. Len(q) \in Nat /\ Orderly(q) /\ \A i \in 1..Len(q) : q[i] \in Steps
  BY StepsAreOrderly, LenProperties, ElementOfSeq DEF Orderly
<1> HIDE DEF q
<1>4. /\ Head(rest) = q[k]
      /\ \A i \in 1..k-1 : q[i] # "rows" => found[q[i]] # Null
      /\ \A s \in Steps : found[s] # Null => \E i \in 1..k-1 : q[i] = s
  BY <1>2 DEF AtStep, Stage
<1>5. "total" \in Steps /\ "rows" \in Steps /\ "progress" \in Steps /\ Derived \subseteq Steps
      /\ "rows" \notin Derived /\ "total" \notin Derived
  BY CacheAssumption DEF Steps
<1>6. \A i \in 1..k-1 : i \in 1..Len(q) /\ i < k
  BY <1>3
<1>7. ASSUME q[k] \in Derived \cup {"progress"}, NEW s \in {"total", "rows"}
      PROVE  found[s] = Null
  <2> SUFFICES ASSUME found[s] # Null PROVE FALSE
    OBVIOUS
  <2>1. PICK i \in 1..k-1 : q[i] = s
    BY <1>4, <1>5
  <2>2. k < i
    BY <1>3, <1>6, <1>7, <2>1 DEF Orderly
  <2> QED BY <1>6, <2>2
<1>8. ASSUME q[k] = "total"
      PROVE  found["rows"] = Null
  <2> SUFFICES ASSUME found["rows"] # Null PROVE FALSE
    OBVIOUS
  <2>1. PICK i \in 1..k-1 : q[i] = "rows"
    BY <1>4, <1>5
  <2>2. k < i
    BY <1>3, <1>6, <1>8, <2>1 DEF Orderly
  <2> QED BY <1>6, <2>2
<1>9. ASSUME q[k] = "rows"
      PROVE  found["total"] # Null
  <2>1. PICK i \in 1..Len(q) : q[i] = "total"
    BY <1>3, <1>9 DEF Orderly
  <2>2. i < k
    BY <1>3, <1>9, <2>1 DEF Orderly
  <2>3. i \in 1..k-1
    BY <1>3, <2>2
  <2> QED BY <1>4, <2>1, <2>3
<1>10. ASSUME q[k] = "total", NEW s \in Derived \cup {"progress"}, \E i \in 1..Len(q) : q[i] = s
       PROVE  found[s] # Null
  <2>1. PICK i \in 1..Len(q) : q[i] = s
    BY <1>10
  <2>2. i < k
    BY <1>3, <1>10, <2>1 DEF Orderly
  <2>3. i \in 1..k-1
    BY <1>3, <2>2
  <2> QED BY <1>4, <1>5, <2>1, <2>3
<1>11. ASSUME q[k] = "total"
       PROVE  IF found["progress"] = Null
              THEN "aliases" \in Derived /\ found["aliases"] # Null
              ELSE \A d \in Derived \ {"aliases"} : found[d] # Null
  <2>1. (\E i \in 1..Len(q) : q[i] = "progress") <=> found["progress"] # Null
    BY <1>4, <1>5, <1>6, <1>10, <1>11
  <2>2. IF \E i \in 1..Len(q) : q[i] = "progress"
        THEN \A d \in Derived \ {"aliases"} : \E i \in 1..Len(q) : q[i] = d
        ELSE "aliases" \in Derived /\ \E i \in 1..Len(q) : q[i] = "aliases"
    BY <1>3, <1>11 DEF Orderly
  <2> QED BY <1>10, <1>11, <2>1, <2>2
<1>12. q[k] \in Steps
  BY <1>3
<1> QED BY <1>4, <1>7, <1>8, <1>9, <1>11, <1>12

-----------------------------------------------------------------------------
(* What a write, a reopening and the beginning of a call leave of it.      *)

LEMMA StepNames ==
  /\ "progress" \in Steps /\ "total" \in Steps /\ "rows" \in Steps /\ Derived \subseteq Steps
  /\ "progress" \notin Derived /\ "total" \notin Derived /\ "rows" \notin Derived
BY CacheAssumption DEF Steps

(* What is counted of a table is a number.                                 *)
LEMMA TableCounts ==
  ASSUME NEW t \in Tables
  PROVE  /\ Progress(t) # Null
         /\ \A d \in Derived : Derive(d, t) \in SUBSET Ids /\ IsFiniteSet(Derive(d, t))
                               /\ Cardinality(Derive(d, t)) \in Nat
<1>1. /\ Stored(t) \subseteq Ids /\ Flagged(t) \subseteq Ids /\ Shared(t) \subseteq Ids
  BY DEF Stored, Flagged, Shared
<1>2. \A s \in SUBSET Ids : IsFiniteSet(s) /\ Cardinality(s) \in Nat
  BY CacheAssumption, FS_Subset, FS_CardinalityType
<1>3. Progress(t) \in [total : Nat, flagged : Nat, shared : Nat]
  BY <1>1, <1>2 DEF Progress
<1>4. ASSUME NEW d \in Derived PROVE Derive(d, t) \in SUBSET Ids
  <2>1. d \in {"references", "duplicates", "aliases"}
    BY CacheAssumption
  <2> QED BY <1>1, <2>1 DEF Derive
<1> QED BY <1>2, <1>3, <1>4, CacheAssumption

(* Nothing is asked at first.                                              *)
LEMMA CallBegins ==
  ASSUME CacheInit
  PROVE  CallInv
<1>1. Recalled
  BY FS_EmptySet DEF CacheInit, Recalled, Quiet
<1>2. Trusted
  BY DEF CacheInit, Trusted
<1>3. Rebuilding /\ Planned
  BY DEF CacheInit, Rebuilding, Planned
<1>4. Known /\ Found
  BY StepNames DEF CacheInit, Known, Found
<1> QED BY <1>1, <1>2, <1>3, <1>4 DEF CallInv

(* The end of a call, also one by an error.                                *)
LEMMA LeaveKeepsCall ==
  ASSUME CallInv, Leave, UNCHANGED <<store, cachedAt, derived>>
  PROVE  CallInv'
<1>1. Recalled'
  BY FS_EmptySet DEF Leave, Recalled, Quiet
<1>2. Trusted'
  BY DEF CallInv, Trusted, store
<1>3. Rebuilding' /\ Planned'
  BY DEF Leave, Rebuilding, Planned
<1>4. Known' /\ Found'
  BY StepNames DEF Leave, Known, Found
<1> QED BY <1>1, <1>2, <1>3, <1>4 DEF CallInv

(* Between two calls only what the caches say of the records matters.      *)
LEMMA IdleKeepsCall ==
  ASSUME CallInv, Idle, Trusted', UNCHANGED call
  PROVE  CallInv'
<1>1. Quiet /\ versions = {}
  BY DEF CallInv, Recalled, Idle
<1>2. Recalled'
  BY <1>1 DEF CallInv, Recalled, Quiet, call
<1>3. Rebuilding' /\ Planned'
  BY <1>1 DEF Quiet, Rebuilding, Planned, call
<1>4. Known' /\ Found'
  BY <1>1, StepNames DEF Quiet, Known, Found, call
<1> QED BY <1>2, <1>3, <1>4 DEF CallInv

(* A change makes every derived table one of an older revision.            *)
LEMMA ChangeKeepsTrusted ==
  ASSUME Trusted, Revisions, NEW ids \in SUBSET Ids, NEW change, Change(ids, change),
         cachedAt' = cachedAt, derived' = derived
  PROVE  Trusted'
<1>1. Cardinality(ids) \in Nat \ {0} /\ revision' = revision + Cardinality(ids)
  BY ChangeMoves
<1>2. revision \in Nat
  BY DEF Revisions
<1>3. revision' \in Nat /\ revision < revision'
  BY <1>1, <1>2
<1> QED BY <1>2, <1>3 DEF Trusted

LEMMA WriteKeepsCall ==
  ASSUME CallInv, Revisions, NEW ids \in SUBSET Ids, NEW change, Write(ids, change)
  PROVE  CallInv'
<1>1. Trusted'
  BY ChangeKeepsTrusted DEF Write, caches, CallInv
<1> QED BY <1>1, IdleKeepsCall DEF Write

LEMMA ReopenKeepsCall ==
  ASSUME CallInv, Reopen
  PROVE  CallInv'
<1>1. Trusted'
  BY DEF Reopen, Trusted
<1> QED BY <1>1, IdleKeepsCall DEF Reopen

(* Another connection commits between two steps of a call.                 *)
LEMMA ExternalWriteKeepsCall ==
  ASSUME CallInv, Revisions, NEW ids \in SUBSET Ids, NEW change, ExternalWrite(ids, change)
  PROVE  CallInv'
<1>1. Trusted'
  BY ChangeKeepsTrusted DEF ExternalWrite, caches, CallInv
<1>2. CASE Idle
  <2>1. UNCHANGED call
    BY <1>2 DEF ExternalWrite, call
  <2> QED BY <1>1, <1>2, <2>1, IdleKeepsCall
<1>3. CASE ~Idle
  <2>1. versions' = versions \cup {rows'} /\ versions # {} /\ rows \in versions
    BY <1>3 DEF ExternalWrite, CallInv, Recalled, Quiet, Idle
  <2>2. UNCHANGED <<derived, todo, view, read, fresh, answer>>
    BY DEF ExternalWrite, caches
  <2>3. Recalled'
    BY <2>1, <2>2, FS_AddElement DEF CallInv, Recalled
  <2>4. Rebuilding'
    <3>1. revision' \in Nat /\ revision \in Nat /\ revision < revision'
      <4>1. Change(ids, change)
        BY DEF ExternalWrite
      <4>2. Cardinality(ids) \in Nat \ {0} /\ revision' = revision + Cardinality(ids)
        BY <4>1, ChangeMoves
      <4>3. revision \in Nat
        BY DEF Revisions
      <4> QED BY <4>2, <4>3
    <3> QED BY <2>1, <2>2, <3>1 DEF CallInv, Rebuilding
  <2>5. Known'
    BY <2>1, <2>2 DEF CallInv, Known
  <2>6. Planned'
    BY <2>1, <2>2 DEF CallInv, Planned
  <2>7. Found'
    <3>1. versions' = {rows'} => versions = {rows} /\ rows' = rows
      BY <2>1
    <3> QED BY <2>2, <3>1 DEF CallInv, Found
  <2> QED BY <1>1, <2>3, <2>4, <2>5, <2>6, <2>7 DEF CallInv
<1> QED BY <1>2, <1>3

LEMMA BeginKeepsCall ==
  ASSUME CallInv, NEW kind \in Kinds, BeginCall(kind)
  PROVE  CallInv'
<1>1. Quiet
  BY DEF BeginCall, Idle, CallInv, Recalled
<1>2. Recalled'
  BY FS_Singleton DEF CallInv, Recalled, BeginCall, store
<1>3. Trusted'
  BY DEF CallInv, Trusted, BeginCall, store, caches
<1>4. Rebuilding'
  BY <1>1 DEF BeginCall, Quiet, Rebuilding
<1>5. Known' /\ Found'
  BY <1>1, StepNames DEF BeginCall, Quiet, Known, Found
<1>6. Planned'
  <2>1. OnCourse(StepsOf(kind), answer)
    BY <1>1, CourseBegins DEF Quiet
  <2> QED BY <2>1 DEF BeginCall, Planned
<1> QED BY <1>2, <1>3, <1>4, <1>5, <1>6 DEF CallInv

(* A step of a call that is answered.                                      *)
LEMMA AnswerKeepsCourse ==
  ASSUME Recalled, Planned, NEW now, At(now), NEW value, Answer(now, value),
         now # "rows" => value # Null, versions' = versions
  PROVE  /\ versions # {} /\ rows \in versions /\ now \in Steps
         /\ OnCourse(todo, answer) /\ Planned'
         /\ answer' = [s \in Steps |-> IF s = now THEN value ELSE answer[s]]
<1>1. todo # <<>> /\ now = Head(todo)
  BY DEF At
<1>2. versions # {} /\ rows \in versions
  BY <1>1 DEF Recalled, Quiet
<1>3. OnCourse(todo, answer)
  BY <1>2 DEF Planned
<1>4. now \in Steps
  BY <1>1, <1>3, CourseFacts
<1>5. answer = [s \in Steps |-> answer[s]]
  BY DEF Recalled
<1>6. answer' = [s \in Steps |-> IF s = now THEN value ELSE answer[s]]
  BY <1>5 DEF Answer
<1>7. OnCourse(Tail(todo), [answer EXCEPT ![Head(todo)] = value])
  BY <1>1, <1>3, <1>5, CourseGoesOn
<1>8. Planned'
  BY <1>1, <1>7 DEF Planned, Answer
<1> QED BY <1>2, <1>3, <1>4, <1>6, <1>8

-----------------------------------------------------------------------------
(* What the steps of a call leave of it.                                   *)

LEMMA ProgressKeepsCall ==
  ASSUME CallInv, IInv, DirtyAreIds, CacheHonest, ProgressSummary
  PROVE  CallInv'
<1>0. UNCHANGED <<store, cachedAt, derived, view, read, fresh, versions>> /\ At("progress")
  BY DEF ProgressSummary
<1>1. Answer("progress", Progress(rows))
  <2>1. CASE Current
    <3>1. Honest(cache.summary) /\ rows \in Tables
          /\ \A i \in Ids : cache.summary.records[i] = Contribution(rows[i])
      BY <2>1 DEF CacheHonest, Current, IInv, ContributionsAreExact
    <3>2. cache.summary.counts = Progress(rows)
      BY <3>1, ExactCounts
    <3> QED BY <2>1, <3>2 DEF ProgressSummary
  <2>2. CASE ~Current
    <3>1. Honest(Refreshed) /\ rows \in Tables
      BY RefreshedIsHonest DEF CacheHonest, DirtyAreIds
    <3>2. \A i \in Ids : Refreshed.records[i] = Contribution(rows[i])
      BY RefreshedIsExact DEF IInv, DirtyAreIds
    <3>3. Refreshed.counts = Progress(rows)
      BY <3>1, <3>2, ExactCounts
    <3>4. cache'.summary = Refreshed /\ Answer("progress", cache'.summary.counts)
      BY <2>2 DEF ProgressSummary
    <3> QED BY <3>3, <3>4
  <2> QED BY <2>1, <2>2
<1>2. Progress(rows) # Null /\ rows \in Tables
  BY TableCounts DEF CacheHonest
<1>3. /\ versions # {} /\ rows \in versions /\ OnCourse(todo, answer) /\ Planned'
      /\ answer' = [s \in Steps |-> IF s = "progress" THEN Progress(rows) ELSE answer[s]]
  BY <1>0, <1>1, <1>2, AnswerKeepsCourse DEF CallInv
<1>4. todo # <<>> /\ Head(todo) = "progress"
  BY <1>0 DEF At
<1>5. read = Null /\ fresh = Null
  BY <1>4, StepNames DEF CallInv, Rebuilding
<1>6. answer["total"] = Null /\ answer["rows"] = Null
  BY <1>3, <1>4, CourseFacts
<1>7. Recalled'
  BY <1>0, <1>3 DEF CallInv, Recalled, store
<1>8. Trusted'
  BY <1>0 DEF CallInv, Trusted, store
<1>9. Rebuilding'
  BY <1>0, <1>5 DEF Rebuilding
<1>10. Known'
  BY <1>0, <1>3, StepNames DEF CallInv, Known
<1>11. Found'
  BY <1>3, <1>6, StepNames DEF Found
<1> QED BY <1>3, <1>7, <1>8, <1>9, <1>10, <1>11 DEF CallInv

(* A derived table that is answered with, because it is current or rebuilt. *)
LEMMA TableKeepsCall ==
  ASSUME CallInv, NEW d \in Derived, At(d), NEW t \in versions, t \in Tables,
         UNCHANGED <<rows, revision, view, versions>>,
         derived' = [derived EXCEPT ![d] = Derive(d, t)],
         Answer(d, Cardinality(Derive(d, t))), Trusted', read' = Null, fresh' = Null
  PROVE  CallInv'
<1>1. Cardinality(Derive(d, t)) # Null
  BY TableCounts, CacheAssumption
<1>2. d # "rows" /\ d \in Steps /\ d # "total" /\ d # "progress"
  BY StepNames
<1>3. /\ versions # {} /\ rows \in versions /\ OnCourse(todo, answer) /\ Planned'
      /\ answer' = [s \in Steps |-> IF s = d THEN Cardinality(Derive(d, t)) ELSE answer[s]]
  BY <1>1, AnswerKeepsCourse DEF CallInv
<1>4. answer["total"] = Null /\ answer["rows"] = Null
  <2>1. todo # <<>> /\ Head(todo) = d
    BY DEF At
  <2> QED BY <1>3, <2>1, CourseFacts
<1>5. Recalled'
  BY <1>3 DEF CallInv, Recalled
<1>6. Rebuilding'
  BY DEF Rebuilding
<1>7. \A e \in Derived : derived'[e] = IF e = d THEN Derive(d, t) ELSE derived[e]
  BY DEF CallInv, Trusted
<1>8. Known'
  <2>1. \A e \in Derived : answer'[e] = IF e = d THEN Cardinality(Derive(d, t)) ELSE answer[e]
    BY <1>3, StepNames
  <2>2. answer'["progress"] = answer["progress"]
    BY <1>2, <1>3, StepNames
  <2> QED BY <1>7, <2>1, <2>2 DEF CallInv, Known
<1>9. Found'
  BY <1>2, <1>3, <1>4, StepNames DEF Found
<1> QED BY <1>3, <1>5, <1>6, <1>8, <1>9 DEF CallInv

(* A derived table is current, or its revision is read.                    *)
LEMMA ReadRevisionKeepsCall ==
  ASSUME CallInv, IInv, CacheHonest, NEW d \in Derived, EnsureReads(d)
  PROVE  CallInv'
<1>0. /\ UNCHANGED <<store, connection, caches, view, fresh, versions>> /\ At(d) /\ read = Null
      /\ fresh = Null /\ revision \in Nat /\ todo # <<>> /\ Head(todo) = d
  BY DEF EnsureReads, CallInv, Rebuilding, IInv, Revisions, At
<1>1. CASE cachedAt[d] = revision
  <2>1. derived[d] = Derive(d, rows)
    BY <1>0, <1>1, CacheAssumption DEF CallInv, Trusted
  <2>2. Answer(d, Cardinality(Derive(d, rows))) /\ read' = Null /\ fresh' = Null
    BY <1>0, <1>1, <2>1 DEF EnsureReads
  <2>3. derived' = [derived EXCEPT ![d] = Derive(d, rows)]
    BY <1>0, <2>1 DEF CallInv, Trusted, caches
  <2>4. Trusted'
    BY <1>0 DEF CallInv, Trusted, store, caches
  <2>5. UNCHANGED <<rows, revision, view, versions>> /\ rows \in versions /\ rows \in Tables
    BY <1>0 DEF store, CacheHonest, CallInv, Recalled, Quiet
  <2> QED BY <1>0, <2>2, <2>3, <2>4, <2>5, TableKeepsCall
<1>2. CASE cachedAt[d] # revision
  <2>1. read' = revision /\ todo' = todo /\ answer' = answer
    BY <1>2 DEF EnsureReads
  <2>2. rows' = rows /\ revision' = revision /\ cachedAt' = cachedAt /\ derived' = derived
        /\ view' = view /\ fresh' = fresh /\ versions' = versions
    BY <1>0 DEF store, caches
  <2>3. Recalled'
    BY <2>1, <2>2, <1>0 DEF CallInv, Recalled, Quiet
  <2>4. Trusted'
    BY <2>2 DEF CallInv, Trusted
  <2>5. Rebuilding'
    BY <1>0, <2>1, <2>2 DEF Rebuilding
  <2>6. Known' /\ Planned' /\ Found'
    BY <2>1, <2>2 DEF CallInv, Known, Planned, Found
  <2> QED BY <2>3, <2>4, <2>5, <2>6 DEF CallInv
<1> QED BY <1>1, <1>2

LEMMA SnapshotKeepsCall ==
  ASSUME CallInv, NEW d \in Derived, Snapshot(d)
  PROVE  CallInv'
<1>1. /\ rows' = rows /\ revision' = revision /\ cachedAt' = cachedAt /\ derived' = derived
      /\ view' = view /\ read' = read /\ versions' = versions /\ todo' = todo /\ answer' = answer
      /\ fresh' = Derive(d, rows) /\ read # Null /\ todo # <<>> /\ Head(todo) = d
  BY DEF Snapshot, At, store, caches
<1>2. rows \in versions
  BY <1>1 DEF CallInv, Recalled, Quiet
<1>3. Recalled'
  BY <1>1, <1>2 DEF CallInv, Recalled
<1>4. Trusted'
  BY <1>1 DEF CallInv, Trusted
<1>5. Rebuilding'
  BY <1>1, <1>2 DEF CallInv, Rebuilding
<1>6. Known' /\ Planned' /\ Found'
  BY <1>1 DEF CallInv, Known, Planned, Found
<1> QED BY <1>3, <1>4, <1>5, <1>6 DEF CallInv

LEMMA KeepRevisionKeepsCall ==
  ASSUME CallInv, CacheHonest, NEW d \in Derived, KeepRevision(d)
  PROVE  CallInv'
<1>1. /\ rows' = rows /\ revision' = revision /\ view' = view /\ versions' = versions
      /\ At(d) /\ Head(todo) = d /\ fresh # Null /\ read' = Null /\ fresh' = Null
      /\ derived' = [derived EXCEPT ![d] = fresh]
      /\ cachedAt' = [cachedAt EXCEPT ![d] = read]
      /\ Answer(d, Cardinality(fresh))
  BY DEF KeepRevision, At, store
<1>2. PICK t \in versions : fresh = Derive(d, t)
  BY <1>1 DEF CallInv, Rebuilding
<1>3. read \in Nat /\ read <= revision /\ (read = revision => fresh = Derive(d, rows))
  BY <1>1 DEF CallInv, Rebuilding
<1>4. Trusted'
  BY <1>1, <1>3 DEF CallInv, Trusted
<1>5. t \in Tables
  BY <1>2 DEF CacheHonest
<1> QED BY <1>1, <1>2, <1>4, <1>5, TableKeepsCall

(* The total and the page.                                                 *)
LEMMA CountKeepsCall ==
  ASSUME CallInv, IInv, CacheHonest, CountAndPage
  PROVE  CallInv'
<1>0. /\ rows' = rows /\ revision' = revision /\ cachedAt' = cachedAt /\ derived' = derived
      /\ read' = read /\ fresh' = fresh /\ versions' = versions
  BY DEF CountAndPage, store, caches
<1>1. Trusted'
  BY <1>0 DEF CallInv, Trusted
<1>2. CASE At("total") /\ view' \in (IF answer["progress"] = Null THEN {"aliases"} ELSE TableViews \ {"aliases"})
           /\ Answer("total", Cardinality(InView(view', rows, derived)))
  <2> DEFINE total == Cardinality(InView(view', rows, derived))
  <2>1. todo # <<>> /\ Head(todo) = "total"
    BY <1>2 DEF At
  <2>2. OnCourse(todo, answer) /\ versions # {} /\ rows \in versions
    BY <2>1 DEF CallInv, Recalled, Quiet, Planned
  <2>3. /\ answer["rows"] = Null
        /\ IF answer["progress"] = Null
           THEN "aliases" \in Derived /\ answer["aliases"] # Null
           ELSE \A d \in Derived \ {"aliases"} : answer[d] # Null
    BY <2>1, <2>2, CourseFacts
  <2>4. Prepared(view', answer)
    BY <1>2, <2>3 DEF Prepared
  <2>5. total # Null
    <3>1. rows \in Tables
      BY DEF CacheHonest
    <3>2. InView(view', rows, derived) \subseteq Ids
      <4>1. view' \in TableViews
        BY <1>2, <2>3 DEF TableViews
      <4>2. Stored(rows) \subseteq Ids /\ Flagged(rows) \subseteq Ids /\ Shared(rows) \subseteq Ids
        BY DEF Stored, Flagged, Shared
      <4>3. /\ "all" \notin Derived /\ "flagged" \notin Derived /\ "shared" \notin Derived
        BY CacheAssumption
      <4> QED BY <4>1, <4>2, <4>3 DEF InView, TableViews
    <3>3. total \in Nat
      BY <3>2, CacheAssumption, FS_Subset, FS_CardinalityType
    <3> QED BY <3>3, CacheAssumption
  <2>6. Planned' /\ answer' = [s \in Steps |-> IF s = "total" THEN total ELSE answer[s]]
    <3> HIDE DEF total
    <3> QED BY <1>0, <1>2, <2>5, AnswerKeepsCourse DEF CallInv, total
  <2> HIDE DEF total
  <2>7. /\ answer'["total"] = total /\ answer'["rows"] = Null
        /\ answer'["progress"] = answer["progress"]
        /\ \A d \in Derived : answer'[d] = answer[d]
    BY <2>3, <2>6, StepNames
  <2>8. read = Null /\ fresh = Null
    BY <2>1, StepNames DEF CallInv, Rebuilding
  <2>9. Recalled'
    BY <1>0, <2>2, <2>6 DEF CallInv, Recalled
  <2>10. Rebuilding'
    BY <1>0, <2>8 DEF Rebuilding
  <2>11. Known'
    BY <1>0, <2>7 DEF CallInv, Known
  <2>12. Found'
    <3>1. Prepared(view', answer')
      BY <2>4, <2>7 DEF Prepared
    <3>2. total = Cardinality(InView(view', rows', derived'))
      BY <1>0 DEF total
    <3> QED BY <2>7, <3>1, <3>2 DEF Found
  <2> QED BY <1>1, <2>6, <2>9, <2>10, <2>11, <2>12 DEF CallInv
<1>3. CASE At("rows") /\ Answer("rows", InView(view, rows, derived)) /\ UNCHANGED view
  <2> DEFINE page == InView(view, rows, derived)
  <2>1. todo # <<>> /\ Head(todo) = "rows"
    BY <1>3 DEF At
  <2>2. OnCourse(todo, answer) /\ versions # {} /\ rows \in versions
    BY <2>1 DEF CallInv, Recalled, Quiet, Planned
  <2>3. answer["total"] # Null
    BY <2>1, <2>2, CourseFacts
  <2>6. Planned' /\ answer' = [s \in Steps |-> IF s = "rows" THEN page ELSE answer[s]]
    <3> HIDE DEF page
    <3> QED BY <1>0, <1>3, AnswerKeepsCourse DEF CallInv, page
  <2> HIDE DEF page
  <2>7. /\ answer'["rows"] = page /\ answer'["total"] = answer["total"]
        /\ answer'["progress"] = answer["progress"]
        /\ \A d \in Derived : answer'[d] = answer[d]
    BY <2>6, StepNames
  <2>8. read = Null /\ fresh = Null
    BY <2>1, StepNames DEF CallInv, Rebuilding
  <2>9. Recalled'
    BY <1>0, <2>2, <2>6 DEF CallInv, Recalled
  <2>10. Rebuilding'
    BY <1>0, <2>8 DEF Rebuilding
  <2>11. Known'
    BY <1>0, <2>7 DEF CallInv, Known
  <2>12. Found'
    <3>1. /\ Prepared(view, answer)
          /\ versions = {rows} => answer["total"] = Cardinality(InView(view, rows, derived))
      BY <2>3 DEF CallInv, Found
    <3>2. Prepared(view', answer')
      BY <1>3, <2>7, <3>1 DEF Prepared
    <3>3. page = InView(view', rows', derived') /\ view' = view
      BY <1>0, <1>3 DEF page
    <3> QED BY <1>0, <2>3, <2>7, <3>1, <3>2, <3>3 DEF Found
  <2> QED BY <1>1, <2>6, <2>9, <2>10, <2>11, <2>12 DEF CallInv
<1> QED BY <1>2, <1>3 DEF CountAndPage

(* Every step.                                                             *)
LEMMA CallStep ==
  ASSUME CallInv, IInv, DirtyAreIds, CacheHonest, [CacheNext]_cacheVars
  PROVE  CallInv'
<1>1. ASSUME NEW ids \in SUBSET Ids, NEW change, Write(ids, change) \/ ExternalWrite(ids, change)
      PROVE  CallInv'
  BY <1>1, WriteKeepsCall, ExternalWriteKeepsCall DEF IInv
<1>2. CASE Reopen
  BY <1>2, ReopenKeepsCall
<1>3. ASSUME NEW kind \in Kinds, BeginCall(kind)
      PROVE  CallInv'
  BY <1>3, BeginKeepsCall
<1>4. CASE ProgressSummary
  BY <1>4, ProgressKeepsCall
<1>5. CASE ProgressFails \/ ReturnCall
  BY <1>5, LeaveKeepsCall DEF ProgressFails, ReturnCall, caches
<1>6. CASE CountAndPage
  BY <1>6, CountKeepsCall
<1>7. ASSUME NEW d \in Derived, EnsureReads(d)
      PROVE  CallInv'
  BY <1>7, ReadRevisionKeepsCall
<1>8. ASSUME NEW d \in Derived, Snapshot(d)
      PROVE  CallInv'
  BY <1>8, SnapshotKeepsCall
<1>9. ASSUME NEW d \in Derived, KeepRevision(d)
      PROVE  CallInv'
  BY <1>9, KeepRevisionKeepsCall
<1>10. ASSUME NEW d \in Derived, EnsureFails(d)
       PROVE  CallInv'
  BY <1>10, LeaveKeepsCall DEF EnsureFails, caches
<1>11. CASE UNCHANGED cacheVars
  <2>1. UNCHANGED <<rows, revision, cachedAt, derived, todo, view, read, fresh, answer, versions>>
    BY <1>11 DEF cacheVars, store, caches, call
  <2>2. Recalled' /\ Trusted'
    BY <2>1 DEF CallInv, Recalled, Quiet, Trusted
  <2>3. Rebuilding' /\ Known' /\ Planned' /\ Found'
    BY <2>1 DEF CallInv, Rebuilding, Known, Planned, Found
  <2> QED BY <2>2, <2>3 DEF CallInv
<1> QED BY <1>1, <1>2, <1>3, <1>4, <1>5, <1>6, <1>7, <1>8, <1>9, <1>10, <1>11 DEF CacheNext

(* What the invariant says of what is returned.                            *)
LEMMA CallTells ==
  ASSUME CallInv, CacheHonest
  PROVE  AnswersTellTheTable
<1>1. AnswersAreFresh
  BY DEF CallInv, Known, AnswersAreFresh
<1>2. AnswersAgree
  <2> SUFFICES ASSUME Cardinality(versions) = 1, answer["rows"] # Null
               PROVE  /\ answer["total"] = Cardinality(answer["rows"])
                      /\ view \in Derived => answer["rows"] = Derive(view, rows)
                      /\ view \in Derived /\ answer[view] # Null => answer["total"] = answer[view]
                      /\ view = "flagged" => answer["total"] = answer["progress"].flagged
                      /\ view = "shared" => answer["total"] = answer["progress"].shared
                      /\ view = "all" => answer["total"] = answer["progress"].total
    BY DEF AnswersAgree
  <2>1. versions = {rows}
    <3>1. IsFiniteSet(versions)
      BY DEF CallInv, Recalled
    <3>2. PICK t : versions = {t}
      BY <3>1, FS_Singleton
    <3> QED BY <3>2 DEF CallInv, Recalled
  <2>2. /\ Prepared(view, answer) /\ answer["rows"] = InView(view, rows, derived)
        /\ answer["total"] = Cardinality(InView(view, rows, derived))
    BY <2>1 DEF CallInv, Found
  <2>3. /\ "all" \notin Derived /\ "flagged" \notin Derived /\ "shared" \notin Derived
        /\ Derived \subseteq {"references", "duplicates", "aliases"}
    BY CacheAssumption
  <2>4. ASSUME view \in Derived
        PROVE  answer["rows"] = Derive(view, rows) /\ answer[view] = Cardinality(Derive(view, rows))
    <3>1. answer[view] # Null
      BY <2>2, <2>4 DEF Prepared
    <3>2. derived[view] = Derive(view, rows) /\ answer[view] = Cardinality(derived[view])
      BY <2>1, <2>4, <3>1 DEF CallInv, Known
    <3>3. InView(view, rows, derived) = Stored(rows) \cap derived[view]
      BY <2>3, <2>4 DEF InView
    <3>4. Derive(view, rows) \subseteq Stored(rows)
      BY <2>3, <2>4 DEF Derive, Stored, Flagged, Shared
    <3> QED BY <2>2, <3>2, <3>3, <3>4
  <2>5. ASSUME view \in {"all", "flagged", "shared"}
        PROVE  answer["progress"] = Progress(rows)
    <3>1. answer["progress"] # Null
      BY <2>2, <2>5 DEF Prepared
    <3> QED BY <2>1, <3>1 DEF CallInv, Known
  <2>6. CASE view \in Derived
    BY <2>2, <2>3, <2>4, <2>6
  <2>7. CASE view = "all"
    BY <2>2, <2>3, <2>5, <2>7 DEF InView, Progress
  <2>8. CASE view = "flagged"
    BY <2>2, <2>3, <2>5, <2>8 DEF InView, Progress
  <2>9. CASE view = "shared"
    BY <2>2, <2>3, <2>5, <2>9 DEF InView, Progress
  <2>10. view \in Derived \cup {"all", "flagged", "shared"}
    BY <2>2 DEF Prepared, TableViews
  <2> QED BY <2>6, <2>7, <2>8, <2>9, <2>10
<1> QED BY <1>1, <1>2 DEF AnswersTellTheTable

\* What a call returns is true of a table there was while it was at work, and when
\* nobody else wrote it is one table: the badge, the total and the page of a grid
\* agree (progress_summary_with_connection, the ensure_ functions, try_query).
THEOREM AnswersOfTheTable == CacheSpec => []AnswersTellTheTable
<1> DEFINE Inv == IInv /\ DirtyAreIds /\ CacheHonest /\ CallInv
<1>1. CacheInit => Inv
  <2> SUFFICES ASSUME CacheInit PROVE Inv
    OBVIOUS
  <2>1. IInv /\ DirtyAreIds
    BY DEF CacheInit, IInv, DirtyAreIds, Revisions, Repairable, ContributionsAreExact, Current
  <2>2. CacheHonest
    BY DEF CacheInit, CacheHonest
  <2> QED BY <2>1, <2>2, CallBegins
<1>2. Inv /\ [CacheNext]_cacheVars => Inv'
  <2> SUFFICES ASSUME Inv, [CacheNext]_cacheVars PROVE Inv'
    OBVIOUS
  <2>1. IInv' /\ DirtyAreIds'
    BY NextKeeps, DirtyStep
  <2>2. CacheHonest'
    BY HonestStep
  <2>3. CallInv'
    BY CallStep
  <2> QED BY <2>1, <2>2, <2>3
<1>3. Inv => AnswersTellTheTable
  BY CallTells
<1> HIDE DEF Inv
<1> QED BY <1>1, <1>2, <1>3, PTL DEF CacheSpec
=============================================================================
