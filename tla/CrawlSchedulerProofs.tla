------------------------ MODULE CrawlSchedulerProofs ------------------------
(***************************************************************************)
(* What holds of CrawlScheduler for every set of URLs, every link graph,   *)
(* every limit and any number of runs and crashes.                         *)
(*                                                                         *)
(* NoUrlLost speaks of the saved frontier only, but a step takes what it   *)
(* writes there from the memory of the scheduler.  The inductive invariant *)
(* therefore relates the two: which keys memory holds (Memory), what it    *)
(* has discovered but not saved yet (Unsaved), and that the store is       *)
(* closed only after everything was settled (Books).                       *)
(***************************************************************************)
EXTENDS CrawlScheduler, SeqLemmas, FiniteSetTheorems, TLAPS

(* The page whose record is being written; its key has left active_items.  *)
Held == IF pc \in {"evidence", "record", "settle"} THEN {cur} ELSE {}

Working == pc \in {"top", "dispatch", "select", "discover", "evidence",
                   "record", "settle", "finish"}

OnPage == pc \in {"discover", "evidence", "record", "settle"}

(* The saved frontier accounts for every known key and every page.         *)
Balanced ==
  /\ dSeen = Range(dQueue) \cup Settled
  /\ Range(dQueue) \cap Settled = {}
  /\ dCrawled = Cardinality(done)

Books ==
  /\ pc \notin {"clearMeta", "ended", "off"} => Balanced
  /\ pc \in {"ended", "off"} => Balanced \/ (dSeen = {} /\ dQueue = <<>>)
  /\ pc = "clearSeen" => dQueue = <<>>
  /\ pc = "clearMeta" => dSeen = {} /\ dQueue = <<>>

(* Before and after the loop no worker runs; memory starts empty.          *)
Idle ==
  /\ pc \in {"startup", "ended", "off"} => tasks = [u \in Urls |-> "none"]
  /\ pc \in {"startup", "clearSeen", "clearMeta", "off"} => active = {}

(* Memory holds every known key exactly once: waiting, in flight, being    *)
(* recorded, or settled.                                                   *)
Memory ==
  Working =>
    /\ seen = Range(queue) \cup active \cup Held \cup Settled
    /\ (Range(queue) \cup active \cup Held) \cap Settled = {}
    /\ Held \cap (Range(queue) \cup active) = {}
    /\ Held \subseteq Range(dQueue)
    /\ OnPage => cur \in Urls
    /\ pc = "discover" => cur \in active /\ tasks[cur] = "none"
    /\ crawled = Cardinality(done) + (IF pc = "settle" THEN 1 ELSE 0)

(* What memory knows and the store does not yet is what the page in hand   *)
(* has just added to the end of the queue.                                 *)
Unsaved ==
  /\ OnPage =>
       /\ previousQueueLen \in 0..Len(queue)
       /\ seen = dSeen \cup Range(Fresh)
       /\ Range(Fresh) \cap dSeen = {}
       /\ needsCheckpoint
  /\ pc \in {"top", "dispatch", "select"} => seen = dSeen
  /\ pc \in {"startup", "top", "dispatch", "select"} => ~needsCheckpoint
  /\ pc = "finish" => IF needsCheckpoint
                      THEN cancelled /\ dSeen \subseteq seen /\ active # {}
                      ELSE seen = dSeen

(* A page counts once its record is stored.                                *)
Recorded ==
  /\ done \subseteq recorded
  /\ pc = "settle" => cur \in recorded

IInv ==
  /\ TypeOK
  /\ InFlightIsSaved
  /\ Books
  /\ Idle
  /\ Memory
  /\ Unsaved
  /\ Recorded
-----------------------------------------------------------------------------
(* The operators of the scheduler on queues.                               *)

(* Sets of keys are finite.                                                *)
LEMMA FiniteKeys ==
  ASSUME NEW S \in SUBSET Urls
  PROVE  IsFiniteSet(S) /\ Cardinality(S) \in Nat
BY ConfigAssumption, FS_Subset, FS_CardinalityType

(* Dropping a key from a queue drops nothing else.                         *)
LEMMA WithoutRange ==
  ASSUME NEW q \in Seq(Urls), IsInjective(q), NEW k
  PROVE  /\ Without(q, k) \in Seq(Urls)
         /\ Range(Without(q, k)) = Range(q) \ {k}
         /\ IsInjective(Without(q, k))
<1>1. CASE \E i \in DOMAIN q : q[i] = k
  <2> DEFINE i == CHOOSE i \in DOMAIN q : q[i] = k
  <2>1. i \in DOMAIN q /\ q[i] = k
    BY <1>1
  <2>2. i \in 1..Len(q)
    BY <2>1, RangeDef
  <2>3. Without(q, k) = RemoveAt(q, i)
    BY <1>1 DEF Without
  <2> HIDE DEF i
  <2> QED BY <2>1, <2>2, <2>3, RemoveAtRange
<1>2. CASE ~\E i \in DOMAIN q : q[i] = k
  <2>1. Without(q, k) = q
    BY <1>2 DEF Without
  <2>2. k \notin Range(q)
    BY <1>2 DEF Range
  <2> QED BY <2>1, <2>2
<1> QED BY <1>1, <1>2

(* An arrangement of a set holds exactly its elements.                     *)
LEMMA ArrangementsRange ==
  ASSUME NEW S \in SUBSET Urls, NEW q \in Arrangements(S)
  PROVE  q \in Seq(Urls) /\ Range(q) = S /\ IsInjective(q)
BY FiniteKeys, FunIsSeq DEF Arrangements

(* What a discovery admits is new.                                         *)
LEMMA AdmissionsRange ==
  ASSUME NEW S \in SUBSET Urls, NEW limit \in Nat, NEW q \in Admissions(S, limit)
  PROVE  q \in Seq(Urls) /\ Range(q) \subseteq S \ seen /\ IsInjective(q)
<1> DEFINE fresh == S \ seen
           n == Smaller(Cardinality(fresh), limit)
<1>1. n \in Nat
  BY FiniteKeys DEF Smaller
<1>2. q \in [1..n -> fresh] /\ IsInjective(q)
  BY DEF Admissions
<1> HIDE DEF n
<1> QED BY <1>1, <1>2, FunIsSeq

(* The room left under the limit is a natural number.                      *)
LEMMA RoomType ==
  ASSUME NEW S \in SUBSET Urls
  PROVE  Room(S) \in Nat
BY FiniteKeys, ConfigAssumption DEF Room

(* The seeds of a new crawl are distinct keys, at least one.               *)
LEMMA SeedsRange ==
  ASSUME NEW q \in Seeds, scope \in Scopes
  PROVE  q \in Seq(Urls) /\ IsInjective(q)
<1>1. CASE mode = "list"
  BY <1>1, ConfigAssumption, ArrangementsRange DEF Seeds
<1>2. CASE mode # "list"
  <2> DEFINE listed == (SitemapSeeds \cap scope) \ {Root}
             n == Smaller(Cardinality(listed), Room({Root}))
  <2>1. PICK r \in [1..n -> listed] : IsInjective(r) /\ q = <<Root>> \o r
    BY <1>2 DEF Seeds
  <2>2. listed \in SUBSET Urls /\ Root \in Urls
    BY ConfigAssumption
  <2>3. n \in Nat
    BY <2>2, FiniteKeys, RoomType DEF Smaller
  <2> HIDE DEF n
  <2>4. r \in Seq(Urls) /\ Range(r) \subseteq listed
    BY <2>1, <2>2, <2>3, FunIsSeq
  <2>5. <<Root>> \in Seq(Urls) /\ Range(<<Root>>) = {Root} /\ IsInjective(<<Root>>)
    BY <2>2 DEF Range, IsInjective
  <2> QED BY <2>1, <2>4, <2>5, ConcatRange
<1> QED BY <1>1, <1>2

-----------------------------------------------------------------------------
(* A discovery adds new keys to memory, at the end of the queue.           *)

Discovered(new) ==
  /\ queue' \in Seq(Urls) /\ IsInjective(queue')
  /\ Range(queue') = Range(queue) \cup new
  /\ new \subseteq Urls \ seen
  /\ seen' = seen \cup new
  /\ depth' \in [Urls -> Nat]
  /\ previousQueueLen' \in 0..Len(queue')
  /\ Range(Fresh') = Range(Fresh) \cup new

(* Pushing admitted keys is such a discovery.                              *)
LEMMA PushDiscovers ==
  ASSUME IInv, pc = "discover", UNCHANGED previousQueueLen,
         NEW S \in SUBSET Urls, NEW limit \in Nat, NEW d \in Nat,
         NEW q \in Admissions(S, limit), Push(q, d)
  PROVE  Discovered(Range(q))
<1>1. q \in Seq(Urls) /\ Range(q) \subseteq S \ seen /\ IsInjective(q)
  BY AdmissionsRange
<1>2. /\ queue \in Seq(Urls) /\ IsInjective(queue) /\ depth \in [Urls -> Nat]
      /\ Range(queue) \subseteq seen
      /\ previousQueueLen \in 0..Len(queue)
  BY DEF IInv, TypeOK, InFlightIsSaved, Memory, Working, Unsaved, OnPage
<1>3. queue' = queue \o q /\ seen' = seen \cup Range(q)
  BY DEF Push
<1>4. queue' \in Seq(Urls) /\ IsInjective(queue') /\ Range(queue') = Range(queue) \cup Range(q)
  BY <1>1, <1>2, <1>3, ConcatRange
<1>5. depth' \in [Urls -> Nat]
  BY <1>2 DEF Push
<1>6. /\ previousQueueLen' \in 0..Len(queue')
      /\ Range(Fresh') = Range(Fresh) \cup Range(q)
  BY <1>1, <1>2, <1>3, SuffixOfConcat DEF Fresh
<1> QED BY <1>1, <1>3, <1>4, <1>5, <1>6 DEF Discovered

(* So is finding nothing.                                                  *)
LEMMA NothingDiscovered ==
  ASSUME IInv, pc = "discover", UNCHANGED <<queue, seen, depth, previousQueueLen>>
  PROVE  Discovered({})
BY DEF IInv, TypeOK, InFlightIsSaved, Unsaved, OnPage, Discovered, Fresh
-----------------------------------------------------------------------------
(* One lemma per action.  Each conjunct of the invariant is a step of its   *)
(* proof.                                                                  *)

(* A stop before the loop leaves the saved frontier as it was.             *)
LEMMA StopDuringStartupKeeps ==
  ASSUME IInv, StopDuringStartup
  PROVE  IInv'
<1>1. TypeOK'
  BY DEF IInv, TypeOK, memoryVars, pageVars, controlVars, frontier, results,
         history, bounds, StopDuringStartup
<1>2. InFlightIsSaved'
  BY DEF IInv, InFlightIsSaved, Live, memoryVars, pageVars, controlVars,
         frontier, results, history, bounds, StopDuringStartup
<1>3. Books'
  BY DEF IInv, Books, Balanced, Settled, memoryVars, pageVars, controlVars,
         frontier, results, history, bounds, StopDuringStartup
<1>4. Idle'
  BY DEF IInv, Idle, memoryVars, pageVars, controlVars, frontier, results,
         history, bounds, StopDuringStartup
<1>5. Memory'
  BY DEF IInv, Memory, Working, OnPage, Held, Settled, memoryVars, pageVars,
         controlVars, frontier, results, history, bounds, StopDuringStartup
<1>6. Unsaved'
  BY DEF IInv, Unsaved, OnPage, Fresh, memoryVars, pageVars, controlVars,
         frontier, results, history, bounds, StopDuringStartup
<1>7. Recorded'
  BY DEF IInv, Recorded, memoryVars, pageVars, controlVars, frontier, results,
         history, bounds, StopDuringStartup
<1> QED BY <1>1, <1>2, <1>3, <1>4, <1>5, <1>6, <1>7 DEF IInv

(* So does a failure before the loop.                                      *)
LEMMA FailStartupKeeps ==
  ASSUME IInv, FailStartup
  PROVE  IInv'
<1>1. TypeOK'
  BY DEF IInv, TypeOK, memoryVars, pageVars, controlVars, frontier, results,
         history, bounds, FailStartup
<1>2. InFlightIsSaved'
  BY DEF IInv, InFlightIsSaved, Live, memoryVars, pageVars, controlVars,
         frontier, results, history, bounds, FailStartup
<1>3. Books'
  BY DEF IInv, Books, Balanced, Settled, memoryVars, pageVars, controlVars,
         frontier, results, history, bounds, FailStartup
<1>4. Idle'
  BY DEF IInv, Idle, memoryVars, pageVars, controlVars, frontier, results,
         history, bounds, FailStartup
<1>5. Memory'
  BY DEF IInv, Memory, Working, OnPage, Held, Settled, memoryVars, pageVars,
         controlVars, frontier, results, history, bounds, FailStartup
<1>6. Unsaved'
  BY DEF IInv, Unsaved, OnPage, Fresh, memoryVars, pageVars, controlVars,
         frontier, results, history, bounds, FailStartup
<1>7. Recorded'
  BY DEF IInv, Recorded, memoryVars, pageVars, controlVars, frontier, results,
         history, bounds, FailStartup
<1> QED BY <1>1, <1>2, <1>3, <1>4, <1>5, <1>6, <1>7 DEF IInv

(* The pause at the head of the loop.                                      *)
LEMMA EnterDispatchKeeps ==
  ASSUME IInv, EnterDispatch
  PROVE  IInv'
<1>1. TypeOK'
  BY DEF IInv, TypeOK, memoryVars, pageVars, controlVars, frontier, results,
         history, bounds, EnterDispatch
<1>2. InFlightIsSaved'
  BY DEF IInv, InFlightIsSaved, Live, memoryVars, pageVars, controlVars,
         frontier, results, history, bounds, EnterDispatch
<1>3. Books'
  BY DEF IInv, Books, Balanced, Settled, memoryVars, pageVars, controlVars,
         frontier, results, history, bounds, EnterDispatch
<1>4. Idle'
  BY DEF IInv, Idle, memoryVars, pageVars, controlVars, frontier, results,
         history, bounds, EnterDispatch
<1>5. Memory'
  BY DEF IInv, Memory, Working, OnPage, Held, Settled, memoryVars, pageVars,
         controlVars, frontier, results, history, bounds, EnterDispatch
<1>6. Unsaved'
  BY DEF IInv, Unsaved, OnPage, Fresh, memoryVars, pageVars, controlVars,
         frontier, results, history, bounds, EnterDispatch
<1>7. Recorded'
  BY DEF IInv, Recorded, memoryVars, pageVars, controlVars, frontier, results,
         history, bounds, EnterDispatch
<1> QED BY <1>1, <1>2, <1>3, <1>4, <1>5, <1>6, <1>7 DEF IInv

(* Dispatch moves the head of the queue, which is saved, in flight.        *)
LEMMA DispatchKeeps ==
  ASSUME IInv, Dispatch
  PROVE  IInv'
<1>1. /\ queue \in Seq(Urls) /\ queue # <<>> /\ IsInjective(queue)
      /\ pc = "dispatch"
  BY DEF IInv, TypeOK, InFlightIsSaved, Dispatch, CanDispatch
<1>2. /\ Tail(queue) \in Seq(Urls) /\ IsInjective(Tail(queue))
      /\ Head(queue) \in Range(queue)
      /\ Range(Tail(queue)) = Range(queue) \ {Head(queue)}
  BY <1>1, TailRange
<1>3. Range(queue) \subseteq Urls
  BY <1>1, RangeDef
<1>4. Range(queue) \subseteq Range(dQueue)
  BY <1>1 DEF IInv, Books, Balanced, Memory, Working, Unsaved
<1>5. TypeOK'
  BY <1>2, <1>3 DEF IInv, TypeOK, loopVars, pageVars, controlVars, frontier,
         results, history, bounds, Dispatch
<1>6. InFlightIsSaved'
  BY <1>2, <1>3, <1>4 DEF IInv, InFlightIsSaved, Live, loopVars, pageVars,
         controlVars, frontier, results, history, bounds, Dispatch
<1>7. Books'
  BY DEF IInv, Books, Balanced, Settled, loopVars, pageVars, controlVars,
         frontier, results, history, bounds, Dispatch
<1>8. Idle'
  BY <1>1 DEF IInv, Idle, loopVars, pageVars, controlVars, frontier, results,
         history, bounds, Dispatch
<1>9. Memory'
  BY <1>2, <1>3, <1>1 DEF IInv, Memory, Working, OnPage, Held, Settled,
         loopVars, pageVars, controlVars, frontier, results, history, bounds,
         Dispatch
<1>10. Unsaved'
  BY <1>1 DEF IInv, Unsaved, OnPage, Fresh, loopVars, pageVars, controlVars,
         frontier, results, history, bounds, Dispatch
<1>11. Recorded'
  BY DEF IInv, Recorded, loopVars, pageVars, controlVars, frontier, results,
         history, bounds, Dispatch
<1> QED BY <1>5, <1>6, <1>7, <1>8, <1>9, <1>10, <1>11 DEF IInv

(* The end of a dispatch loop.                                             *)
LEMMA EndDispatchKeeps ==
  ASSUME IInv, EndDispatch
  PROVE  IInv'
<1>1. TypeOK'
  BY DEF IInv, TypeOK, memoryVars, pageVars, controlVars, frontier, results,
         history, bounds, EndDispatch
<1>2. InFlightIsSaved'
  BY DEF IInv, InFlightIsSaved, Live, memoryVars, pageVars, controlVars,
         frontier, results, history, bounds, EndDispatch
<1>3. Books'
  BY DEF IInv, Books, Balanced, Settled, memoryVars, pageVars, controlVars,
         frontier, results, history, bounds, EndDispatch
<1>4. Idle'
  BY DEF IInv, Idle, memoryVars, pageVars, controlVars, frontier, results,
         history, bounds, EndDispatch
<1>5. Memory'
  BY DEF IInv, Memory, Working, OnPage, Held, Settled, memoryVars, pageVars,
         controlVars, frontier, results, history, bounds, EndDispatch
<1>6. Unsaved'
  BY DEF IInv, Unsaved, OnPage, Fresh, memoryVars, pageVars, controlVars,
         frontier, results, history, bounds, EndDispatch
<1>7. Recorded'
  BY DEF IInv, Recorded, memoryVars, pageVars, controlVars, frontier, results,
         history, bounds, EndDispatch
<1> QED BY <1>1, <1>2, <1>3, <1>4, <1>5, <1>6, <1>7 DEF IInv

(* A stop leads to the end of the run.                                     *)
LEMMA ObserveStopKeeps ==
  ASSUME IInv, ObserveStop
  PROVE  IInv'
<1>1. TypeOK'
  BY DEF IInv, TypeOK, memoryVars, pageVars, controlVars, frontier, results,
         history, bounds, ObserveStop
<1>2. InFlightIsSaved'
  BY DEF IInv, InFlightIsSaved, Live, memoryVars, pageVars, controlVars,
         frontier, results, history, bounds, ObserveStop
<1>3. Books'
  BY DEF IInv, Books, Balanced, Settled, memoryVars, pageVars, controlVars,
         frontier, results, history, bounds, ObserveStop
<1>4. Idle'
  BY DEF IInv, Idle, memoryVars, pageVars, controlVars, frontier, results,
         history, bounds, ObserveStop
<1>5. Memory'
  BY DEF IInv, Memory, Working, OnPage, Held, Settled, memoryVars, pageVars,
         controlVars, frontier, results, history, bounds, ObserveStop
<1>6. Unsaved'
  BY DEF IInv, Unsaved, OnPage, Fresh, memoryVars, pageVars, controlVars,
         frontier, results, history, bounds, ObserveStop
<1>7. Recorded'
  BY DEF IInv, Recorded, memoryVars, pageVars, controlVars, frontier, results,
         history, bounds, ObserveStop
<1> QED BY <1>1, <1>2, <1>3, <1>4, <1>5, <1>6, <1>7 DEF IInv

(* A panicked worker leaves its key in flight.                             *)
LEMMA JoinPanicKeeps ==
  ASSUME IInv, NEW u \in Urls, JoinPanic(u)
  PROVE  IInv'
<1>1. TypeOK'
  BY DEF IInv, TypeOK, memoryVars, pageVars, controlVars, frontier, results,
         bounds, JoinPanic, Join
<1>2. InFlightIsSaved'
  BY DEF IInv, InFlightIsSaved, Live, memoryVars, pageVars, controlVars,
         frontier, results, bounds, JoinPanic, Join
<1>3. Books'
  BY DEF IInv, Books, Balanced, Settled, memoryVars, pageVars, controlVars,
         frontier, results, bounds, JoinPanic, Join
<1>4. Idle'
  BY DEF IInv, Idle, memoryVars, pageVars, controlVars, frontier, results,
         bounds, JoinPanic, Join
<1>5. Memory'
  BY DEF IInv, Memory, Working, OnPage, Held, Settled, memoryVars, pageVars,
         controlVars, frontier, results, bounds, JoinPanic, Join
<1>6. Unsaved'
  BY DEF IInv, Unsaved, OnPage, Fresh, memoryVars, pageVars, controlVars,
         frontier, results, bounds, JoinPanic, Join
<1>7. Recorded'
  BY DEF IInv, Recorded, memoryVars, pageVars, controlVars, frontier, results,
         bounds, JoinPanic, Join
<1> QED BY <1>1, <1>2, <1>3, <1>4, <1>5, <1>6, <1>7 DEF IInv

(* A failed URL leaves the saved frontier; it is settled.                  *)
LEMMA JoinErrorKeeps ==
  ASSUME IInv, NEW u \in Urls, JoinError(u)
  PROVE  IInv'
<1>1. /\ u \in active /\ pc = "select"
      /\ dQueue \in Seq(Urls) /\ IsInjective(dQueue)
  BY DEF IInv, TypeOK, InFlightIsSaved, Live, JoinError, Join
<1>2. /\ Without(dQueue, u) \in Seq(Urls) /\ IsInjective(Without(dQueue, u))
      /\ Range(Without(dQueue, u)) = Range(dQueue) \ {u}
  BY <1>1, WithoutRange
<1>3. dQueue' = Without(dQueue, u) /\ dSeen' = dSeen /\ dCrawled' = crawled
  <2>1. Without(dQueue, u) \o <<>> = Without(dQueue, u) /\ Range(<<>>) = {}
    BY <1>2, ConcatEmptySeq, EmptyRange
  <2> QED BY <2>1 DEF JoinError, UpdateFrontier
<1>4. /\ active \subseteq Range(dQueue) /\ active \cap Range(queue) = {}
      /\ IsInjective(queue)
      /\ Live \subseteq active
      /\ dSeen = Range(dQueue) \cup Settled
      /\ Range(dQueue) \cap Settled = {}
      /\ seen = Range(queue) \cup active \cup Settled
      /\ (Range(queue) \cup active) \cap Settled = {}
      /\ crawled = Cardinality(done) /\ crawled \in Nat
  <2>1. Cardinality(done) \in Nat
    BY FiniteKeys DEF IInv, TypeOK
  <2> QED BY <1>1, <2>1
          DEF IInv, InFlightIsSaved, Books, Balanced, Memory, Working, Held
<1>5. /\ pc' = "top" /\ active' = active \ {u} /\ tasks'[u] = "none"
      /\ Settled' = Settled \cup {u} /\ done' = done
      /\ UNCHANGED <<queue, seen, crawled>>
  BY DEF IInv, TypeOK, JoinError, Join, Settled
<1>6. Live' \subseteq Live \ {u}
  BY <1>5 DEF JoinError, Join, Live, IInv, TypeOK
<1>7. TypeOK'
  BY <1>1, <1>2, <1>3 DEF IInv, TypeOK, pageVars, controlVars, results,
         bounds, JoinError, Join, UpdateFrontier
<1>8. InFlightIsSaved'
  BY <1>2, <1>3, <1>4, <1>5, <1>6 DEF InFlightIsSaved
<1>9. Books'
  BY <1>1, <1>2, <1>3, <1>4, <1>5 DEF Books, Balanced
<1>10. Idle'
  BY <1>5 DEF Idle
<1>11. Memory'
  BY <1>1, <1>4, <1>5 DEF Memory, Working, OnPage, Held
<1>12. Unsaved'
  BY <1>1, <1>3 DEF IInv, Unsaved, OnPage, Fresh, pageVars, controlVars,
         results, bounds, JoinError, Join, UpdateFrontier
<1>13. Recorded'
  BY DEF IInv, Recorded, pageVars, controlVars, results, bounds, JoinError,
         Join, UpdateFrontier
<1> QED BY <1>7, <1>8, <1>9, <1>10, <1>11, <1>12, <1>13 DEF IInv

(* A fetched page is taken in hand; nothing is discovered yet.             *)
LEMMA JoinOkKeeps ==
  ASSUME IInv, NEW u \in Urls, JoinOk(u)
  PROVE  IInv'
<1>1. /\ u \in active /\ pc = "select"
      /\ queue \in Seq(Urls) /\ Len(queue) \in Nat
  BY RangeDef DEF IInv, TypeOK, InFlightIsSaved, Live, JoinOk, Join
<1>2. Range(Fresh') = {}
  BY <1>1, SuffixRange, EmptyRange DEF Fresh, JoinOk, memoryVars
<1>3. TypeOK'
  BY <1>1, ConfigAssumption DEF IInv, TypeOK, memoryVars, controlVars,
         frontier, results, history, bounds, JoinOk, Join
<1>4. InFlightIsSaved'
  BY DEF IInv, InFlightIsSaved, Live, memoryVars, controlVars, frontier,
         results, history, bounds, JoinOk, Join
<1>5. Books'
  BY DEF IInv, Books, Balanced, Settled, memoryVars, controlVars, frontier,
         results, history, bounds, JoinOk, Join
<1>6. Idle'
  BY DEF IInv, Idle, memoryVars, controlVars, frontier, results, history,
         bounds, JoinOk, Join
<1>7. Memory'
  BY <1>1 DEF IInv, Memory, Working, OnPage, Held, Settled, TypeOK,
         memoryVars, controlVars, frontier, results, history, bounds, JoinOk,
         Join
<1>8. Unsaved'
  BY <1>1, <1>2 DEF IInv, Unsaved, OnPage, Fresh, memoryVars, controlVars,
         frontier, results, history, bounds, JoinOk, Join
<1>9. Recorded'
  BY DEF IInv, Recorded, memoryVars, controlVars, frontier, results, history,
         bounds, JoinOk, Join
<1> QED BY <1>3, <1>4, <1>5, <1>6, <1>7, <1>8, <1>9 DEF IInv

(* Reading a linked sitemap is a discovery.                                *)
LEMMA ReadLinkedSitemapKeeps ==
  ASSUME IInv, NEW m \in Sitemaps, ReadLinkedSitemap(m)
  PROVE  IInv'
<1>1. pc = "discover" /\ UNCHANGED previousQueueLen
  BY DEF ReadLinkedSitemap
<1>2. PICK new : Discovered(new)
  <2>1. CASE UNCHANGED <<queue, seen, depth>>
    BY <1>1, <2>1, NothingDiscovered
  <2>2. CASE \E q \in Admissions(Listed[m] \cap scope, Room(seen)) : Push(q, 0)
    <3>1. Listed[m] \cap scope \in SUBSET Urls /\ Room(seen) \in Nat
      BY ConfigAssumption, RoomType DEF IInv, TypeOK
    <3> QED BY <1>1, <2>2, <3>1, PushDiscovers
  <2> QED BY <2>1, <2>2 DEF ReadLinkedSitemap
<1>3. TypeOK'
  BY <1>1, <1>2 DEF IInv, TypeOK, Discovered, controlVars, frontier, results,
         history, bounds, ReadLinkedSitemap, loopVars
<1>4. InFlightIsSaved'
  BY <1>1, <1>2 DEF IInv, InFlightIsSaved, Live, Discovered, Memory, Working,
         controlVars, frontier, results, history, bounds, ReadLinkedSitemap,
         loopVars
<1>5. Books'
  BY <1>1 DEF IInv, Books, Balanced, Settled, controlVars, frontier, results,
         history, bounds, ReadLinkedSitemap, loopVars
<1>6. Idle'
  BY <1>1 DEF IInv, Idle, controlVars, frontier, results, history, bounds,
         ReadLinkedSitemap, loopVars
<1>7. Memory'
  BY <1>1, <1>2 DEF IInv, Memory, Working, OnPage, Held, Settled, Discovered,
         controlVars, frontier, results, history, bounds, ReadLinkedSitemap,
         loopVars
<1>8. Unsaved'
  BY <1>1, <1>2 DEF IInv, Unsaved, OnPage, Fresh, Discovered, controlVars,
         frontier, results, history, bounds, ReadLinkedSitemap, loopVars
<1>9. Recorded'
  BY DEF IInv, Recorded, controlVars, frontier, results, history, bounds,
         ReadLinkedSitemap, loopVars
<1> QED BY <1>3, <1>4, <1>5, <1>6, <1>7, <1>8, <1>9 DEF IInv

(* The links of a page are a discovery; then its key leaves the flight.    *)
LEMMA ExpandLinksKeeps ==
  ASSUME IInv, ExpandLinks
  PROVE  IInv'
<1>1. /\ pc = "discover" /\ UNCHANGED previousQueueLen
      /\ cur \in Urls /\ cur \in active /\ tasks[cur] = "none"
  BY DEF IInv, Memory, Working, OnPage, ExpandLinks, pageVars
<1>2. PICK new : Discovered(new)
  <2>1. CASE ~Expands(cur)
    BY <1>1, <2>1, NothingDiscovered DEF ExpandLinks
  <2>2. CASE Expands(cur)
    <3> DEFINE limit == IF MaxLinksPerPage = 0 THEN Room(seen)
                        ELSE Smaller(Room(seen), MaxLinksPerPage)
    <3>1. /\ Links[cur] \cap scope \in SUBSET Urls
          /\ limit \in Nat
          /\ depth[cur] + 1 \in Nat
      BY <1>1, ConfigAssumption, RoomType DEF IInv, TypeOK, Smaller
    <3>2. \E q \in Admissions(Links[cur] \cap scope, limit) : Push(q, depth[cur] + 1)
      BY <2>2 DEF ExpandLinks
    <3> HIDE DEF limit
    <3> QED BY <1>1, <3>1, <3>2, PushDiscovers
  <2> QED BY <2>1, <2>2
<1>3. /\ \/ pc' = "finish" /\ cancelled /\ active' = active
         \/ pc' = "evidence" /\ active' = active \ {cur}
      /\ UNCHANGED <<scope, status, crawled, cur, todo, documents,
                     needsCheckpoint, tasks, paused, cancelled, dQueue, dSeen,
                     dCrawled, recorded, evidence, done, failed, panicked,
                     runs, crashes>>
  BY DEF ExpandLinks, pageVars, controlVars, frontier, results, history, bounds
<1>4. TypeOK'
  BY <1>1, <1>2, <1>3 DEF IInv, TypeOK, Discovered, controlVars, frontier,
         results, history, bounds, ExpandLinks
<1>5. InFlightIsSaved'
  BY <1>1, <1>2, <1>3 DEF IInv, InFlightIsSaved, Live, Discovered, Memory,
         Working, controlVars, frontier, results, history, bounds, ExpandLinks
<1>6. Books'
  BY <1>1, <1>2, <1>3 DEF IInv, Books, Balanced, Settled, controlVars,
         frontier, results, history, bounds, ExpandLinks
<1>7. Idle'
  BY <1>1, <1>2, <1>3 DEF IInv, Idle, controlVars, frontier, results, history,
         bounds, ExpandLinks
<1>8. Memory'
  <2>1. /\ seen = Range(queue) \cup active \cup Settled
        /\ (Range(queue) \cup active) \cap Settled = {}
        /\ active \cap Range(queue) = {} /\ active \subseteq Range(dQueue)
        /\ active \subseteq Urls
        /\ crawled = Cardinality(done) /\ crawled \in Nat
        /\ Settled' = Settled
    <3>1. Cardinality(done) \in Nat
      BY FiniteKeys DEF IInv, TypeOK
    <3> QED BY <1>1, <1>3, <3>1
            DEF IInv, TypeOK, InFlightIsSaved, Memory, Working, Held, Settled
  <2>2. /\ Range(queue') = Range(queue) \cup new
        /\ new \cap seen = {} /\ seen' = seen \cup new
    BY <1>2 DEF Discovered
  <2>3. CASE pc' = "finish" /\ active' = active
    BY <1>3, <2>1, <2>2, <2>3 DEF Memory, Working, OnPage, Held
  <2>4. CASE pc' = "evidence" /\ active' = active \ {cur}
    BY <1>1, <1>3, <2>1, <2>2, <2>4 DEF Memory, Working, OnPage, Held
  <2> QED BY <1>3, <2>3, <2>4
<1>9. Unsaved'
  BY <1>1, <1>2, <1>3 DEF IInv, Unsaved, OnPage, Fresh, Discovered,
         controlVars, frontier, results, history, bounds, ExpandLinks
<1>10. Recorded'
  BY <1>1, <1>2, <1>3 DEF IInv, Recorded, controlVars, frontier, results,
         history, bounds, ExpandLinks
<1> QED BY <1>4, <1>5, <1>6, <1>7, <1>8, <1>9, <1>10 DEF IInv

(* The link evidence of the page.                                          *)
LEMMA WriteEvidenceKeeps ==
  ASSUME IInv, WriteEvidence
  PROVE  IInv'
<1>1. TypeOK'
  <2>1. evidence \in [Urls -> Nat]
    BY DEF IInv, TypeOK
  <2>2. evidence' \in [Urls -> Nat]
    <3>1. evidence' = [evidence EXCEPT ![cur] = @ + 1]
      BY DEF WriteEvidence
    <3>2. \A u \in Urls : evidence[u] + 1 \in Nat
      BY <2>1
    <3> QED BY <2>1, <3>1, <3>2
  <2>3. /\ pc' = "record"
        /\ UNCHANGED <<scope, status, memoryVars, pageVars, tasks, controlVars,
                       frontier, recorded, history, bounds>>
    BY DEF WriteEvidence
  <2> QED BY <2>2, <2>3 DEF IInv, TypeOK, memoryVars, pageVars, controlVars,
                            frontier, history, bounds
<1>2. InFlightIsSaved'
  BY DEF IInv, InFlightIsSaved, Live, memoryVars, pageVars, controlVars,
         frontier, history, bounds, WriteEvidence
<1>3. Books'
  BY DEF IInv, Books, Balanced, Settled, memoryVars, pageVars, controlVars,
         frontier, history, bounds, WriteEvidence
<1>4. Idle'
  BY DEF IInv, Idle, memoryVars, pageVars, controlVars, frontier, history,
         bounds, WriteEvidence
<1>5. Memory'
  BY DEF IInv, Memory, Working, OnPage, Held, Settled, memoryVars, pageVars,
         controlVars, frontier, history, bounds, WriteEvidence
<1>6. Unsaved'
  BY DEF IInv, Unsaved, OnPage, Fresh, memoryVars, pageVars, controlVars,
         frontier, history, bounds, WriteEvidence
<1>7. Recorded'
  BY DEF IInv, Recorded, memoryVars, pageVars, controlVars, frontier, history,
         bounds, WriteEvidence
<1> QED BY <1>1, <1>2, <1>3, <1>4, <1>5, <1>6, <1>7 DEF IInv

(* The record of the page.                                                 *)
LEMMA WriteRecordKeeps ==
  ASSUME IInv, WriteRecord
  PROVE  IInv'
<1>1. Cardinality(done) \in Nat
  BY FiniteKeys DEF IInv, TypeOK
<1>2. TypeOK'
  BY SMTT(30) DEF IInv, TypeOK, Memory, Working, OnPage, pageVars, controlVars,
         frontier, history, bounds, WriteRecord
<1>3. InFlightIsSaved'
  BY DEF IInv, InFlightIsSaved, Live, pageVars, controlVars, frontier,
         history, bounds, WriteRecord
<1>4. Books'
  BY DEF IInv, Books, Balanced, Settled, pageVars, controlVars, frontier,
         history, bounds, WriteRecord
<1>5. Idle'
  BY DEF IInv, Idle, pageVars, controlVars, frontier, history, bounds,
         WriteRecord
<1>6. Memory'
  BY <1>1 DEF IInv, Memory, Working, OnPage, Held, Settled, pageVars,
         controlVars, frontier, history, bounds, WriteRecord
<1>7. Unsaved'
  BY DEF IInv, Unsaved, OnPage, Fresh, pageVars, controlVars, frontier,
         history, bounds, WriteRecord
<1>8. Recorded'
  BY DEF IInv, Recorded, pageVars, controlVars, frontier, history, bounds,
         WriteRecord
<1> QED BY <1>2, <1>3, <1>4, <1>5, <1>6, <1>7, <1>8 DEF IInv

(* The saved frontier takes over what the page led to.                     *)
LEMMA SettleKeeps ==
  ASSUME IInv, Settle
  PROVE  IInv'
<1>1. /\ pc = "settle" /\ cur \in Urls /\ cur \in Range(dQueue)
      /\ cur \notin Settled /\ cur \notin active
      /\ crawled = Cardinality(done) + 1
      /\ active \subseteq Range(dQueue)
      /\ dSeen = Range(dQueue) \cup Settled
      /\ Range(dQueue) \cap Settled = {}
  BY DEF IInv, InFlightIsSaved, Books, Balanced, Memory, Working, OnPage, Held, Settle
<1>2. /\ queue \in Seq(Urls) /\ IsInjective(queue)
      /\ dQueue \in Seq(Urls) /\ IsInjective(dQueue)
      /\ previousQueueLen \in 0..Len(queue)
      /\ seen = dSeen \cup Range(Fresh)
      /\ Range(Fresh) \cap dSeen = {}
  BY <1>1 DEF IInv, TypeOK, InFlightIsSaved, Unsaved, OnPage
<1>3. /\ Fresh \in Seq(Urls) /\ IsInjective(Fresh)
      /\ Range(Fresh) \subseteq Range(queue) /\ Range(Fresh) \subseteq Urls
  BY <1>2, SuffixRange, RangeDef DEF Fresh
<1>4. /\ Without(dQueue, cur) \in Seq(Urls)
      /\ IsInjective(Without(dQueue, cur))
      /\ Range(Without(dQueue, cur)) = Range(dQueue) \ {cur}
  BY <1>2, WithoutRange
<1>5. /\ dQueue' \in Seq(Urls) /\ IsInjective(dQueue')
      /\ Range(dQueue') = (Range(dQueue) \ {cur}) \cup Range(Fresh)
  <2>1. Range(Without(dQueue, cur)) \cap Range(Fresh) = {}
    BY <1>1, <1>2, <1>4
  <2> QED BY <1>3, <1>4, <2>1, ConcatRange DEF Settle, UpdateFrontier
<1>6. Range(Fresh) \cap (Settled \cup {cur}) = {}
  BY <1>1, <1>2
<1>7. Cardinality(done') = Cardinality(done) + 1
  <2>1. IsFiniteSet(done)
    BY FiniteKeys DEF IInv, TypeOK
  <2>2. cur \notin done
    BY <1>1 DEF Settled
  <2> QED BY <2>1, <2>2, FS_AddElement DEF Settle
<1>8. /\ pc' = "top" /\ done' = done \cup {cur} /\ failed' = failed
      /\ dSeen' = dSeen \cup Range(Fresh) /\ dCrawled' = crawled
      /\ ~needsCheckpoint'
      /\ UNCHANGED <<queue, seen, crawled, active, tasks>>
  BY DEF Settle, UpdateFrontier, memoryVars
<1>9. TypeOK'
  BY <1>1, <1>3, <1>5 DEF IInv, TypeOK, memoryVars, controlVars, results,
         bounds, Settle, UpdateFrontier
<1>10. InFlightIsSaved'
  BY <1>1, <1>5, <1>8 DEF IInv, InFlightIsSaved, Live, memoryVars,
         controlVars, results, bounds, Settle, UpdateFrontier
<1>11. Books'
  BY <1>1, <1>5, <1>6, <1>7, <1>8 DEF IInv, Books, Balanced, Settled,
         memoryVars, controlVars, results, bounds, Settle, UpdateFrontier
<1>12. Idle'
  BY <1>8 DEF IInv, Idle, memoryVars, controlVars, results, bounds, Settle,
         UpdateFrontier
<1>13. Memory'
  BY <1>1, <1>7, <1>8 DEF IInv, Memory, Working, OnPage, Held, Settled,
         memoryVars, controlVars, results, bounds, Settle, UpdateFrontier
<1>14. Unsaved'
  BY <1>2, <1>8 DEF IInv, Unsaved, OnPage, Fresh, memoryVars, controlVars,
         results, bounds, Settle, UpdateFrontier
<1>15. Recorded'
  BY DEF IInv, Recorded, memoryVars, controlVars, results, bounds, Settle,
         UpdateFrontier
<1> QED BY <1>9, <1>10, <1>11, <1>12, <1>13, <1>14, <1>15 DEF IInv

(* The saved queue is deleted when nothing is pending.                     *)
LEMMA ClearQueueKeeps ==
  ASSUME IInv, ClearQueue
  PROVE  IInv'
<1>1. /\ pc = "finish" /\ queue = <<>> /\ active = {} /\ ~needsCheckpoint
  BY DEF IInv, Unsaved, ClearQueue, AllDone
<1>2. <<>> \in Seq(Urls) /\ Range(<<>>) = {} /\ IsInjective(<<>>)
  BY EmptyRange
<1>3. dSeen = Settled
  BY <1>1, <1>2 DEF IInv, Memory, Working, Held, Unsaved
<1>4. TypeOK'
  BY <1>2 DEF IInv, TypeOK, memoryVars, pageVars, controlVars, results,
         history, bounds, ClearQueue
<1>5. InFlightIsSaved'
  BY <1>1, <1>2 DEF IInv, InFlightIsSaved, Live, memoryVars, pageVars,
         controlVars, results, history, bounds, ClearQueue
<1>6. Books'
  BY <1>1, <1>2, <1>3 DEF IInv, Books, Balanced, Settled, memoryVars,
         pageVars, controlVars, results, history, bounds, ClearQueue
<1>7. Idle'
  BY <1>1 DEF IInv, Idle, memoryVars, pageVars, controlVars, results, history,
         bounds, ClearQueue
<1>8. Memory'
  BY DEF IInv, Memory, Working, OnPage, Held, Settled, memoryVars, pageVars,
         controlVars, results, history, bounds, ClearQueue
<1>9. Unsaved'
  BY DEF IInv, Unsaved, OnPage, Fresh, memoryVars, pageVars, controlVars,
         results, history, bounds, ClearQueue
<1>10. Recorded'
  BY DEF IInv, Recorded, memoryVars, pageVars, controlVars, results, history,
         bounds, ClearQueue
<1> QED BY <1>4, <1>5, <1>6, <1>7, <1>8, <1>9, <1>10 DEF IInv

(* Then the saved seen set.                                                *)
LEMMA ClearSeenKeeps ==
  ASSUME IInv, ClearSeen
  PROVE  IInv'
<1>1. TypeOK'
  BY DEF IInv, TypeOK, memoryVars, pageVars, controlVars, results, history,
         bounds, ClearSeen
<1>2. InFlightIsSaved'
  BY DEF IInv, InFlightIsSaved, Live, memoryVars, pageVars, controlVars,
         results, history, bounds, ClearSeen
<1>3. Books'
  BY DEF IInv, Books, Balanced, Settled, memoryVars, pageVars, controlVars,
         results, history, bounds, ClearSeen
<1>4. Idle'
  BY DEF IInv, Idle, memoryVars, pageVars, controlVars, results, history,
         bounds, ClearSeen
<1>5. Memory'
  BY DEF IInv, Memory, Working, OnPage, Held, Settled, memoryVars, pageVars,
         controlVars, results, history, bounds, ClearSeen
<1>6. Unsaved'
  BY DEF IInv, Unsaved, OnPage, Fresh, memoryVars, pageVars, controlVars,
         results, history, bounds, ClearSeen
<1>7. Recorded'
  BY DEF IInv, Recorded, memoryVars, pageVars, controlVars, results, history,
         bounds, ClearSeen
<1> QED BY <1>1, <1>2, <1>3, <1>4, <1>5, <1>6, <1>7 DEF IInv

(* Then the counter; the run is over.                                      *)
LEMMA ClearMetaKeeps ==
  ASSUME IInv, ClearMeta
  PROVE  IInv'
<1>1. TypeOK'
  BY DEF IInv, TypeOK, memoryVars, pageVars, controlVars, results, history,
         bounds, ClearMeta, EndRun
<1>2. InFlightIsSaved'
  BY DEF IInv, InFlightIsSaved, Live, memoryVars, pageVars, controlVars,
         results, history, bounds, ClearMeta, EndRun
<1>3. Books'
  BY DEF IInv, Books, Balanced, Settled, memoryVars, pageVars, controlVars,
         results, history, bounds, ClearMeta, EndRun
<1>4. Idle'
  BY DEF IInv, Idle, memoryVars, pageVars, controlVars, results, history,
         bounds, ClearMeta, EndRun
<1>5. Memory'
  BY DEF IInv, Memory, Working, OnPage, Held, Settled, memoryVars, pageVars,
         controlVars, results, history, bounds, ClearMeta, EndRun
<1>6. Unsaved'
  BY DEF IInv, Unsaved, OnPage, Fresh, memoryVars, pageVars, controlVars,
         results, history, bounds, ClearMeta, EndRun
<1>7. Recorded'
  BY DEF IInv, Recorded, memoryVars, pageVars, controlVars, results, history,
         bounds, ClearMeta, EndRun
<1> QED BY <1>1, <1>2, <1>3, <1>4, <1>5, <1>6, <1>7 DEF IInv

(* The last checkpoint of a stopped run holds what memory holds.           *)
LEMMA FinishKeeps ==
  ASSUME IInv, Finish
  PROVE  IInv'
<1>1. pc = "finish" /\ pc' = "ended" /\ tasks' = [u \in Urls |-> "none"]
  BY DEF Finish, EndRun
<1>2. UNCHANGED <<scope, queue, seen, crawled, active, depth, cur,
                  previousQueueLen, todo, documents, needsCheckpoint, paused,
                  cancelled, recorded, evidence, done, failed, panicked, runs,
                  crashes>>
  BY DEF Finish, memoryVars, pageVars, controlVars, results, history, bounds
<1>3. /\ dQueue' \in Seq(Urls) /\ IsInjective(dQueue')
      /\ dSeen' \in SUBSET Urls /\ dCrawled' \in Nat
      /\ active \subseteq Range(dQueue')
      /\ Balanced'
  <2>1. CASE ~needsCheckpoint
    BY <1>1, <1>2, <2>1
       DEF Finish, frontier, IInv, TypeOK, InFlightIsSaved, Books, Balanced,
           Settled
  <2>2. CASE needsCheckpoint
    <3>1. PICK a \in Arrangements(active) :
            dQueue' = a \o queue /\ dSeen' = seen /\ dCrawled' = crawled
      BY <2>2 DEF Finish, SavedQueues, SaveFrontier
    <3>2. /\ active \in SUBSET Urls /\ queue \in Seq(Urls)
          /\ IsInjective(queue) /\ active \cap Range(queue) = {}
          /\ seen \in SUBSET Urls /\ crawled \in Nat
      BY DEF IInv, TypeOK, InFlightIsSaved
    <3>3. a \in Seq(Urls) /\ Range(a) = active /\ IsInjective(a)
      BY <3>2, ArrangementsRange
    <3>4. /\ dQueue' \in Seq(Urls) /\ IsInjective(dQueue')
          /\ Range(dQueue') = active \cup Range(queue)
      BY <3>1, <3>2, <3>3, ConcatRange
    <3>5. /\ seen = Range(queue) \cup active \cup Settled
          /\ (Range(queue) \cup active) \cap Settled = {}
          /\ crawled = Cardinality(done)
      <4>1. Cardinality(done) \in Nat
        BY FiniteKeys DEF IInv, TypeOK
      <4> QED BY <1>1, <4>1 DEF IInv, Memory, Working, Held
    <3> QED BY <1>2, <3>1, <3>2, <3>4, <3>5 DEF Balanced, Settled
  <2> QED BY <2>1, <2>2
<1>4. TypeOK'
  BY <1>1, <1>2, <1>3 DEF IInv, TypeOK, Finish
<1>5. InFlightIsSaved'
  BY <1>1, <1>2, <1>3 DEF IInv, InFlightIsSaved, Live
<1>6. Books' /\ Idle' /\ Memory' /\ Unsaved' /\ Recorded'
  BY <1>1, <1>2, <1>3 DEF IInv, Recorded, Books, Idle, Memory, Working, Unsaved, OnPage
<1> QED BY <1>4, <1>5, <1>6 DEF IInv

(* A worker ends.                                                          *)
LEMMA WorkerEndsKeeps ==
  ASSUME IInv, NEW u \in Urls, WorkerEnds(u)
  PROVE  IInv'
<1>1. TypeOK'
  BY SMTT(30) DEF IInv, TypeOK, loopVars, memoryVars, pageVars, controlVars, frontier,
         results, history, bounds, WorkerEnds
<1>2. InFlightIsSaved'
  BY DEF IInv, InFlightIsSaved, Live, loopVars, memoryVars, pageVars,
         controlVars, frontier, results, history, bounds, WorkerEnds
<1>3. Books'
  BY DEF IInv, Books, Balanced, Settled, loopVars, memoryVars, pageVars,
         controlVars, frontier, results, history, bounds, WorkerEnds
<1>4. Idle'
  BY DEF IInv, Idle, loopVars, memoryVars, pageVars, controlVars, frontier,
         results, history, bounds, WorkerEnds
<1>5. Memory'
  BY DEF IInv, Memory, Working, OnPage, Held, Settled, loopVars, memoryVars,
         pageVars, controlVars, frontier, results, history, bounds, WorkerEnds
<1>6. Unsaved'
  BY DEF IInv, Unsaved, OnPage, Fresh, loopVars, memoryVars, pageVars,
         controlVars, frontier, results, history, bounds, WorkerEnds
<1>7. Recorded'
  BY DEF IInv, Recorded, loopVars, memoryVars, pageVars, controlVars,
         frontier, results, history, bounds, WorkerEnds
<1> QED BY <1>1, <1>2, <1>3, <1>4, <1>5, <1>6, <1>7 DEF IInv

(* A pause.                                                                *)
LEMMA PauseKeeps ==
  ASSUME IInv, Pause
  PROVE  IInv'
<1>1. TypeOK'
  BY DEF IInv, TypeOK, loopVars, memoryVars, pageVars, frontier, results,
         history, bounds, Pause
<1>2. InFlightIsSaved'
  BY DEF IInv, InFlightIsSaved, Live, loopVars, memoryVars, pageVars,
         frontier, results, history, bounds, Pause
<1>3. Books'
  BY DEF IInv, Books, Balanced, Settled, loopVars, memoryVars, pageVars,
         frontier, results, history, bounds, Pause
<1>4. Idle'
  BY DEF IInv, Idle, loopVars, memoryVars, pageVars, frontier, results,
         history, bounds, Pause
<1>5. Memory'
  BY DEF IInv, Memory, Working, OnPage, Held, Settled, loopVars, memoryVars,
         pageVars, frontier, results, history, bounds, Pause
<1>6. Unsaved'
  BY DEF IInv, Unsaved, OnPage, Fresh, loopVars, memoryVars, pageVars,
         frontier, results, history, bounds, Pause
<1>7. Recorded'
  BY DEF IInv, Recorded, loopVars, memoryVars, pageVars, frontier, results,
         history, bounds, Pause
<1> QED BY <1>1, <1>2, <1>3, <1>4, <1>5, <1>6, <1>7 DEF IInv

(* A continuation.                                                         *)
LEMMA ResumeKeeps ==
  ASSUME IInv, Resume
  PROVE  IInv'
<1>1. TypeOK'
  BY ZenonT(60) DEF IInv, TypeOK, loopVars, memoryVars, pageVars, frontier, results,
         history, bounds, Resume
<1>2. InFlightIsSaved'
  BY DEF IInv, InFlightIsSaved, Live, loopVars, memoryVars, pageVars,
         frontier, results, history, bounds, Resume
<1>3. Books'
  BY DEF IInv, Books, Balanced, Settled, loopVars, memoryVars, pageVars,
         frontier, results, history, bounds, Resume
<1>4. Idle'
  BY DEF IInv, Idle, loopVars, memoryVars, pageVars, frontier, results,
         history, bounds, Resume
<1>5. Memory'
  BY DEF IInv, Memory, Working, OnPage, Held, Settled, loopVars, memoryVars,
         pageVars, frontier, results, history, bounds, Resume
<1>6. Unsaved'
  BY DEF IInv, Unsaved, OnPage, Fresh, loopVars, memoryVars, pageVars,
         frontier, results, history, bounds, Resume
<1>7. Recorded'
  BY DEF IInv, Recorded, loopVars, memoryVars, pageVars, frontier, results,
         history, bounds, Resume
<1> QED BY <1>1, <1>2, <1>3, <1>4, <1>5, <1>6, <1>7 DEF IInv

(* A stop request.                                                         *)
LEMMA StopKeeps ==
  ASSUME IInv, Stop
  PROVE  IInv'
<1>1. TypeOK'
  BY DEF IInv, TypeOK, loopVars, memoryVars, pageVars, frontier, results,
         history, bounds, Stop
<1>2. InFlightIsSaved'
  BY DEF IInv, InFlightIsSaved, Live, loopVars, memoryVars, pageVars,
         frontier, results, history, bounds, Stop
<1>3. Books'
  BY DEF IInv, Books, Balanced, Settled, loopVars, memoryVars, pageVars,
         frontier, results, history, bounds, Stop
<1>4. Idle'
  BY DEF IInv, Idle, loopVars, memoryVars, pageVars, frontier, results,
         history, bounds, Stop
<1>5. Memory'
  BY DEF IInv, Memory, Working, OnPage, Held, Settled, loopVars, memoryVars,
         pageVars, frontier, results, history, bounds, Stop
<1>6. Unsaved'
  BY DEF IInv, Unsaved, OnPage, Fresh, loopVars, memoryVars, pageVars,
         frontier, results, history, bounds, Stop
<1>7. Recorded'
  BY DEF IInv, Recorded, loopVars, memoryVars, pageVars, frontier, results,
         history, bounds, Stop
<1> QED BY <1>1, <1>2, <1>3, <1>4, <1>5, <1>6, <1>7 DEF IInv

(* A crash loses memory, not the store.                                    *)
LEMMA CrashKeeps ==
  ASSUME IInv, Crash
  PROVE  IInv'
<1>1. <<>> \in Seq(Urls) /\ Range(<<>>) = {} /\ IsInjective(<<>>)
  BY EmptyRange
<1>2. /\ crashes' \in 0..MaxCrashes /\ runs' \in 1..MaxRuns
      /\ depth' \in [Urls -> Nat]
      /\ tasks' \in [Urls -> {"none", "running", "ok", "error", "panic"}]
  BY ConfigAssumption DEF IInv, TypeOK, Crash, ForgetMemory
<1>3. TypeOK'
  BY <1>1, <1>2 DEF IInv, TypeOK, frontier, results, Crash, ForgetMemory,
         Running
<1>4. InFlightIsSaved'
  BY <1>1 DEF IInv, InFlightIsSaved, Live, frontier, results, Crash,
         ForgetMemory, Running
<1>5. Books'
  BY DEF IInv, Books, Balanced, Settled, frontier, results, Crash,
         ForgetMemory, Running
<1>6. Idle'
  BY DEF IInv, Idle, frontier, results, Crash, ForgetMemory, Running
<1>7. Memory'
  BY DEF IInv, Memory, Working, OnPage, Held, Settled, frontier, results,
         Crash, ForgetMemory, Running
<1>8. Unsaved'
  BY DEF IInv, Unsaved, OnPage, Fresh, frontier, results, Crash, ForgetMemory,
         Running
<1>9. Recorded'
  BY DEF IInv, Recorded, frontier, results, Crash, ForgetMemory, Running
<1> QED BY <1>3, <1>4, <1>5, <1>6, <1>7, <1>8, <1>9 DEF IInv

(* A resume starts with an empty memory and the saved books.               *)
LEMMA ResumeSavedKeeps ==
  ASSUME IInv, ResumeSaved
  PROVE  IInv'
<1>1. <<>> \in Seq(Urls) /\ Range(<<>>) = {} /\ IsInjective(<<>>)
  BY EmptyRange
<1>2. /\ crashes' \in 0..MaxCrashes /\ runs' \in 1..MaxRuns
      /\ depth' \in [Urls -> Nat]
      /\ tasks' \in [Urls -> {"none", "running", "ok", "error", "panic"}]
  BY ConfigAssumption DEF IInv, TypeOK, ResumeSaved, ForgetMemory
<1>3. TypeOK'
  BY <1>1, <1>2 DEF IInv, TypeOK, frontier, results, ResumeSaved,
         ForgetMemory, Running
<1>4. InFlightIsSaved'
  BY <1>1 DEF IInv, InFlightIsSaved, Live, frontier, results, ResumeSaved,
         ForgetMemory, Running
<1>5. Books'
  BY DEF IInv, Books, Balanced, Settled, frontier, results, ResumeSaved,
         ForgetMemory, Running
<1>6. Idle'
  BY DEF IInv, Idle, frontier, results, ResumeSaved, ForgetMemory, Running
<1>7. Memory'
  BY DEF IInv, Memory, Working, OnPage, Held, Settled, frontier, results,
         ResumeSaved, ForgetMemory, Running
<1>8. Unsaved'
  BY DEF IInv, Unsaved, OnPage, Fresh, frontier, results, ResumeSaved,
         ForgetMemory, Running
<1>9. Recorded'
  BY DEF IInv, Recorded, frontier, results, ResumeSaved, ForgetMemory, Running
<1> QED BY <1>3, <1>4, <1>5, <1>6, <1>7, <1>8, <1>9 DEF IInv

(* A run starts from seeds, or from what is saved and still in scope.      *)
LEMMA BeginKeeps ==
  ASSUME IInv, Begin
  PROVE  IInv'
<1>1. /\ pc = "startup" /\ pc' = "top" /\ status' = "running"
      /\ dQueue' = queue' /\ dSeen' = seen' /\ dCrawled' = crawled'
      /\ UNCHANGED <<scope, active, depth, cur, previousQueueLen, todo,
                     documents, needsCheckpoint, tasks, paused, cancelled,
                     recorded, evidence, done, failed, panicked, runs, crashes>>
  BY DEF Begin, SaveFrontier, pageVars, controlVars, results, history, bounds
<1>2. /\ dQueue \in Seq(Urls) /\ IsInjective(dQueue)
      /\ dSeen \in SUBSET Urls /\ dCrawled \in Nat
      /\ Balanced
      /\ active = {}
      /\ tasks = [u \in Urls |-> "none"]
      /\ ~needsCheckpoint
  BY <1>1 DEF IInv, TypeOK, InFlightIsSaved, Books, Idle, Unsaved
<1>3. /\ queue' \in Seq(Urls) /\ IsInjective(queue')
      /\ seen' = Range(queue') \cup Settled
      /\ Range(queue') \cap Settled = {}
      /\ crawled' = Cardinality(done)
  <2>1. CASE dSeen = {} /\ dQueue = <<>> /\ \E q \in Seeds : queue' = q /\ seen' = Range(q)
    <3>1. Settled = {} /\ done = {}
      BY <1>2, <2>1 DEF Balanced, Settled
    <3>2. queue' \in Seq(Urls) /\ IsInjective(queue')
      BY <2>1, SeedsRange DEF IInv, TypeOK
    <3>3. crawled' = 0 /\ Cardinality({}) = 0
      BY <2>1, FS_EmptySet DEF Begin
    <3> QED BY <2>1, <3>1, <3>2, <3>3
  <2>2. CASE ~(dSeen = {} /\ dQueue = <<>>)
    <3>1. PICK q \in Restored : queue' = q
      BY <2>2 DEF Begin
    <3>2. Kept \subseteq Range(dQueue) /\ Kept \in SUBSET Urls
      BY <1>2, RangeDef DEF Kept
    <3>3. q \in Seq(Urls) /\ IsInjective(q) /\ Range(q) = Kept
      BY <3>2, ArrangementsRange DEF Restored
    <3>4. seen' = dSeen \ (Range(dQueue) \ Kept) /\ crawled' = dCrawled
      BY <2>2 DEF Begin
    <3> QED BY <1>2, <3>1, <3>2, <3>3, <3>4 DEF Balanced
  <2> QED BY <2>1, <2>2 DEF Begin
<1>4. Settled \in SUBSET Urls /\ Cardinality(done) \in Nat /\ Settled' = Settled
  BY <1>1, FiniteKeys DEF IInv, TypeOK, Settled
<1>5. TypeOK'
  <2>1. Range(queue') \subseteq Urls
    BY <1>3, RangeDef
  <2> QED BY <1>1, <1>3, <1>4, <2>1 DEF IInv, TypeOK
<1>6. InFlightIsSaved'
  BY <1>1, <1>2, <1>3 DEF InFlightIsSaved, Live
<1>7. Books'
  BY <1>1, <1>3, <1>4 DEF Books, Balanced
<1>8. Memory'
  BY <1>1, <1>2, <1>3, <1>4 DEF Memory, Working, OnPage, Held
<1>9. Idle' /\ Unsaved' /\ Recorded'
  BY <1>1, <1>2 DEF IInv, Recorded, Idle, Unsaved, OnPage
<1> QED BY <1>5, <1>6, <1>7, <1>8, <1>9 DEF IInv

-----------------------------------------------------------------------------
(* The theorems.                                                           *)

(* The invariant holds before anything is saved.                           *)
LEMMA InitHolds == Init => IInv
<1> SUFFICES ASSUME Init PROVE IInv
  OBVIOUS
<1>1. <<>> \in Seq(Urls) /\ Range(<<>>) = {} /\ IsInjective(<<>>)
  BY EmptyRange
<1>2. Cardinality({}) = 0
  BY FS_EmptySet
<1>3. TypeOK
  <2>1. /\ runs \in 1..MaxRuns /\ crashes \in 0..MaxCrashes
        /\ scope \in Scopes
    BY ConfigAssumption DEF Init
  <2> QED BY <1>1, <2>1 DEF Init, TypeOK
<1>4. InFlightIsSaved
  BY <1>1 DEF Init, InFlightIsSaved, Live
<1>5. Books
  BY <1>1, <1>2 DEF Init, Books, Balanced, Settled
<1>6. Idle /\ Memory /\ Unsaved /\ Recorded
  BY DEF Init, Idle, Memory, Working, Unsaved, OnPage, Recorded
<1> QED BY <1>3, <1>4, <1>5, <1>6 DEF IInv

(* A step that changes nothing.                                            *)
LEMMA StutterKeeps ==
  ASSUME IInv, UNCHANGED vars
  PROVE  IInv'
<1> USE DEF vars, loopVars, memoryVars, pageVars, controlVars, frontier,
            results, history, bounds
<1>1. TypeOK'
  BY DEF IInv, TypeOK
<1>2. InFlightIsSaved'
  BY DEF IInv, InFlightIsSaved, Live
<1>3. Books' /\ Idle' /\ Recorded'
  BY DEF IInv, Books, Balanced, Settled, Idle, Recorded
<1>4. Memory'
  BY DEF IInv, Memory, Working, OnPage, Held, Settled
<1>5. Unsaved'
  BY DEF IInv, Unsaved, OnPage, Fresh
<1> QED BY <1>1, <1>2, <1>3, <1>4, <1>5 DEF IInv

(* Every step keeps the invariant.                                         *)
LEMMA NextKeeps ==
  ASSUME IInv, [Next]_vars
  PROVE  IInv'
<1>1. CASE Startup
  BY <1>1, BeginKeeps, StopDuringStartupKeeps, FailStartupKeeps DEF Startup
<1>2. CASE Loop
  BY <1>2, EnterDispatchKeeps, DispatchKeeps, EndDispatchKeeps,
     ObserveStopKeeps, JoinPanicKeeps, JoinErrorKeeps, JoinOkKeeps DEF Loop
<1>3. CASE Page
  <2>1. todo \subseteq Sitemaps
    BY DEF IInv, TypeOK
  <2> QED BY <1>3, <2>1, ReadLinkedSitemapKeeps, ExpandLinksKeeps,
             WriteEvidenceKeeps, WriteRecordKeeps, SettleKeeps DEF Page
<1>4. CASE Ending
  BY <1>4, ClearQueueKeeps, ClearSeenKeeps, ClearMetaKeeps, FinishKeeps
     DEF Ending
<1>5. CASE User
  BY <1>5, PauseKeeps, ResumeKeeps, StopKeeps DEF User
<1>6. CASE \E u \in Urls : WorkerEnds(u)
  BY <1>6, WorkerEndsKeeps
<1>7. CASE Crash \/ ResumeSaved
  BY <1>7, CrashKeeps, ResumeSavedKeeps
<1>8. CASE UNCHANGED vars
  BY <1>8, StutterKeeps
<1> QED BY <1>1, <1>2, <1>3, <1>4, <1>5, <1>6, <1>7, <1>8 DEF Next

(* The invariant holds of every reachable state.                           *)
THEOREM Invariance == Spec => []IInv
<1>1. Init => IInv
  BY InitHolds
<1>2. IInv /\ [Next]_vars => IInv'
  BY NextKeeps
<1> QED BY <1>1, <1>2, PTL DEF Spec

(* Every variable keeps its type.                                          *)
THEOREM TypeCorrect == Spec => []TypeOK
<1>1. IInv => TypeOK
  BY DEF IInv
<1> QED BY <1>1, Invariance, PTL

(* No discovered URL is lost, whatever is stopped, crashes or panics: the  *)
(* saved frontier always holds what is not settled.                        *)
THEOREM NothingIsLost == Spec => []NoUrlLost
<1>1. IInv => NoUrlLost
  BY DEF IInv, Books, Balanced, NoUrlLost
<1> QED BY <1>1, Invariance, PTL

(* The saved counter is the number of settled pages, all of them recorded. *)
THEOREM CountIsExact == Spec => []CrawledIsExact
<1>1. IInv => CrawledIsExact
  BY DEF IInv, Books, Balanced, Recorded, CrawledIsExact
<1> QED BY <1>1, Invariance, PTL

(* Whatever is being fetched is saved as pending and queued nowhere else.  *)
THEOREM FlightIsSaved == Spec => []InFlightIsSaved
<1>1. IInv => InFlightIsSaved
  BY DEF IInv
<1> QED BY <1>1, Invariance, PTL

(* A settled URL is never fetched again.                                   *)
THEOREM NothingIsRefetched == Spec => NeverRefetched
<1>1. IInv /\ [Next]_vars =>
        [\A u \in Urls : tasks[u] = "none" /\ tasks'[u] = "running" =>
           u \notin Settled \cup active]_vars
  <2> SUFFICES ASSUME IInv, Next, NEW u \in Urls,
                      tasks[u] = "none", tasks'[u] = "running"
               PROVE  u \notin Settled \cup active
    OBVIOUS
  <2>1. tasks \in [Urls -> {"none", "running", "ok", "error", "panic"}]
    BY DEF IInv, TypeOK
  <2>2. CASE Dispatch
    <3>1. pc = "dispatch" /\ queue # <<>> /\ queue \in Seq(Urls)
      BY <2>2 DEF Dispatch, CanDispatch, IInv, TypeOK
    <3>2. u = Head(queue)
      BY <2>1, <2>2 DEF Dispatch
    <3>3. u \in Range(queue)
      BY <3>1, <3>2, TailRange DEF IInv, InFlightIsSaved
    <3> QED BY <3>1, <3>3 DEF IInv, InFlightIsSaved, Memory, Working
  <2>3. CASE ~Dispatch
    <3>1. tasks'[u] \in {"none", "ok", "error", "panic"} \/ tasks'[u] = tasks[u]
      BY <2>1, <2>3
         DEF Next, Startup, Loop, Page, Ending, User, Begin, StopDuringStartup,
             FailStartup, EnterDispatch, EndDispatch, ObserveStop, JoinPanic,
             JoinError, JoinOk, Join, ReadLinkedSitemap, ExpandLinks,
             WriteEvidence, WriteRecord, Settle, ClearQueue, ClearSeen,
             ClearMeta, EndRun, Finish, Pause, Resume, Stop, WorkerEnds, Crash,
             ResumeSaved, ForgetMemory
    <3> QED BY <3>1
  <2> QED BY <2>2, <2>3
<1> QED BY <1>1, Invariance, PTL DEF Spec, NeverRefetched

(* Where the saved frontier is written, the step is one of the ledger's.   *)
LEMMA BeginRefines ==
  ASSUME IInv, Begin
  PROVE  Ledger!Next
<1>1. pc = "startup" /\ dQueue' = queue' /\ dSeen' = seen'
  BY DEF Begin, SaveFrontier
<1>2. CASE dSeen = {} /\ dQueue = <<>> /\ \E q \in Seeds : queue' = q /\ seen' = Range(q)
  <2>1. PICK q \in Seeds : dQueue' = q /\ dSeen' = Range(q)
    BY <1>1, <1>2
  <2>2. Range(q) \in SUBSET Urls
    BY SeedsRange, RangeDef DEF IInv, TypeOK
  <2>3. Ledger!Seed(Range(q))
    BY <1>2, <2>1 DEF Ledger!Seed
  <2> QED BY <2>2, <2>3 DEF Ledger!Next
<1>3. CASE ~(dSeen = {} /\ dQueue = <<>>)
  <2>1. PICK q \in Restored : dQueue' = q
    BY <1>1, <1>3 DEF Begin
  <2>2. Kept \subseteq Range(dQueue) /\ Kept \in SUBSET Urls
    BY RangeDef DEF Kept, IInv, TypeOK
  <2>3. Range(dQueue') = Kept
    BY <2>1, <2>2, ArrangementsRange DEF Restored
  <2>4. dSeen' = dSeen \ (Range(dQueue) \ Kept)
    BY <1>1, <1>3 DEF Begin
  <2>5. Ledger!Narrow(Range(dQueue) \ Kept)
    BY <2>2, <2>3, <2>4 DEF Ledger!Narrow
  <2> QED BY <2>5 DEF Ledger!Next
<1> QED BY <1>2, <1>3 DEF Begin

(* A failed URL is settled and led to nothing.                              *)
LEMMA JoinErrorRefines ==
  ASSUME IInv, NEW u \in Urls, JoinError(u)
  PROVE  Ledger!Next
<1>1. u \in Range(dQueue) /\ dQueue \in Seq(Urls) /\ IsInjective(dQueue)
  BY DEF IInv, TypeOK, InFlightIsSaved, Live, JoinError, Join
<1>2. /\ Without(dQueue, u) \in Seq(Urls)
      /\ Range(Without(dQueue, u)) = Range(dQueue) \ {u}
  BY <1>1, WithoutRange
<1>3. Without(dQueue, u) \o <<>> = Without(dQueue, u) /\ Range(<<>>) = {}
  BY <1>2, ConcatEmptySeq, EmptyRange
<1>4. Range(dQueue') = Range(dQueue) \ {u} /\ dSeen' = dSeen
  BY <1>2, <1>3 DEF JoinError, UpdateFrontier
<1>5. Ledger!Settle(u, {})
  BY <1>1, <1>4 DEF Ledger!Settle
<1> QED BY <1>1, <1>5 DEF Ledger!Next

(* A recorded page is settled together with what it led to.                *)
LEMMA SettleRefines ==
  ASSUME IInv, Settle
  PROVE  Ledger!Next
<1>1. /\ cur \in Range(dQueue)
      /\ queue \in Seq(Urls)
      /\ dQueue \in Seq(Urls) /\ IsInjective(dQueue)
      /\ previousQueueLen \in 0..Len(queue)
      /\ Range(Fresh) \cap dSeen = {}
  BY DEF IInv, TypeOK, InFlightIsSaved, Memory, Working, Held, Unsaved,
         OnPage, Settle
<1>2. Fresh \in Seq(Urls) /\ Range(Fresh) \in SUBSET Urls
  BY <1>1, SuffixRange, RangeDef DEF Fresh
<1>3. /\ Without(dQueue, cur) \in Seq(Urls)
      /\ Range(Without(dQueue, cur)) = Range(dQueue) \ {cur}
  BY <1>1, WithoutRange
<1>4. /\ Range(dQueue') = (Range(dQueue) \ {cur}) \cup Range(Fresh)
      /\ dSeen' = dSeen \cup Range(Fresh)
  BY <1>2, <1>3, ConcatRange DEF Settle, UpdateFrontier
<1>5. Ledger!Settle(cur, Range(Fresh))
  BY <1>1, <1>4 DEF Ledger!Settle
<1> QED BY <1>1, <1>2, <1>5 DEF Ledger!Next

(* The last checkpoint of a stopped run adds what its last page led to.    *)
LEMMA FinishRefines ==
  ASSUME IInv, Finish
  PROVE  Ledger!Next \/ UNCHANGED frontier
<1>1. CASE ~needsCheckpoint
  BY <1>1 DEF Finish
<1>2. CASE needsCheckpoint
  <2> DEFINE new == seen \ dSeen
  <2>1. PICK a \in Arrangements(active) : dQueue' = a \o queue /\ dSeen' = seen
    BY <1>2 DEF Finish, SavedQueues, SaveFrontier
  <2>2. active \in SUBSET Urls /\ queue \in Seq(Urls) /\ seen \in SUBSET Urls
    BY DEF IInv, TypeOK
  <2>3. Range(dQueue') = active \cup Range(queue)
    BY <2>1, <2>2, ArrangementsRange, ConcatRange
  <2>4. /\ seen = Range(queue) \cup active \cup Settled
        /\ (Range(queue) \cup active) \cap Settled = {}
        /\ dSeen = Range(dQueue) \cup Settled
        /\ Range(dQueue) \cap Settled = {}
        /\ dSeen \subseteq seen
        /\ active # {} /\ active \subseteq Range(dQueue)
    BY <1>2 DEF IInv, InFlightIsSaved, Books, Balanced, Memory, Working, Held,
                Unsaved, Finish
  <2>5. Range(dQueue') = Range(dQueue) \cup new /\ dSeen' = dSeen \cup new
    BY <2>1, <2>3, <2>4
  <2>6. Ledger!Grow(new)
    BY <2>4, <2>5 DEF Ledger!Grow
  <2> QED BY <2>2, <2>6 DEF Ledger!Next
<1> QED BY <1>1, <1>2

(* The frontier is deleted only when nothing is pending.                   *)
LEMMA ClearRefines ==
  ASSUME IInv, ClearQueue \/ ClearSeen
  PROVE  Ledger!Next \/ UNCHANGED <<Range(dQueue), dSeen>>
<1>1. Range(<<>>) = {}
  BY EmptyRange
<1>2. CASE ClearQueue
  <2>1. seen = Settled /\ dSeen = seen
    BY <1>1, <1>2 DEF ClearQueue, AllDone, IInv, Memory, Working, Held, Unsaved
  <2>2. Range(dQueue) = {}
    BY <1>2, <2>1 DEF ClearQueue, IInv, Books, Balanced
  <2> QED BY <1>1, <1>2, <2>2 DEF ClearQueue
<1>3. CASE ClearSeen
  <2>1. dQueue = <<>> /\ dQueue' = dQueue /\ dSeen' = {}
    BY <1>3 DEF ClearSeen, IInv, Books
  <2>2. Ledger!Close
    BY <1>1, <2>1 DEF Ledger!Close
  <2> QED BY <2>2 DEF Ledger!Next
<1> QED BY <1>2, <1>3

(* The saved frontier behaves as the ledger promises, across every crash,  *)
(* stop and resume.                                                        *)
THEOREM Refinement == Spec => LedgerSpec
<1>1. Init => Ledger!Init
  BY EmptyRange DEF Init, Ledger!Init
<1>2. IInv /\ [Next]_vars => [Ledger!Next]_(Ledger!vars)
  <2> SUFFICES ASSUME IInv, [Next]_vars
               PROVE  Ledger!Next \/ UNCHANGED <<Range(dQueue), dSeen>>
    BY DEF Ledger!vars
  <2>1. CASE Begin
    BY <2>1, BeginRefines
  <2>2. CASE \E u \in Urls : JoinError(u)
    BY <2>2, JoinErrorRefines
  <2>3. CASE Settle
    BY <2>3, SettleRefines
  <2>4. CASE Finish
    BY <2>4, FinishRefines DEF frontier
  <2>5. CASE ClearQueue \/ ClearSeen
    BY <2>5, ClearRefines
  <2>6. CASE UNCHANGED vars
    BY <2>6 DEF vars, frontier
  <2>7. CASE /\ Next
             /\ ~(Begin \/ Settle \/ Finish \/ ClearQueue \/ ClearSeen)
             /\ ~\E u \in Urls : JoinError(u)
    BY <2>7
       DEF Next, Startup, Loop, Page, Ending, User, StopDuringStartup,
           FailStartup, EnterDispatch, Dispatch, EndDispatch, ObserveStop,
           JoinPanic, JoinOk, Join, ReadLinkedSitemap, ExpandLinks,
           WriteEvidence, WriteRecord, ClearMeta, EndRun, Pause, Resume, Stop,
           WorkerEnds, Crash, ResumeSaved, ForgetMemory, frontier
  <2> QED BY <2>1, <2>2, <2>3, <2>4, <2>5, <2>6, <2>7
<1> QED BY <1>1, <1>2, Invariance, PTL DEF Spec, LedgerSpec, Ledger!Spec
-----------------------------------------------------------------------------
(* The limits of a crawl, what it leaves when it ends, and what it does    *)
(* with the links of a page.  These rest on the invariant above; each adds *)
(* what it needs about the point the scheduler is at: Counted, Leaving,    *)
(* Written and Discovery.                                                  *)


(* The page in hand will count, so that it keeps its place under the limit *)
(* between the end of its worker and its record.                           *)
PageInHand == IF pc \in {"discover", "evidence", "record"} THEN 1 ELSE 0

Counted ==
  /\ Cardinality(Live) <= Concurrency
  /\ crawled + Cardinality(Live) + PageInHand <= MaxUrls
  /\ Cardinality(done) <= MaxUrls
  /\ mode = "spider" => Cardinality(seen \cup dSeen) <= MaxUrls

(* Why the loop ended, and what the end of a run leaves.                   *)
Leaving ==
  /\ pc = "startup" => seen = {} /\ status = "starting"
  /\ Working /\ ~(pc = "finish" /\ cancelled) =>
       active \subseteq Live \cup panicked
                           \cup (IF pc = "discover" THEN {cur} ELSE {})
  /\ pc = "finish" => cancelled \/ (Live = {} /\ (queue = <<>> \/ crawled >= MaxUrls))
  /\ pc \in {"clearSeen", "clearMeta"} =>
       status = "finished" /\ queue = <<>> /\ active = {} /\ dQueue = <<>>
  /\ ResumeIsExact
  /\ FinishedIsComplete

(* How often the evidence of a page was written.                           *)
Written ==
  \A u \in Urls :
    /\ evidence[u] <= 1 + crashes
    /\ u \in done => evidence[u] >= 1
    /\ pc \in {"record", "settle"} /\ u = cur => evidence[u] >= 1
    /\ (u \notin done /\ ~(pc \in {"record", "settle"} /\ u = cur)) =>
         evidence[u] <= crashes

(* The links of a page that every scope admits.                            *)
Certain(u) == {v \in Links[u] : \A s \in Scopes : v \in s}

(* The links of the page in hand are in memory once they were looked at,   *)
(* those of a settled page are saved.                                      *)
Discovery ==
  MaxLinksPerPage = 0 /\ Cardinality(Urls) < MaxUrls =>
    /\ pc \in {"evidence", "record", "settle"} /\ Expands(cur) =>
         Certain(cur) \subseteq seen
    /\ dSeen # {} => \A u \in done : Expands(u) => Certain(u) \subseteq dSeen
-----------------------------------------------------------------------------
(* Sizes.                                                                  *)

(* Live and the other sets of keys are finite.                             *)
LEMMA Sizes ==
  ASSUME IInv
  PROVE  /\ IsFiniteSet(Live) /\ Cardinality(Live) \in Nat
         /\ IsFiniteSet(done) /\ Cardinality(done) \in Nat
         /\ IsFiniteSet(seen \cup dSeen) /\ Cardinality(seen \cup dSeen) \in Nat
<1>1. Live \in SUBSET Urls /\ done \in SUBSET Urls /\ seen \cup dSeen \in SUBSET Urls
  BY DEF Live, IInv, TypeOK
<1> QED
  BY <1>1, FiniteKeys

(* A sequence without repetition over S of at most n entries names at most *)
(* n keys, and all of S when it is as long as S is large.                  *)
LEMMA InjectionSize ==
  ASSUME NEW S \in SUBSET Urls, NEW n \in Nat, NEW q \in [1..n -> S], IsInjective(q)
  PROVE  /\ Range(q) \in SUBSET S
         /\ Cardinality(Range(q)) <= n
         /\ n = Cardinality(S) => Range(q) = S
<1>1. DOMAIN q = 1..n /\ Range(q) = {q[i] : i \in 1..n}
  BY DEF Range
<1>2. Range(q) \in SUBSET S
  BY <1>1
<1>3. IsFiniteSet(1..n) /\ Cardinality(1..n) = n
  BY FS_Interval
<1>4. q \in Surjection(1..n, Range(q))
  BY <1>1 DEF Surjection
<1>5. Cardinality(Range(q)) <= n
  BY <1>3, <1>4, FS_Surjection
<1>6. ASSUME n = Cardinality(S) PROVE Range(q) = S
  <2>1. q \in Injection(1..n, S)
    BY <1>1 DEF Injection, IsInjective
  <2>2. IsFiniteSet(S)
    BY FiniteKeys
  <2>3. q \in Surjection(1..n, S)
    BY <1>3, <1>6, <2>1, <2>2, FS_Injection
  <2> QED
    BY <1>1, <2>3 DEF Surjection
<1> QED
  BY <1>2, <1>5, <1>6

(* What a discovery admits fits into the room there is, and is all that is *)
(* new when there is room for more.                                        *)
LEMMA AdmissionsSize ==
  ASSUME NEW S \in SUBSET Urls, NEW limit \in Nat, NEW q \in Admissions(S, limit)
  PROVE  /\ Range(q) \in SUBSET (S \ seen)
         /\ Cardinality(Range(q)) <= limit
         /\ Cardinality(S \ seen) <= limit => Range(q) = S \ seen
<1> DEFINE fresh == S \ seen
           n == Smaller(Cardinality(fresh), limit)
<1>1. Cardinality(fresh) \in Nat /\ fresh \in SUBSET Urls
  BY FiniteKeys
<1>2. n \in Nat /\ n <= limit /\ (Cardinality(fresh) <= limit => n = Cardinality(fresh))
  BY <1>1 DEF Smaller
<1>3. q \in [1..n -> fresh] /\ IsInjective(q)
  BY DEF Admissions
<1> HIDE DEF n
<1>4. /\ Range(q) \in SUBSET fresh
      /\ Cardinality(Range(q)) <= n
      /\ n = Cardinality(fresh) => Range(q) = fresh
  BY <1>1, <1>2, <1>3, InjectionSize
<1>5. Cardinality(Range(q)) \in Nat
  BY <1>1, <1>4, FiniteKeys
<1> QED
  BY <1>2, <1>4, <1>5

(* A subset of the known keys keeps the limit.                             *)
LEMMA FewerKeys ==
  ASSUME NEW S \in SUBSET Urls, NEW T \in SUBSET S
  PROVE  Cardinality(T) \in Nat /\ Cardinality(T) <= Cardinality(S)
BY FiniteKeys, FS_Subset, FS_CardinalityType

(* Filling the room that is left respects the limit.                       *)
LEMMA RoomFills ==
  ASSUME NEW S \in SUBSET Urls, Cardinality(S) <= MaxUrls,
         NEW T \in SUBSET Urls, Cardinality(T) <= Room(S)
  PROVE  Cardinality(S \cup T) <= MaxUrls
<1>1. /\ IsFiniteSet(S) /\ Cardinality(S) \in Nat
      /\ IsFiniteSet(T) /\ Cardinality(T) \in Nat
      /\ IsFiniteSet(S \cap T) /\ Cardinality(S \cap T) \in Nat
  BY FiniteKeys
<1>2. Cardinality(S \cup T) = Cardinality(S) + Cardinality(T) - Cardinality(S \cap T)
  BY <1>1, FS_Union
<1>3. Cardinality(T) <= MaxUrls - Cardinality(S)
  BY <1>1, ConfigAssumption DEF Room
<1> QED
  BY <1>1, <1>2, <1>3, ConfigAssumption
-----------------------------------------------------------------------------
(* The limits.                                                             *)

(* A step that starts and discovers nothing keeps the limits.              *)
LEMMA FewerKeeps ==
  ASSUME IInv, IInv', Counted, mode' = mode,
         Live' \subseteq Live, done' = done,
         crawled' <= crawled, PageInHand' <= PageInHand,
         seen' \cup dSeen' \subseteq seen \cup dSeen
  PROVE  Counted'
<1>1. /\ Live \in SUBSET Urls /\ Live' \in SUBSET Urls
      /\ crawled \in Nat /\ crawled' \in Nat
      /\ seen \cup dSeen \in SUBSET Urls
  BY DEF Live, IInv, TypeOK
<1>2. /\ Cardinality(Live') \in Nat /\ Cardinality(Live) \in Nat
      /\ Cardinality(Live') <= Cardinality(Live)
  BY <1>1, FewerKeys, FiniteKeys
<1>3. /\ Cardinality(seen' \cup dSeen') \in Nat /\ Cardinality(seen \cup dSeen) \in Nat
      /\ Cardinality(seen' \cup dSeen') <= Cardinality(seen \cup dSeen)
  BY <1>1, FewerKeys, FiniteKeys
<1>4. PageInHand \in 0..1 /\ PageInHand' \in 0..1
  BY DEF PageInHand
<1> QED
  BY <1>1, <1>2, <1>3, <1>4, ConfigAssumption DEF Counted

(* The seeds of a spider crawl respect the limit.                          *)
LEMMA SeedsFit ==
  ASSUME IInv, mode = "spider", NEW q \in Seeds
  PROVE  Cardinality(Range(q)) <= MaxUrls
<1> DEFINE listed == (SitemapSeeds \cap scope) \ {Root}
           n == Smaller(Cardinality(listed), Room({Root}))
<1>1. PICK r \in [1..n -> listed] : IsInjective(r) /\ q = <<Root>> \o r
  BY DEF Seeds
<1>2. listed \in SUBSET Urls /\ {Root} \in SUBSET Urls
  BY ConfigAssumption
<1>3. n \in Nat /\ n <= Room({Root})
  BY <1>2, FiniteKeys, RoomType DEF Smaller
<1> HIDE DEF n
<1>4. Range(r) \in SUBSET listed /\ Cardinality(Range(r)) <= n
  BY <1>1, <1>2, <1>3, InjectionSize
<1>5. r \in Seq(Urls)
  BY <1>1, <1>2, <1>3, FunIsSeq
<1>6. <<Root>> \in Seq(Urls) /\ Range(<<Root>>) = {Root} /\ IsInjective(<<Root>>)
  BY <1>2 DEF Range, IsInjective
<1>7. Range(q) = {Root} \cup Range(r)
  <2>1. /\ <<Root>> \o r \in Seq(Urls)
        /\ Range(<<Root>> \o r) = Range(<<Root>>) \cup Range(r)
    BY <1>5, <1>6, ConcatRange, ZenonT(60)
  <2> QED
    BY <1>1, <1>6, <2>1
<1>8. Cardinality(Range(r)) \in Nat /\ Range(r) \in SUBSET Urls
  BY <1>2, <1>4, FiniteKeys
<1>9. Cardinality(Range(r)) <= Room({Root})
  BY <1>2, <1>3, <1>4, <1>8, RoomType
<1>10. Cardinality({Root}) = 1
  BY FS_Singleton
<1> QED
  BY <1>2, <1>7, <1>8, <1>9, <1>10, RoomFills, ConfigAssumption

(* A new run starts from nothing or from what was saved.                   *)
LEMMA BeginCounts ==
  ASSUME IInv, IInv', Counted, mode' = mode, Begin
  PROVE  Counted'
<1>1. /\ pc = "startup" /\ pc' = "top" /\ Live' = Live /\ done' = done
      /\ dSeen' = seen' /\ seen' \in SUBSET Urls /\ crawled' \in Nat
  BY DEF Begin, SaveFrontier, Live, history, IInv, TypeOK
<1>2. Live = {} /\ Cardinality(Live) = 0
  BY <1>1, FS_EmptySet DEF IInv, Idle, Live
<1>3. PageInHand' = 0 /\ Cardinality(done) <= MaxUrls
  BY <1>1 DEF PageInHand, Counted
<1>4. CASE dSeen = {} /\ dQueue = <<>>
  <2>1. crawled' = 0
    BY <1>4 DEF Begin
  <2>2. mode = "spider" => Cardinality(seen' \cup dSeen') <= MaxUrls
    BY <1>1, <1>4, SeedsFit DEF Begin
  <2> QED
    BY <1>1, <1>2, <1>3, <2>1, <2>2, ConfigAssumption DEF Counted
<1>5. CASE ~(dSeen = {} /\ dQueue = <<>>)
  <2>1. crawled' = Cardinality(done) /\ seen' \cup dSeen' \subseteq seen \cup dSeen
    BY <1>1, <1>5 DEF Begin, IInv, Books, Balanced
  <2>2. seen \cup dSeen \in SUBSET Urls
    BY DEF IInv, TypeOK
  <2>3. mode = "spider" => Cardinality(seen' \cup dSeen') <= MaxUrls
    <3>1. /\ Cardinality(seen' \cup dSeen') \in Nat /\ Cardinality(seen \cup dSeen) \in Nat
          /\ Cardinality(seen' \cup dSeen') <= Cardinality(seen \cup dSeen)
      BY <2>1, <2>2, FewerKeys, FiniteKeys
    <3> QED
      BY <3>1, ConfigAssumption DEF Counted
  <2> QED
    BY <1>1, <1>2, <1>3, <2>1, <2>3, ConfigAssumption DEF Counted
<1> QED
  BY <1>4, <1>5

(* A dispatch checks both limits.                                          *)
LEMMA DispatchCounts ==
  ASSUME IInv, IInv', Counted, mode' = mode, Dispatch
  PROVE  Counted'
<1>1. /\ Live' \subseteq Live \cup {Head(queue)}
      /\ pc' = "dispatch" /\ UNCHANGED <<crawled, seen, dSeen, done>>
  BY DEF Dispatch, Live, loopVars, frontier, history, IInv, TypeOK
<1>2. IsFiniteSet(Live) /\ Cardinality(Live) \in Nat /\ crawled \in Nat
  BY Sizes DEF IInv, TypeOK
<1>3. /\ IsFiniteSet(Live \cup {Head(queue)})
      /\ Cardinality(Live \cup {Head(queue)}) <= Cardinality(Live) + 1
      /\ Cardinality(Live \cup {Head(queue)}) \in Nat
  <2>1. /\ IsFiniteSet(Live \cup {Head(queue)})
        /\ Cardinality(Live \cup {Head(queue)}) =
             IF Head(queue) \in Live THEN Cardinality(Live) ELSE Cardinality(Live) + 1
    BY <1>2, FS_AddElement
  <2> QED
    BY <1>2, <2>1
<1>4. Cardinality(Live') <= Cardinality(Live) + 1 /\ Cardinality(Live') \in Nat
  BY <1>1, <1>2, <1>3, FS_Subset, FS_CardinalityType
<1>5. Cardinality(Live) < Concurrency /\ crawled + Cardinality(Live) < MaxUrls
  BY DEF Dispatch, CanDispatch
<1>6. PageInHand' = 0
  BY <1>1 DEF PageInHand
<1> QED
  BY <1>1, <1>2, <1>4, <1>5, <1>6, ConfigAssumption DEF Counted

(* The worker of a page ends, the page keeps its place.                    *)
LEMMA JoinOkCounts ==
  ASSUME IInv, IInv', Counted, mode' = mode, NEW u \in Urls, JoinOk(u)
  PROVE  Counted'
<1>1. /\ u \in Live /\ Live' = Live \ {u} /\ pc = "select" /\ pc' = "discover"
      /\ UNCHANGED <<crawled, seen, dSeen, done>>
  BY DEF JoinOk, Join, Live, memoryVars, frontier, history, IInv, TypeOK
<1>2. IsFiniteSet(Live) /\ Cardinality(Live) \in Nat /\ crawled \in Nat
  BY Sizes DEF IInv, TypeOK
<1>3. Cardinality(Live') = Cardinality(Live) - 1
  BY <1>1, <1>2, FS_RemoveElement
<1>4. PageInHand = 0 /\ PageInHand' = 1
  BY <1>1 DEF PageInHand
<1> QED
  BY <1>1, <1>2, <1>3, <1>4, ConfigAssumption DEF Counted

(* A discovery fills at most the room there is.                            *)
LEMMA DiscoveryCounts ==
  ASSUME IInv, IInv', Counted, mode' = mode, pc = "discover",
         Live' = Live, done' = done, crawled' = crawled, dSeen' = dSeen,
         PageInHand' <= PageInHand,
         NEW S \in SUBSET Urls, NEW limit \in Nat, limit <= Room(seen),
         NEW q \in Admissions(S, limit), seen' = seen \cup Range(q)
  PROVE  Counted'
<1>1. /\ Range(q) \in SUBSET Urls /\ Cardinality(Range(q)) <= limit
      /\ Cardinality(Range(q)) \in Nat
  BY AdmissionsSize, FiniteKeys
<1>2. dSeen \subseteq seen /\ seen \in SUBSET Urls /\ crawled \in Nat
  BY DEF IInv, TypeOK, Unsaved, OnPage
<1>3. seen \cup dSeen = seen /\ seen' \cup dSeen' = seen \cup Range(q)
  BY <1>2
<1>4. mode = "spider" => Cardinality(seen' \cup dSeen') <= MaxUrls
  BY <1>1, <1>2, <1>3, RoomFills, RoomType DEF Counted
<1>5. PageInHand \in 0..1 /\ PageInHand' \in 0..1
  BY DEF PageInHand
<1> QED
  BY <1>2, <1>4, <1>5, Sizes, ConfigAssumption DEF Counted

(* So a linked sitemap does.                                               *)
LEMMA ReadLinkedSitemapCounts ==
  ASSUME IInv, IInv', Counted, mode' = mode, NEW m \in todo, ReadLinkedSitemap(m)
  PROVE  Counted'
<1>1. /\ pc = "discover" /\ pc' = pc /\ Live' = Live
      /\ UNCHANGED <<crawled, dSeen, done>> /\ PageInHand' = PageInHand
  BY DEF ReadLinkedSitemap, Live, loopVars, frontier, history, PageInHand
<1>2. /\ Listed[m] \cap scope \in SUBSET Urls /\ seen \in SUBSET Urls
      /\ Room(seen) \in Nat /\ crawled \in Nat
  BY ConfigAssumption, RoomType DEF IInv, TypeOK
<1>3. CASE UNCHANGED seen
  BY <1>1, <1>2, <1>3, FewerKeeps DEF PageInHand
<1>4. CASE \E q \in Admissions(Listed[m] \cap scope, Room(seen)) : Push(q, 0)
  <2>1. PICK q \in Admissions(Listed[m] \cap scope, Room(seen)) : Push(q, 0)
    BY <1>4
  <2>2. seen' = seen \cup Range(q) /\ Room(seen) <= Room(seen) /\ PageInHand' <= PageInHand
    BY <1>1, <1>2, <2>1 DEF Push, PageInHand
  <2> QED
    BY <1>1, <1>2, <2>1, <2>2, DiscoveryCounts
<1> QED
  BY <1>3, <1>4 DEF ReadLinkedSitemap

(* And the links of a page.                                                *)
LEMMA ExpandLinksCounts ==
  ASSUME IInv, IInv', Counted, mode' = mode, ExpandLinks
  PROVE  Counted'
<1> DEFINE limit == IF MaxLinksPerPage = 0 THEN Room(seen)
                    ELSE Smaller(Room(seen), MaxLinksPerPage)
<1>1. /\ pc = "discover" /\ pc' \in {"finish", "evidence"} /\ Live' = Live
      /\ UNCHANGED <<crawled, dSeen, done>> /\ PageInHand' <= PageInHand
  BY DEF ExpandLinks, Live, frontier, history, PageInHand
<1>2. cur \in Urls /\ seen \in SUBSET Urls /\ crawled \in Nat
  BY <1>1 DEF IInv, TypeOK, Memory, Working, OnPage
<1>3. /\ Links[cur] \cap scope \in SUBSET Urls
      /\ limit \in Nat /\ limit <= Room(seen)
  BY <1>2, ConfigAssumption, RoomType DEF Smaller
<1> HIDE DEF limit
<1>4. CASE UNCHANGED seen
  BY <1>1, <1>2, <1>4, FewerKeeps
<1>5. CASE \E q \in Admissions(Links[cur] \cap scope, limit) : Push(q, depth[cur] + 1)
  <2>1. PICK q \in Admissions(Links[cur] \cap scope, limit) : Push(q, depth[cur] + 1)
    BY <1>5
  <2>2. seen' = seen \cup Range(q)
    BY <2>1 DEF Push
  <2> QED
    BY <1>1, <1>3, <2>1, <2>2, DiscoveryCounts
<1> QED
  BY <1>4, <1>5 DEF ExpandLinks, limit

(* The page takes its place when it is recorded.                           *)
LEMMA WriteRecordCounts ==
  ASSUME IInv, IInv', Counted, mode' = mode, WriteRecord
  PROVE  Counted'
<1>1. /\ pc = "record" /\ pc' = "settle" /\ Live' = Live
      /\ UNCHANGED <<dSeen, seen, done>> /\ crawled' = crawled + 1
  BY DEF WriteRecord, Live, frontier, history
<1>2. PageInHand = 1 /\ PageInHand' = 0
  BY <1>1 DEF PageInHand
<1>3. crawled \in Nat /\ Cardinality(Live) \in Nat
  BY Sizes DEF IInv, TypeOK
<1>4. crawled' + Cardinality(Live') + PageInHand' <= MaxUrls
  BY <1>1, <1>2, <1>3, ConfigAssumption DEF Counted
<1> QED
  BY <1>1, <1>4 DEF Counted

(* It is done when it is settled.                                          *)
LEMMA SettleCounts ==
  ASSUME IInv, IInv', Counted, mode' = mode, Settle
  PROVE  Counted'
<1>1. /\ pc = "settle" /\ pc' = "top" /\ Live' = Live
      /\ UNCHANGED <<seen, crawled>> /\ done' = done \cup {cur}
      /\ dSeen' = dSeen \cup Range(Fresh)
  BY DEF Settle, UpdateFrontier, Live, memoryVars
<1>2. /\ crawled = Cardinality(done) + 1 /\ seen = dSeen \cup Range(Fresh)
      /\ crawled \in Nat
  BY <1>1 DEF IInv, TypeOK, Memory, Working, Unsaved, OnPage
<1>3. seen' \cup dSeen' = seen \cup dSeen
  BY <1>1, <1>2
<1>4. Cardinality(done') <= Cardinality(done) + 1 /\ Cardinality(done') \in Nat
  <2>1. IsFiniteSet(done) /\ Cardinality(done) \in Nat
    BY Sizes
  <2>2. Cardinality(done \cup {cur}) =
          IF cur \in done THEN Cardinality(done) ELSE Cardinality(done) + 1
    BY <2>1, FS_AddElement
  <2> QED
    BY <1>1, <2>1, <2>2
<1>5. PageInHand = 0 /\ PageInHand' = 0
  BY <1>1 DEF PageInHand
<1>6. crawled + Cardinality(Live) <= MaxUrls /\ Cardinality(Live) \in Nat
  BY <1>2, <1>5, Sizes DEF Counted
<1>7. Cardinality(done') <= MaxUrls
  BY <1>2, <1>4, <1>6, Sizes, ConfigAssumption
<1> QED
  BY <1>1, <1>2, <1>3, <1>5, <1>6, <1>7 DEF Counted

(* Every step keeps the limits.                                            *)
LEMMA CountedKeeps ==
  ASSUME IInv, IInv', Counted, [Next]_vars
  PROVE  Counted'
<1>1. CASE UNCHANGED vars
  BY <1>1 DEF vars, loopVars, memoryVars, frontier, history, Counted, Live, PageInHand
<1>2. CASE Next /\ (Begin \/ Dispatch \/ \E u \in Urls : JoinOk(u))
  BY <1>2, BeginCounts, DispatchCounts, JoinOkCounts DEF Next
<1>3. CASE Next /\ Page
  <2>1. mode' = mode
    BY <1>3 DEF Next
  <2>2. CASE WriteEvidence
    <3>1. /\ Live' = Live /\ UNCHANGED <<done, crawled, seen, dSeen>>
          /\ PageInHand' = PageInHand /\ crawled \in Nat
      BY <2>2 DEF WriteEvidence, Live, memoryVars, frontier, history, PageInHand, IInv, TypeOK
    <3> QED
      BY <2>1, <3>1, FewerKeeps DEF PageInHand
  <2> QED
    BY <1>3, <2>1, <2>2, ReadLinkedSitemapCounts, ExpandLinksCounts,
       WriteRecordCounts, SettleCounts DEF Page
<1>4. CASE Next /\ ~Begin /\ ~Dispatch /\ ~Page /\ ~(\E u \in Urls : JoinOk(u))
  <2>1. crawled \in Nat /\ tasks \in [Urls -> {"none", "running", "ok", "error", "panic"}]
    BY DEF IInv, TypeOK
  <2>2. /\ mode' = mode /\ done' = done
        /\ crawled' \in {crawled, 0} /\ PageInHand' <= PageInHand
    BY <1>4, <2>1
       DEF Next, Startup, Loop, Ending, User, StopDuringStartup, FailStartup,
           EnterDispatch, EndDispatch, ObserveStop, JoinPanic, JoinError, Join,
           ClearQueue, ClearSeen, ClearMeta, EndRun, Finish, Pause, Resume,
           Stop, WorkerEnds, Crash, ResumeSaved, ForgetMemory, loopVars,
           memoryVars, history, PageInHand
  <2>3. Live' \subseteq Live
    BY <1>4, <2>1
       DEF Next, Startup, Loop, Ending, User, StopDuringStartup, FailStartup,
           EnterDispatch, EndDispatch, ObserveStop, JoinPanic, JoinError, Join,
           ClearQueue, ClearSeen, ClearMeta, EndRun, Finish, Pause, Resume,
           Stop, WorkerEnds, Crash, ResumeSaved, ForgetMemory, Live
  <2>4. seen' \cup dSeen' \subseteq seen \cup dSeen
    BY <1>4, EmptyRange
       DEF Next, Startup, Loop, Ending, User, StopDuringStartup, FailStartup,
           EnterDispatch, EndDispatch, ObserveStop, JoinPanic, JoinError,
           ClearQueue, ClearSeen, ClearMeta, Finish, SaveFrontier,
           UpdateFrontier, Pause, Resume, Stop, WorkerEnds, Crash, ResumeSaved,
           ForgetMemory, memoryVars, frontier
  <2> QED
    BY <2>1, <2>2, <2>3, <2>4, FewerKeeps
<1> QED
  BY <1>1, <1>2, <1>3, <1>4
-----------------------------------------------------------------------------
(* How a run ends.                                                         *)

(* The last step of a run leaves what memory holds.                        *)
LEMMA FinishLeaves ==
  ASSUME IInv, IInv', Leaving, mode' = mode, Finish
  PROVE  Leaving'
<1>1. /\ pc = "finish" /\ pc' = "ended" /\ ~AllDone
      /\ UNCHANGED <<queue, seen, crawled, active, cancelled, panicked>>
      /\ status' = IF cancelled THEN "stopped" ELSE "finished"
  BY DEF Finish, EndRun, memoryVars, controlVars, history
<1>2. /\ seen = Range(queue) \cup active \cup Settled
      /\ (Range(queue) \cup active) \cap Settled = {}
      /\ crawled = Cardinality(done)
      /\ dSeen = Range(dQueue) \cup Settled
      /\ Range(dQueue) \cap Settled = {}
      /\ dCrawled = Cardinality(done)
      /\ active \in SUBSET Urls /\ queue \in Seq(Urls)
  <2>1. Memory /\ Balanced /\ TypeOK /\ Held = {} /\ Working
    BY <1>1 DEF IInv, Books, Held, Working
  <2>2. Cardinality(done) \in Nat
    BY Sizes
  <2>3. crawled = Cardinality(done)
    BY <1>1, <2>1, <2>2 DEF Memory
  <2> QED
    BY <2>1, <2>3 DEF Memory, Balanced, TypeOK
<1>3. /\ Range(dQueue') = Range(queue) \cup active
      /\ dSeen' = seen /\ dCrawled' = crawled
  <2>1. CASE needsCheckpoint
    <3>1. PICK a \in Arrangements(active) :
            dQueue' = a \o queue /\ dSeen' = seen /\ dCrawled' = crawled
      BY <2>1 DEF Finish, SavedQueues, SaveFrontier
    <3>2. a \in Seq(Urls) /\ Range(a) = active
      BY <1>2, <3>1, ArrangementsRange
    <3>3. Range(a \o queue) = Range(a) \cup Range(queue)
      BY <1>2, <3>2, ConcatRange
    <3> QED
      BY <3>1, <3>2, <3>3
  <2>2. CASE ~needsCheckpoint
    <3>1. seen = dSeen
      BY <1>1, <2>2 DEF IInv, Unsaved
    <3>2. dQueue' = dQueue /\ dSeen' = dSeen /\ dCrawled' = dCrawled
      BY <2>2 DEF Finish, frontier
    <3> QED
      BY <1>2, <3>1, <3>2
  <2> QED
    BY <2>1, <2>2
<1>4. ResumeIsExact'
  BY <1>1, <1>3 DEF ResumeIsExact
<1>5. FinishedIsComplete'
  <2> SUFFICES ASSUME ~cancelled, crawled < MaxUrls
               PROVE  Range(queue) \cup active \subseteq panicked
    BY <1>1, <1>3 DEF FinishedIsComplete
  <2>1. crawled \in Nat
    BY DEF IInv, TypeOK
  <2>2. Live = {} /\ queue = <<>>
    BY <1>1, <2>1, ConfigAssumption DEF Leaving
  <2>3. active \subseteq panicked
    BY <1>1, <2>2 DEF Leaving, Working
  <2> QED
    BY <2>2, <2>3, EmptyRange
<1> QED
  BY <1>1, <1>4, <1>5 DEF Leaving, Working

(* A finished crawl clears what it saved, and reports that nothing is left.*)
LEMMA ClearLeaves ==
  ASSUME IInv, IInv', Leaving, mode' = mode, ClearQueue \/ ClearSeen \/ ClearMeta
  PROVE  Leaving'
<1>1. CASE ClearQueue
  BY <1>1 DEF ClearQueue, AllDone, memoryVars, Leaving, Working, ResumeIsExact,
              FinishedIsComplete
<1>2. CASE ClearSeen
  BY <1>2 DEF ClearSeen, memoryVars, Leaving, Working, ResumeIsExact,
              FinishedIsComplete
<1>3. CASE ClearMeta
  <2>1. /\ pc' = "ended" /\ status' = "finished"
        /\ queue' = <<>> /\ active' = {} /\ dQueue' = <<>>
    BY <1>3 DEF ClearMeta, EndRun, memoryVars, Leaving
  <2> QED
    BY <2>1, EmptyRange DEF Leaving, Working, ResumeIsExact, FinishedIsComplete
<1> QED
  BY <1>1, <1>2, <1>3

(* The loop ends when nothing runs and nothing may start, or on a stop.    *)
LEMMA LoopLeaves ==
  ASSUME IInv, IInv', Leaving, mode' = mode, Loop
  PROVE  Leaving'
<1>1. /\ pc \in {"top", "dispatch", "select"}
      /\ tasks \in [Urls -> {"none", "running", "ok", "error", "panic"}]
      /\ active \in SUBSET Urls /\ crawled \in Nat
      /\ active \subseteq Live \cup panicked
  BY DEF Loop, EnterDispatch, Dispatch, EndDispatch, ObserveStop, JoinPanic,
         JoinError, JoinOk, Join, IInv, TypeOK, Leaving, Working
<1>2. CASE EnterDispatch \/ ObserveStop
  BY <1>1, <1>2 DEF EnterDispatch, ObserveStop, memoryVars, controlVars, history,
     Live, Leaving, Working, ResumeIsExact, FinishedIsComplete
<1>3. CASE Dispatch
  <2>1. Head(queue) \in Urls
    BY <1>3, TailRange, RangeDef DEF Dispatch, CanDispatch, IInv, TypeOK, InFlightIsSaved
  <2>2. /\ pc' = "dispatch" /\ active' = active \cup {Head(queue)}
        /\ Live' = Live \cup {Head(queue)} /\ panicked' = panicked
    BY <1>1, <1>3, <2>1 DEF Dispatch, Live, loopVars, history
  <2> QED
    BY <1>1, <2>2 DEF Leaving, Working, ResumeIsExact, FinishedIsComplete
<1>4. CASE EndDispatch
  <2>1. /\ pc' = IF Live = {} THEN "finish" ELSE "select"
        /\ UNCHANGED <<active, panicked, queue, crawled, cancelled>> /\ Live' = Live
    BY <1>4 DEF EndDispatch, Live, memoryVars, controlVars, history
  <2>2. Live = {} => queue = <<>> \/ crawled >= MaxUrls
    BY <1>1, <1>4, FS_EmptySet, ConfigAssumption DEF EndDispatch, CanDispatch
  <2> QED
    BY <1>1, <2>1, <2>2 DEF Leaving, Working, ResumeIsExact, FinishedIsComplete
<1>5. ASSUME NEW u \in Urls, JoinPanic(u) \/ JoinError(u) \/ JoinOk(u)
      PROVE  Leaving'
  <2>1. Live' = Live \ {u} /\ pc' \in {"top", "discover"}
    BY <1>1, <1>5 DEF JoinPanic, JoinError, JoinOk, Join, Live
  <2>2. CASE JoinPanic(u)
    BY <1>1, <2>1, <2>2 DEF JoinPanic, memoryVars, Leaving, Working,
       ResumeIsExact, FinishedIsComplete
  <2>3. CASE JoinError(u)
    BY <1>1, <2>1, <2>3 DEF JoinError, Leaving, Working, ResumeIsExact,
       FinishedIsComplete
  <2>4. CASE JoinOk(u)
    BY <1>1, <2>1, <2>4 DEF JoinOk, memoryVars, history, Leaving, Working,
       ResumeIsExact, FinishedIsComplete
  <2> QED
    BY <1>5, <2>2, <2>3, <2>4
<1> QED
  BY <1>2, <1>3, <1>4, <1>5 DEF Loop

(* A page keeps what is in flight; a cut-short discovery was stopped.      *)
LEMMA PageLeaves ==
  ASSUME IInv, IInv', Leaving, mode' = mode, Page
  PROVE  Leaving'
<1>1. CASE \E m \in todo : ReadLinkedSitemap(m)
  BY <1>1 DEF ReadLinkedSitemap, loopVars, history, Live, Leaving, Working,
     ResumeIsExact, FinishedIsComplete
<1>2. CASE ExpandLinks
  <2>1. /\ pc = "discover" /\ pc' = IF cancelled THEN "finish" ELSE "evidence"
        /\ active' = IF cancelled THEN active ELSE active \ {cur}
        /\ cancelled' = cancelled /\ panicked' = panicked /\ Live' = Live
    BY <1>2 DEF ExpandLinks, Live, controlVars, history
  <2>2. cur \in Live \cup panicked \/ pc' = "evidence" \/ cancelled
    BY <2>1
  <2>3. pc' = "evidence" => active' \subseteq Live' \cup panicked'
    BY <2>1 DEF Leaving, Working
  <2>4. pc' = "finish" => cancelled'
    BY <2>1
  <2> QED
    BY <2>1, <2>3, <2>4 DEF Leaving, Working, ResumeIsExact, FinishedIsComplete
<1>3. CASE WriteEvidence \/ WriteRecord \/ Settle
  BY <1>3 DEF WriteEvidence, WriteRecord, Settle, memoryVars, history, Live,
     Leaving, Working, ResumeIsExact, FinishedIsComplete
<1> QED
  BY <1>1, <1>2, <1>3 DEF Page

(* What happens outside of the loop.                                       *)
LEMMA OtherLeaves ==
  ASSUME IInv, IInv', Leaving, mode' = mode,
         Startup \/ User \/ Crash \/ ResumeSaved \/ (\E u \in Urls : WorkerEnds(u))
  PROVE  Leaving'
<1>1. CASE Begin
  <2>1. pc = "startup" /\ pc' = "top" /\ active' = active
    BY <1>1 DEF Begin
  <2>2. active = {}
    BY <2>1 DEF IInv, Idle
  <2> QED
    BY <2>1, <2>2 DEF Leaving, Working, ResumeIsExact, FinishedIsComplete
<1>2. CASE StopDuringStartup \/ FailStartup
  BY <1>2 DEF StopDuringStartup, FailStartup, memoryVars, Leaving, Working,
     ResumeIsExact, FinishedIsComplete
<1>3. CASE User
  BY <1>3 DEF User, Pause, Resume, Stop, Running, loopVars, memoryVars, pageVars, history,
     frontier, Live, Leaving, Working, ResumeIsExact, FinishedIsComplete
<1>4. CASE Crash \/ ResumeSaved
  BY <1>4 DEF Crash, ResumeSaved, ForgetMemory, Leaving, Working,
     ResumeIsExact, FinishedIsComplete
<1>5. CASE \E u \in Urls : WorkerEnds(u)
  <2>1. PICK u \in Urls : WorkerEnds(u)
    BY <1>5
  <2>2. /\ Live' = Live
        /\ UNCHANGED <<loopVars, memoryVars, pageVars, controlVars, frontier, history>>
    BY <2>1, SMTT(30) DEF WorkerEnds, Live, IInv, TypeOK
  <2> QED
    BY <2>2 DEF loopVars, memoryVars, pageVars, controlVars, frontier, history,
       Leaving, Working, ResumeIsExact, FinishedIsComplete
<1> QED
  BY <1>1, <1>2, <1>3, <1>4, <1>5 DEF Startup

(* Every step does.                                                        *)
LEMMA LeavingKeeps ==
  ASSUME IInv, IInv', Leaving, [Next]_vars
  PROVE  Leaving'
<1>1. CASE UNCHANGED vars
  BY <1>1 DEF vars, loopVars, memoryVars, pageVars, controlVars, frontier,
     history, Leaving, Working, Live, ResumeIsExact, FinishedIsComplete
<1>2. CASE Next
  BY <1>2, FinishLeaves, ClearLeaves, LoopLeaves, PageLeaves, OtherLeaves
     DEF Next, Ending
<1> QED
  BY <1>1, <1>2
-----------------------------------------------------------------------------
(* Evidence.                                                               *)

(* The page in hand is neither done nor failed.                            *)
LEMMA InHandIsOpen ==
  ASSUME IInv, pc \in {"evidence", "record", "settle"}
  PROVE  cur \in Urls /\ cur \notin done
BY DEF IInv, Memory, Working, OnPage, Held, Settled

(* A step that leaves evidence and pages alone keeps the bound.            *)
LEMMA SameEvidence ==
  ASSUME IInv, Written, done' = done, evidence' = evidence, crashes' = crashes,
         pc \notin {"record", "settle"}, pc' \notin {"record", "settle"}
  PROVE  Written'
BY DEF Written

(* Evidence is written once per attempt, and an attempt is only cut short  *)
(* between evidence and settlement by a crash.                             *)
LEMMA WrittenKeeps ==
  ASSUME IInv, IInv', Written, [Next]_vars
  PROVE  Written'
<1> USE DEF Written
<1>1. evidence \in [Urls -> Nat] /\ crashes \in Nat
  BY DEF IInv, TypeOK
<1>2. CASE WriteEvidence
  <2>1. /\ pc = "evidence" /\ pc' = "record" /\ cur' = cur
        /\ evidence' = [evidence EXCEPT ![cur] = @ + 1]
        /\ done' = done /\ crashes' = crashes
    BY <1>2 DEF WriteEvidence, pageVars, history, bounds
  <2>2. cur \in Urls /\ cur \notin done
    BY <2>1, InHandIsOpen
  <2> QED
    BY <1>1, <2>1, <2>2
<1>3. CASE WriteRecord
  BY <1>1, <1>3 DEF WriteRecord, pageVars, history, bounds
<1>4. CASE Settle
  <2>1. /\ pc = "settle" /\ pc' = "top" /\ evidence' = evidence
        /\ done' = done \cup {cur} /\ crashes' = crashes
    BY <1>4 DEF Settle, results, bounds
  <2>2. cur \in Urls /\ cur \notin done
    BY <2>1, InHandIsOpen
  <2> QED
    BY <1>1, <2>1, <2>2
<1>5. CASE Crash
  <2>1. /\ pc' = "off" /\ crashes' = crashes + 1
        /\ evidence' = evidence /\ done' = done
    BY <1>5 DEF Crash, ForgetMemory, results
  <2> QED
    BY <1>1, <2>1
<1>6. CASE User \/ (\E u \in Urls : WorkerEnds(u)) \/ UNCHANGED vars
  BY <1>6 DEF User, Pause, Resume, Stop, WorkerEnds, loopVars, pageVars,
     results, history, bounds, vars
<1>7. CASE Startup \/ Loop \/ Ending \/ ResumeSaved
  <2>1. done' = done /\ evidence' = evidence /\ crashes' = crashes
    BY <1>7 DEF Startup, Begin, StopDuringStartup, FailStartup, Loop,
       EnterDispatch, Dispatch, EndDispatch, ObserveStop, JoinPanic, JoinError,
       JoinOk, Ending, ClearQueue, ClearSeen, ClearMeta, Finish, ResumeSaved,
       ForgetMemory, results, history, bounds
  <2>2. pc \notin {"record", "settle"} /\ pc' \notin {"record", "settle"}
    BY <1>7 DEF Startup, Begin, StopDuringStartup, FailStartup, Loop,
       EnterDispatch, Dispatch, EndDispatch, ObserveStop, JoinPanic, JoinError,
       JoinOk, Join, Ending, ClearQueue, ClearSeen, ClearMeta, EndRun, Finish,
       ResumeSaved, Running, loopVars
  <2> QED
    BY <2>1, <2>2, SameEvidence
<1>8. CASE ExpandLinks \/ \E m \in todo : ReadLinkedSitemap(m)
  <2>1. /\ done' = done /\ evidence' = evidence /\ crashes' = crashes
        /\ pc \notin {"record", "settle"} /\ pc' \notin {"record", "settle"}
    BY <1>8 DEF ExpandLinks, ReadLinkedSitemap, loopVars, results, history, bounds
  <2> QED
    BY <2>1, SameEvidence
<1> QED
  BY <1>2, <1>3, <1>4, <1>5, <1>6, <1>7, <1>8 DEF Next, Page
-----------------------------------------------------------------------------
(* Links.                                                                  *)

(* Whether a page leads on is the same before and after a step when its    *)
(* depth is.                                                               *)
LEMMA SameExpansion ==
  ASSUME mode' = mode, NEW u, depth'[u] = depth[u]
  PROVE  Expands(u)' <=> Expands(u)
BY DEF Expands

(* Settled pages are saved as known until the frontier is cleared.         *)
LEMMA DoneIsKnown ==
  ASSUME IInv, dSeen # {}
  PROVE  done \subseteq dSeen
BY DEF IInv, Books, Balanced, Settled

(* Looking at the links of a page leaves none of them unknown when there   *)
(* is room for all of them.                                                *)
LEMMA LinksBecomeKnown ==
  ASSUME IInv, MaxLinksPerPage = 0, Cardinality(Urls) < MaxUrls,
         ExpandLinks, Expands(cur)
  PROVE  Certain(cur) \subseteq seen'
<1>1. /\ cur \in Urls /\ seen \in SUBSET Urls /\ scope \in Scopes
  BY DEF IInv, TypeOK, Memory, Working, OnPage, ExpandLinks
<1>2. PICK q \in Admissions(Links[cur] \cap scope, Room(seen)) :
        Push(q, depth[cur] + 1)
  BY DEF ExpandLinks
<1> DEFINE S == Links[cur] \cap scope
<1>3. S \in SUBSET Urls /\ Room(seen) \in Nat
  BY <1>1, ConfigAssumption, RoomType
<1>4. Cardinality(S \ seen) <= Room(seen)
  <2>1. /\ IsFiniteSet(Urls) /\ Cardinality(Urls) \in Nat
        /\ Cardinality(S \ seen) \in Nat /\ Cardinality(seen) \in Nat
        /\ IsFiniteSet(S \ seen) /\ IsFiniteSet(seen)
    BY <1>1, <1>3, FiniteKeys
  <2>2. (S \ seen) \cap seen = {} /\ (S \ seen) \cup seen \in SUBSET Urls
    BY <1>1, <1>3
  <2>3. Cardinality((S \ seen) \cup seen) = Cardinality(S \ seen) + Cardinality(seen)
    <3>1. Cardinality((S \ seen) \cap seen) = 0
      BY <2>2, FS_EmptySet
    <3>2. Cardinality((S \ seen) \cup seen) =
            Cardinality(S \ seen) + Cardinality(seen) - Cardinality((S \ seen) \cap seen)
      BY <2>1, FS_Union
    <3> QED
      BY <2>1, <3>1, <3>2
  <2>4. Cardinality((S \ seen) \cup seen) <= Cardinality(Urls)
    BY <2>1, <2>2, FS_Subset
  <2> QED
    BY <2>1, <2>3, <2>4, ConfigAssumption DEF Room
<1>5. Range(q) = S \ seen
  BY <1>2, <1>3, <1>4, AdmissionsSize
<1>6. seen' = seen \cup Range(q)
  BY <1>2 DEF Push
<1>7. Certain(cur) \subseteq S
  BY <1>1 DEF Certain
<1> QED
  BY <1>5, <1>6, <1>7

(* A discovery changes the depth of new keys only.                         *)
LEMMA PushKeepsDepth ==
  ASSUME IInv, NEW S \in SUBSET Urls, NEW limit \in Nat,
         NEW q \in Admissions(S, limit), NEW d, Push(q, d), NEW u \in seen
  PROVE  depth'[u] = depth[u]
<1>1. u \in Urls /\ u \notin Range(q)
  BY AdmissionsRange DEF IInv, TypeOK
<1> QED
  BY <1>1 DEF Push

(* A step that changes neither depths nor pages and saves no less keeps    *)
(* what is known.                                                          *)
LEMMA SameLinks ==
  ASSUME IInv, Discovery, mode' = mode, depth' = depth, done' = done,
         dSeen' = dSeen \/ dSeen' = {},
         \/ pc' \notin {"evidence", "record", "settle"}
         \/ /\ pc \in {"evidence", "record", "settle"}
            /\ cur' = cur /\ seen' = seen
  PROVE  Discovery'
BY DEF Discovery, Expands, Certain

(* Every step keeps what is known.                                         *)
LEMMA DiscoveryKeeps ==
  ASSUME IInv, IInv', Discovery, [Next]_vars
  PROVE  Discovery'
<1> SUFFICES ASSUME MaxLinksPerPage = 0, Cardinality(Urls) < MaxUrls
             PROVE  /\ (pc \in {"evidence", "record", "settle"} /\ Expands(cur))' =>
                         (Certain(cur) \subseteq seen)'
                    /\ (dSeen # {})' =>
                         (\A u \in done : Expands(u) => Certain(u) \subseteq dSeen)'
  BY DEF Discovery
<1>1. CASE Next /\ Begin
  <2>1. /\ pc = "startup" /\ pc' = "top" /\ done' = done /\ depth' = depth
        /\ dSeen' = seen' /\ mode' = mode
    BY <1>1 DEF Next, Begin, SaveFrontier, history
  <2>2. CASE dSeen = {} /\ dQueue = <<>>
    <3>1. done = {}
      BY <2>1, <2>2 DEF IInv, Books, Balanced, Settled
    <3> QED
      BY <2>1, <3>1
  <2>3. CASE ~(dSeen = {} /\ dQueue = <<>>)
    <3>1. dSeen' = dSeen \ (Range(dQueue) \ Kept)
      BY <1>1, <2>1, <2>3 DEF Begin
    <3>2. ASSUME NEW u \in done, Expands(u), dSeen # {}
          PROVE  Certain(u) \subseteq dSeen'
      <4>1. Certain(u) \subseteq dSeen
        BY <3>2 DEF Discovery
      <4>2. scope \in Scopes
        BY DEF IInv, TypeOK
      <4>3. Certain(u) \cap Range(dQueue) \subseteq Kept
        BY <4>2 DEF Certain, Kept
      <4> QED
        BY <3>1, <4>1, <4>3
    <3>3. \A u : Expands(u)' <=> Expands(u)
      BY <2>1 DEF Expands
    <3> QED
      BY <2>1, <3>1, <3>2, <3>3 DEF Certain
  <2> QED
    BY <2>2, <2>3
<1>2. CASE Next /\ \E m \in todo : ReadLinkedSitemap(m)
  <2>1. PICK m \in todo : ReadLinkedSitemap(m)
    BY <1>2
  <2>2. /\ pc = "discover" /\ pc' = pc /\ done' = done /\ dSeen' = dSeen /\ mode' = mode
    BY <1>2, <2>1 DEF Next, ReadLinkedSitemap, loopVars, history, frontier
  <2>3. /\ Listed[m] \cap scope \in SUBSET Urls /\ Room(seen) \in Nat
        /\ done \subseteq seen
    BY <2>1, <2>2, ConfigAssumption, RoomType DEF IInv, TypeOK, Memory, Working, Settled
  <2>4. \A u \in done : depth'[u] = depth[u]
    BY <2>1, <2>3, PushKeepsDepth DEF ReadLinkedSitemap
  <2>5. \A u \in done : Expands(u)' <=> Expands(u)
    BY <2>2, <2>4, SameExpansion
  <2> QED
    BY <2>2, <2>5 DEF Discovery, Certain
<1>3. CASE Next /\ ExpandLinks
  <2>1. /\ pc = "discover" /\ cur' = cur /\ done' = done /\ dSeen' = dSeen /\ mode' = mode
    BY <1>3 DEF Next, ExpandLinks, pageVars, history, frontier
  <2>2. done \subseteq seen /\ cur \in seen /\ cur \in Urls /\ seen \in SUBSET Urls
    BY <2>1 DEF IInv, TypeOK, Memory, Working, OnPage, Settled
  <2>3. \A u \in seen : depth'[u] = depth[u]
    <3>1. CASE Expands(cur)
      <4>1. Links[cur] \cap scope \in SUBSET Urls /\ Room(seen) \in Nat
        BY <2>2, ConfigAssumption, RoomType
      <4>2. PICK q \in Admissions(Links[cur] \cap scope, Room(seen)) :
              Push(q, depth[cur] + 1)
        BY <1>3, <3>1 DEF ExpandLinks
      <4> QED
        BY <4>1, <4>2, PushKeepsDepth
    <3>2. CASE ~Expands(cur)
      BY <1>3, <3>2 DEF ExpandLinks
    <3> QED
      BY <3>1, <3>2
  <2>4. \A u \in seen : Expands(u)' <=> Expands(u)
    BY <2>1, <2>3, SameExpansion
  <2>5. Expands(cur)' => Certain(cur) \subseteq seen'
    BY <1>3, <2>1, <2>2, <2>4, LinksBecomeKnown DEF Expands
  <2> QED
    BY <2>1, <2>2, <2>4, <2>5 DEF Discovery, Certain
<1>4. CASE Next /\ Settle
  <2>1. /\ pc = "settle" /\ pc' = "top" /\ done' = done \cup {cur} /\ depth' = depth
        /\ mode' = mode /\ dSeen' = dSeen \cup Range(Fresh) /\ seen' = seen
    BY <1>4 DEF Next, Settle, UpdateFrontier, memoryVars
  <2>2. dSeen' = seen /\ dSeen \subseteq seen
    BY <2>1 DEF IInv, Unsaved, OnPage
  <2>3. \A u : Expands(u)' <=> Expands(u)
    BY <2>1 DEF Expands
  <2>4. cur \in dSeen
    BY <2>1 DEF IInv, Memory, Working, Held, Books, Balanced
  <2> QED
    BY <2>1, <2>2, <2>3, <2>4 DEF Discovery, Certain
<1>5. CASE Next /\ Finish
  <2>1. /\ pc = "finish" /\ pc' = "ended" /\ done' = done /\ depth' = depth /\ mode' = mode
    BY <1>5 DEF Next, Finish, EndRun, memoryVars, history
  <2>2. dSeen \subseteq dSeen' /\ (dSeen' = dSeen \/ dSeen # {})
    BY <1>5, <2>1 DEF Finish, SaveFrontier, frontier, IInv, Unsaved, Books,
       Balanced, InFlightIsSaved
  <2>3. \A u : Expands(u)' <=> Expands(u)
    BY <2>1 DEF Expands
  <2> QED
    BY <2>1, <2>2, <2>3 DEF Discovery, Certain
<1>6. CASE Next /\ (Crash \/ ResumeSaved)
  <2>1. /\ pc' \in {"off", "startup"} /\ done' = done /\ dSeen' = dSeen /\ mode' = mode
        /\ \A u \in Urls : u \in dSeen => depth'[u] = depth[u]
    BY <1>6 DEF Next, Crash, ResumeSaved, ForgetMemory, frontier
  <2>2. dSeen # {} => \A u \in done : Expands(u)' <=> Expands(u)
    BY <2>1, DoneIsKnown, SameExpansion DEF IInv, TypeOK
  <2> QED
    BY <2>1, <2>2 DEF Discovery, Certain
<1>7. CASE UNCHANGED vars \/ (Next /\ ~Begin /\ ~Page /\ ~Finish /\ ~Crash /\ ~ResumeSaved)
  <2>1. /\ mode' = mode /\ depth' = depth /\ done' = done
        /\ dSeen' = dSeen \/ dSeen' = {}
    BY <1>7, EmptyRange DEF Next, vars, Startup, Loop, Ending, User, StopDuringStartup,
       FailStartup, EnterDispatch, Dispatch, EndDispatch, ObserveStop,
       JoinPanic, JoinError, JoinOk, ClearQueue, ClearSeen, ClearMeta, Pause,
       Resume, Stop, WorkerEnds, UpdateFrontier, memoryVars, history, frontier
  <2>2. \/ pc' \notin {"evidence", "record", "settle"}
        \/ /\ pc \in {"evidence", "record", "settle"}
           /\ cur' = cur /\ seen' = seen
    BY <1>7 DEF Next, vars, Startup, Loop, Ending, User, StopDuringStartup,
       FailStartup, EnterDispatch, Dispatch, EndDispatch, ObserveStop,
       JoinPanic, JoinError, JoinOk, ClearQueue, ClearSeen, ClearMeta, EndRun, Pause,
       Resume, Stop, WorkerEnds, loopVars, memoryVars, pageVars
  <2> QED
    BY <2>1, <2>2, SameLinks DEF Discovery
<1>8. CASE Next /\ (WriteEvidence \/ WriteRecord)
  <2>1. /\ mode' = mode /\ depth' = depth /\ done' = done /\ dSeen' = dSeen
        /\ pc \in {"evidence", "record", "settle"} /\ cur' = cur /\ seen' = seen
    BY <1>8 DEF Next, WriteEvidence, WriteRecord, memoryVars, pageVars, history, frontier
  <2> QED
    BY <2>1, SameLinks DEF Discovery
<1> QED
  BY <1>1, <1>2, <1>3, <1>4, <1>5, <1>6, <1>7, <1>8 DEF Page
-----------------------------------------------------------------------------
(* The theorems.                                                           *)

(* A new crawl has counted, left, written and discovered nothing.          *)
LEMMA CountsStart == Init => Counted /\ Leaving /\ Written /\ Discovery
<1> SUFFICES ASSUME Init PROVE Counted /\ Leaving /\ Written /\ Discovery
  OBVIOUS
<1>1. Live = {} /\ done = {} /\ seen \cup dSeen = {} /\ crawled = 0 /\ pc = "startup"
  BY DEF Init, Live
<1>2. Cardinality({}) = 0
  BY FS_EmptySet
<1>3. Counted
  <2>1. /\ Cardinality(Live) = 0 /\ Cardinality(done) = 0
        /\ Cardinality(seen \cup dSeen) = 0 /\ PageInHand = 0 /\ crawled = 0
    BY <1>1, <1>2 DEF PageInHand
  <2> QED
    BY <2>1, ConfigAssumption DEF Counted
<1>4. Leaving
  BY <1>1 DEF Init, Leaving, Working, ResumeIsExact, FinishedIsComplete
<1>5. Written
  BY ConfigAssumption DEF Init, Written
<1>6. Discovery
  BY <1>1 DEF Init, Discovery
<1> QED
  BY <1>3, <1>4, <1>5, <1>6

(* The limits of a crawl hold across stops, crashes and resumes, for every *)
(* site and every setting.                                                 *)
THEOREM LimitsAreKept == Spec => []LimitsHold
<1>1. IInv /\ Counted => LimitsHold
  <2> SUFFICES ASSUME IInv, Counted PROVE LimitsHold
    OBVIOUS
  <2>1. crawled \in Nat /\ Cardinality(Live) \in Nat /\ PageInHand \in 0..1
    BY Sizes DEF IInv, TypeOK, PageInHand
  <2> QED
    BY <2>1, ConfigAssumption DEF Counted, LimitsHold
<1>2. Init => Counted
  BY CountsStart
<1>3. IInv /\ IInv' /\ Counted /\ [Next]_vars => Counted'
  BY CountedKeeps
<1> QED
  BY <1>1, <1>2, <1>3, Invariance, PTL DEF Spec

(* What a run leaves is exactly what a resume finds.                       *)
THEOREM ResumesAreExact == Spec => []ResumeIsExact
<1>1. Leaving => ResumeIsExact
  BY DEF Leaving
<1>2. Init => Leaving
  BY CountsStart
<1>3. IInv /\ IInv' /\ Leaving /\ [Next]_vars => Leaving'
  BY LeavingKeeps
<1> QED
  BY <1>1, <1>2, <1>3, Invariance, PTL DEF Spec

(* A crawl reported as finished left nothing undone but what panicked.     *)
THEOREM FinishedMeansComplete == Spec => []FinishedIsComplete
<1>1. Leaving => FinishedIsComplete
  BY DEF Leaving
<1>2. Init => Leaving
  BY CountsStart
<1>3. IInv /\ IInv' /\ Leaving /\ [Next]_vars => Leaving'
  BY LeavingKeeps
<1> QED
  BY <1>1, <1>2, <1>3, Invariance, PTL DEF Spec

(* No link of a finished page is lost, and its evidence is written once    *)
(* unless the process died.                                                *)
THEOREM LinksAreFollowed == Spec => []LinksFollowed
<1>1. Written /\ Discovery => LinksFollowed
  BY DEF Written, Discovery, Certain, LinksFollowed, EvidenceBound
<1>2. Init => Written /\ Discovery
  BY CountsStart
<1>3. IInv /\ IInv' /\ Written /\ Discovery /\ [Next]_vars => Written' /\ Discovery'
  BY WrittenKeeps, DiscoveryKeeps
<1> QED
  BY <1>1, <1>2, <1>3, Invariance, PTL DEF Spec
=============================================================================
