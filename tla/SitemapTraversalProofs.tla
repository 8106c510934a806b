----------------------- MODULE SitemapTraversalProofs -----------------------
(***************************************************************************)
(* What the walk over sitemaps reads, for every site, every configuration  *)
(* and whatever fails: all that the bounds allow, each document once, and  *)
(* no more.                                                                *)
(*                                                                         *)
(* That nothing is skipped is seen at the end only.  On the way there,     *)
(* whatever a sitemap lists is a sitemap already, is queued, or is on the  *)
(* chain of redirects in hand (Reached), unless a bound, a failure or a    *)
(* Stop is on record.                                                      *)
(***************************************************************************)
EXTENDS SitemapTraversal, SeqLemmas, FiniteSetTheorems, TLAPS

Fetching == pc \in {"hop", "response"}

Busy == pc = "walk" \/ Fetching

(* The documents of the pending entries.                                   *)
Waiting(q) == {q[i].doc : i \in 1..Len(q)}

(* The documents of the fetch that is under way.                           *)
Chained == IF Fetching THEN redirects ELSE {}
InHand  == IF Fetching THEN redirects \cup {current} ELSE {}

Reached == sitemaps \cup Waiting(pending) \cup InHand

(* Where the function is, and what its locals then hold.                   *)
Placed ==
  /\ Fetching => current \in Docs
  /\ Busy => sources < Len(AllSources)
  /\ ~Busy => pending = <<>> /\ queued = {}

(* What was spent of the bounds.                                           *)
Spent ==
  /\ requests = [d \in Docs |-> IF d \in documents THEN 1 ELSE 0]
  /\ Cardinality(documents) <= config.maxDocuments
  /\ urlCount <= config.maxUrls
  /\ ~config.list => urlCount = Cardinality(urls)

(* The redirects followed so far lead to the document in hand, and those   *)
(* of a sitemap to a sitemap.                                              *)
Linked ==
  /\ sitemaps \subseteq documents
  /\ \A d \in sitemaps : redirect[d] # NoDoc => redirect[d] \in sitemaps
  /\ Chained \subseteq documents
  /\ pc = "response" => current \in redirects /\ current \notin sitemaps
  /\ \A d \in Chained : \/ pc = "response" /\ d = current
                        \/ redirect[d] # NoDoc /\ redirect[d] \in InHand

(* As long as nothing was cut off, nothing that was seen is forgotten.     *)
Remembered ==
  ~cut /\ ~failed /\ ~cancelled =>
    /\ documents \subseteq sitemaps \cup Chained
    /\ queued \subseteq Reached
    /\ \A d \in sitemaps : redirect[d] = NoDoc =>
         children[d] \subseteq Reached /\ (config.list \/ Entries[d] \subseteq urls)
    /\ Busy => AllSources[sources + 1] \in queued
    /\ \A i \in 1..sources : AllSources[i] \in sitemaps
    /\ pc = "done" => sources = Len(AllSources)

IInv == TypeOK /\ Placed /\ Spent /\ Linked /\ Remembered
-----------------------------------------------------------------------------
(* Helpers.                                                                *)

Item == [doc : Docs, depth : 0..MaxDepth]

(* What the configuration holds.                                           *)
LEMMA Configured ==
  ASSUME TypeOK
  PROVE  /\ config.maxDocuments \in Nat /\ config.maxUrls \in Nat
         /\ config.maxRedirects \in Nat /\ config.list \in BOOLEAN
         /\ config.explicit \in Seq(Docs) /\ config.others \in Seq(Docs)
         /\ AllSources \in Seq(Docs) /\ Len(AllSources) \in Nat
         /\ MaxDepth \in Nat
<1>1. config \in Config /\ MaxDepth \in Nat
  BY TraversalAssumption DEF TypeOK
<1>2. config.explicit \in Seq(Docs) /\ config.others \in Seq(Docs)
  BY <1>1 DEF Config
<1>3. AllSources \in Seq(Docs)
  BY <1>2, ConcatProperties DEF AllSources
<1>4. Len(AllSources) \in Nat
  BY <1>3, LenProperties
<1> QED
  BY <1>1, <1>2, <1>3, <1>4 DEF Config

(* Sets of documents and of pages are finite.                              *)
LEMMA FiniteDocs ==
  ASSUME NEW S, S \in SUBSET Docs \/ S \in SUBSET Pages
  PROVE  IsFiniteSet(S) /\ Cardinality(S) \in Nat
BY TraversalAssumption, FS_Subset, FS_CardinalityType

(* Taking the first entry leaves the others waiting.                       *)
LEMMA TakingOne ==
  ASSUME NEW q \in Seq(Item), q # <<>>
  PROVE  /\ Tail(q) \in Seq(Item) /\ Head(q) \in Item
         /\ Waiting(q) = Waiting(Tail(q)) \cup {Head(q).doc}
<1>1. /\ Head(q) = q[1] /\ Head(q) \in Item /\ Tail(q) \in Seq(Item)
      /\ Len(q) \in Nat /\ Len(q) > 0 /\ Len(Tail(q)) = Len(q) - 1
      /\ \A i \in 1..Len(Tail(q)) : Tail(q)[i] = q[i + 1]
  BY HeadTailProperties, LenProperties, EmptySeq
<1>2. Waiting(q) \subseteq Waiting(Tail(q)) \cup {Head(q).doc}
  <2> SUFFICES ASSUME NEW i \in 1..Len(q), i # 1
               PROVE  q[i].doc \in Waiting(Tail(q))
    BY <1>1 DEF Waiting
  <2>1. i - 1 \in 1..Len(Tail(q)) /\ (i - 1) + 1 = i
    BY <1>1
  <2>2. Tail(q)[i - 1] = q[i]
    BY <1>1, <2>1
  <2> QED
    BY <2>1, <2>2 DEF Waiting
<1>3. Waiting(Tail(q)) \subseteq Waiting(q)
  <2> SUFFICES ASSUME NEW i \in 1..Len(Tail(q))
               PROVE  Tail(q)[i].doc \in Waiting(q)
    BY DEF Waiting
  <2>1. i + 1 \in 1..Len(q) /\ Tail(q)[i] = q[i + 1]
    BY <1>1
  <2> QED
    BY <2>1 DEF Waiting
<1>4. Head(q).doc \in Waiting(q)
  BY <1>1 DEF Waiting
<1> QED
  BY <1>1, <1>2, <1>3, <1>4

(* Queueing more entries keeps those that wait and adds their documents.   *)
LEMMA QueueingMore ==
  ASSUME NEW q \in Seq(Item), NEW more \in SUBSET Docs, NEW order \in SetToSeqs(more),
         NEW deep \in 0..MaxDepth, deep < MaxDepth \/ more = {}
  PROVE  LET new == [i \in 1..Len(order) |-> [doc |-> order[i], depth |-> deep + 1]]
         IN  /\ q \o new \in Seq(Item)
             /\ Waiting(q \o new) = Waiting(q) \cup more
<1> DEFINE n == Cardinality(more)
           new == [i \in 1..Len(order) |-> [doc |-> order[i], depth |-> deep + 1]]
<1>1. IsFiniteSet(more) /\ n \in Nat
  BY FiniteDocs
<1>2. /\ order \in [1..n -> more]
      /\ \A i, j \in 1..n : i # j => order[i] # order[j]
  BY DEF SetToSeqs
<1>3. order \in Seq(Docs) /\ Len(order) = n
  BY <1>1, <1>2, FunIsSeq, LenProperties
<1>4. {order[i] : i \in 1..n} = more
  <2>1. order \in Injection(1..n, more)
    BY <1>2 DEF Injection, IsInjective
  <2>2. IsFiniteSet(1..n) /\ Cardinality(1..n) = n
    BY <1>1, FS_Interval
  <2>3. order \in Surjection(1..n, more)
    BY <1>1, <2>1, <2>2, FS_Injection
  <2> QED
    BY <1>2, <2>3 DEF Surjection
<1>5. new \in [1..n -> Item]
  <2>1. MaxDepth \in Nat
    BY TraversalAssumption
  <2>2. CASE more = {}
    <3>1. n = 0
      BY <2>2, FS_EmptySet
    <3> QED
      BY <1>3, <3>1
  <2>3. CASE deep < MaxDepth
    <3>1. deep + 1 \in 0..MaxDepth
      BY <2>1, <2>3
    <3> QED
      BY <1>2, <1>3, <3>1 DEF Item
  <2> QED
    BY <2>2, <2>3
<1>6. new \in Seq(Item) /\ Len(new) = n
  <2> HIDE DEF n, new
  <2>1. new \in Seq(Item) /\ DOMAIN new = 1..n
    BY <1>1, <1>5, FunIsSeq
  <2> QED
    BY <1>1, <2>1, LenProperties
<1>7. Waiting(new) = more
  BY <1>3, <1>4, <1>6 DEF Waiting
<1> HIDE DEF n, new
<1>8. Len(q) \in Nat
  BY LenProperties
<1>9. /\ q \o new \in Seq(Item) /\ Len(q \o new) = Len(q) + n
      /\ \A i \in 1..(Len(q) + n) :
           (q \o new)[i] = IF i <= Len(q) THEN q[i] ELSE new[i - Len(q)]
  BY <1>6, ConcatProperties
<1>10. Waiting(q \o new) \subseteq Waiting(q) \cup Waiting(new)
  <2> SUFFICES ASSUME NEW i \in 1..(Len(q) + n)
               PROVE  (q \o new)[i].doc \in Waiting(q) \cup Waiting(new)
    BY <1>9 DEF Waiting
  <2>1. CASE i <= Len(q)
    BY <1>8, <1>9, <2>1 DEF Waiting
  <2>2. CASE ~(i <= Len(q))
    <3>1. i - Len(q) \in 1..Len(new)
      BY <1>1, <1>6, <1>8, <2>2
    <3>2. (q \o new)[i] = new[i - Len(q)]
      BY <1>9, <2>2
    <3> QED
      BY <3>1, <3>2 DEF Waiting
  <2> QED
    BY <2>1, <2>2
<1>11. Waiting(q) \subseteq Waiting(q \o new)
  <2> SUFFICES ASSUME NEW i \in 1..Len(q)
               PROVE  q[i].doc \in Waiting(q \o new)
    BY DEF Waiting
  <2>1. i \in 1..(Len(q) + n) /\ (q \o new)[i] = q[i]
    BY <1>1, <1>8, <1>9
  <2> QED
    BY <1>9, <2>1 DEF Waiting
<1>12. Waiting(new) \subseteq Waiting(q \o new)
  <2> SUFFICES ASSUME NEW i \in 1..n
               PROVE  new[i].doc \in Waiting(q \o new)
    BY <1>6 DEF Waiting
  <2>1. /\ Len(q) + i \in 1..(Len(q) + n) /\ ~(Len(q) + i <= Len(q))
        /\ (Len(q) + i) - Len(q) = i
    BY <1>1, <1>8
  <2>2. (q \o new)[Len(q) + i] = new[i]
    BY <1>9, <2>1
  <2> QED
    BY <1>9, <2>1, <2>2 DEF Waiting
<1>13. Waiting(q \o new) = Waiting(q) \cup more
  BY <1>7, <1>10, <1>11, <1>12
<1> QED
  BY <1>9, <1>13 DEF new

(* Nothing waits in an empty queue.                                        *)
LEMMA NothingWaits == <<>> \in Seq(Item) /\ Waiting(<<>>) = {}
<1>1. <<>> \in Seq(Item) /\ Len(<<>>) = 0
  BY EmptySeq
<1> QED
  BY <1>1 DEF Waiting
-----------------------------------------------------------------------------
(* One lemma per action; its steps are the conjuncts of the invariant.     *)

(* A traversal begins with nothing read.                                   *)
LEMMA InitHolds == Init => IInv
<1> SUFFICES ASSUME Init PROVE IInv
  OBVIOUS
<1>1. /\ config \in Config /\ MaxDepth \in Nat
      /\ pc = "sources" /\ sources = 0 /\ pending = <<>> /\ queued = {}
      /\ documents = {} /\ sitemaps = {} /\ urls = {} /\ urlCount = 0
  BY TraversalAssumption DEF Init
<1>2. AllSources \in Seq(Docs) /\ Len(AllSources) \in Nat
  BY <1>1, ConcatProperties, LenProperties DEF AllSources, Config
<1>3. TypeOK
  <2>1. sources \in 0..Len(AllSources)
    BY <1>1, <1>2
  <2>2. pending \in Seq([doc : Docs, depth : 0..MaxDepth])
    BY <1>1, NothingWaits DEF Item
  <2>3. depth \in 0..MaxDepth /\ requests \in [Docs -> Nat]
    BY <1>1 DEF Init
  <2>4. /\ {documents, sitemaps, queued, redirects} \subseteq SUBSET Docs
        /\ urls \subseteq Pages /\ current \in Docs \cup {NoDoc}
    BY <1>1 DEF Init
  <2>5. /\ config \in Configs /\ redirect \in [Docs -> Docs \cup {NoDoc}]
        /\ children \in [Docs -> SUBSET Docs]
        /\ cancelled \in BOOLEAN /\ cut \in BOOLEAN /\ failed \in BOOLEAN
    BY DEF Init
  <2> QED
    BY <1>1, <2>1, <2>2, <2>3, <2>4, <2>5 DEF TypeOK
<1>4. Placed
  BY <1>1 DEF Placed, Fetching, Busy
<1>5. Spent
  BY <1>1, FS_EmptySet DEF Init, Spent, Config
<1>6. Linked
  BY <1>1 DEF Linked, Chained, Fetching
<1>7. Remembered
  BY <1>1 DEF Remembered, Busy, Fetching
<1> QED
  BY <1>3, <1>4, <1>5, <1>6, <1>7 DEF IInv

(* A Stop is on record.                                                    *)
LEMMA StopKeeps ==
  ASSUME IInv, Stop
  PROVE  IInv'
<1> USE DEF Stop, site, traversal, walk, fetch, history
<1>1. TypeOK'
  BY DEF IInv, TypeOK, AllSources
<1>2. Placed'
  BY DEF IInv, Placed, Fetching, Busy, AllSources
<1>3. Spent'
  BY DEF IInv, Spent
<1>4. Linked'
  BY DEF IInv, Linked, Chained, InHand, Fetching
<1>5. Remembered'
  BY DEF Remembered
<1> QED
  BY <1>1, <1>2, <1>3, <1>4, <1>5 DEF IInv

(* A source waits alone.                                                   *)
LEMMA BeginSourceKeeps ==
  ASSUME IInv, BeginSource
  PROVE  IInv'
<1> DEFINE source == AllSources[sources + 1]
           one == <<[doc |-> source, depth |-> 0]>>
<1> USE DEF site, traversal, fetch, history
<1>1. /\ pc = "sources" /\ pc' = "walk" /\ sources' = sources
      /\ sources < Len(AllSources) /\ pending' = one /\ queued' = {source}
  BY DEF BeginSource
<1>2. source \in Docs
  BY <1>1, Configured, ElementOfSeq DEF IInv, TypeOK
<1>3. one \in Seq(Item) /\ Waiting(one) = {source}
  <2>1. [doc |-> source, depth |-> 0] \in Item
    BY <1>2, Configured DEF Item, IInv
  <2> HIDE DEF source
  <2>2. one \in Seq(Item) /\ Len(one) = 1 /\ one[1].doc = source
    BY <2>1
  <2> QED
    BY <2>2 DEF Waiting
<1> HIDE DEF one, source
<1>4. TypeOK'
  <2>1. pending' \in Seq([doc : Docs, depth : 0..MaxDepth]) /\ queued' \subseteq Docs
    BY <1>1, <1>2, <1>3 DEF Item
  <2> QED
    BY <1>1, <2>1 DEF BeginSource, IInv, TypeOK, AllSources
<1>5. Placed'
  BY <1>1 DEF BeginSource, Placed, Fetching, Busy, AllSources
<1>6. Spent'
  BY DEF BeginSource, IInv, Spent
<1>7. Linked'
  BY <1>1 DEF BeginSource, IInv, Linked, Chained, Fetching
<1>8. Remembered'
  <2> SUFFICES ASSUME ~cut, ~failed, ~cancelled PROVE Remembered'
    BY DEF BeginSource, Remembered
  <2>1. /\ Reached = sitemaps /\ Chained = {} /\ Chained' = {} /\ AllSources' = AllSources
        /\ Reached' = sitemaps \cup {source}
    BY <1>1, <1>3, NothingWaits DEF BeginSource, IInv, Placed, Busy, Fetching,
       Chained, InHand, Reached, AllSources
  <2>2. AllSources'[sources' + 1] \in queued'
    BY <1>1, <2>1 DEF source
  <2> QED
    BY <1>1, <2>1, <2>2 DEF BeginSource, IInv, Remembered, Busy
<1> QED
  BY <1>4, <1>5, <1>6, <1>7, <1>8 DEF IInv

(* The end of the sources.                                                 *)
LEMMA SourcesDoneKeeps ==
  ASSUME IInv, SourcesDone
  PROVE  IInv'
<1> USE DEF SourcesDone, site, traversal, walk, fetch, history
<1>1. TypeOK'
  BY DEF IInv, TypeOK, AllSources
<1>2. Placed'
  BY DEF IInv, Placed, Fetching, Busy
<1>3. Spent'
  BY DEF IInv, Spent
<1>4. Linked'
  BY DEF IInv, Linked, Chained, InHand, Fetching
<1>5. Remembered'
  BY DEF IInv, Remembered, Busy, Fetching, Chained, InHand, Reached, AllSources
<1> QED
  BY <1>1, <1>2, <1>3, <1>4, <1>5 DEF IInv

(* What is taken from the queue is in hand.                                *)
LEMMA TakeKeeps ==
  ASSUME IInv, Take
  PROVE  IInv'
<1> USE DEF site, traversal, walk, fetch, history
<1>1. /\ pc = "walk" /\ pc' = "hop" /\ pending # <<>> /\ pending \in Seq(Item)
      /\ pending' = Tail(pending) /\ current' = Head(pending).doc
      /\ depth' = Head(pending).depth /\ redirects' = {}
  BY DEF Take, IInv, TypeOK, Item
<1>2. /\ pending' \in Seq(Item) /\ Head(pending) \in Item
      /\ Waiting(pending) = Waiting(pending') \cup {current'}
  BY <1>1, TakingOne
<1>3. current' \in Docs /\ depth' \in 0..MaxDepth
  BY <1>1, <1>2 DEF Item
<1>4. TypeOK'
  <2>1. pending' \in Seq([doc : Docs, depth : 0..MaxDepth])
    BY <1>2 DEF Item
  <2>2. /\ {documents', sitemaps', queued', redirects'} \subseteq SUBSET Docs
        /\ AllSources' = AllSources
    BY <1>1 DEF Take, IInv, TypeOK, AllSources
  <2> QED
    BY <1>1, <1>3, <2>1, <2>2 DEF Take, IInv, TypeOK
<1>5. Placed'
  BY <1>1, <1>3 DEF Take, IInv, Placed, Fetching, Busy, AllSources
<1>6. Spent'
  BY DEF Take, IInv, Spent
<1>7. Linked'
  BY <1>1 DEF Take, IInv, Linked, Chained, Fetching
<1>8. Remembered'
  <2>1. Reached' = Reached
    BY <1>1, <1>2 DEF Take, Reached, InHand, Fetching
  <2> QED
    BY <1>1, <2>1 DEF Take, IInv, Remembered, Busy, Fetching, Chained, AllSources
<1> QED
  BY <1>4, <1>5, <1>6, <1>7, <1>8 DEF IInv

(* A walk that no bound ended has read all that waited.                    *)
LEMMA WalkEndsKeeps ==
  ASSUME IInv, WalkEnds
  PROVE  IInv'
<1> USE DEF site, traversal, fetch
<1>1. /\ pc = "walk" /\ pc' = "sources" /\ pending' = <<>> /\ queued' = {}
      /\ sources' = sources + 1 /\ cut' = (cut \/ pending # <<>>)
      /\ cut \in BOOLEAN /\ sources \in Nat /\ sources < Len(AllSources)
  BY Configured DEF WalkEnds, IInv, TypeOK, Placed, Busy
<1>2. TypeOK'
  <2>1. pending' \in Seq([doc : Docs, depth : 0..MaxDepth])
    BY <1>1, NothingWaits DEF Item
  <2>2. sources' \in 0..Len(AllSources)
    BY <1>1, Configured DEF IInv
  <2>3. /\ {documents', sitemaps', queued', redirects'} \subseteq SUBSET Docs
        /\ AllSources' = AllSources /\ cut' \in BOOLEAN
    BY <1>1 DEF WalkEnds, IInv, TypeOK, AllSources
  <2> QED
    BY <1>1, <2>1, <2>2, <2>3 DEF WalkEnds, IInv, TypeOK
<1>3. Placed'
  BY <1>1 DEF Placed, Fetching, Busy
<1>4. Spent'
  BY DEF WalkEnds, IInv, Spent
<1>5. Linked'
  BY <1>1 DEF WalkEnds, IInv, Linked, Chained, Fetching
<1>6. Remembered'
  <2> SUFFICES ASSUME ~cut', ~failed', ~cancelled'
               PROVE  Remembered'
    BY DEF Remembered
  <2>1. ~cut /\ ~failed /\ ~cancelled /\ pending = <<>>
    BY <1>1 DEF WalkEnds
  <2>2. Reached = sitemaps /\ Chained = {} /\ Reached' = sitemaps /\ Chained' = {}
    BY <1>1, <2>1, NothingWaits DEF WalkEnds, Reached, InHand, Chained, Fetching
  <2>3. AllSources' = AllSources /\ AllSources[sources + 1] \in sitemaps
    BY <1>1, <2>1, <2>2 DEF WalkEnds, AllSources, IInv, Remembered, Busy
  <2>4. \A i \in 1..sources' : AllSources'[i] \in sitemaps'
    <3> SUFFICES ASSUME NEW i \in 1..(sources + 1) PROVE AllSources[i] \in sitemaps
      BY <1>1, <2>3 DEF WalkEnds
    <3>1. i \in 1..sources \/ i = sources + 1
      BY <1>1
    <3> QED
      BY <2>1, <2>3, <3>1 DEF IInv, Remembered
  <2>5. documents' \subseteq sitemaps' \cup Chained' /\ queued' \subseteq Reached'
    BY <1>1, <2>1, <2>2 DEF WalkEnds, IInv, Remembered
  <2>6. \A d \in sitemaps' : redirect'[d] = NoDoc =>
          children'[d] \subseteq Reached' /\ (config'.list \/ Entries[d] \subseteq urls')
    BY <2>1, <2>2 DEF WalkEnds, IInv, Remembered
  <2> QED
    BY <1>1, <2>4, <2>5, <2>6 DEF Remembered, Busy, Fetching
<1> QED
  BY <1>2, <1>3, <1>4, <1>5, <1>6 DEF IInv

(* A failure is on record; it never ends beyond the sources.               *)
LEMMA FailKeeps ==
  ASSUME IInv, Fail, Fetching
  PROVE  IInv'
<1> USE DEF Fail, site, traversal, walk, fetch
<1>1. /\ pc' \in {"walk", "done", "error", "sources"} /\ failed'
      /\ sources \in Nat /\ sources < Len(AllSources)
      /\ \/ pc' = "walk" /\ UNCHANGED <<sources, pending, queued>>
         \/ pc' # "walk" /\ sources' = sources + 1 /\ pending' = <<>> /\ queued' = {}
  BY Configured, SMTT(30) DEF IInv, TypeOK, Placed, Busy
<1>2. TypeOK'
  <2>1. pending' \in Seq([doc : Docs, depth : 0..MaxDepth])
    BY <1>1, NothingWaits DEF IInv, TypeOK, Item
  <2>2. sources' \in 0..Len(AllSources) /\ queued' \subseteq Docs
    BY <1>1, Configured DEF IInv, TypeOK
  <2> QED
    BY <1>1, <2>1, <2>2 DEF IInv, TypeOK, AllSources
<1>3. Placed'
  BY <1>1 DEF Placed, Fetching, Busy, AllSources
<1>4. Spent'
  BY DEF IInv, Spent
<1>5. Linked'
  BY <1>1 DEF IInv, Linked, Chained, Fetching
<1>6. Remembered'
  BY <1>1 DEF Remembered
<1> QED
  BY <1>2, <1>3, <1>4, <1>5, <1>6 DEF IInv

(* The redirects to a known sitemap become known, too.                     *)
LEMMA KnownSitemapKeeps ==
  ASSUME IInv, KnownSitemap
  PROVE  IInv'
<1> USE DEF site, walk, fetch, history
<1>1. /\ pc = "hop" /\ pc' = "walk" /\ current \in sitemaps /\ Fetching /\ ~Fetching'
      /\ sitemaps' = sitemaps \cup redirects \cup {current}
      /\ documents' = documents
  BY DEF KnownSitemap, Fetching
<1>2. redirects \subseteq Docs /\ current \in Docs
  BY <1>1 DEF IInv, TypeOK, Placed
<1>3. TypeOK'
  BY <1>1, <1>2, ZenonT(40) DEF KnownSitemap, IInv, TypeOK, AllSources
<1>4. Placed'
  BY <1>1 DEF KnownSitemap, IInv, Placed, Fetching, Busy, AllSources
<1>5. Spent'
  BY DEF KnownSitemap, IInv, Spent
<1>6. Linked'
  BY <1>1 DEF KnownSitemap, IInv, Linked, Chained, InHand, Fetching
<1>7. Remembered'
  <2>1. Reached' = Reached \cup sitemaps' /\ Reached \subseteq Reached'
    BY <1>1 DEF KnownSitemap, Reached, InHand
  <2>2. \A d \in redirects : redirect[d] # NoDoc
    BY <1>1 DEF IInv, Linked, Chained, Fetching
  <2> QED
    BY <1>1, <2>1, <2>2 DEF KnownSitemap, IInv, Remembered, Busy, Fetching,
       Chained, AllSources
<1> QED
  BY <1>3, <1>4, <1>5, <1>6, <1>7 DEF IInv

(* What was asked for and is no sitemap has failed, or a bound has cut it off.*)
LEMMA UnreadableKeeps ==
  ASSUME IInv, Unreadable
  PROVE  IInv'
<1> USE DEF site, traversal, walk, fetch
<1>1. /\ pc = "hop" /\ pc' = "walk" /\ current \notin redirects \cup sitemaps
      /\ cut' = (cut \/ current \notin documents) /\ cut \in BOOLEAN
  BY DEF Unreadable, IInv, TypeOK
<1>2. TypeOK'
  BY <1>1 DEF Unreadable, IInv, TypeOK, AllSources
<1>3. Placed'
  BY <1>1 DEF Unreadable, IInv, Placed, Fetching, Busy, AllSources
<1>4. Spent'
  BY DEF Unreadable, IInv, Spent
<1>5. Linked'
  BY <1>1 DEF Unreadable, IInv, Linked, Chained, Fetching
<1>6. Remembered'
  BY <1>1 DEF Unreadable, IInv, Remembered, Chained, Fetching
<1> QED
  BY <1>2, <1>3, <1>4, <1>5, <1>6 DEF IInv

(* A document is asked for once, within the bound.                         *)
LEMMA AskKeeps ==
  ASSUME IInv, Ask
  PROVE  IInv'
<1> USE DEF site, walk
<1>1. /\ pc = "hop" /\ pc' = "response" /\ current' = current
      /\ current \notin redirects \cup sitemaps /\ current \notin documents
      /\ redirects' = redirects \cup {current}
      /\ documents' = documents \cup {current}
      /\ sitemaps' = sitemaps /\ Fetching /\ Fetching'
  BY DEF Ask, Askable, Fetching
<1>2. current \in Docs /\ documents \subseteq Docs /\ redirects \subseteq Docs
  BY <1>1 DEF IInv, TypeOK, Placed
<1>3. TypeOK'
  <2>1. requests' \in [Docs -> Nat]
    <3>1. requests \in [Docs -> Nat] /\ requests' = [requests EXCEPT ![current] = @ + 1]
      BY DEF Ask, IInv, TypeOK
    <3> QED
      BY <1>2, <3>1
  <2> QED
    BY <1>1, <1>2, <2>1 DEF Ask, IInv, TypeOK, AllSources
<1>4. Placed'
  BY <1>1 DEF Ask, IInv, Placed, Fetching, Busy, AllSources
<1>5. Spent'
  <2>1. requests' = [d \in Docs |-> IF d \in documents' THEN 1 ELSE 0]
    BY <1>1, <1>2 DEF Ask, IInv, Spent
  <2>2. Cardinality(documents') <= config.maxDocuments
    <3>1. IsFiniteSet(documents) /\ Cardinality(documents) \in Nat
      BY <1>2, FiniteDocs
    <3>2. Cardinality(documents \cup {current}) = Cardinality(documents) + 1
      BY <1>1, <3>1, FS_AddElement
    <3>3. Cardinality(documents) < config.maxDocuments /\ config.maxDocuments \in Nat
      BY Configured DEF Ask, Askable, IInv
    <3> QED
      BY <1>1, <3>1, <3>2, <3>3
  <2> QED
    BY <2>1, <2>2 DEF Ask, IInv, Spent
<1>6. Linked'
  BY <1>1 DEF Ask, IInv, Linked, Chained, InHand
<1>7. Remembered'
  <2>1. Reached' = Reached /\ Chained' = Chained \cup {current}
    BY <1>1 DEF Ask, Reached, InHand, Chained
  <2> QED
    BY <1>1, <2>1 DEF Ask, IInv, Remembered, Busy, Fetching, AllSources
<1> QED
  BY <1>3, <1>4, <1>5, <1>6, <1>7 DEF IInv

(* A redirect leads on, or fails.                                          *)
LEMMA RedirectedKeeps ==
  ASSUME IInv, Redirected
  PROVE  IInv'
<1>1. CASE Fail
  BY <1>1, FailKeeps DEF Redirected, Fetching
<1>2. CASE ~Fail
  <2> USE DEF site, traversal, walk, history
  <2>1. /\ pc = "response" /\ pc' = "hop" /\ current' = redirect[current]
        /\ redirect[current] # NoDoc /\ redirects' = redirects /\ Fetching /\ Fetching'
        /\ UNCHANGED <<config, redirect, children, cancelled, sources, documents,
                       sitemaps, urls, urlCount, pending, queued, depth,
                       requests, cut, failed>>
    BY <1>2 DEF Redirected, Fetching
  <2>2. current \in Docs /\ current' \in Docs /\ current \in redirects
    BY <2>1 DEF IInv, TypeOK, Placed, Linked
  <2>3. TypeOK'
    BY <2>1, <2>2 DEF IInv, TypeOK, AllSources
  <2>4. Placed'
    BY <2>1, <2>2 DEF IInv, Placed, Fetching, Busy, AllSources
  <2>5. Spent'
    BY <2>1 DEF IInv, Spent
  <2>6. Linked'
    BY <2>1, <2>2 DEF IInv, Linked, Chained, InHand
  <2>7. Remembered'
    <3>1. Reached \subseteq Reached' /\ Chained' = Chained
      BY <2>1, <2>2 DEF Reached, InHand, Chained
    <3> QED
      BY <2>1, <3>1 DEF IInv, Remembered, Busy, Fetching, AllSources
  <2> QED
    BY <2>3, <2>4, <2>5, <2>6, <2>7 DEF IInv
<1> QED
  BY <1>1, <1>2

(* What a bound leaves of a set is a part of it, no larger than the room.  *)
LEMMA WithinBound ==
  ASSUME NEW s, s \in SUBSET Docs \/ s \in SUBSET Pages, NEW limit \in Nat,
         NEW used \in Nat, NEW t \in Within(s, limit, used)
  PROVE  /\ t \in SUBSET s
         /\ Cardinality(t) \in Nat
         /\ used <= limit => used + Cardinality(t) <= limit
<1>1. Cardinality(s) \in Nat
  BY FiniteDocs
<1>2. t \in SUBSET s
  BY DEF Within
<1>3. Cardinality(t) \in Nat
  BY <1>2, FiniteDocs
<1> QED
  BY <1>1, <1>2, <1>3 DEF Within

(* The entries of a sitemap are counted within the bound.                  *)
LEMMA TakingEntries ==
  ASSUME TypeOK, Spent, NEW listed \in SUBSET Pages, TakeEntries(listed)
  PROVE  /\ urls' \subseteq Pages /\ urls \subseteq urls' /\ urlCount' \in Nat
         /\ urlCount' <= config.maxUrls
         /\ ~config.list => urlCount' = Cardinality(urls')
<1>1. PICK taken \in Within(NewEntries(listed), config.maxUrls, urlCount) :
        /\ urls' = IF config.list THEN urls ELSE urls \cup taken
        /\ urlCount' = urlCount + Cardinality(taken)
  BY DEF TakeEntries
<1>2. /\ NewEntries(listed) \in SUBSET Pages
      /\ ~config.list => NewEntries(listed) \cap urls = {}
  BY DEF NewEntries
<1>3. /\ urls \in SUBSET Pages /\ urlCount \in Nat /\ config.maxUrls \in Nat
      /\ urlCount <= config.maxUrls
  BY Configured DEF TypeOK, Spent
<1>4. /\ taken \in SUBSET NewEntries(listed) /\ Cardinality(taken) \in Nat
      /\ urlCount + Cardinality(taken) <= config.maxUrls
  BY <1>1, <1>2, <1>3, WithinBound
<1>5. ASSUME ~config.list PROVE urlCount' = Cardinality(urls')
  <2>1. IsFiniteSet(urls) /\ IsFiniteSet(taken) /\ taken \cap urls = {} /\ urls \cap taken = {}
    BY <1>2, <1>3, <1>4, <1>5, FiniteDocs
  <2>2. Cardinality(urls \cap taken) = 0 /\ Cardinality(urls) \in Nat
    BY <1>3, <2>1, FS_EmptySet, FiniteDocs
  <2>3. Cardinality(urls \cup taken) =
          Cardinality(urls) + Cardinality(taken) - Cardinality(urls \cap taken)
    BY <2>1, FS_Union
  <2> QED
    BY <1>1, <1>4, <1>5, <2>2, <2>3 DEF Spent
<1> QED
  BY <1>1, <1>2, <1>3, <1>4, <1>5

(* The sitemaps an index lists are queued.                                 *)
LEMMA QueueingChildren ==
  ASSUME TypeOK, NEW listed \in SUBSET Docs, QueueChildren(listed)
  PROVE  /\ pending' \in Seq(Item) /\ queued \subseteq queued' /\ queued' \subseteq Docs
         /\ queued' \subseteq queued \cup Waiting(pending')
         /\ Waiting(pending) \subseteq Waiting(pending')
<1> DEFINE room == Len(pending) + Cardinality(documents)
<1>1. PICK more \in Within(NewChildren(listed), config.maxDocuments, room) :
        /\ \E order \in SetToSeqs(more) :
             pending' = pending \o
               [i \in 1..Len(order) |-> [doc |-> order[i], depth |-> depth + 1]]
        /\ queued' = queued \cup more
  BY DEF QueueChildren
<1>2. PICK order \in SetToSeqs(more) :
        pending' = pending \o
          [i \in 1..Len(order) |-> [doc |-> order[i], depth |-> depth + 1]]
  BY <1>1
<1>3. /\ pending \in Seq(Item) /\ Len(pending) \in Nat /\ depth \in 0..MaxDepth
      /\ documents \in SUBSET Docs /\ queued \in SUBSET Docs
  BY LenProperties DEF TypeOK, Item
<1>4. more \in SUBSET Docs /\ (depth < MaxDepth \/ more = {})
  <2>1. NewChildren(listed) \in SUBSET Docs /\ (depth >= MaxDepth => NewChildren(listed) = {})
    BY DEF NewChildren
  <2>2. more \in SUBSET NewChildren(listed)
    BY <1>1 DEF Within
  <2>3. MaxDepth \in Nat
    BY TraversalAssumption
  <2> QED
    BY <1>3, <2>1, <2>2, <2>3
<1>5. pending' \in Seq(Item) /\ Waiting(pending') = Waiting(pending) \cup more
  BY <1>2, <1>3, <1>4, QueueingMore
<1> QED
  BY <1>1, <1>3, <1>4, <1>5

(* A sitemap is read: what it lists is known, waits, or was cut off.       *)
LEMMA ReadKeeps ==
  ASSUME IInv, Read
  PROVE  IInv'
<1> USE DEF site, fetch
<1>1. /\ pc = "response" /\ pc' = "walk" /\ redirect[current] = NoDoc
      /\ sitemaps' = sitemaps \cup redirects /\ Fetching /\ ~Fetching'
      /\ UNCHANGED <<config, redirect, children, cancelled, sources, documents,
                     current, depth, redirects, requests, failed>>
  BY DEF Read, Fetching
<1>2. current \in Docs /\ current \in redirects /\ redirects \subseteq Docs
  BY <1>1 DEF IInv, TypeOK, Placed, Linked
<1>3. PICK entries \in Within(Entries[current], config.maxUrls, 0),
           listed \in Within(children[current], config.maxDocuments, 0) :
        /\ QueueChildren(listed) /\ TakeEntries(entries)
        /\ cut' = \/ cut
                  \/ ~(children[current] \subseteq documents \cup queued')
                  \/ ~config.list /\ ~(Entries[current] \subseteq urls')
                  \/ config.list /\ urlCount' < urlCount + Cardinality(Entries[current])
  BY DEF Read
<1>4. entries \in SUBSET Pages /\ listed \in SUBSET Docs /\ config.list \in BOOLEAN
  BY <1>2, <1>3, TraversalAssumption, Configured DEF Within, IInv, TypeOK
<1>5. /\ urls' \subseteq Pages /\ urls \subseteq urls' /\ urlCount' \in Nat
      /\ urlCount' <= config.maxUrls
      /\ ~config.list => urlCount' = Cardinality(urls')
  BY <1>3, <1>4, TakingEntries DEF IInv
<1>6. /\ pending' \in Seq(Item) /\ queued \subseteq queued' /\ queued' \subseteq Docs
      /\ queued' \subseteq queued \cup Waiting(pending')
      /\ Waiting(pending) \subseteq Waiting(pending')
  BY <1>3, <1>4, QueueingChildren DEF IInv
<1>7. cut' \in BOOLEAN /\ (~cut' => ~cut /\ children[current] \subseteq documents \cup queued'
                                  /\ (config.list \/ Entries[current] \subseteq urls'))
  BY <1>3, <1>4 DEF IInv, TypeOK
<1>8. TypeOK'
  BY <1>1, <1>2, <1>5, <1>6, <1>7 DEF IInv, TypeOK, AllSources, Item
<1>9. Placed'
  BY <1>1 DEF IInv, Placed, Fetching, Busy, AllSources
<1>10. Spent'
  BY <1>1, <1>5 DEF IInv, Spent
<1>11. Linked'
  BY <1>1, <1>2 DEF IInv, Linked, Chained, InHand
<1>12. Remembered'
  <2> SUFFICES ASSUME ~cut', ~failed', ~cancelled' PROVE Remembered'
    BY DEF Remembered
  <2>1. ~cut /\ ~failed /\ ~cancelled
    BY <1>1, <1>7
  <2>2. Reached \subseteq Reached' /\ sitemaps' \subseteq Reached' /\ Waiting(pending') \subseteq Reached'
    BY <1>1, <1>2, <1>6 DEF Reached, InHand
  <2>3. documents' \subseteq sitemaps'
    BY <1>1, <2>1 DEF IInv, Remembered, Chained
  <2>4. queued' \subseteq Reached'
    BY <1>6, <2>1, <2>2 DEF IInv, Remembered
  <2>5. \A d \in redirects : d = current \/ redirect[d] # NoDoc
    BY <1>1 DEF IInv, Linked, Chained
  <2>6. \A d \in sitemaps' : redirect'[d] = NoDoc =>
          children'[d] \subseteq Reached' /\ (config'.list \/ Entries[d] \subseteq urls')
    <3> SUFFICES ASSUME NEW d \in sitemaps \cup redirects, redirect[d] = NoDoc
                 PROVE  children[d] \subseteq Reached' /\ (config.list \/ Entries[d] \subseteq urls')
      BY <1>1
    <3>1. CASE d \in sitemaps
      BY <1>5, <2>1, <2>2, <3>1 DEF IInv, Remembered
    <3>2. CASE d = current
      BY <1>1, <1>7, <2>2, <2>3, <2>4, <3>2
    <3> QED
      BY <2>5, <3>1, <3>2
  <2>7. Busy /\ Busy' /\ AllSources' = AllSources
    BY <1>1 DEF Busy, AllSources
  <2>8. \A i \in 1..sources' : AllSources'[i] \in sitemaps'
    BY <1>1, <2>1, <2>7 DEF IInv, Remembered
  <2>9. AllSources'[sources' + 1] \in queued'
    BY <1>1, <1>6, <2>1, <2>7 DEF IInv, Remembered
  <2> QED
    BY <1>1, <2>3, <2>4, <2>6, <2>8, <2>9 DEF Remembered
<1> QED
  BY <1>8, <1>9, <1>10, <1>11, <1>12 DEF IInv

(* Every step keeps the invariant.                                         *)
LEMMA NextKeeps ==
  ASSUME IInv, [Next]_vars
  PROVE  IInv'
<1>1. CASE UNCHANGED vars
  <2>1. /\ UNCHANGED <<config, redirect, children, cancelled, pc, sources,
                       documents, sitemaps, urls, urlCount, pending, queued,
                       current, depth, redirects, requests, cut, failed>>
        /\ AllSources' = AllSources /\ Fetching' = Fetching
    BY <1>1 DEF vars, site, traversal, walk, fetch, history, AllSources, Fetching
  <2>2. Chained' = Chained /\ InHand' = InHand /\ Reached' = Reached /\ Busy' = Busy
    BY <2>1 DEF Chained, InHand, Reached, Busy
  <2>3. TypeOK'
    BY <2>1 DEF IInv, TypeOK
  <2>4. Placed' /\ Spent' /\ Linked'
    BY <2>1, <2>2 DEF IInv, Placed, Spent, Linked
  <2>5. Remembered'
    BY <2>1, <2>2 DEF IInv, Remembered
  <2> QED
    BY <2>3, <2>4, <2>5 DEF IInv
<1>2. CASE RedirectLoop \/ Refused
  BY <1>2, FailKeeps DEF RedirectLoop, Refused, Fetching
<1> QED
  BY <1>1, <1>2, BeginSourceKeeps, SourcesDoneKeeps, TakeKeeps, WalkEndsKeeps,
     KnownSitemapKeeps, UnreadableKeeps, AskKeeps, RedirectedKeeps, ReadKeeps,
     StopKeeps DEF Next, Step
-----------------------------------------------------------------------------
(* The theorems.                                                           *)

(* The invariant holds of every reachable state.                           *)
LEMMA InvariantHolds == Spec => []IInv
<1>1. Init => IInv
  BY InitHolds
<1>2. IInv /\ [Next]_vars => IInv'
  BY NextKeeps
<1> QED
  BY <1>1, <1>2, PTL DEF Spec

(* Every variable keeps its type; nothing deeper than the bound is queued. *)
THEOREM TypeCorrect == Spec => []TypeOK
<1>1. IInv => TypeOK
  BY DEF IInv
<1> QED
  BY <1>1, InvariantHolds, PTL

(* For every site and configuration a traversal reads all that its bounds  *)
(* allow, nothing twice and no more, and only what was read counts as a    *)
(* sitemap.                                                                *)
THEOREM TraversalReads == Spec => []ReadsWithinBudget
<1>1. ASSUME IInv PROVE WithinBudget
  <2>1. {d \in Docs : requests[d] > 0} = documents
    BY <1>1 DEF IInv, TypeOK, Spent
  <2>2. \A d \in Docs : requests[d] <= 1
    BY <1>1 DEF IInv, Spent
  <2> QED
    BY <1>1, <2>1, <2>2 DEF IInv, Spent, WithinBudget
<1>2. ASSUME IInv PROVE SitemapsAreRead
  <2>1. sitemaps \subseteq documents /\ documents \subseteq Docs
    BY <1>2 DEF IInv, TypeOK, Linked
  <2>2. \A d \in sitemaps : requests[d] = 1
    BY <1>2, <2>1 DEF IInv, Spent
  <2> QED
    BY <1>2, <2>2 DEF IInv, Linked, SitemapsAreRead
<1>3. ASSUME IInv PROVE NothingSkipped
  <2> SUFFICES ASSUME pc = "done", ~cut, ~failed, ~cancelled
               PROVE  /\ ToSet(AllSources) \subseteq sitemaps
                      /\ \A d \in sitemaps :
                           IF redirect[d] = NoDoc
                           THEN /\ children[d] \subseteq sitemaps
                                /\ config.list \/ Entries[d] \subseteq urls
                           ELSE redirect[d] \in sitemaps
    BY DEF NothingSkipped
  <2>1. Reached = sitemaps
    BY <1>3, NothingWaits DEF Reached, InHand, Fetching, IInv, Placed, Busy
  <2>2. \A i \in 1..Len(AllSources) : AllSources[i] \in sitemaps
    BY <1>3 DEF IInv, Remembered
  <2>3. DOMAIN AllSources = 1..Len(AllSources)
    BY <1>3, Configured, LenProperties DEF IInv
  <2>4. ToSet(AllSources) \subseteq sitemaps
    BY <2>2, <2>3 DEF ToSet
  <2> QED
    BY <1>3, <2>1, <2>4 DEF IInv, Remembered, Linked
<1>4. IInv => ReadsWithinBudget
  BY <1>1, <1>2, <1>3 DEF ReadsWithinBudget
<1> QED
  BY <1>4, InvariantHolds, PTL
=============================================================================
