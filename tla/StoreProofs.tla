-------------------------------- MODULE StoreProofs -------------------------
(* Theorems of the result store: enrichment is kept, the evidence a record, *)
(* an edge and a flag show is complete, in whatever order it came, and the  *)
(* memory store and the database answer alike.                              *)
(* An archive restores them, and the path to a page is the shortest.  All   *)
(* for any number of records, links, crawls and calls.                      *)
EXTENDS ResultStore, Archive, CrawlPath, SeqLemmas

-----------------------------------------------------------------------------
(* What the stores hold.                                                   *)

Statuses == {served.status : served \in AllAnswers}
Bodies == {served.body : served \in AllAnswers}
Pictures == UNION {served.pics : served \in AllAnswers}
Ends == [status : Statuses, depth : Nat]

QueueItems == [key : CrawlNames, url : CrawlNames, depth : Nat, position : Nat \cup {None},
               sitemap : BOOLEAN]
RecordSet == [id : Nat, key : CrawlNames, url : CrawlNames, final : CrawlNames,
              status : Statuses, depth : Nat, inlinks : Nat, position : Nat \cup {None},
              sitemap : BOOLEAN, speed : {None, "measured"}, metric : Texts \cup {None}]
EdgeSet == [source : CrawlNames, target : CrawlNames, from : Ends, to : Ends \cup {None}]
ImageSet == [page : CrawlNames, pic : Pictures]
ReferenceSet == [key : CrawlNames, target : Texts]
CaptureSet == [key : CrawlNames, body : Bodies]
FrontierSet == [queued : Seq(QueueItems), seen : SUBSET CrawlNames, crawled : Nat]

MemSet ==
  [records : Seq(RecordSet), byAlias : [Texts -> SUBSET Nat], counts : [Texts -> Nat],
   firsts : [Texts -> Nat \cup {None}], edges : Seq(EdgeSet),
   bySource : [Texts -> SUBSET Nat], byTarget : [Texts -> SUBSET Nat],
   images : SUBSET ImageSet, references : SUBSET ReferenceSet, captures : SUBSET CaptureSet,
   frontier : FrontierSet \cup {None}]

SqlSet ==
  [records : SUBSET RecordSet, lastId : Nat, counts : [Texts -> Nat], edges : Seq(EdgeSet),
   images : SUBSET ImageSet, references : SUBSET ReferenceSet, captures : SUBSET CaptureSet,
   queue : SUBSET [position : Nat, item : QueueItems], seen : SUBSET CrawlNames,
   crawled : Nat \cup {None}]

(* The calls of a commit, one set for each kind.  What the crawler stores   *)
(* has no links counted yet, and none of the enrichment.                   *)
NewRecords == {r \in RecordSet : r.inlinks = 0 /\ r.speed = None /\ r.metric = None}
MarkCalls == [op : {"mark"}, urls : SUBSET Texts]
InlinkCalls == [op : {"inlink"}, target : CrawlNames]
EdgeCalls == [op : {"edge"}, edge : EdgeSet]
ReferenceCalls == [op : {"references"}, key : CrawlNames, targets : SUBSET Texts]
ImageCalls == [op : {"images"}, page : CrawlNames, pics : SUBSET Pictures]
UpsertCalls == [op : {"upsert"}, record : NewRecords, flagged : BOOLEAN]
CaptureCalls == [op : {"capture"}, key : CrawlNames, body : Bodies]
FrontierCalls ==
  [op : {"frontier"}, done : CrawlNames, urls : SUBSET Texts, new : Seq(QueueItems)]
CallSet ==
  MarkCalls \cup InlinkCalls \cup EdgeCalls \cup ReferenceCalls \cup ImageCalls
    \cup UpsertCalls \cup CaptureCalls \cup FrontierCalls

LEMMA NamesAreTexts ==
  /\ CrawlNames \subseteq Texts /\ IsFiniteSet(Texts) /\ IsFiniteSet(CrawlNames)
  /\ \A t \in Texts : Aliases[t] \in SUBSET Texts /\ t \in Aliases[t]
  /\ None \notin Nat /\ None # "measured"
<1>1. ASSUME NEW item \in SeedItems PROVE {item.key, item.url} \subseteq Texts
  <2>1. PICK seeds \in Seeds : item \in ToSet(seeds)
    BY DEF SeedItems
  <2>2. seeds \in Seq(Items)
    BY StoreAssumption
  <2>3. item \in Items
    BY <2>1, <2>2, ElementOfSeq DEF ToSet
  <2> QED BY <2>3 DEF Items
<1>2. ASSUME NEW served \in AllAnswers
      PROVE  {served.final} \cup ToSet(served.links) \cup ToSet(served.listed) \subseteq Texts
  <2>1. served.final \in Texts /\ served.links \in Seq(Texts) /\ served.listed \in Seq(Texts)
    BY StoreAssumption DEF AllAnswers
  <2> QED BY <2>1, ElementOfSeq DEF ToSet
<1>3. CrawlNames \subseteq Texts
  BY <1>1, <1>2 DEF CrawlNames
<1> QED BY <1>3, StoreAssumption, FS_Subset

LEMMA FrontiersAreSomething == FrontierSet \subseteq Frontiers /\ None \notin FrontierSet
<1>1. QueueItems \subseteq Items
  BY NamesAreTexts DEF QueueItems, Items
<1>2. Seq(QueueItems) \subseteq Seq(Items)
  BY <1>1, SeqMonotonic
<1>3. FrontierSet \subseteq Frontiers
  BY <1>2, NamesAreTexts DEF FrontierSet, Frontiers
<1> QED BY <1>3, StoreAssumption

LEMMA AnswerTypes ==
  ASSUME NEW t \in Texts, NEW served \in Answers[t]
  PROVE  /\ served.final \in CrawlNames /\ served.links \in Seq(CrawlNames)
         /\ served.status \in Statuses /\ served.body \in Bodies /\ served.pics \subseteq Pictures
         /\ served.references \subseteq Texts /\ served.listed \in Seq(CrawlNames)
<1>1. served \in AllAnswers
  BY DEF AllAnswers
<1>2. served.links \in Seq(Texts) /\ served.listed \in Seq(Texts)
  BY StoreAssumption
<1>3. {served.final} \cup ToSet(served.links) \cup ToSet(served.listed) \subseteq CrawlNames
  BY <1>1 DEF CrawlNames
<1>4. /\ \A i \in 1..Len(served.links) : served.links[i] \in CrawlNames
      /\ \A i \in 1..Len(served.listed) : served.listed[i] \in CrawlNames
  BY <1>2, <1>3 DEF ToSet
<1>5. served.links \in Seq(CrawlNames) /\ served.listed \in Seq(CrawlNames)
  BY <1>2, <1>4, SeqDef, SMTT(30)
<1> QED BY <1>1, <1>3, <1>5, StoreAssumption DEF Statuses, Bodies, Pictures

-----------------------------------------------------------------------------
(* The number of links counted for a set of texts.                         *)

(* It is summed text by text, in an order that the counts do not change.   *)
PickOf == [s \in SUBSET Texts |-> CHOOSE x \in s : TRUE]
SumsUp(g, counts) ==
  /\ g[{}] = 0
  /\ \A s \in SUBSET Texts : s # {} => g[s] = counts[PickOf[s]] + g[s \ {PickOf[s]}]

LEMMA PickChooses == Chooses(PickOf, Texts)
BY DEF Chooses, PickOf

LEMMA TotalSums ==
  ASSUME NEW counts \in [Texts -> Nat]
  PROVE  \E g \in [SUBSET Texts -> Nat] :
           SumsUp(g, counts) /\ \A ts \in SUBSET Texts : g[ts] = Total(counts, ts)
<1> DEFINE base == 0
           Pick(s) == CHOOSE x \in s : TRUE
           H == [p \in Texts \X Nat |-> counts[p[1]] + p[2]]
<1>1. IsFiniteSet(Texts) /\ base \in Nat /\ H \in [Texts \X Nat -> Nat]
  BY NamesAreTexts
<1>2. HasRecursion(Texts, Nat, base, H, PickOf)
  <2> HIDE DEF H, base
  <2> QED BY <1>1, PickChooses, RecursionOnSubsets
<1>3. PICK g \in [SUBSET Texts -> Nat] : \A s \in SUBSET Texts :
           g[s] = IF s = {} THEN base ELSE H[<<PickOf[s], g[s \ {PickOf[s]}]>>]
  BY <1>2 DEF HasRecursion
<1>4. SumsUp(g, counts)
  <2>1. g[{}] = 0
    BY <1>3
  <2>2. ASSUME NEW s \in SUBSET Texts, s # {}
        PROVE  g[s] = counts[PickOf[s]] + g[s \ {PickOf[s]}]
    <3>1. PickOf[s] \in Texts /\ g[s \ {PickOf[s]}] \in Nat
      BY <2>2, PickChooses DEF Chooses
    <3> HIDE DEF base
    <3> QED BY <1>3, <2>2, <3>1
  <2> QED BY <2>1, <2>2 DEF SumsUp
<1>5. ASSUME NEW ts \in SUBSET Texts PROVE g[ts] = Total(counts, ts)
  <2> DEFINE IsIter(f) == f = [s \in SUBSET ts |->
                                IF s = {} THEN 0 ELSE counts[Pick(s)] + f[s \ {Pick(s)}]]
             iter == CHOOSE f : IsIter(f)
             K == [p \in ts \X Nat |-> counts[p[1]] + p[2]]
             ch == [s \in SUBSET ts |-> Pick(s)]
  <2>1. Total(counts, ts) = iter[ts]
    BY DEF Total, MapThenSumSet, MapThenFoldSet
  <2>2. \A s \in SUBSET ts : s \in SUBSET Texts /\ PickOf[s] = Pick(s) /\ ch[s] = Pick(s)
    BY DEF PickOf
  <2>3. \E f : IsIter(f)
    <3> DEFINE f == [s \in SUBSET ts |-> g[s]]
    <3>1. ASSUME NEW s \in SUBSET ts
          PROVE  f[s] = IF s = {} THEN 0 ELSE counts[Pick(s)] + f[s \ {Pick(s)}]
      <4>1. s \ {Pick(s)} \in SUBSET ts /\ f[s] = g[s] /\ f[s \ {Pick(s)}] = g[s \ {Pick(s)}]
        OBVIOUS
      <4> HIDE DEF f, Pick
      <4> QED BY <1>4, <2>2, <4>1 DEF SumsUp
    <3> HIDE DEF Pick
    <3> QED BY <3>1
  <2>4. IsIter(iter)
    <3> HIDE DEF IsIter
    <3> QED BY <2>3
  <2>5. /\ iter[{}] = 0
        /\ \A s \in SUBSET ts : s # {} => iter[s] = counts[Pick(s)] + iter[s \ {Pick(s)}]
    <3> HIDE DEF iter, Pick
    <3> QED BY <2>4
  <2> DEFINE T == {s \in SUBSET ts : iter[s] = g[s]}
  <2>6. {} \in T
    <3> HIDE DEF iter, Pick
    <3> QED BY <1>4, <2>5 DEF SumsUp
  <2>7. ASSUME NEW s \in SUBSET ts, s # {}, \A x \in s : s \ {x} \in T PROVE s \in T
    <3>1. Pick(s) \in s /\ s \in SUBSET Texts /\ PickOf[s] = Pick(s)
      BY <2>2, <2>7, PickChooses DEF Chooses
    <3> HIDE DEF iter, Pick
    <3>2. iter[s \ {Pick(s)}] = g[s \ {Pick(s)}]
      BY <2>7, <3>1
    <3> QED BY <1>4, <2>5, <2>7, <3>1, <3>2 DEF SumsUp
  <2>8. IsFiniteSet(ts)
    BY <1>1, FS_Subset
  <2>9. \A s \in SUBSET ts : s \in T
    <3> HIDE DEF T
    <3> QED BY <2>6, <2>7, <2>8, InductionOnSubsets
  <2>10. ts \in T
    <3> HIDE DEF T
    <3> QED BY <2>9
  <2> HIDE DEF iter
  <2> QED BY <2>1, <2>10
<1> QED BY <1>4, <1>5

LEMMA TotalType ==
  ASSUME NEW counts \in [Texts -> Nat], NEW ts \in SUBSET Texts
  PROVE  Total(counts, ts) \in Nat
BY TotalSums

(* One link more for a text is one more for the sets that have it.         *)
LEMMA TotalRises ==
  ASSUME NEW counts \in [Texts -> Nat], NEW t \in Texts, NEW ts \in SUBSET Texts
  PROVE  Total([counts EXCEPT ![t] = @ + 1], ts)
           = IF t \in ts THEN Total(counts, ts) + 1 ELSE Total(counts, ts)
<1> DEFINE more == [counts EXCEPT ![t] = @ + 1]
<1>1. more \in [Texts -> Nat] /\ \A x \in Texts : more[x] = IF x = t THEN counts[x] + 1 ELSE counts[x]
  OBVIOUS
<1> HIDE DEF more
<1>2. PICK g \in [SUBSET Texts -> Nat] :
         SumsUp(g, counts) /\ \A s \in SUBSET Texts : g[s] = Total(counts, s)
  BY TotalSums
<1>3. PICK h \in [SUBSET Texts -> Nat] :
         SumsUp(h, more) /\ \A s \in SUBSET Texts : h[s] = Total(more, s)
  BY <1>1, TotalSums
<1> DEFINE T == {s \in SUBSET Texts : h[s] = IF t \in s THEN g[s] + 1 ELSE g[s]}
<1>4. {} \in T
  BY <1>2, <1>3 DEF SumsUp
<1>5. ASSUME NEW s \in SUBSET Texts, s # {}, \A x \in s : s \ {x} \in T PROVE s \in T
  <2> DEFINE p == PickOf[s]
  <2>1. p \in s /\ p \in Texts
    BY <1>5, PickChooses DEF Chooses
  <2>2. g[s] = counts[p] + g[s \ {p}] /\ h[s] = more[p] + h[s \ {p}]
    BY <1>2, <1>3, <1>5 DEF SumsUp
  <2>3. s \ {p} \in T /\ g[s \ {p}] \in Nat /\ counts[p] \in Nat
    BY <1>5, <2>1
  <2> HIDE DEF p
  <2>4. h[s \ {p}] = IF t \in s \ {p} THEN g[s \ {p}] + 1 ELSE g[s \ {p}]
    BY <2>3
  <2> QED BY <1>1, <2>1, <2>2, <2>3, <2>4
<1>6. \A s \in SUBSET Texts : s \in T
  <2> HIDE DEF T
  <2> QED BY <1>4, <1>5, InductionOnSubsets, NamesAreTexts
<1>7. h[ts] = IF t \in ts THEN g[ts] + 1 ELSE g[ts]
  BY <1>6
<1> QED BY <1>2, <1>3, <1>7 DEF more

(* Where nothing is counted the sum is zero.                               *)
LEMMA TotalOfNone ==
  ASSUME NEW ts \in SUBSET Texts
  PROVE  Total(NoCounts, ts) = 0
<1>1. NoCounts \in [Texts -> Nat] /\ \A x \in Texts : NoCounts[x] = 0
  BY DEF NoCounts
<1>2. PICK g \in [SUBSET Texts -> Nat] :
         SumsUp(g, NoCounts) /\ \A s \in SUBSET Texts : g[s] = Total(NoCounts, s)
  BY <1>1, TotalSums
<1> DEFINE T == {s \in SUBSET Texts : g[s] = 0}
<1>3. {} \in T
  BY <1>2 DEF SumsUp
<1>4. ASSUME NEW s \in SUBSET Texts, s # {}, \A x \in s : s \ {x} \in T PROVE s \in T
  <2>1. PickOf[s] \in s
    BY <1>4, PickChooses DEF Chooses
  <2>2. g[s \ {PickOf[s]}] = 0
    BY <1>4, <2>1
  <2> QED BY <1>1, <1>2, <1>4, <2>1, <2>2 DEF SumsUp
<1>5. \A s \in SUBSET Texts : s \in T
  <2> HIDE DEF T
  <2> QED BY <1>3, <1>4, InductionOnSubsets, NamesAreTexts
<1> QED BY <1>2, <1>5

-----------------------------------------------------------------------------
(* Sequences.                                                              *)

(* k is what T has of the first m of q: e says where each of them was.     *)
Places(e, k, q, T, m) ==
  /\ e \in [1..Len(k) -> 1..m]
  /\ \A i \in 1..Len(k) : k[i] = q[e[i]]
  /\ \A i, j \in 1..Len(k) : i < j => e[i] < e[j]
  /\ \A i \in 1..m : q[i] \in T <=> \E j \in 1..Len(k) : e[j] = i
KeptOf(k, q, T, m) == \E e : Places(e, k, q, T, m)

LEMMA AppendPlace ==
  ASSUME NEW S, NEW q \in Seq(S), NEW T, NEW m \in 1..Len(q), NEW k \in Seq(S),
         KeptOf(k, q, T, m - 1)
  PROVE  KeptOf(IF q[m] \in T THEN Append(k, q[m]) ELSE k, q, T, m)
<1>1. PICK e : Places(e, k, q, T, m - 1)
  BY DEF KeptOf
<1>2. /\ Len(k) \in Nat /\ Len(q) \in Nat /\ m \in Nat /\ m - 1 \in Nat /\ m \notin 1..m-1
      /\ \A i \in 1..m-1 : i \in 1..m /\ i < m
      /\ \A i \in 1..m : i \in 1..m-1 \/ i = m
      /\ q[m] \in S
  BY LenProperties, ElementOfSeq
<1>3. CASE q[m] \notin T
  <2>1. e \in [1..Len(k) -> 1..m]
    BY <1>1, <1>2 DEF Places
  <2>2. \A i \in 1..m : q[i] \in T <=> \E j \in 1..Len(k) : e[j] = i
    BY <1>1, <1>2, <1>3 DEF Places
  <2>3. Places(e, k, q, T, m)
    BY <1>1, <2>1, <2>2 DEF Places
  <2> QED BY <1>3, <2>3 DEF KeptOf
<1>4. CASE q[m] \in T
  <2> DEFINE l == Len(k)
             a == Append(k, q[m])
             f == [i \in 1..l+1 |-> IF i = l + 1 THEN m ELSE e[i]]
  <2>1. /\ a \in Seq(S) /\ Len(a) = l + 1 /\ a[l+1] = q[m]
        /\ \A i \in 1..l : a[i] = k[i]
    BY <1>2, AppendProperties
  <2>2. /\ \A i \in 1..l+1 : i = l + 1 \/ i \in 1..l
        /\ \A i \in 1..l : i # l + 1 /\ i \in 1..l+1
        /\ l + 1 \in 1..l+1
    BY <1>2
  <2>3. \A i \in 1..l : e[i] \in 1..m-1
    BY <1>1 DEF Places
  <2>4. f \in [1..l+1 -> 1..m] /\ f[l+1] = m /\ \A i \in 1..l : f[i] = e[i]
    BY <1>2, <2>2, <2>3
  <2> HIDE DEF f, a
  <2>5. \A i \in 1..l+1 : a[i] = q[f[i]]
    BY <1>1, <2>1, <2>2, <2>4 DEF Places
  <2>6. ASSUME NEW i \in 1..l+1, NEW j \in 1..l+1, i < j PROVE f[i] < f[j]
    <3>1. i \in 1..l
      BY <1>2, <2>6
    <3>2. CASE j = l + 1
      BY <1>2, <2>3, <2>4, <3>1, <3>2
    <3>3. CASE j \in 1..l
      BY <1>1, <2>4, <2>6, <3>1, <3>3 DEF Places
    <3> QED BY <2>2, <3>2, <3>3
  <2>7. ASSUME NEW i \in 1..m PROVE q[i] \in T <=> \E j \in 1..l+1 : f[j] = i
    <3>1. CASE i = m
      BY <1>4, <2>2, <2>4, <3>1
    <3>2. CASE i # m
      <4>1. i \in 1..m-1
        BY <1>2, <3>2
      <4>2. q[i] \in T <=> \E j \in 1..l : e[j] = i
        BY <1>1, <4>1 DEF Places
      <4> QED BY <2>2, <2>4, <3>2, <4>2
    <3> QED BY <3>1, <3>2
  <2>8. Places(f, a, q, T, m)
    BY <2>1, <2>4, <2>5, <2>6, <2>7 DEF Places
  <2> QED BY <1>4, <2>8 DEF KeptOf, a
<1> QED BY <1>3, <1>4

(* What Kept takes from a sequence, in the order it had.                   *)
LEMMA KeptIs ==
  ASSUME NEW S, NEW q \in Seq(S), NEW T
  PROVE  Kept(q, T) \in Seq(S) /\ KeptOf(Kept(q, T), q, T, Len(q))
<1> DEFINE base == <<>>
           n == Len(q)
           V == Seq(S)
           AddTo(sofar, x) == IF x \in T THEN Append(sofar, x) ELSE sofar
           H == [p \in (1..n) \X V |-> AddTo(p[2], q[p[1]])]
           Step(g, s) == IF s = {} THEN <<>> ELSE AddTo(g[s \ {Max(s)}], q[Max(s)])
           IsIter(g) == g = [s \in SUBSET (1..n) |-> Step(g, s)]
           iter == CHOOSE g : IsIter(g)
<1>1. /\ n \in Nat /\ DOMAIN q = 1..n /\ base \in V
      /\ \A k \in 1..n : q[k] \in S
      /\ \A sofar \in V, x \in S : AddTo(sofar, x) \in V
  BY LenProperties, EmptySeq, AppendProperties, ElementOfSeq
<1>2. Kept(q, T) = iter[1..n]
  BY <1>1 DEF Kept, FoldLeft, MapThenFoldSet
<1>3. H \in [(1..n) \X V -> V]
  <2> HIDE DEF AddTo
  <2> QED BY <1>1
<1>4. \E g \in [SUBSET (1..n) -> V] : IsIter(g)
  <2>1. PICK g \in [SUBSET (1..n) -> V] : \A s \in SUBSET (1..n) :
             g[s] = IF s = {} THEN <<>> ELSE H[<<Max(s), g[s \ {Max(s)}]>>]
    <3>1. HasPrefixRecursion(n, V, base, H)
      <4> HIDE DEF H, n, V, base
      <4> QED BY <1>1, <1>3, RecursionOnPrefixes
    <3> HIDE DEF H
    <3> QED BY <3>1 DEF HasPrefixRecursion
  <2>2. ASSUME NEW s \in SUBSET (1..n)
        PROVE  g[s] = Step(g, s)
    <3> HIDE DEF AddTo, n, V
    <3>1. CASE s = {}
      BY <2>1, <3>1
    <3>2. CASE s # {}
      <4>1. Max(s) \in 1..n
        BY <1>1, <3>2, MaxOfIndices
      <4> QED BY <2>1, <3>2, <4>1
    <3> QED BY <3>1, <3>2
  <2> HIDE DEF Step
  <2> QED BY <2>2
<1>5. IsIter(iter)
  <2> HIDE DEF IsIter
  <2> QED BY <1>4
<1>6. iter[{}] = <<>> /\ \A k \in 1..n : iter[1..k] = AddTo(iter[1..k-1], q[k])
  <2> HIDE DEF iter, AddTo, n
  <2>1. \A s \in SUBSET (1..n) : iter[s] = Step(iter, s)
    BY <1>5
  <2> QED BY <1>1, <2>1, PrefixMax
<1>7. FoldsPrefixes(iter, n, V, base, H)
  <2>1. \A k \in 1..n : iter[1..k-1] \in V => iter[1..k] = H[<<k, iter[1..k-1]>>]
    <3> HIDE DEF iter, AddTo, n, V
    <3> QED BY <1>6
  <2> HIDE DEF H, n, V, iter, AddTo
  <2> QED BY <1>6, <2>1 DEF FoldsPrefixes
<1>8. \A k \in 0..n : iter[1..k] \in V
  <2> HIDE DEF H, n, V, iter, base
  <2> QED BY <1>1, <1>3, <1>7, PrefixFold
<1> DEFINE Good == {k \in 0..n : KeptOf(iter[1..k], q, T, k)}
<1>9. 0 \in Good
  <2>1. 1..0 = {} /\ 0 \in 0..n
    BY <1>1
  <2> HIDE DEF iter, n
  <2>2. iter[1..0] = <<>>
    BY <1>6, <2>1
  <2>3. Len(<<>>) = 0
    BY EmptySeq
  <2>4. Places([i \in 1..0 |-> i], <<>>, q, T, 0)
    BY <2>1, <2>3 DEF Places
  <2> QED BY <2>1, <2>2, <2>4 DEF KeptOf
<1>10. ASSUME NEW k \in 1..n, k - 1 \in Good PROVE k \in Good
  <2> HIDE DEF iter
  <2>1. iter[1..k-1] \in Seq(S) /\ KeptOf(iter[1..k-1], q, T, k - 1)
    BY <1>8, <1>10
  <2>2. KeptOf(IF q[k] \in T THEN Append(iter[1..k-1], q[k]) ELSE iter[1..k-1], q, T, k)
    BY <2>1, AppendPlace
  <2>3. iter[1..k] = IF q[k] \in T THEN Append(iter[1..k-1], q[k]) ELSE iter[1..k-1]
    BY <1>6
  <2>4. KeptOf(iter[1..k], q, T, k) /\ k \in 0..n
    BY <2>2, <2>3, <1>1
  <2> QED BY <2>4
<1>11. n \in Good
  <2> HIDE DEF Good, n
  <2>1. \A k \in 0..n : k \in Good
    BY <1>1, <1>9, <1>10, InductionUpTo
  <2> QED BY <1>1, <2>1
<1>12. n \in 0..n
  BY <1>1
<1> HIDE DEF iter
<1> QED BY <1>2, <1>8, <1>11, <1>12

(* A set enumerated without repetition, and what comes before each element *)
(* in that enumeration.                                                    *)
Enumerates(q, n) == q = [i \in 1..n |-> q[i]] /\ \A i, j \in 1..n : q[i] = q[j] => i = j
Elements(q, n) == {q[i] : i \in 1..n}
Prior(before, q, n) ==
  /\ before = [x \in Elements(q, n) |-> before[x]]
  /\ \A i \in 1..n : before[q[i]] = Elements(q, i - 1)

LEMMA ElementsCounted ==
  ASSUME NEW n \in Nat, NEW q, \A i, j \in 1..n : q[i] = q[j] => i = j
  PROVE  IsFiniteSet(Elements(q, n)) /\ Cardinality(Elements(q, n)) = n
<1> DEFINE f == [i \in 1..n |-> q[i]]
<1>1. f \in Bijection(1..n, Elements(q, n))
  BY DEF Elements, Bijection, Injection, Surjection, IsInjective
<1>2. IsFiniteSet(1..n) /\ Cardinality(1..n) = n
  BY FS_Interval
<1> QED BY <1>1, <1>2, FS_Bijection DEF ExistsBijection

(* Sorted gives that enumeration back.                                     *)
LEMMA SortedIs ==
  ASSUME NEW n \in Nat, NEW q, Enumerates(q, n), NEW before, Prior(before, q, n)
  PROVE  Sorted(before) = q
<1>1. DOMAIN before = Elements(q, n) /\ Cardinality(Elements(q, n)) = n
  <2>1. DOMAIN before = Elements(q, n)
    BY DEF Prior
  <2> QED BY <2>1, ElementsCounted DEF Enumerates
<1>2. ASSUME NEW i \in 1..n PROVE Cardinality(before[q[i]]) = i - 1
  <2>1. i - 1 \in Nat /\ \A k, j \in 1..i-1 : q[k] = q[j] => k = j
    BY DEF Enumerates
  <2>2. Cardinality(Elements(q, i - 1)) = i - 1
    BY <2>1, ElementsCounted
  <2> QED BY <2>2 DEF Prior
<1>3. ASSUME NEW i \in 1..n
      PROVE  (CHOOSE x \in Elements(q, n) : Cardinality(before[x]) = i - 1) = q[i]
  <2>1. q[i] \in Elements(q, n)
    BY DEF Elements
  <2>2. ASSUME NEW x \in Elements(q, n), Cardinality(before[x]) = i - 1 PROVE x = q[i]
    <3>1. PICK j \in 1..n : x = q[j]
      BY DEF Elements
    <3>2. j - 1 = i - 1
      BY <1>2, <2>2, <3>1
    <3>3. j = i
      BY <3>2
    <3> QED BY <3>1, <3>3
  <2> QED BY <1>2, <2>1, <2>2
<1>4. Sorted(before) = [i \in 1..n |-> CHOOSE x \in Elements(q, n) : Cardinality(before[x]) = i - 1]
  BY <1>1 DEF Sorted
<1>5. Sorted(before) = [i \in 1..n |-> q[i]]
  BY <1>3, <1>4
<1> QED BY <1>5 DEF Enumerates

-----------------------------------------------------------------------------
(* The database, call by call.                                             *)

(* A bounded set of numbers has a greatest one, and every set a least one. *)
LEMMA MaxOfBounded ==
  ASSUME NEW T \in SUBSET Nat, T # {}, NEW b \in Nat, \A x \in T : x < b
  PROVE  Max(T) \in T /\ \A x \in T : x <= Max(T)
<1> DEFINE U == {b - x : x \in T}
<1>1. U \subseteq Nat /\ U # {}
  <2>1. U \subseteq Nat
    OBVIOUS
  <2>2. PICK x \in T : TRUE
    OBVIOUS
  <2>3. b - x \in U
    OBVIOUS
  <2> QED BY <2>1, <2>3
<1>2. PICK u \in U : \A y \in U : u <= y
  <2> HIDE DEF U
  <2> QED BY <1>1, LeastNatural
<1>3. PICK m \in T : u = b - m
  OBVIOUS
<1>4. ASSUME NEW x \in T PROVE m >= x
  <2>1. b - m <= b - x
    BY <1>2, <1>3
  <2>2. b \in Nat /\ m \in Nat /\ x \in Nat
    OBVIOUS
  <2> HIDE DEF U
  <2> QED BY <2>1, <2>2
<1>5. \E x_ \in T : \A y_ \in T : x_ >= y_
  BY <1>4
<1>6. Max(T) \in T /\ \A y_ \in T : Max(T) >= y_
  BY <1>5, Zenon DEF Max
<1> QED BY <1>6

LEMMA MinOfNaturals ==
  ASSUME NEW T \in SUBSET Nat, T # {}
  PROVE  Min(T) \in T /\ \A x \in T : Min(T) <= x
<1>1. \E x_ \in T : \A y_ \in T : x_ <= y_
  BY LeastNatural
<1>2. Min(T) \in T /\ \A y_ \in T : Min(T) <= y_
  BY <1>1, Zenon DEF Min
<1> QED BY <1>2

Bounded(queue) == \E b \in Nat : \A row \in queue : row.position < b

(* No two rows have one key or one id, and the table knows its last id.    *)
RowsAreKeyed(s) ==
  /\ \A x \in s.records : x.id \in 1..s.lastId
  /\ \A x, y \in s.records : x.key = y.key \/ x.id = y.id => x = y

SqlGood(s) == s \in SqlSet /\ Bounded(s.queue) /\ RowsAreKeyed(s)

(* Rows that keep their keys and ids.                                      *)
KeepsRow(r, x) == x \in RecordSet /\ x.key = r.key /\ x.id = r.id

LEMMA RowsMapped ==
  ASSUME NEW s, SqlGood(s), NEW f, \A r \in s.records : KeepsRow(r, f[r])
  PROVE  SqlGood([s EXCEPT !.records = {f[r] : r \in s.records}])
<1> DEFINE t == [s EXCEPT !.records = {f[r] : r \in s.records}]
<1>1. /\ t.records = {f[r] : r \in s.records} /\ t.lastId = s.lastId /\ t.queue = s.queue
      /\ t \in SqlSet
  <2>1. {f[r] : r \in s.records} \in SUBSET RecordSet
    BY DEF KeepsRow
  <2>2. s \in SqlSet
    BY DEF SqlGood
  <2> QED BY <2>1, <2>2 DEF SqlSet
<1> HIDE DEF t
<1>2. RowsAreKeyed(t)
  BY <1>1 DEF RowsAreKeyed, SqlGood, KeepsRow
<1>3. Bounded(t.queue)
  BY <1>1 DEF SqlGood
<1> QED BY <1>1, <1>2, <1>3 DEF SqlGood, t

LEMMA EmptyTablesGood == SqlGood(EmptyTables)
<1>1. EmptyTables \in SqlSet
  <2>1. <<>> \in Seq(EdgeSet) /\ NoCounts \in [Texts -> Nat]
    BY EmptySeq DEF NoCounts
  <2> QED BY <2>1 DEF EmptyTables, SqlSet
<1>2. EmptyTables.records = {} /\ EmptyTables.queue = {}
  BY DEF EmptyTables
<1>3. Bounded({})
  BY DEF Bounded
<1> QED BY <1>1, <1>2, <1>3 DEF SqlGood, RowsAreKeyed

(* What an upsert writes.                                                  *)
LEMMA NamesOfRecord ==
  ASSUME NEW r \in RecordSet
  PROVE  /\ RecordTexts(r) \in SUBSET CrawlNames /\ RecordAliases(r) \in SUBSET Texts
         /\ RecordTexts(r) \subseteq RecordAliases(r)
         /\ Shown(r) \in Ends
<1>1. RecordTexts(r) \in SUBSET CrawlNames /\ Shown(r) \in Ends
  BY DEF RecordTexts, RecordSet, Shown, Ends
<1> QED BY <1>1, NamesAreTexts DEF RecordAliases, AliasesOf

CountedAs(r, n) == IF n > 0 THEN [r EXCEPT !.inlinks = n] ELSE r

LEMMA CountedIs ==
  ASSUME NEW r \in RecordSet, NEW n \in Nat
  PROVE  /\ CountedAs(r, n) \in RecordSet
         /\ CountedAs(r, n).id = r.id /\ CountedAs(r, n).key = r.key /\ CountedAs(r, n).url = r.url
         /\ CountedAs(r, n).final = r.final /\ CountedAs(r, n).status = r.status
         /\ CountedAs(r, n).depth = r.depth /\ CountedAs(r, n).sitemap = r.sitemap
         /\ CountedAs(r, n).speed = r.speed /\ CountedAs(r, n).metric = r.metric
         /\ CountedAs(r, n).position = r.position
         /\ r.inlinks = 0 => CountedAs(r, n).inlinks = n
BY DEF CountedAs, RecordSet

LEMMA KeepIs ==
  ASSUME NEW r \in RecordSet, NEW prior \in RecordSet
  PROVE  /\ Keep(r, prior) \in RecordSet
         /\ Keep(r, prior).id = prior.id /\ Keep(r, prior).key = r.key
         /\ Keep(r, prior).url = r.url /\ Keep(r, prior).final = r.final
         /\ Keep(r, prior).status = r.status /\ Keep(r, prior).depth = r.depth
         /\ Keep(r, prior).sitemap = r.sitemap /\ Keep(r, prior).metric = r.metric
         /\ Keep(r, prior).position = r.position /\ Keep(r, prior).inlinks = r.inlinks
         /\ prior.speed # None => Keep(r, prior).speed # None
BY DEF Keep, RecordSet

LEMMA NumberedIs ==
  ASSUME NEW r \in RecordSet, NEW n \in Nat
  PROVE  /\ [r EXCEPT !.id = n] \in RecordSet
         /\ [r EXCEPT !.id = n].id = n /\ [r EXCEPT !.id = n].key = r.key
         /\ [r EXCEPT !.id = n].url = r.url /\ [r EXCEPT !.id = n].final = r.final
         /\ [r EXCEPT !.id = n].status = r.status /\ [r EXCEPT !.id = n].depth = r.depth
         /\ [r EXCEPT !.id = n].sitemap = r.sitemap /\ [r EXCEPT !.id = n].metric = r.metric
         /\ [r EXCEPT !.id = n].position = r.position /\ [r EXCEPT !.id = n].inlinks = r.inlinks
         /\ [r EXCEPT !.id = n].speed = r.speed
BY DEF RecordSet

LEMMA UpsertCases ==
  ASSUME NEW s, NEW r
  PROVE  \/ (\A x \in s.records : x.key # r.key) /\ SqlUpsert(s, r) = SqlInsert(s, r)
         \/ \E prior \in s.records : prior.key = r.key /\ SqlUpsert(s, r) = SqlUpdate(s, prior, r)
<1> DEFINE P == {x \in s.records : x.key = r.key}
<1>1. CASE P = {}
  BY <1>1 DEF SqlUpsert
<1>2. CASE P # {}
  <2>1. (CHOOSE x \in P : TRUE) \in P
    BY <1>2
  <2>2. SqlUpsert(s, r) = SqlUpdate(s, CHOOSE x \in P : TRUE, r)
    BY <1>2 DEF SqlUpsert
  <2> QED BY <2>1, <2>2
<1> QED BY <1>1, <1>2

(* A row for r, under whatever id, with the links counted for it.          *)
SamePage(row, r) ==
  /\ row \in RecordSet
  /\ row.key = r.key /\ row.url = r.url /\ row.final = r.final /\ row.status = r.status
  /\ row.depth = r.depth /\ row.sitemap = r.sitemap /\ row.position = r.position
  /\ row.metric = r.metric
RowFor(row, r, n) == SamePage(row, r) /\ (r.inlinks = 0 => row.inlinks = n)

(* The edges that meet a row show it, and nothing else changes of them.    *)
EdgesShown(edges, old, row) ==
  /\ edges \in Seq(EdgeSet) /\ Len(edges) = Len(old)
  /\ \A i \in 1..Len(old) :
       /\ edges[i].source = old[i].source /\ edges[i].target = old[i].target
       /\ edges[i].from = IF old[i].source \in RecordAliases(row) THEN Shown(row) ELSE old[i].from
       /\ edges[i].to = IF old[i].target \in RecordAliases(row) THEN Shown(row) ELSE old[i].to

LEMMA SqlShowEdgesIs ==
  ASSUME NEW s \in SqlSet, NEW row \in RecordSet
  PROVE  EdgesShown(SqlShowEdges(s, row), s.edges, row)
<1> DEFINE n == Len(s.edges)
           show(e) == [e EXCEPT !.from = IF e.source \in RecordAliases(row) THEN Shown(row) ELSE @,
                                !.to = IF e.target \in RecordAliases(row) THEN Shown(row) ELSE @]
<1>1. s.edges \in Seq(EdgeSet) /\ n \in Nat /\ DOMAIN s.edges = 1..n
  BY LenProperties DEF SqlSet
<1>2. \A i \in 1..n : s.edges[i] \in EdgeSet
  BY <1>1, ElementOfSeq
<1>3. Shown(row) \in Ends
  BY NamesOfRecord
<1>4. ASSUME NEW e \in EdgeSet
      PROVE  /\ show(e) \in EdgeSet /\ show(e).source = e.source /\ show(e).target = e.target
             /\ show(e).from = IF e.source \in RecordAliases(row) THEN Shown(row) ELSE e.from
             /\ show(e).to = IF e.target \in RecordAliases(row) THEN Shown(row) ELSE e.to
  BY <1>3 DEF EdgeSet
<1>5. SqlShowEdges(s, row) = [i \in 1..n |-> show(s.edges[i])]
  BY <1>1 DEF SqlShowEdges
<1> HIDE DEF show, n
<1>6. SqlShowEdges(s, row) \in [1..n -> EdgeSet]
  BY <1>2, <1>4, <1>5
<1>7. SqlShowEdges(s, row) \in Seq(EdgeSet) /\ Len(SqlShowEdges(s, row)) = n
  BY <1>1, <1>6, SeqDef, LenProperties
<1>8. \A i \in 1..n : SqlShowEdges(s, row)[i] = show(s.edges[i])
  BY <1>5
<1> QED BY <1>2, <1>4, <1>7, <1>8 DEF EdgesShown, n

SameRest(t, s) ==
  /\ t.counts = s.counts /\ t.images = s.images /\ t.references = s.references
  /\ t.captures = s.captures /\ t.queue = s.queue /\ t.seen = s.seen /\ t.crawled = s.crawled

(* A record that has no row yet becomes the row of the next id.            *)
Inserted(t, s, r, row) ==
  /\ RowFor(row, r, Total(s.counts, RecordAliases(r))) /\ row.id = s.lastId + 1
  /\ row.speed = r.speed
  /\ t.records = s.records \cup {row} /\ t.lastId = s.lastId + 1
  /\ EdgesShown(t.edges, s.edges, row) /\ t.edges = SqlShowEdges(s, row) /\ SameRest(t, s)

(* A record that has one overwrites it, and keeps its id and enrichment.   *)
Updated(t, s, r, prior, row) ==
  /\ RowFor(row, r, Total(s.counts, RecordAliases(r))) /\ row.id = prior.id
  /\ prior.speed # None => row.speed # None
  /\ t.records = (s.records \ {prior}) \cup {row} /\ t.lastId = s.lastId
  /\ EdgesShown(t.edges, s.edges, row) /\ t.edges = SqlShowEdges(s, row) /\ SameRest(t, s)

LEMMA SqlCountedIs ==
  ASSUME NEW s \in SqlSet, NEW r \in RecordSet
  PROVE  /\ Total(s.counts, RecordAliases(r)) \in Nat
         /\ SqlCounted(s, r) = CountedAs(r, Total(s.counts, RecordAliases(r)))
<1>1. s.counts \in [Texts -> Nat]
  BY DEF SqlSet
<1>2. Total(s.counts, RecordAliases(r)) \in Nat
  BY <1>1, NamesOfRecord, TotalType
<1> QED BY <1>2 DEF SqlCounted, CountedAs

NewRow(s, r) == [CountedAs(r, Total(s.counts, RecordAliases(r))) EXCEPT !.id = s.lastId + 1]
NextRow(s, r, prior) == Keep(CountedAs(r, Total(s.counts, RecordAliases(r))), prior)

LEMMA SqlInsertIs ==
  ASSUME NEW s, SqlGood(s), NEW r \in RecordSet, \A x \in s.records : x.key # r.key
  PROVE  /\ SqlGood(SqlInsert(s, r))
         /\ Inserted(SqlInsert(s, r), s, r, NewRow(s, r))
<1> DEFINE n == Total(s.counts, RecordAliases(r))
           row == NewRow(s, r)
           t == SqlInsert(s, r)
<1>1. s \in SqlSet /\ s.lastId \in Nat /\ s.lastId + 1 \in Nat
  BY DEF SqlGood, SqlSet
<1>2. n \in Nat /\ SqlCounted(s, r) = CountedAs(r, n)
  BY <1>1, SqlCountedIs
<1>3. RowFor(row, r, n) /\ row.id = s.lastId + 1 /\ row.speed = r.speed
  <2> HIDE DEF n
  <2> DEFINE c == CountedAs(r, n)
  <2>1. RowFor(c, r, n) /\ c.speed = r.speed
    BY <1>2, CountedIs DEF RowFor, SamePage
  <2>2. row = [c EXCEPT !.id = s.lastId + 1]
    BY DEF NewRow, n
  <2> HIDE DEF c, row
  <2>3. c \in RecordSet
    BY <2>1 DEF RowFor, SamePage
  <2>4. SamePage(row, c)
    BY <1>1, <2>2, <2>3, NumberedIs DEF SamePage
  <2>5. row.inlinks = c.inlinks
    BY <1>1, <2>2, <2>3, NumberedIs
  <2> QED BY <1>1, <2>1, <2>2, <2>3, <2>4, <2>5, NumberedIs DEF RowFor, SamePage
<1>4. t = [s EXCEPT !.records = s.records \cup {row}, !.lastId = s.lastId + 1,
                    !.edges = SqlShowEdges(s, row)]
  BY <1>2 DEF SqlInsert, NewRow
<1>5. row \in RecordSet
  BY <1>3 DEF RowFor, SamePage
<1> HIDE DEF n, row, t
<1>6. EdgesShown(SqlShowEdges(s, row), s.edges, row)
  BY <1>1, <1>5, SqlShowEdgesIs
<1>7. SqlShowEdges(s, row) \in Seq(EdgeSet)
  BY <1>6 DEF EdgesShown
<1>8. /\ t.records = s.records \cup {row} /\ t.lastId = s.lastId + 1 /\ t.edges = SqlShowEdges(s, row)
      /\ SameRest(t, s)
  BY <1>1, <1>4 DEF SqlSet, SameRest
<1>9. t \in SqlSet
  <2>1. s.records \cup {row} \in SUBSET RecordSet
    BY <1>1, <1>5 DEF SqlSet
  <2> QED BY <1>1, <1>4, <1>7, <2>1 DEF SqlSet
<1>10. RowsAreKeyed(t)
  <2>1. RowsAreKeyed(s)
    BY DEF SqlGood
  <2>2. row.key = r.key
    BY <1>3 DEF RowFor, SamePage
  <2>3. \A x \in t.records : x.id \in 1..t.lastId
    BY <1>1, <1>3, <1>8, <2>1 DEF RowsAreKeyed
  <2>4. \A x \in s.records : x.id # row.id /\ x.key # row.key
    BY <1>1, <1>3, <2>1, <2>2 DEF RowsAreKeyed
  <2> QED BY <1>8, <2>1, <2>3, <2>4 DEF RowsAreKeyed
<1>11. Bounded(t.queue)
  BY <1>8 DEF SqlGood, SameRest
<1>12. Inserted(t, s, r, row)
  BY <1>3, <1>6, <1>8 DEF Inserted, n
<1> QED BY <1>9, <1>10, <1>11, <1>12 DEF SqlGood, t, row

LEMMA SqlUpdateIs ==
  ASSUME NEW s, SqlGood(s), NEW r \in RecordSet, NEW prior \in s.records, prior.key = r.key
  PROVE  /\ SqlGood(SqlUpdate(s, prior, r))
         /\ Updated(SqlUpdate(s, prior, r), s, r, prior, NextRow(s, r, prior))
<1> DEFINE n == Total(s.counts, RecordAliases(r))
           row == NextRow(s, r, prior)
           t == SqlUpdate(s, prior, r)
<1>1. s \in SqlSet /\ s.lastId \in Nat /\ prior \in RecordSet
  BY DEF SqlGood, SqlSet
<1>2. n \in Nat /\ SqlCounted(s, r) = CountedAs(r, n)
  BY <1>1, SqlCountedIs
<1>3. RowFor(row, r, n) /\ row.id = prior.id /\ (prior.speed # None => row.speed # None)
  <2> HIDE DEF n
  <2> DEFINE c == CountedAs(r, n)
  <2>1. RowFor(c, r, n) /\ c.speed = r.speed
    BY <1>2, CountedIs DEF RowFor, SamePage
  <2>2. row = Keep(c, prior)
    BY DEF NextRow, n
  <2> HIDE DEF c, row
  <2>3. c \in RecordSet
    BY <2>1 DEF RowFor, SamePage
  <2>4. SamePage(row, c)
    BY <1>1, <2>2, <2>3, KeepIs DEF SamePage
  <2>5. row.inlinks = c.inlinks
    BY <1>1, <2>2, <2>3, KeepIs
  <2> QED BY <1>1, <2>1, <2>2, <2>3, <2>4, <2>5, KeepIs DEF RowFor, SamePage
<1>4. t = [s EXCEPT !.records = (s.records \ {prior}) \cup {row}, !.edges = SqlShowEdges(s, row)]
  BY <1>2 DEF SqlUpdate, NextRow
<1>5. row \in RecordSet
  BY <1>3 DEF RowFor, SamePage
<1> HIDE DEF n, row, t
<1>6. EdgesShown(SqlShowEdges(s, row), s.edges, row)
  BY <1>1, <1>5, SqlShowEdgesIs
<1>7. SqlShowEdges(s, row) \in Seq(EdgeSet)
  BY <1>6 DEF EdgesShown
<1>8. /\ t.records = (s.records \ {prior}) \cup {row} /\ t.lastId = s.lastId
      /\ t.edges = SqlShowEdges(s, row) /\ SameRest(t, s)
  BY <1>1, <1>4 DEF SqlSet, SameRest
<1>9. t \in SqlSet
  <2>1. (s.records \ {prior}) \cup {row} \in SUBSET RecordSet
    BY <1>1, <1>5 DEF SqlSet
  <2> QED BY <1>1, <1>4, <1>7, <2>1 DEF SqlSet
<1>10. RowsAreKeyed(t)
  <2>1. RowsAreKeyed(s)
    BY DEF SqlGood
  <2>2. row.key = prior.key
    BY <1>3 DEF RowFor, SamePage
  <2> QED BY <1>3, <1>8, <2>1, <2>2 DEF RowsAreKeyed
<1>11. Bounded(t.queue)
  BY <1>8 DEF SqlGood, SameRest
<1>12. Updated(t, s, r, prior, row)
  BY <1>3, <1>6, <1>8 DEF Updated, n
<1> QED BY <1>9, <1>10, <1>11, <1>12 DEF SqlGood, t, row

LEMMA SqlUpsertGood ==
  ASSUME NEW s, SqlGood(s), NEW r \in RecordSet
  PROVE  SqlGood(SqlUpsert(s, r))
BY UpsertCases, SqlInsertIs, SqlUpdateIs

(* The calls that change rows in place: how each row changes.              *)
InlinkedRow(r, t) == IF RowIn(r, Aliases[t]) THEN [r EXCEPT !.inlinks = @ + 1] ELSE r
SnapshotRow(r, id) == IF r.id = id THEN [r EXCEPT !.speed = "measured"] ELSE r
MarkedRow(r, urls) == IF Overlap({r.url, r.final}, urls) THEN [r EXCEPT !.sitemap = TRUE] ELSE r
Given(r, batch) == {i \in DOMAIN batch : RowIn(r, Aliases[batch[i]])}
MeasuredRow(r, batch) ==
  IF Given(r, batch) = {} THEN r ELSE [r EXCEPT !.metric = batch[Max(Given(r, batch))]]

LEMMA InlinkedRowIs ==
  ASSUME NEW r \in RecordSet, NEW t
  PROVE  /\ KeepsRow(r, InlinkedRow(r, t)) /\ Shown(InlinkedRow(r, t)) = Shown(r)
         /\ RecordTexts(InlinkedRow(r, t)) = RecordTexts(r)
         /\ InlinkedRow(r, t).sitemap = r.sitemap /\ InlinkedRow(r, t).speed = r.speed
         /\ InlinkedRow(r, t).metric = r.metric
         /\ InlinkedRow(r, t).url = r.url /\ InlinkedRow(r, t).final = r.final
         /\ InlinkedRow(r, t).inlinks = IF RowIn(r, Aliases[t]) THEN r.inlinks + 1 ELSE r.inlinks
BY DEF InlinkedRow, RecordSet, KeepsRow, Shown, RecordTexts

LEMMA SnapshotRowIs ==
  ASSUME NEW r \in RecordSet, NEW id
  PROVE  /\ KeepsRow(r, SnapshotRow(r, id)) /\ Shown(SnapshotRow(r, id)) = Shown(r)
         /\ RecordTexts(SnapshotRow(r, id)) = RecordTexts(r)
         /\ SnapshotRow(r, id).sitemap = r.sitemap /\ SnapshotRow(r, id).metric = r.metric
         /\ (r.speed # None => SnapshotRow(r, id).speed # None)
         /\ SnapshotRow(r, id).url = r.url /\ SnapshotRow(r, id).final = r.final
         /\ SnapshotRow(r, id).inlinks = r.inlinks
BY NamesAreTexts DEF SnapshotRow, RecordSet, KeepsRow, Shown, RecordTexts

LEMMA MarkedRowIs ==
  ASSUME NEW r \in RecordSet, NEW urls
  PROVE  /\ KeepsRow(r, MarkedRow(r, urls)) /\ Shown(MarkedRow(r, urls)) = Shown(r)
         /\ RecordTexts(MarkedRow(r, urls)) = RecordTexts(r)
         /\ (r.sitemap \/ Overlap({r.url, r.final}, urls) => MarkedRow(r, urls).sitemap)
         /\ MarkedRow(r, urls).speed = r.speed /\ MarkedRow(r, urls).metric = r.metric
         /\ MarkedRow(r, urls).url = r.url /\ MarkedRow(r, urls).final = r.final
         /\ MarkedRow(r, urls).inlinks = r.inlinks
<1>1. CASE Overlap({r.url, r.final}, urls)
  <2>1. MarkedRow(r, urls) = [r EXCEPT !.sitemap = TRUE]
    BY <1>1 DEF MarkedRow
  <2> QED BY <2>1 DEF RecordSet, KeepsRow, Shown, RecordTexts
<1>2. CASE ~Overlap({r.url, r.final}, urls)
  <2>1. MarkedRow(r, urls) = r
    BY <1>2 DEF MarkedRow
  <2> QED BY <1>2, <2>1 DEF KeepsRow
<1> QED BY <1>1, <1>2

LEMMA MeasuredRowIs ==
  ASSUME NEW r \in RecordSet, NEW batch \in Seq(Texts)
  PROVE  /\ KeepsRow(r, MeasuredRow(r, batch)) /\ Shown(MeasuredRow(r, batch)) = Shown(r)
         /\ RecordTexts(MeasuredRow(r, batch)) = RecordTexts(r)
         /\ MeasuredRow(r, batch).sitemap = r.sitemap /\ MeasuredRow(r, batch).speed = r.speed
         /\ MeasuredRow(r, batch).url = r.url /\ MeasuredRow(r, batch).final = r.final
         /\ MeasuredRow(r, batch).inlinks = r.inlinks
         /\ (r.metric # None => MeasuredRow(r, batch).metric # None)
<1>1. CASE Given(r, batch) = {}
  BY <1>1 DEF MeasuredRow, KeepsRow
<1>2. CASE Given(r, batch) # {}
  <2> DEFINE v == batch[Max(Given(r, batch))]
  <2>1. v \in Texts
    <3>1. Len(batch) \in Nat /\ DOMAIN batch = 1..Len(batch)
      BY LenProperties
    <3>2. Given(r, batch) \in SUBSET (1..Len(batch))
      BY <3>1 DEF Given
    <3>3. Max(Given(r, batch)) \in 1..Len(batch)
      BY <1>2, <3>1, <3>2, MaxOfIndices
    <3> QED BY <3>3, ElementOfSeq
  <2>2. MeasuredRow(r, batch) = [r EXCEPT !.metric = v]
    BY <1>2 DEF MeasuredRow
  <2>3. v # None
    BY <2>1, StoreAssumption
  <2> HIDE DEF v
  <2> QED BY <2>1, <2>2, <2>3 DEF RecordSet, KeepsRow, Shown, RecordTexts
<1> QED BY <1>1, <1>2

(* The store after such a call: the rows, and everything else as it was.   *)
OthersSame(t, s) ==
  /\ t.lastId = s.lastId /\ t.edges = s.edges /\ t.images = s.images
  /\ t.references = s.references /\ t.captures = s.captures
  /\ t.queue = s.queue /\ t.seen = s.seen /\ t.crawled = s.crawled

LEMMA SqlInlinkIs ==
  ASSUME NEW s, SqlGood(s), NEW t \in Texts
  PROVE  /\ SqlGood(SqlInlink(s, t)) /\ OthersSame(SqlInlink(s, t), s)
         /\ SqlInlink(s, t).records = {InlinkedRow(r, t) : r \in s.records}
         /\ SqlInlink(s, t).counts = [s.counts EXCEPT ![t] = @ + 1]
<1> DEFINE f == [r \in s.records |-> InlinkedRow(r, t)]
           counts == [s.counts EXCEPT ![t] = @ + 1]
           u == [s EXCEPT !.records = {f[r] : r \in s.records}]
<1>1. s \in SqlSet /\ s.records \subseteq RecordSet
  BY DEF SqlGood, SqlSet
<1>2. \A r \in s.records : KeepsRow(r, f[r])
  <2>1. \A r \in s.records : f[r] = InlinkedRow(r, t)
    OBVIOUS
  <2> HIDE DEF f
  <2> QED BY <1>1, <2>1, InlinkedRowIs
<1>3. SqlGood(u)
  <2> HIDE DEF f
  <2> QED BY <1>2, RowsMapped
<1>4. {f[r] : r \in s.records} = {InlinkedRow(r, t) : r \in s.records}
  OBVIOUS
<1>5. SqlInlink(s, t) = [u EXCEPT !.counts = counts]
  <2>1. SqlInlink(s, t) = [s EXCEPT !.counts = counts,
                                    !.records = {InlinkedRow(r, t) : r \in s.records}]
    BY <1>1 DEF SqlInlink, InlinkedRow, SqlSet
  <2> HIDE DEF f, counts
  <2> QED BY <1>1, <1>4, <2>1 DEF SqlSet
<1>6. counts \in [Texts -> Nat]
  <2>1. s.counts \in [Texts -> Nat]
    BY <1>1 DEF SqlSet
  <2> QED BY <2>1
<1>7. u.records = {InlinkedRow(r, t) : r \in s.records} /\ OthersSame(u, s) /\ u \in SqlSet
  <2>1. u \in SqlSet
    BY <1>3 DEF SqlGood
  <2> HIDE DEF f
  <2> QED BY <1>1, <1>4, <2>1 DEF SqlSet, OthersSame
<1> HIDE DEF u, counts, f
<1> DEFINE v == SqlInlink(s, t)
<1>8. v \in SqlSet /\ v.records = u.records /\ v.counts = counts /\ OthersSame(v, u)
  BY <1>5, <1>6, <1>7 DEF SqlSet, OthersSame
<1> HIDE DEF v
<1>9. SqlGood(v)
  BY <1>3, <1>8 DEF SqlGood, RowsAreKeyed, OthersSame
<1> QED BY <1>7, <1>8, <1>9 DEF v, OthersSame, counts

(* The other calls that change rows in place, alike.                       *)
RowsBecome(t, s, f) ==
  /\ SqlGood(t) /\ OthersSame(t, s) /\ t.counts = s.counts
  /\ t.records = {f[r] : r \in s.records}

LEMMA RowsBecomeIs ==
  ASSUME NEW s, SqlGood(s), NEW f, \A r \in s.records : KeepsRow(r, f[r])
  PROVE  RowsBecome([s EXCEPT !.records = {f[r] : r \in s.records}], s, f)
<1>1. s \in SqlSet
  BY DEF SqlGood
<1>2. SqlGood([s EXCEPT !.records = {f[r] : r \in s.records}])
  BY RowsMapped
<1> QED BY <1>1, <1>2 DEF RowsBecome, OthersSame, SqlSet

SnapshotRows(s, id) == [r \in s.records |-> SnapshotRow(r, id)]
MarkedRows(s, urls) == [r \in s.records |-> MarkedRow(r, urls)]
MeasuredRows(s, batch) == [r \in s.records |-> MeasuredRow(r, batch)]

LEMMA SqlSnapshotIs ==
  ASSUME NEW s, SqlGood(s), NEW id
  PROVE  RowsBecome(SqlSnapshot(s, id, "measured"), s, SnapshotRows(s, id))
<1> DEFINE f == SnapshotRows(s, id)
<1>1. \A r \in s.records : f[r] = SnapshotRow(r, id)
  BY DEF SnapshotRows
<1>2. s \in SqlSet /\ s.records \subseteq RecordSet
  BY DEF SqlGood, SqlSet
<1>3. SqlSnapshot(s, id, "measured") = [s EXCEPT !.records = {SnapshotRow(r, id) : r \in s.records}]
  BY <1>2 DEF SqlSnapshot, SnapshotRow, SqlSet
<1> HIDE DEF f
<1>4. {f[r] : r \in s.records} = {SnapshotRow(r, id) : r \in s.records}
  BY <1>1
<1>5. \A r \in s.records : KeepsRow(r, f[r])
  BY <1>1, <1>2, SnapshotRowIs
<1>6. RowsBecome([s EXCEPT !.records = {f[r] : r \in s.records}], s, f)
  BY <1>5, RowsBecomeIs
<1> QED BY <1>3, <1>4, <1>6 DEF f

LEMMA SqlMarkIs ==
  ASSUME NEW s, SqlGood(s), NEW urls
  PROVE  RowsBecome(SqlMark(s, urls), s, MarkedRows(s, urls))
<1> DEFINE f == MarkedRows(s, urls)
<1>1. \A r \in s.records : f[r] = MarkedRow(r, urls)
  BY DEF MarkedRows
<1>2. s \in SqlSet /\ s.records \subseteq RecordSet
  BY DEF SqlGood, SqlSet
<1>3. SqlMark(s, urls) = [s EXCEPT !.records = {MarkedRow(r, urls) : r \in s.records}]
  BY <1>2 DEF SqlMark, MarkedRow, SqlSet
<1> HIDE DEF f
<1>4. {f[r] : r \in s.records} = {MarkedRow(r, urls) : r \in s.records}
  BY <1>1
<1>5. \A r \in s.records : KeepsRow(r, f[r])
  BY <1>1, <1>2, MarkedRowIs
<1>6. RowsBecome([s EXCEPT !.records = {f[r] : r \in s.records}], s, f)
  BY <1>5, RowsBecomeIs
<1> QED BY <1>3, <1>4, <1>6 DEF f

LEMMA SqlMetricsIs ==
  ASSUME NEW s, SqlGood(s), NEW batch \in Seq(Texts)
  PROVE  RowsBecome(SqlMetrics(s, batch), s, MeasuredRows(s, batch))
<1> DEFINE f == MeasuredRows(s, batch)
<1>1. \A r \in s.records : f[r] = MeasuredRow(r, batch)
  BY DEF MeasuredRows
<1>2. s \in SqlSet /\ s.records \subseteq RecordSet
  BY DEF SqlGood, SqlSet
<1>3. SqlMetrics(s, batch) = [s EXCEPT !.records = {MeasuredRow(r, batch) : r \in s.records}]
  BY <1>2 DEF SqlMetrics, MeasuredRow, Given, SqlSet
<1> HIDE DEF f
<1>4. {f[r] : r \in s.records} = {MeasuredRow(r, batch) : r \in s.records}
  BY <1>1
<1>5. \A r \in s.records : KeepsRow(r, f[r])
  BY <1>1, <1>2, MeasuredRowIs
<1>6. RowsBecome([s EXCEPT !.records = {f[r] : r \in s.records}], s, f)
  BY <1>5, RowsBecomeIs
<1> QED BY <1>3, <1>4, <1>6 DEF f

(* The end of an edge shows the earliest row that answers for it.          *)
Hits(s, t) == {r \in s.records : RowIn(r, Aliases[t])}
EndIs(v, s, t, known) ==
  \/ Hits(s, t) = {} /\ v = known
  \/ \E r \in Hits(s, t) : v = Shown(r) /\ \A x \in Hits(s, t) : r.id <= x.id

LEMMA SqlEndIs ==
  ASSUME NEW s, SqlGood(s), NEW t, NEW known
  PROVE  EndIs(SqlEnd(s, t, known), s, t, known)
<1>1. CASE Hits(s, t) = {}
  BY <1>1 DEF EndIs, SqlEnd, Hits
<1>2. CASE Hits(s, t) # {}
  <2> DEFINE ids == {r.id : r \in Hits(s, t)}
             least == CHOOSE r \in Hits(s, t) : \A x \in Hits(s, t) : r.id <= x.id
  <2>1. \A r \in Hits(s, t) : r.id \in Nat
    BY DEF Hits, SqlGood, SqlSet, RecordSet
  <2>2. ids \subseteq Nat /\ ids # {}
    BY <1>2, <2>1
  <2>3. PICK i \in ids : \A k \in ids : i <= k
    <3> HIDE DEF ids
    <3> QED BY <2>2, LeastNatural
  <2>4. \E r \in Hits(s, t) : \A x \in Hits(s, t) : r.id <= x.id
    BY <2>3
  <2>5. least \in Hits(s, t) /\ \A x \in Hits(s, t) : least.id <= x.id
    BY <2>4
  <2>6. SqlEnd(s, t, known) = Shown(least)
    BY <1>2 DEF SqlEnd, Hits
  <2> HIDE DEF least
  <2> QED BY <2>5, <2>6 DEF EndIs
<1> QED BY <1>1, <1>2

NewEdge(s, e) == [e EXCEPT !.from = SqlEnd(s, e.source, e.from), !.to = SqlEnd(s, e.target, e.to)]

LEMMA SqlEdgeIs ==
  ASSUME NEW s, SqlGood(s), NEW e \in EdgeSet
  PROVE  /\ SqlGood(SqlEdge(s, e)) /\ SameRest(SqlEdge(s, e), s)
         /\ SqlEdge(s, e).records = s.records /\ SqlEdge(s, e).lastId = s.lastId
         /\ SqlEdge(s, e).edges = Append(s.edges, NewEdge(s, e))
         /\ NewEdge(s, e) \in EdgeSet
         /\ NewEdge(s, e).source = e.source /\ NewEdge(s, e).target = e.target
         /\ EndIs(NewEdge(s, e).to, s, e.target, e.to)
<1> DEFINE u == SqlEdge(s, e)
           new == NewEdge(s, e)
<1>1. s \in SqlSet /\ s.records \subseteq RecordSet /\ s.edges \in Seq(EdgeSet)
  BY DEF SqlGood, SqlSet
<1>2. ASSUME NEW t, NEW known, known \in Ends \cup {None}
      PROVE  /\ SqlEnd(s, t, known) \in Ends \cup {None}
             /\ known \in Ends => SqlEnd(s, t, known) \in Ends
  <2>1. \A r \in Hits(s, t) : Shown(r) \in Ends
    BY <1>1, NamesOfRecord DEF Hits
  <2> QED BY <1>2, <2>1, SqlEndIs DEF EndIs
<1>3. e.from \in Ends /\ e.to \in Ends \cup {None}
  BY DEF EdgeSet
<1>4. SqlEnd(s, e.source, e.from) \in Ends /\ SqlEnd(s, e.target, e.to) \in Ends \cup {None}
  BY <1>2, <1>3
<1>5. /\ new \in EdgeSet /\ new.source = e.source /\ new.target = e.target
      /\ new.to = SqlEnd(s, e.target, e.to)
  BY <1>4 DEF NewEdge, EdgeSet
<1>6. u = [s EXCEPT !.edges = Append(s.edges, new)]
  BY <1>1 DEF SqlEdge, NewEdge, SqlSet, EdgeSet
<1> HIDE DEF new, u
<1>7. Append(s.edges, new) \in Seq(EdgeSet)
  BY <1>1, <1>5, AppendProperties
<1>8. /\ SameRest(u, s) /\ u.records = s.records /\ u.lastId = s.lastId
      /\ u.edges = Append(s.edges, new) /\ u \in SqlSet
  BY <1>1, <1>6, <1>7 DEF SqlSet, SameRest
<1>9. SqlGood(u)
  BY <1>8 DEF SqlGood, RowsAreKeyed, SameRest
<1>10. EndIs(new.to, s, e.target, e.to)
  BY <1>5, SqlEndIs
<1> QED BY <1>5, <1>8, <1>9, <1>10 DEF new, u

(* The calls that leave rows, links and counts alone.                      *)
RowsSame(t, s) ==
  t.records = s.records /\ t.lastId = s.lastId /\ t.counts = s.counts /\ t.edges = s.edges

LEMMA RowsSameGood ==
  ASSUME NEW s, SqlGood(s), NEW t \in SqlSet, RowsSame(t, s), Bounded(t.queue)
  PROVE  SqlGood(t)
BY DEF SqlGood, RowsSame, RowsAreKeyed

LEMMA SqlReferencesIs ==
  ASSUME NEW s, SqlGood(s), NEW key \in CrawlNames, NEW targets \in SUBSET Texts
  PROVE  SqlGood(SqlReferences(s, key, targets)) /\ RowsSame(SqlReferences(s, key, targets), s)
<1> DEFINE new == {x \in s.references : x.key # key} \cup [key : {key}, target : targets]
           t == SqlReferences(s, key, targets)
<1>1. s \in SqlSet /\ s.references \subseteq ReferenceSet
  BY DEF SqlGood, SqlSet
<1>2. new \in SUBSET ReferenceSet
  BY <1>1 DEF ReferenceSet
<1>3. t = [s EXCEPT !.references = new]
  BY <1>1 DEF SqlReferences, SqlSet
<1> HIDE DEF new, t
<1>4. t \in SqlSet /\ RowsSame(t, s) /\ t.queue = s.queue
  BY <1>1, <1>2, <1>3 DEF SqlSet, RowsSame
<1>5. SqlGood(t)
  BY <1>4, RowsSameGood DEF SqlGood
<1> QED BY <1>4, <1>5 DEF t

LEMMA SqlImagesIs ==
  ASSUME NEW s, SqlGood(s), NEW page \in CrawlNames, NEW pics \in SUBSET Pictures
  PROVE  SqlGood(SqlImages(s, page, pics)) /\ RowsSame(SqlImages(s, page, pics), s)
<1> DEFINE new == {x \in s.images : x.page # page} \cup [page : {page}, pic : pics]
           t == SqlImages(s, page, pics)
<1>1. s \in SqlSet /\ s.images \subseteq ImageSet
  BY DEF SqlGood, SqlSet
<1>2. new \in SUBSET ImageSet
  BY <1>1 DEF ImageSet
<1>3. t = [s EXCEPT !.images = new]
  BY <1>1 DEF SqlImages, SqlSet
<1> HIDE DEF new, t
<1>4. t \in SqlSet /\ RowsSame(t, s) /\ t.queue = s.queue
  BY <1>1, <1>2, <1>3 DEF SqlSet, RowsSame
<1>5. SqlGood(t)
  BY <1>4, RowsSameGood DEF SqlGood
<1> QED BY <1>4, <1>5 DEF t

LEMMA SqlCaptureIs ==
  ASSUME NEW s, SqlGood(s), NEW key \in CrawlNames, NEW body \in Bodies
  PROVE  SqlGood(SqlCapture(s, key, body)) /\ RowsSame(SqlCapture(s, key, body), s)
<1> DEFINE new == {x \in s.captures : x.key # key}
                    \cup (IF body = None THEN {} ELSE {[key |-> key, body |-> body]})
           t == SqlCapture(s, key, body)
<1>1. s \in SqlSet /\ s.captures \subseteq CaptureSet
  BY DEF SqlGood, SqlSet
<1>2. new \in SUBSET CaptureSet
  BY <1>1 DEF CaptureSet
<1>3. t = [s EXCEPT !.captures = new]
  BY <1>1 DEF SqlCapture, SqlSet
<1> HIDE DEF new, t
<1>4. t \in SqlSet /\ RowsSame(t, s) /\ t.queue = s.queue
  BY <1>1, <1>2, <1>3 DEF SqlSet, RowsSame
<1>5. SqlGood(t)
  BY <1>4, RowsSameGood DEF SqlGood
<1> QED BY <1>4, <1>5 DEF t

(* The saved queue.                                                        *)
RowSet == [position : Nat, item : QueueItems]
NextPosition(left) == IF left = {} THEN 0 ELSE Max({row.position : row \in left}) + 1
FlaggedItem(item, urls) == [item EXCEPT !.sitemap = @ \/ item.url \in urls]

LEMMA NextPositionIs ==
  ASSUME NEW left \in SUBSET RowSet, Bounded(left)
  PROVE  NextPosition(left) \in Nat /\ \A row \in left : row.position < NextPosition(left)
<1> DEFINE T == {row.position : row \in left}
<1>1. CASE left = {}
  BY <1>1 DEF NextPosition
<1>2. CASE left # {}
  <2>1. T \in SUBSET Nat /\ T # {}
    BY <1>2 DEF RowSet
  <2>2. PICK b \in Nat : \A x \in T : x < b
    BY DEF Bounded
  <2>3. Max(T) \in T /\ \A x \in T : x <= Max(T)
    <3> HIDE DEF T
    <3> QED BY <2>1, <2>2, MaxOfBounded
  <2>4. NextPosition(left) = Max(T) + 1
    BY <1>2 DEF NextPosition
  <2>5. \A row \in left : row.position \in T
    OBVIOUS
  <2> HIDE DEF T
  <2>6. Max(T) \in Nat /\ \A x \in T : x \in Nat
    BY <2>1, <2>3
  <2>7. \A x \in T : x < Max(T) + 1
    BY <2>3, <2>6
  <2> QED BY <2>4, <2>5, <2>6, <2>7
<1> QED BY <1>1, <1>2

LEMMA FlaggedItemIs ==
  ASSUME NEW item \in QueueItems, NEW urls
  PROVE  /\ FlaggedItem(item, urls) \in QueueItems
         /\ FlaggedItem(item, urls).key = item.key /\ FlaggedItem(item, urls).url = item.url
<1>1. CASE item.url \in urls
  <2>1. FlaggedItem(item, urls) = [item EXCEPT !.sitemap = TRUE]
    BY <1>1 DEF FlaggedItem, QueueItems
  <2> QED BY <2>1 DEF QueueItems
<1>2. CASE item.url \notin urls
  <2>1. FlaggedItem(item, urls) = [item EXCEPT !.sitemap = item.sitemap]
    BY <1>2 DEF FlaggedItem, QueueItems
  <2> QED BY <2>1 DEF QueueItems
<1> QED BY <1>1, <1>2

(* The rows an update of the queue adds, after those it leaves.            *)
AddedRows(next, new) == {[position |-> next + i - 1, item |-> new[i]] : i \in DOMAIN new}
FlaggedRow(row, urls) == [row EXCEPT !.item = FlaggedItem(row.item, urls)]
FlaggedRows(queue, urls) == {FlaggedRow(row, urls) : row \in queue}
LeftRows(s, done) == {row \in s.queue : row.item.key # done}
NewRows(s, done, new) == LeftRows(s, done) \cup AddedRows(NextPosition(LeftRows(s, done)), new)

LEMMA AddedRowsAre ==
  ASSUME NEW next \in Nat, NEW new \in Seq(QueueItems)
  PROVE  /\ AddedRows(next, new) \in SUBSET RowSet
         /\ \A row \in AddedRows(next, new) : row.position < next + Len(new)
<1>1. Len(new) \in Nat /\ DOMAIN new = 1..Len(new)
  BY LenProperties
<1>2. ASSUME NEW i \in 1..Len(new)
      PROVE  next + i - 1 \in Nat /\ next + i - 1 < next + Len(new) /\ new[i] \in QueueItems
  BY <1>1, ElementOfSeq
<1> QED BY <1>1, <1>2 DEF AddedRows, RowSet

LEMMA SqlFrontierIs ==
  ASSUME NEW s, SqlGood(s), NEW done, NEW new \in Seq(QueueItems), NEW urls, NEW crawled \in Nat
  PROVE  /\ SqlGood(SqlFrontier(s, done, new, urls, crawled))
         /\ RowsSame(SqlFrontier(s, done, new, urls, crawled), s)
         /\ SqlFrontier(s, done, new, urls, crawled).queue
              = FlaggedRows(NewRows(s, done, new), urls)
<1> DEFINE left == LeftRows(s, done)
           next == NextPosition(left)
           all == NewRows(s, done, new)
           queue == FlaggedRows(all, urls)
           seen == s.seen \cup {item.key : item \in ToSet(new)}
           t == SqlFrontier(s, done, new, urls, crawled)
<1>1. s \in SqlSet /\ s.queue \in SUBSET RowSet /\ s.seen \in SUBSET CrawlNames
  BY DEF SqlGood, SqlSet, RowSet
<1>2. left \in SUBSET RowSet /\ Bounded(left)
  BY <1>1 DEF LeftRows, Bounded, SqlGood
<1>3. next \in Nat /\ \A row \in left : row.position < next
  <2> HIDE DEF left
  <2> QED BY <1>2, NextPositionIs
<1>4. Len(new) \in Nat /\ AddedRows(next, new) \in SUBSET RowSet
      /\ \A row \in AddedRows(next, new) : row.position < next + Len(new)
  <2> HIDE DEF next
  <2> QED BY <1>3, AddedRowsAre, LenProperties
<1>5. all = left \cup AddedRows(next, new)
  BY DEF NewRows
<1> HIDE DEF left, next, all
<1>6. all \in SUBSET RowSet /\ \A row \in all : row.position < next + Len(new)
  <2>1. \A row \in left : row.position < next + Len(new)
    BY <1>2, <1>3, <1>4 DEF RowSet
  <2> QED BY <1>2, <1>4, <1>5, <2>1
<1>7. \A row \in all : FlaggedRow(row, urls) \in RowSet
                       /\ FlaggedRow(row, urls).position = row.position
  <2>1. ASSUME NEW row \in RowSet
        PROVE  FlaggedRow(row, urls) \in RowSet /\ FlaggedRow(row, urls).position = row.position
    <3>1. FlaggedItem(row.item, urls) \in QueueItems
      BY FlaggedItemIs DEF RowSet
    <3> QED BY <3>1 DEF RowSet, FlaggedRow
  <2> QED BY <1>6, <2>1
<1>8. queue \in SUBSET RowSet /\ Bounded(queue)
  <2>1. next + Len(new) \in Nat
    BY <1>3, <1>4
  <2> QED BY <1>6, <1>7, <2>1 DEF Bounded, FlaggedRows
<1>9. seen \in SUBSET CrawlNames
  <2>1. ASSUME NEW item \in ToSet(new) PROVE item.key \in CrawlNames
    <3>1. item \in QueueItems
      BY ElementOfSeq, LenProperties DEF ToSet
    <3> QED BY <3>1 DEF QueueItems
  <2> QED BY <1>1, <2>1
<1>10. \A row \in all : [row EXCEPT !.item.sitemap = @ \/ row.item.url \in urls] = FlaggedRow(row, urls)
  BY <1>6 DEF FlaggedRow, FlaggedItem, RowSet, QueueItems
<1>11. t = [s EXCEPT !.queue = {[row EXCEPT !.item.sitemap = @ \/ row.item.url \in urls] : row \in all},
                     !.seen = seen, !.crawled = crawled]
  BY <1>1 DEF SqlFrontier, NewRows, LeftRows, NextPosition, AddedRows, all, SqlSet
<1>12. t = [s EXCEPT !.queue = queue, !.seen = seen, !.crawled = crawled]
  <2>1. {[row EXCEPT !.item.sitemap = @ \/ row.item.url \in urls] : row \in all} = queue
    BY <1>10 DEF FlaggedRows
  <2> HIDE DEF t, seen, queue
  <2> QED BY <1>11, <2>1
<1> HIDE DEF queue, seen, t
<1>13. t \in SqlSet /\ RowsSame(t, s) /\ t.queue = queue
  BY <1>1, <1>8, <1>9, <1>12 DEF SqlSet, RowsSame, RowSet
<1>14. SqlGood(t)
  BY <1>8, <1>13, RowsSameGood
<1> QED BY <1>13, <1>14 DEF t, queue, all

LEMMA SqlSaveFrontierIs ==
  ASSUME NEW s, SqlGood(s), NEW state \in FrontierSet
  PROVE  /\ SqlGood(SqlSaveFrontier(s, state)) /\ RowsSame(SqlSaveFrontier(s, state), s)
<1> DEFINE queue == {[position |-> i - 1, item |-> state.queued[i]] : i \in DOMAIN state.queued}
           t == SqlSaveFrontier(s, state)
<1>1. s \in SqlSet /\ state.queued \in Seq(QueueItems)
      /\ state.seen \in SUBSET CrawlNames /\ state.crawled \in Nat
  BY DEF SqlGood, SqlSet, FrontierSet
<1>2. queue \in SUBSET RowSet /\ Bounded(queue)
  <2>1. queue = AddedRows(0, state.queued)
    <3>1. \A i \in DOMAIN state.queued : 0 + i - 1 = i - 1
      BY <1>1, LenProperties
    <3> QED BY <3>1 DEF AddedRows
  <2>2. AddedRows(0, state.queued) \in SUBSET RowSet
        /\ \A row \in AddedRows(0, state.queued) : row.position < 0 + Len(state.queued)
    BY <1>1, AddedRowsAre
  <2>3. 0 + Len(state.queued) \in Nat
    BY <1>1, LenProperties
  <2> QED BY <2>1, <2>2, <2>3 DEF Bounded
<1>3. t = [s EXCEPT !.queue = queue, !.seen = state.seen, !.crawled = state.crawled]
  BY DEF SqlSaveFrontier
<1> HIDE DEF queue, t
<1>4. t \in SqlSet /\ RowsSame(t, s) /\ t.queue = queue
  BY <1>1, <1>2, <1>3 DEF SqlSet, RowsSame, RowSet
<1>5. SqlGood(t)
  BY <1>2, <1>4, RowsSameGood
<1> QED BY <1>4, <1>5 DEF t

LEMMA SqlClearFrontierIs ==
  ASSUME NEW s, SqlGood(s)
  PROVE  /\ SqlGood(SqlClearFrontier(s)) /\ RowsSame(SqlClearFrontier(s), s)
<1> DEFINE t == SqlClearFrontier(s)
<1>1. s \in SqlSet
  BY DEF SqlGood
<1>2. t \in SqlSet /\ RowsSame(t, s) /\ t.queue = {}
  BY <1>1 DEF SqlClearFrontier, SqlSet, RowsSame
<1>3. Bounded({})
  BY DEF Bounded
<1> HIDE DEF t
<1>4. SqlGood(t)
  BY <1>2, <1>3, RowsSameGood
<1> QED BY <1>2, <1>4 DEF t

-----------------------------------------------------------------------------
(* The commit of a page.                                                   *)

LEMMA SeedTypes ==
  ASSUME NEW seeds \in Seeds
  PROVE  /\ seeds \in Seq(QueueItems) /\ seeds # <<>>
         /\ {item.key : item \in ToSet(seeds)} \subseteq CrawlNames
<1>1. seeds \in Seq(Items) /\ seeds # <<>> /\ Len(seeds) \in Nat /\ DOMAIN seeds = 1..Len(seeds)
  BY StoreAssumption, LenProperties
<1>2. ASSUME NEW i \in 1..Len(seeds)
      PROVE  seeds[i] \in QueueItems
  <2>1. seeds[i] \in Items /\ seeds[i] \in SeedItems
    BY <1>1, ElementOfSeq DEF SeedItems, ToSet
  <2>2. {seeds[i].key, seeds[i].url} \subseteq CrawlNames
    BY <2>1 DEF CrawlNames
  <2> QED BY <2>1, <2>2 DEF Items, QueueItems
<1>3. seeds \in Seq(QueueItems)
  BY <1>1, <1>2, SeqDef
<1>4. \A item \in ToSet(seeds) : item.key \in CrawlNames
  BY <1>1, <1>2 DEF ToSet, QueueItems
<1> QED BY <1>1, <1>3, <1>4

LEMMA FrontierItem ==
  ASSUME NEW state \in FrontierSet, NEW item \in ToSet(state.queued)
  PROVE  item \in QueueItems
<1>1. state.queued \in Seq(QueueItems)
  BY DEF FrontierSet
<1> QED BY <1>1, ElementOfSeq, LenProperties DEF ToSet

(* What is stored of a page, as the calls have it.                         *)
LEMMA RecordTypes ==
  ASSUME NEW item \in QueueItems, NEW served \in Answers[item.key]
  PROVE  /\ Record(item, served) \in NewRecords
         /\ Record(item, served).key = item.key
         /\ \A t \in CrawlNames : Edge(item, served, t) \in EdgeSet
<1>1. served.final \in CrawlNames /\ served.status \in Statuses
  BY AnswerTypes, NamesAreTexts DEF QueueItems
<1>2. Record(item, served) \in RecordSet
  BY <1>1 DEF Record, RecordSet, QueueItems
<1>3. /\ Record(item, served).inlinks = 0 /\ Record(item, served).speed = None
      /\ Record(item, served).metric = None /\ Record(item, served).key = item.key
  BY DEF Record
<1>4. ASSUME NEW t \in CrawlNames PROVE Edge(item, served, t) \in EdgeSet
  BY <1>1 DEF Edge, EdgeSet, Ends, QueueItems
<1> QED BY <1>2, <1>3, <1>4 DEF NewRecords

LEMMA UnseenTypes ==
  ASSUME NEW urls \in Seq(CrawlNames), NEW seen
  PROVE  Unseen(urls, seen) \in Seq(CrawlNames)
<1> DEFINE all == [i \in DOMAIN urls |-> i]
           new == {i \in DOMAIN urls : urls[i] \notin seen /\ \A k \in 1..(i - 1) : urls[k] # urls[i]}
           at == Kept(all, new)
<1>1. /\ Len(urls) \in Nat /\ DOMAIN urls = 1..Len(urls)
      /\ \A i \in 1..Len(urls) : urls[i] \in CrawlNames
  BY LenProperties, ElementOfSeq
<1>2. all \in Seq(1..Len(urls))
  <2>1. all \in [1..Len(urls) -> 1..Len(urls)]
    BY <1>1
  <2> QED BY <1>1, <2>1, SeqDef
<1> HIDE DEF all, new
<1>3. at \in Seq(1..Len(urls))
  BY <1>2, KeptIs
<1>4. Unseen(urls, seen) = [k \in DOMAIN at |-> urls[at[k]]]
  BY DEF Unseen, all, new
<1> HIDE DEF at
<1>5. Len(at) \in Nat /\ DOMAIN at = 1..Len(at) /\ \A k \in 1..Len(at) : at[k] \in 1..Len(urls)
  BY <1>3, LenProperties, ElementOfSeq
<1>6. [k \in DOMAIN at |-> urls[at[k]]] \in [1..Len(at) -> CrawlNames]
  BY <1>1, <1>5
<1> QED BY <1>4, <1>5, <1>6, SeqDef

LEMMA NewItemsTypes ==
  ASSUME NEW urls \in Seq(CrawlNames), NEW level \in Nat, NEW fromSitemap \in BOOLEAN
  PROVE  NewItems(urls, level, fromSitemap) \in Seq(QueueItems)
<1>1. /\ Len(urls) \in Nat /\ DOMAIN urls = 1..Len(urls)
      /\ \A i \in 1..Len(urls) : urls[i] \in CrawlNames
  BY LenProperties, ElementOfSeq
<1>2. NewItems(urls, level, fromSitemap) \in [1..Len(urls) -> QueueItems]
  BY <1>1 DEF NewItems, QueueItems
<1> QED BY <1>1, <1>2, SeqDef

LEMMA DiscoveredTypes ==
  ASSUME NEW item \in QueueItems, NEW served \in Answers[item.key], NEW seen
  PROVE  Discovered(item, served, seen) \in Seq(QueueItems)
<1>1. served.links \in Seq(CrawlNames) /\ served.listed \in Seq(CrawlNames) /\ item.depth + 1 \in Nat
  BY AnswerTypes, NamesAreTexts DEF QueueItems
<1>2. NewItems(Unseen(served.listed, seen), 0, TRUE) \in Seq(QueueItems)
  BY <1>1, UnseenTypes, NewItemsTypes
<1>3. NewItems(Unseen(served.links, seen \cup ToSet(served.listed)), item.depth + 1, FALSE)
        \in Seq(QueueItems)
  BY <1>1, UnseenTypes, NewItemsTypes
<1> QED BY <1>2, <1>3, ConcatProperties DEF Discovered

(* The parts of a commit: first what the links of the page say, ...        *)
MarkPart(served) ==
  IF Announced(served) = {} THEN <<>> ELSE <<[op |-> "mark", urls |-> Announced(served)]>>
InlinkPart(served) == [i \in DOMAIN served.links |-> [op |-> "inlink", target |-> served.links[i]]]
EdgePart(item, served) ==
  [i \in DOMAIN served.links |-> [op |-> "edge", edge |-> Edge(item, served, served.links[i])]]
(* ... then the page itself, in five calls.                                *)
PagePart(item, served) ==
  <<[op |-> "references", key |-> item.key, targets |-> served.references],
    [op |-> "images", page |-> served.final, pics |-> served.pics],
    [op |-> "upsert", record |-> Record(item, served), flagged |-> item.sitemap],
    [op |-> "capture", key |-> item.key, body |-> served.body],
    [op |-> "frontier", done |-> item.key, urls |-> Announced(served),
     new |-> Discovered(item, served, mem.frontier.seen)]>>

LEMMA CommitParts ==
  ASSUME NEW item, NEW served
  PROVE  Commit(item, served)
           = ((MarkPart(served) \o InlinkPart(served)) \o EdgePart(item, served))
               \o PagePart(item, served)
BY DEF Commit, MarkPart, InlinkPart, EdgePart, PagePart

LEMMA CommitTypes ==
  ASSUME NEW item \in QueueItems, NEW served \in Answers[item.key]
  PROVE  /\ MarkPart(served) \in Seq(MarkCalls) /\ InlinkPart(served) \in Seq(InlinkCalls)
         /\ EdgePart(item, served) \in Seq(EdgeCalls) /\ PagePart(item, served) \in Seq(CallSet)
         /\ Commit(item, served) \in Seq(CallSet)
<1>1. /\ served.final \in CrawlNames /\ served.links \in Seq(CrawlNames)
      /\ served.body \in Bodies /\ served.pics \subseteq Pictures
      /\ served.references \subseteq Texts /\ Announced(served) \subseteq Texts
      /\ item.key \in CrawlNames /\ item.sitemap \in BOOLEAN
  <2>1. served.listed \in Seq(CrawlNames)
    BY AnswerTypes, NamesAreTexts DEF QueueItems
  <2>2. Announced(served) \subseteq Texts
    BY <2>1, ElementOfSeq, NamesAreTexts DEF Announced, ToSet
  <2> QED BY <2>2, AnswerTypes, NamesAreTexts DEF QueueItems
<1>2. MarkPart(served) \in Seq(MarkCalls)
  <2>1. [op |-> "mark", urls |-> Announced(served)] \in MarkCalls
    BY <1>1 DEF MarkCalls
  <2> QED BY <2>1, EmptySeq DEF MarkPart
<1>3. /\ Len(served.links) \in Nat /\ DOMAIN served.links = 1..Len(served.links)
      /\ \A i \in 1..Len(served.links) : served.links[i] \in CrawlNames
  BY <1>1, LenProperties, ElementOfSeq
<1>4. InlinkPart(served) \in Seq(InlinkCalls)
  <2>1. InlinkPart(served) \in [1..Len(served.links) -> InlinkCalls]
    BY <1>3 DEF InlinkPart, InlinkCalls
  <2> QED BY <1>3, <2>1, SeqDef
<1>5. EdgePart(item, served) \in Seq(EdgeCalls)
  <2>1. \A i \in 1..Len(served.links) :
          [op |-> "edge", edge |-> Edge(item, served, served.links[i])] \in EdgeCalls
    BY <1>3, RecordTypes DEF EdgeCalls
  <2>2. EdgePart(item, served) \in [1..Len(served.links) -> EdgeCalls]
    BY <1>3, <2>1 DEF EdgePart
  <2> QED BY <1>3, <2>2, SeqDef
<1>6. PagePart(item, served) \in Seq(CallSet)
  <2>1. [op |-> "references", key |-> item.key, targets |-> served.references] \in ReferenceCalls
    BY <1>1 DEF ReferenceCalls
  <2>2. [op |-> "images", page |-> served.final, pics |-> served.pics] \in ImageCalls
    BY <1>1 DEF ImageCalls
  <2>3. [op |-> "upsert", record |-> Record(item, served), flagged |-> item.sitemap] \in UpsertCalls
    BY <1>1, RecordTypes DEF UpsertCalls
  <2>4. [op |-> "capture", key |-> item.key, body |-> served.body] \in CaptureCalls
    BY <1>1 DEF CaptureCalls
  <2>5. [op |-> "frontier", done |-> item.key, urls |-> Announced(served),
         new |-> Discovered(item, served, mem.frontier.seen)] \in FrontierCalls
    BY <1>1, DiscoveredTypes DEF FrontierCalls
  <2> QED BY <2>1, <2>2, <2>3, <2>4, <2>5 DEF PagePart, CallSet
<1>7. Commit(item, served) \in Seq(CallSet)
  <2>1. /\ Seq(MarkCalls) \subseteq Seq(CallSet) /\ Seq(InlinkCalls) \subseteq Seq(CallSet)
        /\ Seq(EdgeCalls) \subseteq Seq(CallSet)
    <3>1. MarkCalls \subseteq CallSet /\ InlinkCalls \subseteq CallSet /\ EdgeCalls \subseteq CallSet
      BY DEF CallSet
    <3> QED BY <3>1, SeqMonotonic
  <2>2. /\ MarkPart(served) \in Seq(CallSet) /\ InlinkPart(served) \in Seq(CallSet)
        /\ EdgePart(item, served) \in Seq(CallSet)
    BY <1>2, <1>4, <1>5, <2>1
  <2>3. MarkPart(served) \o InlinkPart(served) \in Seq(CallSet)
    BY <2>2, ConcatProperties
  <2>4. (MarkPart(served) \o InlinkPart(served)) \o EdgePart(item, served) \in Seq(CallSet)
    BY <2>2, <2>3, ConcatProperties
  <2> QED BY <1>6, <2>4, CommitParts, ConcatProperties
<1> QED BY <1>2, <1>4, <1>5, <1>6, <1>7

-----------------------------------------------------------------------------
(* The memory store beside the database: for what the rows say only its    *)
(* frontier matters, from which the next page is taken.                    *)

MemFields == {"records", "byAlias", "counts", "firsts", "edges", "bySource", "byTarget",
              "images", "references", "captures", "frontier"}
MemShape(m) == MemFields \subseteq DOMAIN m /\ m.frontier \in FrontierSet \cup {None}
FrontierSame(n, m) == MemFields \subseteq DOMAIN n /\ n.frontier = m.frontier

LEMMA EmptyMemoryShape == MemShape(EmptyMemory)
BY DEF EmptyMemory, MemShape, MemFields

LEMMA MemRowsLeaveFrontier ==
  ASSUME NEW m, MemShape(m), NEW r, NEW t, NEW id, NEW batch, NEW urls
  PROVE  /\ FrontierSame(MemUpsert(m, r), m) /\ FrontierSame(MemInlink(m, t), m)
         /\ FrontierSame(MemSnapshot(m, id, "measured"), m) /\ FrontierSame(MemMetrics(m, batch), m)
         /\ FrontierSame(MemMark(m, urls), m)
<1>1. FrontierSame(MemUpsert(m, r), m)
  BY DEF MemUpsert, FrontierSame, MemShape, MemFields
<1>2. FrontierSame(MemInlink(m, t), m)
  BY DEF MemInlink, FrontierSame, MemShape, MemFields
<1>3. FrontierSame(MemSnapshot(m, id, "measured"), m)
  BY DEF MemSnapshot, FrontierSame, MemShape, MemFields
<1>4. FrontierSame(MemMetrics(m, batch), m)
  BY DEF MemMetrics, FrontierSame, MemShape, MemFields
<1>5. FrontierSame(MemMark(m, urls), m)
  BY DEF MemMark, FrontierSame, MemShape, MemFields
<1> QED BY <1>1, <1>2, <1>3, <1>4, <1>5

LEMMA MemPartsLeaveFrontier ==
  ASSUME NEW m, MemShape(m), NEW e, NEW key, NEW targets, NEW pics, NEW body
  PROVE  /\ FrontierSame(MemEdge(m, e), m) /\ FrontierSame(MemReferences(m, key, targets), m)
         /\ FrontierSame(MemImages(m, key, pics), m) /\ FrontierSame(MemCapture(m, key, body), m)
<1>1. FrontierSame(MemEdge(m, e), m)
  BY DEF MemEdge, FrontierSame, MemShape, MemFields
<1>2. FrontierSame(MemReferences(m, key, targets), m)
  BY DEF MemReferences, FrontierSame, MemShape, MemFields
<1>3. FrontierSame(MemImages(m, key, pics), m)
  BY DEF MemImages, FrontierSame, MemShape, MemFields
<1>4. FrontierSame(MemCapture(m, key, body), m)
  BY DEF MemCapture, FrontierSame, MemShape, MemFields
<1> QED BY <1>1, <1>2, <1>3, <1>4

(* The frontier after a page.                                              *)
LeftItems(queued, done) == Kept(queued, {item \in ToSet(queued) : item.key # done})
FlaggedItems(queued, urls) == [i \in DOMAIN queued |-> FlaggedItem(queued[i], urls)]

LEMMA FlaggedItemsType ==
  ASSUME NEW queued \in Seq(QueueItems), NEW urls
  PROVE  /\ FlaggedItems(queued, urls) \in Seq(QueueItems)
         /\ Len(FlaggedItems(queued, urls)) = Len(queued)
         /\ \A i \in 1..Len(queued) : FlaggedItems(queued, urls)[i] = FlaggedItem(queued[i], urls)
<1>1. /\ Len(queued) \in Nat /\ DOMAIN queued = 1..Len(queued)
      /\ \A i \in 1..Len(queued) : queued[i] \in QueueItems
  BY LenProperties, ElementOfSeq
<1>2. FlaggedItems(queued, urls) \in [1..Len(queued) -> QueueItems]
  BY <1>1, FlaggedItemIs DEF FlaggedItems
<1>3. FlaggedItems(queued, urls) \in Seq(QueueItems)
  BY <1>1, <1>2, SeqDef
<1>4. Len(FlaggedItems(queued, urls)) = Len(queued)
  BY <1>1, <1>2, <1>3, LenProperties
<1> QED BY <1>1, <1>3, <1>4 DEF FlaggedItems

LEMMA MemFrontierIs ==
  ASSUME NEW m, MemShape(m), m.frontier \in FrontierSet, NEW done, NEW new \in Seq(QueueItems),
         NEW urls, NEW crawled \in Nat
  PROVE  /\ MemFields \subseteq DOMAIN MemFrontier(m, done, new, urls, crawled)
         /\ MemFrontier(m, done, new, urls, crawled).frontier \in FrontierSet
         /\ MemFrontier(m, done, new, urls, crawled).frontier
              = [queued |-> FlaggedItems(LeftItems(m.frontier.queued, done) \o new, urls),
                 seen |-> m.frontier.seen \cup {item.key : item \in ToSet(new)},
                 crawled |-> crawled]
<1> DEFINE old == m.frontier
           queued == LeftItems(old.queued, done) \o new
           seen == old.seen \cup {item.key : item \in ToSet(new)}
           after == [queued |-> FlaggedItems(queued, urls), seen |-> seen, crawled |-> crawled]
<1>1. old.queued \in Seq(QueueItems) /\ old.seen \in SUBSET CrawlNames /\ old # None
  BY FrontiersAreSomething DEF FrontierSet
<1>2. LeftItems(old.queued, done) \in Seq(QueueItems)
  BY <1>1, KeptIs DEF LeftItems
<1> HIDE DEF old
<1>3. queued \in Seq(QueueItems)
  BY <1>2, ConcatProperties
<1>4. seen \in SUBSET CrawlNames
  <2>1. ASSUME NEW item \in ToSet(new) PROVE item.key \in CrawlNames
    <3>1. item \in QueueItems
      BY ElementOfSeq, LenProperties DEF ToSet
    <3> QED BY <3>1 DEF QueueItems
  <2> QED BY <1>1, <2>1
<1>5. FlaggedItems(queued, urls)
        = [i \in DOMAIN queued |-> [queued[i] EXCEPT !.sitemap = @ \/ queued[i].url \in urls]]
  <2>1. \A i \in DOMAIN queued : queued[i] \in QueueItems
    <3> HIDE DEF queued
    <3> QED BY <1>3, ElementOfSeq, LenProperties
  <2> HIDE DEF queued
  <2>2. \A i \in DOMAIN queued :
          FlaggedItem(queued[i], urls) = [queued[i] EXCEPT !.sitemap = @ \/ queued[i].url \in urls]
    BY <2>1, SMTT(30) DEF FlaggedItem, QueueItems
  <2> QED BY <2>2 DEF FlaggedItems
<1>6. MemFrontier(m, done, new, urls, crawled)
        = [m EXCEPT !.frontier =
            [queued |-> [i \in DOMAIN queued |-> [queued[i] EXCEPT !.sitemap = @ \/ queued[i].url \in urls]],
             seen |-> seen, crawled |-> crawled]]
  BY <1>1 DEF MemFrontier, LeftItems, old
<1> HIDE DEF queued, seen
<1>7. MemFrontier(m, done, new, urls, crawled) = [m EXCEPT !.frontier = after]
  BY <1>5, <1>6
<1>8. after \in FrontierSet
  BY <1>3, <1>4, FlaggedItemsType DEF FrontierSet
<1> HIDE DEF after
<1> QED BY <1>7, <1>8 DEF MemShape, MemFields, after, queued, seen, old

-----------------------------------------------------------------------------
(* What every step leaves true of the database, and of its rows.           *)

RowsInv ==
  /\ SqlGood(sql)
  /\ MemShape(mem)
  /\ calls \in Seq(CallSet)
  /\ calls # <<>> => mem.frontier \in FrontierSet
  /\ listed \subseteq Texts

Enriched(s, t) ==
  \A r \in s.records : \E x \in t.records :
    /\ x.key = r.key /\ x.id = r.id
    /\ r.speed # None => x.speed # None
    /\ r.metric # None => x.metric # None \/ Storing(r.key)

\* What a call that stores no row leaves of one.
Retained(r, x) ==
  /\ x.key = r.key /\ x.id = r.id
  /\ (r.speed # None => x.speed # None) /\ (r.metric # None => x.metric # None)

LEMMA SameRowsEnriched ==
  ASSUME NEW s, NEW t, t.records = s.records
  PROVE  Enriched(s, t)
BY DEF Enriched

LEMMA MappedRowsEnriched ==
  ASSUME NEW s, NEW t, NEW f, t.records = {f[r] : r \in s.records},
         \A r \in s.records : Retained(r, f[r])
  PROVE  Enriched(s, t)
BY DEF Enriched, Retained

LEMMA UpsertEnriched ==
  ASSUME NEW s, SqlGood(s), NEW r \in RecordSet, Storing(r.key)
  PROVE  Enriched(s, SqlUpsert(s, r))
<1>1. CASE (\A x \in s.records : x.key # r.key) /\ SqlUpsert(s, r) = SqlInsert(s, r)
  BY <1>1, SqlInsertIs DEF Inserted, Enriched
<1>2. ASSUME NEW prior \in s.records, prior.key = r.key, SqlUpsert(s, r) = SqlUpdate(s, prior, r)
      PROVE  Enriched(s, SqlUpsert(s, r))
  <2> DEFINE row == NextRow(s, r, prior)
             t == SqlUpdate(s, prior, r)
  <2>1. Updated(t, s, r, prior, row)
    BY <1>2, SqlUpdateIs
  <2> HIDE DEF t, row
  <2>2. /\ row.key = prior.key /\ row.id = prior.id /\ (prior.speed # None => row.speed # None)
        /\ t.records = (s.records \ {prior}) \cup {row}
    BY <1>2, <2>1 DEF Updated, RowFor, SamePage
  <2>3. Enriched(s, t)
    BY <1>2, <2>2 DEF Enriched
  <2> QED BY <1>2, <2>3 DEF t
<1> QED BY <1>1, <1>2, UpsertCases

(* The call that is due, and what is left when it has been made.           *)
LEMMA CallDue ==
  ASSUME RowsInv, NEW op, Calling(op)
  PROVE  /\ Head(calls) \in CallSet /\ Head(calls).op = op /\ Tail(calls) \in Seq(CallSet)
         /\ mem.frontier \in FrontierSet
BY HeadTailProperties, EmptySeq DEF RowsInv, Calling

LEMMA CallKinds ==
  ASSUME NEW c \in CallSet
  PROVE  /\ c.op = "mark" => c \in MarkCalls
         /\ c.op = "inlink" => c \in InlinkCalls
         /\ c.op = "edge" => c \in EdgeCalls
         /\ c.op = "references" => c \in ReferenceCalls
         /\ c.op = "images" => c \in ImageCalls
         /\ c.op = "upsert" => c \in UpsertCalls
         /\ c.op = "capture" => c \in CaptureCalls
         /\ c.op = "frontier" => c \in FrontierCalls
<1>1. /\ c \in MarkCalls => c.op = "mark"
      /\ c \in InlinkCalls => c.op = "inlink"
      /\ c \in EdgeCalls => c.op = "edge"
      /\ c \in ReferenceCalls => c.op = "references"
      /\ c \in ImageCalls => c.op = "images"
      /\ c \in UpsertCalls => c.op = "upsert"
      /\ c \in CaptureCalls => c.op = "capture"
      /\ c \in FrontierCalls => c.op = "frontier"
  BY DEF MarkCalls, InlinkCalls, EdgeCalls, ReferenceCalls, ImageCalls, UpsertCalls, CaptureCalls,
         FrontierCalls
<1> QED BY <1>1 DEF CallSet

(* A call has been made that leaves the frontier alone.                    *)
LEMMA CallMade ==
  ASSUME RowsInv, NEW op, Calling(op), Called, SqlGood(sql'), FrontierSame(mem', mem),
         listed' \subseteq Texts
  PROVE  RowsInv'
<1>1. mem.frontier \in FrontierSet /\ Tail(calls) \in Seq(CallSet)
  BY CallDue
<1>2. mem'.frontier \in FrontierSet /\ MemFields \subseteq DOMAIN mem'
  BY <1>1 DEF FrontierSame
<1>3. calls' \in Seq(CallSet)
  BY <1>1 DEF Called
<1> QED BY <1>2, <1>3 DEF RowsInv, MemShape

RowsStep == RowsInv' /\ Enriched(sql, sql')

LEMMA RowsInit ==
  ASSUME Init
  PROVE  RowsInv
<1>1. calls \in Seq(CallSet)
  BY EmptySeq DEF Init
<1> QED BY <1>1, EmptyTablesGood, EmptyMemoryShape DEF Init, RowsInv

LEMMA RowsStart ==
  ASSUME RowsInv, StartCrawl
  PROVE  RowsStep
<1>1. PICK seeds \in Seeds :
        LET state == [queued |-> seeds, seen |-> {item.key : item \in ToSet(seeds)}, crawled |-> 0]
        IN Both([mem EXCEPT !.frontier = state], SqlSaveFrontier(SqlClearFrontier(sql), state))
  BY DEF StartCrawl
<1> DEFINE state == [queued |-> seeds, seen |-> {item.key : item \in ToSet(seeds)}, crawled |-> 0]
<1>2. mem' = [mem EXCEPT !.frontier = state] /\ sql' = SqlSaveFrontier(SqlClearFrontier(sql), state)
  BY <1>1 DEF Both
<1>3. state \in FrontierSet
  BY SeedTypes DEF FrontierSet
<1> HIDE DEF state
<1>4. SqlGood(SqlClearFrontier(sql)) /\ RowsSame(SqlClearFrontier(sql), sql)
  BY SqlClearFrontierIs DEF RowsInv
<1>5. SqlGood(sql') /\ RowsSame(sql', SqlClearFrontier(sql))
  BY <1>2, <1>3, <1>4, SqlSaveFrontierIs
<1>6. mem'.frontier = state /\ MemFields \subseteq DOMAIN mem'
  BY <1>2 DEF RowsInv, MemShape, MemFields
<1>7. calls' = calls /\ listed' = {}
  BY DEF StartCrawl
<1>8. RowsInv'
  BY <1>3, <1>5, <1>6, <1>7 DEF RowsInv, MemShape
<1>9. sql'.records = sql.records
  BY <1>4, <1>5 DEF RowsSame
<1> QED BY <1>8, <1>9, SameRowsEnriched DEF RowsStep

LEMMA RowsBegin ==
  ASSUME RowsInv, BeginPage
  PROVE  RowsStep
<1>1. mem.frontier \in FrontierSet
  BY DEF BeginPage, RowsInv, MemShape
<1>2. PICK item \in ToSet(mem.frontier.queued) :
        \E served \in Answers[item.key] : calls' = Commit(item, served)
  BY DEF BeginPage
<1>3. item \in QueueItems
  BY <1>1, <1>2, FrontierItem
<1>4. calls' \in Seq(CallSet)
  BY <1>2, <1>3, CommitTypes
<1>5. mem' = mem /\ sql' = sql /\ listed' = listed
  BY DEF BeginPage
<1>6. RowsInv'
  BY <1>1, <1>4, <1>5 DEF RowsInv
<1> QED BY <1>5, <1>6, SameRowsEnriched DEF RowsStep

LEMMA RowsEnd ==
  ASSUME RowsInv, EndCrawl
  PROVE  RowsStep
<1>1. /\ mem' = [mem EXCEPT !.frontier = None] /\ sql' = SqlClearFrontier(sql)
      /\ calls' = calls /\ calls = <<>> /\ listed' = listed
  BY DEF EndCrawl, Both
<1>2. SqlGood(sql') /\ RowsSame(sql', sql)
  BY <1>1, SqlClearFrontierIs DEF RowsInv
<1>3. mem'.frontier = None /\ MemFields \subseteq DOMAIN mem'
  BY <1>1 DEF RowsInv, MemShape, MemFields
<1>4. RowsInv'
  BY <1>1, <1>2, <1>3 DEF RowsInv, MemShape
<1>5. sql'.records = sql.records
  BY <1>2 DEF RowsSame
<1> QED BY <1>4, <1>5, SameRowsEnriched DEF RowsStep

LEMMA RowsMark ==
  ASSUME RowsInv, MarkSitemapUrls
  PROVE  RowsStep
<1> DEFINE urls == Head(calls).urls
           f == MarkedRows(sql, urls)
<1>1. /\ Calling("mark") /\ Called /\ listed' = listed \cup urls
      /\ mem' = MemMark(mem, urls) /\ sql' = SqlMark(sql, urls)
  BY DEF MarkSitemapUrls, Both
<1>2. Head(calls) \in MarkCalls
  BY <1>1, CallDue, CallKinds
<1>3. listed' \subseteq Texts
  BY <1>1, <1>2 DEF MarkCalls, RowsInv
<1> HIDE DEF urls
<1>4. RowsBecome(sql', sql, f)
  BY <1>1, SqlMarkIs DEF RowsInv
<1>5. FrontierSame(mem', mem)
  BY <1>1, MemRowsLeaveFrontier DEF RowsInv
<1>6. RowsInv'
  BY <1>1, <1>3, <1>4, <1>5, CallMade DEF RowsBecome
<1>7. \A r \in sql.records : f[r] = MarkedRow(r, urls) /\ r \in RecordSet
  BY DEF MarkedRows, RowsInv, SqlGood, SqlSet
<1> HIDE DEF f
<1>8. \A r \in sql.records : Retained(r, f[r])
  <2>1. ASSUME NEW r \in RecordSet
        PROVE  Retained(r, MarkedRow(r, urls))
    BY MarkedRowIs DEF KeepsRow, Retained
  <2> QED BY <1>7, <2>1
<1>9. Enriched(sql, sql')
  BY <1>4, <1>8, MappedRowsEnriched DEF RowsBecome
<1> QED BY <1>6, <1>9 DEF RowsStep

LEMMA RowsInlink ==
  ASSUME RowsInv, AddInlink
  PROVE  RowsStep
<1> DEFINE t == Head(calls).target
<1>1. /\ Calling("inlink") /\ Called /\ listed' = listed
      /\ mem' = MemInlink(mem, t) /\ sql' = SqlInlink(sql, t)
  BY DEF AddInlink, Both
<1>2. t \in Texts
  BY <1>1, CallDue, CallKinds, NamesAreTexts DEF InlinkCalls
<1> HIDE DEF t
<1>3. SqlGood(sql') /\ sql'.records = {InlinkedRow(r, t) : r \in sql.records}
  BY <1>1, <1>2, SqlInlinkIs DEF RowsInv
<1>4. RowsInv'
  BY <1>1, <1>3, MemRowsLeaveFrontier, CallMade DEF RowsInv
<1>5. sql.records \subseteq RecordSet
  BY DEF RowsInv, SqlGood, SqlSet
<1>6. \A r \in sql.records : Retained(r, InlinkedRow(r, t))
  BY <1>5, InlinkedRowIs DEF KeepsRow, Retained
<1>7. Enriched(sql, sql')
  BY <1>3, <1>6 DEF Enriched, Retained
<1> QED BY <1>4, <1>7 DEF RowsStep

LEMMA RowsEdge ==
  ASSUME RowsInv, AddLinkEdge
  PROVE  RowsStep
<1> DEFINE e == Head(calls).edge
<1>1. /\ Calling("edge") /\ Called /\ listed' = listed
      /\ mem' = MemEdge(mem, e) /\ sql' = SqlEdge(sql, e)
  BY DEF AddLinkEdge, Both
<1>2. e \in EdgeSet
  BY <1>1, CallDue, CallKinds DEF EdgeCalls
<1> HIDE DEF e
<1>3. SqlGood(sql') /\ sql'.records = sql.records
  BY <1>1, <1>2, SqlEdgeIs DEF RowsInv
<1>4. RowsInv'
  BY <1>1, <1>3, MemPartsLeaveFrontier, CallMade DEF RowsInv
<1> QED BY <1>3, <1>4, SameRowsEnriched DEF RowsStep

LEMMA RowsReferences ==
  ASSUME RowsInv, AddPageReferences
  PROVE  RowsStep
<1> DEFINE c == Head(calls)
<1>1. /\ Calling("references") /\ Called /\ listed' = listed
      /\ mem' = MemReferences(mem, c.key, c.targets) /\ sql' = SqlReferences(sql, c.key, c.targets)
  BY DEF AddPageReferences, Both
<1>2. c.key \in CrawlNames /\ c.targets \in SUBSET Texts
  BY <1>1, CallDue, CallKinds DEF ReferenceCalls
<1> HIDE DEF c
<1>3. SqlGood(sql') /\ sql'.records = sql.records
  BY <1>1, <1>2, SqlReferencesIs DEF RowsInv, RowsSame
<1>4. RowsInv'
  BY <1>1, <1>3, MemPartsLeaveFrontier, CallMade DEF RowsInv
<1> QED BY <1>3, <1>4, SameRowsEnriched DEF RowsStep

LEMMA RowsImages ==
  ASSUME RowsInv, AddImageAssets
  PROVE  RowsStep
<1> DEFINE c == Head(calls)
<1>1. /\ Calling("images") /\ Called /\ listed' = listed
      /\ mem' = MemImages(mem, c.page, c.pics) /\ sql' = SqlImages(sql, c.page, c.pics)
  BY DEF AddImageAssets, Both
<1>2. c.page \in CrawlNames /\ c.pics \in SUBSET Pictures
  BY <1>1, CallDue, CallKinds DEF ImageCalls
<1> HIDE DEF c
<1>3. SqlGood(sql') /\ sql'.records = sql.records
  BY <1>1, <1>2, SqlImagesIs DEF RowsInv, RowsSame
<1>4. RowsInv'
  BY <1>1, <1>3, MemPartsLeaveFrontier, CallMade DEF RowsInv
<1> QED BY <1>3, <1>4, SameRowsEnriched DEF RowsStep

LEMMA RowsCapture ==
  ASSUME RowsInv, ReplacePageCapture
  PROVE  RowsStep
<1> DEFINE c == Head(calls)
<1>1. /\ Calling("capture") /\ Called /\ listed' = listed
      /\ mem' = MemCapture(mem, c.key, c.body) /\ sql' = SqlCapture(sql, c.key, c.body)
  BY DEF ReplacePageCapture, Both
<1>2. c.key \in CrawlNames /\ c.body \in Bodies
  BY <1>1, CallDue, CallKinds DEF CaptureCalls
<1> HIDE DEF c
<1>3. SqlGood(sql') /\ sql'.records = sql.records
  BY <1>1, <1>2, SqlCaptureIs DEF RowsInv, RowsSame
<1>4. RowsInv'
  BY <1>1, <1>3, MemPartsLeaveFrontier, CallMade DEF RowsInv
<1> QED BY <1>3, <1>4, SameRowsEnriched DEF RowsStep

(* The record as it is stored.                                             *)
Arriving(c) ==
  [c.record EXCEPT !.sitemap = c.flagged \/ Overlap({c.record.url, c.record.final}, listed)]

LEMMA ArrivingIs ==
  ASSUME NEW c \in UpsertCalls
  PROVE  /\ Arriving(c) \in NewRecords /\ Arriving(c) \in RecordSet
         /\ Arriving(c).key = c.record.key
         /\ Overlap({Arriving(c).url, Arriving(c).final}, listed) => Arriving(c).sitemap
<1>1. c.record \in RecordSet /\ c.record.inlinks = 0 /\ c.record.speed = None /\ c.record.metric = None
      /\ c.flagged \in BOOLEAN
  BY DEF UpsertCalls, NewRecords
<1> DEFINE b == c.flagged \/ Overlap({c.record.url, c.record.final}, listed)
<1>2. b \in BOOLEAN /\ Arriving(c) = [c.record EXCEPT !.sitemap = b]
      /\ (Overlap({c.record.url, c.record.final}, listed) => b)
  BY DEF Arriving
<1> HIDE DEF b
<1>3. /\ Arriving(c) \in RecordSet /\ Arriving(c).key = c.record.key /\ Arriving(c).url = c.record.url
      /\ Arriving(c).final = c.record.final /\ Arriving(c).inlinks = c.record.inlinks
      /\ Arriving(c).speed = c.record.speed /\ Arriving(c).metric = c.record.metric
  BY <1>1, <1>2 DEF RecordSet
<1>4. Arriving(c).sitemap = b
  BY <1>1, <1>2 DEF RecordSet
<1>5. Overlap({Arriving(c).url, Arriving(c).final}, listed) => Arriving(c).sitemap
  BY <1>2, <1>3, <1>4
<1> QED BY <1>1, <1>3, <1>5 DEF NewRecords

LEMMA RowsUpsert ==
  ASSUME RowsInv, Upsert
  PROVE  RowsStep
<1> DEFINE c == Head(calls)
           r == Arriving(c)
<1>1. /\ Calling("upsert") /\ Called /\ listed' = listed
      /\ mem' = MemUpsert(mem, r) /\ sql' = SqlUpsert(sql, r)
  BY DEF Upsert, Both, Arriving
<1>2. c \in UpsertCalls
  BY <1>1, CallDue, CallKinds
<1> HIDE DEF c
<1>3. r \in RecordSet /\ r.key = Head(calls).record.key
  BY <1>2, ArrivingIs DEF c
<1> HIDE DEF r
<1>4. Storing(r.key)
  BY <1>1, <1>3 DEF Storing
<1>5. SqlGood(sql') /\ Enriched(sql, sql')
  BY <1>1, <1>3, <1>4, SqlUpsertGood, UpsertEnriched DEF RowsInv
<1>6. RowsInv'
  BY <1>1, <1>5, MemRowsLeaveFrontier, CallMade DEF RowsInv
<1> QED BY <1>5, <1>6 DEF RowsStep

LEMMA RowsFrontier ==
  ASSUME RowsInv, UpdateFrontier
  PROVE  RowsStep
<1> DEFINE done == Head(calls).done
           new == Head(calls).new
           urls == Head(calls).urls
           crawled == mem.frontier.crawled + 1
<1>1. /\ Calling("frontier") /\ Called /\ listed' = listed
      /\ mem' = MemFrontier(mem, done, new, urls, crawled)
      /\ sql' = SqlFrontier(sql, done, new, urls, crawled)
  BY DEF UpdateFrontier, Both
<1>2. new \in Seq(QueueItems)
  BY <1>1, CallDue, CallKinds DEF FrontierCalls
<1>3. mem.frontier \in FrontierSet /\ Tail(calls) \in Seq(CallSet)
  BY <1>1, CallDue
<1>4. crawled \in Nat
  BY <1>3 DEF FrontierSet
<1> HIDE DEF done, new, urls, crawled
<1>5. SqlGood(sql') /\ sql'.records = sql.records
  <2>1. SqlGood(sql)
    BY DEF RowsInv
  <2>2. /\ SqlGood(SqlFrontier(sql, done, new, urls, crawled))
        /\ RowsSame(SqlFrontier(sql, done, new, urls, crawled), sql)
    BY <1>2, <1>4, <2>1, SqlFrontierIs
  <2> QED BY <1>1, <2>2 DEF RowsSame
<1>6. mem'.frontier \in FrontierSet /\ MemFields \subseteq DOMAIN mem'
  BY <1>1, <1>2, <1>3, <1>4, MemFrontierIs DEF RowsInv
<1>7. calls' \in Seq(CallSet)
  BY <1>1, <1>3 DEF Called
<1>8. RowsInv'
  BY <1>1, <1>5, <1>6, <1>7 DEF RowsInv, MemShape
<1> QED BY <1>5, <1>8, SameRowsEnriched DEF RowsStep

LEMMA RowsSnapshot ==
  ASSUME RowsInv, SaveSnapshot
  PROVE  RowsStep
<1>1. PICK x \in sql.records : mem' = MemSnapshot(mem, x.id, "measured")
                               /\ sql' = SqlSnapshot(sql, x.id, "measured")
  BY DEF SaveSnapshot, Both
<1> DEFINE f == SnapshotRows(sql, x.id)
<1>2. RowsBecome(sql', sql, f)
  BY <1>1, SqlSnapshotIs DEF RowsInv
<1>3. calls' = calls /\ listed' = listed
  BY DEF SaveSnapshot
<1>4. FrontierSame(mem', mem)
  BY <1>1, MemRowsLeaveFrontier DEF RowsInv
<1>5. RowsInv'
  BY <1>2, <1>3, <1>4 DEF RowsInv, RowsBecome, FrontierSame, MemShape
<1>6. \A r \in sql.records : f[r] = SnapshotRow(r, x.id) /\ r \in RecordSet
  BY DEF SnapshotRows, RowsInv, SqlGood, SqlSet
<1> HIDE DEF f
<1>7. \A r \in sql.records : Retained(r, f[r])
  <2>1. ASSUME NEW r \in RecordSet
        PROVE  Retained(r, SnapshotRow(r, x.id))
    BY SnapshotRowIs DEF KeepsRow, Retained
  <2> QED BY <1>6, <2>1
<1>8. Enriched(sql, sql')
  BY <1>2, <1>7, MappedRowsEnriched DEF RowsBecome
<1> QED BY <1>5, <1>8 DEF RowsStep

LEMMA RowsMetrics ==
  ASSUME RowsInv, MergeMetrics
  PROVE  RowsStep
<1>1. PICK batch \in Batches : mem' = MemMetrics(mem, batch) /\ sql' = SqlMetrics(sql, batch)
  BY DEF MergeMetrics, Both
<1> DEFINE f == MeasuredRows(sql, batch)
<1>2. batch \in Seq(Texts)
  BY StoreAssumption
<1>3. RowsBecome(sql', sql, f)
  BY <1>1, <1>2, SqlMetricsIs DEF RowsInv
<1>4. calls' = calls /\ listed' = listed
  BY DEF MergeMetrics
<1>5. FrontierSame(mem', mem)
  BY <1>1, MemRowsLeaveFrontier DEF RowsInv
<1>6. RowsInv'
  BY <1>3, <1>4, <1>5 DEF RowsInv, RowsBecome, FrontierSame, MemShape
<1>7. \A r \in sql.records : f[r] = MeasuredRow(r, batch) /\ r \in RecordSet
  BY DEF MeasuredRows, RowsInv, SqlGood, SqlSet
<1> HIDE DEF f
<1>8. \A r \in sql.records : Retained(r, f[r])
  <2>1. ASSUME NEW r \in RecordSet
        PROVE  Retained(r, MeasuredRow(r, batch))
    BY <1>2, MeasuredRowIs DEF KeepsRow, Retained
  <2> QED BY <1>7, <2>1
<1>9. Enriched(sql, sql')
  BY <1>3, <1>8, MappedRowsEnriched DEF RowsBecome
<1> QED BY <1>6, <1>9 DEF RowsStep

LEMMA RowsKeep ==
  ASSUME RowsInv, [Next]_vars
  PROVE  RowsStep
<1>1. CASE UNCHANGED vars
  <2>1. RowsInv'
    BY <1>1 DEF vars, RowsInv
  <2> QED BY <1>1, <2>1, SameRowsEnriched DEF vars, RowsStep
<1>2. CASE Next
  BY <1>2, RowsStart, RowsBegin, RowsEnd, RowsMark, RowsInlink, RowsEdge, RowsReferences, RowsImages,
     RowsUpsert, RowsCapture, RowsFrontier, RowsSnapshot, RowsMetrics DEF Next
<1> QED BY <1>1, <1>2

(* What the user's tools measured for a page, and the id of its row,       *)
(* survive every later call, whichever page the crawl commits; the metrics *)
(* imported for a page survive all but the storing of that page            *)
(* (SqliteStore::try_upsert).                                              *)
THEOREM EnrichmentSurvives == Spec => EnrichmentIsKept
<1>1. Init => RowsInv
  BY RowsInit
<1>2. RowsInv /\ [Next]_vars => RowsInv'
  BY RowsKeep DEF RowsStep
<1>3. RowsInv /\ [Next]_vars => [Enriched(sql, sql')]_vars
  BY RowsKeep DEF RowsStep
<1>4. [Enriched(sql, sql')]_vars
       => [\A r \in sql.records : \E x \in sql'.records :
             /\ x.key = r.key /\ x.id = r.id
             /\ r.speed # None => x.speed # None
             /\ r.metric # None => x.metric # None \/ Storing(r.key)]_vars
  BY DEF Enriched
<1> QED BY <1>1, <1>2, <1>3, <1>4, PTL DEF Spec, EnrichmentIsKept

-----------------------------------------------------------------------------
(* What one call learns reaches what another has stored.                   *)

(* The crawler names every page by one text, so that what is found by text *)
(* and what is found by alias are the same.                                *)
LEMMA NamesMeet ==
  ASSUME OneTextPerPage, NEW r \in RecordSet, NEW t \in CrawlNames
  PROVE  /\ RowIn(r, Aliases[t]) <=> t \in RecordTexts(r)
         /\ t \in RecordAliases(r) <=> t \in RecordTexts(r)
<1>1. RecordTexts(r) \subseteq CrawlNames
  BY NamesOfRecord
<1>2. \A x \in CrawlNames : x \in Aliases[x]
  BY NamesAreTexts
<1>3. ASSUME NEW x \in CrawlNames
      PROVE  (x \in Aliases[t] <=> x = t) /\ (t \in Aliases[x] <=> x = t)
  BY <1>2, OneTextPerPage DEF OneTextPerPage
<1>4. RowIn(r, Aliases[t]) <=> t \in RecordTexts(r)
  BY <1>1, <1>3 DEF RowIn, Overlap
<1>5. t \in RecordAliases(r) <=> t \in RecordTexts(r)
  BY <1>1, <1>3 DEF RecordAliases, AliasesOf
<1> QED BY <1>4, <1>5

(* The parts of the invariant, of a database and what was said so far.     *)
Summed(s) == \A r \in s.records : r.inlinks = Total(s.counts, RecordAliases(r))
Remarked(s, urls) == \A r \in s.records : Overlap({r.url, r.final}, urls) => r.sitemap
Answering(s, said) == \A r \in s.records : \A t \in RecordAliases(r) : <<r.key, t>> \in said
OnlyAnswers(r, t, said) == t \in RecordAliases(r) /\ {x \in said : x[2] = t} = {<<r.key, t>>}
Showing(s, said) ==
  \A i \in DOMAIN s.edges : \A r \in s.records :
    OnlyAnswers(r, s.edges[i].target, said) => s.edges[i].to = Shown(r)

Evident(s, urls, said) == Summed(s) /\ Remarked(s, urls) /\ Answering(s, said) /\ Showing(s, said)

LEMMA EvidentIs ==
  Evident(sql, listed, answered) => EvidenceInAnyOrder
BY DEF Evident, Summed, Remarked, Showing, OnlyAnswers, EvidenceInAnyOrder, InlinksAddUp,
       EdgesShowTheirPage, ListedPagesAreFlagged

LEMMA EmptyIsEvident == Evident(EmptyTables, {}, {})
BY DEF EmptyTables, Evident, Summed, Remarked, Answering, Showing

(* Calls that leave the rows, the counts and the edges.                    *)
LEMMA RowsSameEvident ==
  ASSUME NEW s, NEW t, NEW urls, NEW said, RowsSame(t, s), Evident(s, urls, said)
  PROVE  Evident(t, urls, said)
BY DEF RowsSame, Evident, Summed, Remarked, Answering, Showing

(* Calls that change rows in place, but none of what is said of them.      *)
StaysEvident(r, x, urls, more) ==
  /\ x.key = r.key /\ RecordTexts(x) = RecordTexts(r) /\ Shown(x) = Shown(r)
  /\ x.inlinks = r.inlinks /\ x.url = r.url /\ x.final = r.final
  /\ (r.sitemap => x.sitemap)
  /\ (Overlap({r.url, r.final}, more) => x.sitemap)

LEMMA RowsBecomeEvident ==
  ASSUME NEW s, NEW t, NEW f, RowsBecome(t, s, f), NEW urls, NEW more, NEW said,
         Evident(s, urls, said), \A r \in s.records : StaysEvident(r, f[r], urls, more)
  PROVE  Evident(t, urls \cup more, said)
<1>1. t.records = {f[r] : r \in s.records} /\ t.edges = s.edges /\ t.counts = s.counts
  BY DEF RowsBecome, OthersSame
<1>2. ASSUME NEW r \in s.records
      PROVE  /\ RecordAliases(f[r]) = RecordAliases(r) /\ f[r].inlinks = r.inlinks
             /\ f[r].key = r.key /\ Shown(f[r]) = Shown(r)
  BY DEF StaysEvident, RecordAliases
<1>3. Summed(t)
  BY <1>1, <1>2 DEF Evident, Summed
<1>4. Answering(t, said)
  BY <1>1, <1>2 DEF Evident, Answering
<1>5. Showing(t, said)
  <2>1. \A r \in s.records : \A x : OnlyAnswers(f[r], x, said) <=> OnlyAnswers(r, x, said)
    BY <1>2 DEF OnlyAnswers
  <2> QED BY <1>1, <1>2, <2>1 DEF Evident, Showing
<1>6. Remarked(t, urls \cup more)
  <2>1. ASSUME NEW r \in s.records, Overlap({f[r].url, f[r].final}, urls \cup more)
        PROVE  f[r].sitemap
    <3>1. Overlap({r.url, r.final}, urls) \/ Overlap({r.url, r.final}, more)
      BY <2>1 DEF StaysEvident, Overlap
    <3>2. Overlap({r.url, r.final}, urls) => r.sitemap
      BY DEF Evident, Remarked
    <3> QED BY <3>1, <3>2 DEF StaysEvident
  <2> QED BY <1>1, <2>1 DEF Remarked
<1> QED BY <1>3, <1>4, <1>5, <1>6 DEF Evident

(* A link is counted for its text, and for every row that answers for it.  *)
LEMMA InlinkEvident ==
  ASSUME OneTextPerPage, NEW s, SqlGood(s), NEW t \in CrawlNames, NEW urls, NEW said,
         Evident(s, urls, said)
  PROVE  Evident(SqlInlink(s, t), urls, said)
<1> DEFINE u == SqlInlink(s, t)
           f(r) == InlinkedRow(r, t)
<1>1. /\ u.records = {f(r) : r \in s.records} /\ u.counts = [s.counts EXCEPT ![t] = @ + 1]
      /\ u.edges = s.edges
  BY SqlInlinkIs, NamesAreTexts DEF OthersSame
<1>2. s.counts \in [Texts -> Nat] /\ s.records \subseteq RecordSet /\ t \in Texts
  BY NamesAreTexts DEF SqlGood, SqlSet
<1>3. ASSUME NEW r \in s.records
      PROVE  /\ RecordAliases(f(r)) = RecordAliases(r) /\ f(r).key = r.key /\ Shown(f(r)) = Shown(r)
             /\ f(r).url = r.url /\ f(r).final = r.final /\ f(r).sitemap = r.sitemap
             /\ f(r).inlinks = IF t \in RecordAliases(r) THEN r.inlinks + 1 ELSE r.inlinks
  <2>1. r \in RecordSet
    BY <1>2
  <2>2. RowIn(r, Aliases[t]) <=> t \in RecordAliases(r)
    BY <2>1, NamesMeet
  <2>3. /\ f(r).key = r.key /\ RecordTexts(f(r)) = RecordTexts(r) /\ Shown(f(r)) = Shown(r)
        /\ f(r).inlinks = IF RowIn(r, Aliases[t]) THEN r.inlinks + 1 ELSE r.inlinks
    BY <2>1, InlinkedRowIs DEF KeepsRow
  <2>4. f(r).url = r.url /\ f(r).final = r.final /\ f(r).sitemap = r.sitemap
    BY <2>1, InlinkedRowIs
  <2> QED BY <2>2, <2>3, <2>4 DEF RecordAliases
<1> HIDE DEF u, f
<1>4. Summed(u)
  <2>1. ASSUME NEW r \in s.records PROVE f(r).inlinks = Total(u.counts, RecordAliases(f(r)))
    <3>1. r.inlinks = Total(s.counts, RecordAliases(r))
      BY DEF Evident, Summed
    <3>2. RecordAliases(r) \in SUBSET Texts
      BY <1>2, NamesOfRecord
    <3>3. Total(u.counts, RecordAliases(r))
            = IF t \in RecordAliases(r) THEN Total(s.counts, RecordAliases(r)) + 1
              ELSE Total(s.counts, RecordAliases(r))
      BY <1>1, <1>2, <3>2, TotalRises
    <3> QED BY <1>3, <3>1, <3>3
  <2> QED BY <1>1, <2>1 DEF Summed
<1>5. Answering(u, said)
  BY <1>1, <1>3, ZenonT(60) DEF Evident, Answering
<1>6. Showing(u, said)
  <2>1. \A r \in s.records : \A x : OnlyAnswers(f(r), x, said) <=> OnlyAnswers(r, x, said)
    BY <1>3 DEF OnlyAnswers
  <2> QED BY <1>1, <1>3, <2>1 DEF Evident, Showing
<1>7. Remarked(u, urls)
  <2>1. \A r \in s.records : Overlap({f(r).url, f(r).final}, urls) => f(r).sitemap
    BY <1>3 DEF Evident, Remarked
  <2> QED BY <1>1, <2>1 DEF Remarked
<1> QED BY <1>4, <1>5, <1>6, <1>7 DEF Evident, u

(* A new edge shows the one row that answers for its target.               *)
LEMMA EdgeEvident ==
  ASSUME OneTextPerPage, NEW s, SqlGood(s), NEW e \in EdgeSet, NEW urls, NEW said,
         Evident(s, urls, said)
  PROVE  Evident(SqlEdge(s, e), urls, said)
<1> DEFINE u == SqlEdge(s, e)
           new == NewEdge(s, e)
<1>1. /\ u.records = s.records /\ u.counts = s.counts /\ u.edges = Append(s.edges, new)
      /\ new.target = e.target /\ EndIs(new.to, s, e.target, e.to)
  BY SqlEdgeIs DEF SameRest
<1>2. s.edges \in Seq(EdgeSet) /\ s.records \subseteq RecordSet /\ new \in EdgeSet
  BY SqlEdgeIs DEF SqlGood, SqlSet
<1>3. e.target \in CrawlNames
  BY DEF EdgeSet
<1> HIDE DEF u, new
<1>4. /\ Len(s.edges) \in Nat /\ DOMAIN s.edges = 1..Len(s.edges)
      /\ DOMAIN u.edges = 1..(Len(s.edges) + 1) /\ u.edges[Len(s.edges) + 1] = new
      /\ \A i \in 1..Len(s.edges) : u.edges[i] = s.edges[i]
  BY <1>1, <1>2, AppendProperties, LenProperties
<1>5. ASSUME NEW r \in s.records, OnlyAnswers(r, e.target, said)
      PROVE  new.to = Shown(r)
  <2>1. \A x \in s.records : RowIn(x, Aliases[e.target]) <=> e.target \in RecordAliases(x)
    BY <1>2, <1>3, NamesMeet
  <2>2. ASSUME NEW x \in Hits(s, e.target) PROVE x = r
    <3>1. x \in s.records /\ e.target \in RecordAliases(x)
      BY <2>1 DEF Hits
    <3>2. <<x.key, e.target>> \in said
      BY <3>1 DEF Evident, Answering
    <3>3. <<x.key, e.target>> \in {y \in said : y[2] = e.target}
      BY <3>2
    <3>4. x.key = r.key
      BY <1>5, <3>3 DEF OnlyAnswers
    <3> QED BY <3>1, <3>4 DEF SqlGood, RowsAreKeyed
  <2>3. r \in Hits(s, e.target)
    BY <1>5, <2>1 DEF Hits, OnlyAnswers
  <2> QED BY <1>1, <2>2, <2>3 DEF EndIs
<1>6. Showing(u, said)
  <2>1. ASSUME NEW i \in 1..(Len(s.edges) + 1), NEW r \in s.records,
               OnlyAnswers(r, u.edges[i].target, said)
        PROVE  u.edges[i].to = Shown(r)
    <3>1. CASE i = Len(s.edges) + 1
      BY <1>1, <1>4, <1>5, <2>1, <3>1
    <3>2. CASE i \in 1..Len(s.edges)
      BY <1>4, <2>1, <3>2 DEF Evident, Showing
    <3> QED BY <1>4, <3>1, <3>2
  <2> QED BY <1>1, <1>4, <2>1 DEF Showing
<1> QED BY <1>1, <1>6 DEF Evident, Summed, Remarked, Answering, u

(* What an upsert does, whether it inserts or updates: one row is written, *)
(* the rows with other keys stay, and the edges show it.                   *)
Written(t, s, r, row) ==
  /\ RowFor(row, r, Total(s.counts, RecordAliases(r)))
  /\ row \in t.records /\ \A x \in t.records : x = row \/ (x \in s.records /\ x.key # row.key)
  /\ EdgesShown(t.edges, s.edges, row) /\ t.counts = s.counts

LEMMA UpsertWrites ==
  ASSUME NEW s, SqlGood(s), NEW r \in RecordSet
  PROVE  \E row : Written(SqlUpsert(s, r), s, r, row)
<1>1. CASE (\A x \in s.records : x.key # r.key) /\ SqlUpsert(s, r) = SqlInsert(s, r)
  <2> DEFINE row == NewRow(s, r)
             t == SqlInsert(s, r)
  <2>1. Inserted(t, s, r, row)
    BY <1>1, SqlInsertIs
  <2> HIDE DEF t, row
  <2>2. row.key = r.key /\ t.records = s.records \cup {row}
    BY <2>1 DEF Inserted, RowFor, SamePage
  <2>3. \A x \in t.records : x = row \/ (x \in s.records /\ x.key # row.key)
    BY <1>1, <2>2
  <2>4. Written(t, s, r, row)
    BY <2>1, <2>2, <2>3 DEF Inserted, Written, SameRest
  <2> QED BY <1>1, <2>4 DEF t
<1>2. ASSUME NEW prior \in s.records, prior.key = r.key, SqlUpsert(s, r) = SqlUpdate(s, prior, r)
      PROVE  \E row : Written(SqlUpsert(s, r), s, r, row)
  <2> DEFINE row == NextRow(s, r, prior)
             t == SqlUpdate(s, prior, r)
  <2>1. Updated(t, s, r, prior, row)
    BY <1>2, SqlUpdateIs
  <2> HIDE DEF t, row
  <2>2. row.key = prior.key /\ t.records = (s.records \ {prior}) \cup {row}
    BY <1>2, <2>1 DEF Updated, RowFor, SamePage
  <2>3. \A x \in s.records : x.key = prior.key => x = prior
    BY DEF SqlGood, RowsAreKeyed
  <2>4. \A x \in t.records : x = row \/ (x \in s.records /\ x.key # row.key)
    BY <2>2, <2>3
  <2>5. Written(t, s, r, row)
    BY <2>1, <2>2, <2>4 DEF Updated, Written, SameRest
  <2> QED BY <1>2, <2>5 DEF t
<1> QED BY <1>1, <1>2, UpsertCases

(* The row brings its counts with it, and shows itself at the edges that   *)
(* were stored before it.                                                  *)
LEMMA UpsertEvident ==
  ASSUME NEW s, SqlGood(s), NEW r \in RecordSet, r.inlinks = 0, NEW urls, NEW said,
         Overlap({r.url, r.final}, urls) => r.sitemap, Evident(s, urls, said)
  PROVE  Evident(SqlUpsert(s, r), urls, said \cup ({r.key} \X RecordAliases(r)))
<1> DEFINE t == SqlUpsert(s, r)
           now == said \cup ({r.key} \X RecordAliases(r))
<1>1. PICK row : Written(t, s, r, row)
  BY UpsertWrites
<1> HIDE DEF t
<1>2. /\ row \in RecordSet /\ row.key = r.key /\ row.sitemap = r.sitemap
      /\ row.url = r.url /\ row.final = r.final
      /\ row.inlinks = Total(s.counts, RecordAliases(r)) /\ RecordAliases(row) = RecordAliases(r)
  BY <1>1 DEF Written, RowFor, SamePage, RecordAliases, RecordTexts
<1>3. \A x \in t.records : x = row \/ (x \in s.records /\ x.key # row.key)
  BY <1>1 DEF Written
<1>4. Summed(t)
  BY <1>1, <1>2, <1>3 DEF Evident, Summed, Written
<1>5. Remarked(t, urls)
  BY <1>2, <1>3 DEF Evident, Remarked
<1>6. Answering(t, now)
  <2>1. \A a \in RecordAliases(row) : <<row.key, a>> \in now
    BY <1>2
  <2>2. \A x \in s.records : \A a \in RecordAliases(x) : <<x.key, a>> \in now
    BY DEF Evident, Answering
  <2> QED BY <1>3, <2>1, <2>2 DEF Answering
<1>7. Showing(t, now)
  <2>1. /\ s.edges \in Seq(EdgeSet) /\ t.edges \in Seq(EdgeSet) /\ Len(t.edges) = Len(s.edges)
        /\ DOMAIN s.edges = 1..Len(s.edges) /\ DOMAIN t.edges = 1..Len(s.edges)
        /\ \A i \in 1..Len(s.edges) :
             /\ t.edges[i].target = s.edges[i].target
             /\ t.edges[i].to = IF s.edges[i].target \in RecordAliases(row) THEN Shown(row)
                                ELSE s.edges[i].to
    BY <1>1, LenProperties DEF Written, EdgesShown, SqlGood, SqlSet
  <2>2. ASSUME NEW i \in 1..Len(s.edges), NEW x \in t.records, OnlyAnswers(x, t.edges[i].target, now)
        PROVE  t.edges[i].to = Shown(x)
    <3> DEFINE a == s.edges[i].target
    <3>1. a \in RecordAliases(x) /\ {y \in now : y[2] = a} = {<<x.key, a>>}
      BY <2>1, <2>2 DEF OnlyAnswers
    <3>2. CASE x = row
      BY <2>1, <3>1, <3>2
    <3>3. CASE x # row
      <4>1. x \in s.records /\ x.key # row.key
        BY <1>3, <3>3
      <4>2. a \notin RecordAliases(row)
        <5>1. ASSUME a \in RecordAliases(row) PROVE FALSE
          <6>1. <<r.key, a>> \in {y \in now : y[2] = a}
            BY <1>2, <5>1
          <6> QED BY <1>2, <3>1, <4>1, <6>1
        <5> QED BY <5>1
      <4>3. <<x.key, a>> \in said
        BY <3>1, <4>1 DEF Evident, Answering
      <4>4. {y \in said : y[2] = a} = {<<x.key, a>>}
        BY <3>1, <4>3
      <4>5. s.edges[i].to = Shown(x)
        BY <2>1, <3>1, <4>1, <4>4 DEF Evident, Showing, OnlyAnswers
      <4> QED BY <2>1, <4>2, <4>5
    <3> QED BY <3>2, <3>3
  <2> QED BY <2>1, <2>2 DEF Showing
<1> HIDE DEF now
<1>8. Evident(t, urls, now)
  BY <1>4, <1>5, <1>6, <1>7 DEF Evident
<1> QED BY <1>8 DEF t, now

EvidenceInv == RowsInv /\ Evident(sql, listed, answered)

LEMMA EvidenceQuiet ==
  ASSUME Evident(sql, listed, answered), RowsSame(sql', sql), listed' = listed, answered' = answered
  PROVE  Evident(sql', listed', answered')
<1>1. Evident(sql', listed, answered)
  BY RowsSameEvident
<1> QED BY <1>1

LEMMA EvidenceKept ==
  ASSUME OneTextPerPage, EvidenceInv, [Next]_vars
  PROVE  Evident(sql', listed', answered')
<1>1. SqlGood(sql) /\ Evident(sql, listed, answered) /\ RowsInv /\ sql.records \subseteq RecordSet
  BY DEF EvidenceInv, RowsInv, SqlGood, SqlSet
<1>2. CASE StartCrawl
  <2>1. PICK seeds \in Seeds :
          LET state == [queued |-> seeds, seen |-> {item.key : item \in ToSet(seeds)}, crawled |-> 0]
          IN Both([mem EXCEPT !.frontier = state], SqlSaveFrontier(SqlClearFrontier(sql), state))
    BY <1>2 DEF StartCrawl
  <2> DEFINE state == [queued |-> seeds, seen |-> {item.key : item \in ToSet(seeds)}, crawled |-> 0]
  <2>2. sql' = SqlSaveFrontier(SqlClearFrontier(sql), state) /\ state \in FrontierSet
    BY <2>1, SeedTypes DEF Both, FrontierSet
  <2> HIDE DEF state
  <2>3. SqlGood(SqlClearFrontier(sql)) /\ RowsSame(SqlClearFrontier(sql), sql)
    BY <1>1, SqlClearFrontierIs
  <2>4. RowsSame(sql', SqlClearFrontier(sql))
    BY <2>2, <2>3, SqlSaveFrontierIs
  <2>5. listed' = {} /\ answered' = answered
    BY <1>2 DEF StartCrawl
  <2>6. Evident(sql', listed, answered)
    BY <1>1, <2>3, <2>4, RowsSameEvident
  <2>7. Remarked(sql', {})
    BY DEF Remarked, Overlap
  <2> QED BY <2>5, <2>6, <2>7 DEF Evident
<1>3. CASE BeginPage
  <2>1. sql' = sql /\ listed' = listed /\ answered' = answered
    BY <1>3 DEF BeginPage
  <2> QED BY <1>1, <2>1
<1>4. CASE EndCrawl
  <2>1. RowsSame(sql', sql) /\ listed' = listed /\ answered' = answered
    BY <1>1, <1>4, SqlClearFrontierIs DEF EndCrawl, Both
  <2> QED BY <1>1, <2>1, EvidenceQuiet
<1>5. CASE MarkSitemapUrls
  <2> DEFINE urls == Head(calls).urls
             f == MarkedRows(sql, urls)
  <2>1. sql' = SqlMark(sql, urls) /\ listed' = listed \cup urls /\ answered' = answered
    BY <1>5 DEF MarkSitemapUrls, Both, Called
  <2> HIDE DEF urls
  <2>2. RowsBecome(sql', sql, f)
    BY <1>1, <2>1, SqlMarkIs
  <2>3. \A r \in sql.records : f[r] = MarkedRow(r, urls)
    BY DEF MarkedRows
  <2> HIDE DEF f
  <2>4. ASSUME NEW r \in sql.records PROVE StaysEvident(r, f[r], listed, urls)
    <3>1. r \in RecordSet /\ f[r] = MarkedRow(r, urls)
      BY <1>1, <2>3
    <3>2. /\ f[r].key = r.key /\ RecordTexts(f[r]) = RecordTexts(r) /\ Shown(f[r]) = Shown(r)
          /\ f[r].inlinks = r.inlinks /\ f[r].url = r.url /\ f[r].final = r.final
      <4>1. ASSUME NEW x \in RecordSet
            PROVE  /\ KeepsRow(x, MarkedRow(x, urls)) /\ RecordTexts(MarkedRow(x, urls)) = RecordTexts(x)
                   /\ Shown(MarkedRow(x, urls)) = Shown(x) /\ MarkedRow(x, urls).inlinks = x.inlinks
                   /\ MarkedRow(x, urls).url = x.url /\ MarkedRow(x, urls).final = x.final
        BY MarkedRowIs
      <4> QED BY <3>1, <4>1 DEF KeepsRow
    <3>3. r.sitemap \/ Overlap({r.url, r.final}, urls) => f[r].sitemap
      BY <3>1, MarkedRowIs
    <3> QED BY <3>2, <3>3 DEF StaysEvident
  <2>5. Evident(sql', listed \cup urls, answered)
    BY <1>1, <2>2, <2>4, RowsBecomeEvident
  <2> QED BY <2>1, <2>5
<1>6. CASE AddInlink
  <2> DEFINE t == Head(calls).target
  <2>1. /\ Calling("inlink") /\ sql' = SqlInlink(sql, t) /\ listed' = listed /\ answered' = answered
    BY <1>6 DEF AddInlink, Both
  <2>2. t \in CrawlNames
    BY <1>1, <2>1, CallDue, CallKinds DEF InlinkCalls
  <2> HIDE DEF t
  <2>3. Evident(sql', listed, answered)
    BY <1>1, <2>1, <2>2, InlinkEvident
  <2> QED BY <2>1, <2>3
<1>7. CASE AddLinkEdge
  <2> DEFINE e == Head(calls).edge
  <2>1. /\ Calling("edge") /\ sql' = SqlEdge(sql, e) /\ listed' = listed /\ answered' = answered
    BY <1>7 DEF AddLinkEdge, Both
  <2>2. e \in EdgeSet
    BY <1>1, <2>1, CallDue, CallKinds DEF EdgeCalls
  <2> HIDE DEF e
  <2>3. Evident(sql', listed, answered)
    BY <1>1, <2>1, <2>2, EdgeEvident
  <2> QED BY <2>1, <2>3
<1>8. CASE AddPageReferences
  <2> DEFINE c == Head(calls)
  <2>1. /\ Calling("references") /\ sql' = SqlReferences(sql, c.key, c.targets)
        /\ listed' = listed /\ answered' = answered
    BY <1>8 DEF AddPageReferences, Both
  <2>2. c.key \in CrawlNames /\ c.targets \in SUBSET Texts
    BY <1>1, <2>1, CallDue, CallKinds DEF ReferenceCalls
  <2> HIDE DEF c
  <2>3. RowsSame(sql', sql)
    BY <1>1, <2>1, <2>2, SqlReferencesIs
  <2> QED BY <1>1, <2>1, <2>3, EvidenceQuiet
<1>9. CASE AddImageAssets
  <2> DEFINE c == Head(calls)
  <2>1. /\ Calling("images") /\ sql' = SqlImages(sql, c.page, c.pics)
        /\ listed' = listed /\ answered' = answered
    BY <1>9 DEF AddImageAssets, Both
  <2>2. c.page \in CrawlNames /\ c.pics \in SUBSET Pictures
    BY <1>1, <2>1, CallDue, CallKinds DEF ImageCalls
  <2> HIDE DEF c
  <2>3. RowsSame(sql', sql)
    BY <1>1, <2>1, <2>2, SqlImagesIs
  <2> QED BY <1>1, <2>1, <2>3, EvidenceQuiet
<1>10. CASE Upsert
  <2> DEFINE c == Head(calls)
             r == Arriving(c)
  <2>1. /\ Calling("upsert") /\ sql' = SqlUpsert(sql, r) /\ listed' = listed
        /\ answered' = answered \cup ({r.key} \X RecordAliases(r))
    BY <1>10 DEF Upsert, Both, Arriving
  <2>2. c \in UpsertCalls
    BY <1>1, <2>1, CallDue, CallKinds
  <2> HIDE DEF c
  <2>3. r \in RecordSet /\ r.inlinks = 0 /\ (Overlap({r.url, r.final}, listed) => r.sitemap)
    BY <2>2, ArrivingIs DEF NewRecords
  <2> HIDE DEF r
  <2>4. Evident(sql', listed, answered \cup ({r.key} \X RecordAliases(r)))
    BY <1>1, <2>1, <2>3, UpsertEvident
  <2> QED BY <2>1, <2>4
<1>11. CASE ReplacePageCapture
  <2> DEFINE c == Head(calls)
  <2>1. /\ Calling("capture") /\ sql' = SqlCapture(sql, c.key, c.body)
        /\ listed' = listed /\ answered' = answered
    BY <1>11 DEF ReplacePageCapture, Both
  <2>2. c.key \in CrawlNames /\ c.body \in Bodies
    BY <1>1, <2>1, CallDue, CallKinds DEF CaptureCalls
  <2> HIDE DEF c
  <2>3. RowsSame(sql', sql)
    BY <1>1, <2>1, <2>2, SqlCaptureIs
  <2> QED BY <1>1, <2>1, <2>3, EvidenceQuiet
<1>12. CASE UpdateFrontier
  <2> DEFINE done == Head(calls).done
             new == Head(calls).new
             urls == Head(calls).urls
             crawled == mem.frontier.crawled + 1
  <2>1. /\ Calling("frontier") /\ sql' = SqlFrontier(sql, done, new, urls, crawled)
        /\ listed' = listed /\ answered' = answered
    BY <1>12 DEF UpdateFrontier, Both
  <2>2. new \in Seq(QueueItems)
    BY <1>1, <2>1, CallDue, CallKinds DEF FrontierCalls
  <2>3. crawled \in Nat
    BY <1>1, <2>1, CallDue DEF FrontierSet
  <2> HIDE DEF done, new, urls, crawled
  <2>4. RowsSame(SqlFrontier(sql, done, new, urls, crawled), sql)
    BY <1>1, <2>2, <2>3, SqlFrontierIs
  <2>5. RowsSame(sql', sql)
    BY <2>1, <2>4
  <2> QED BY <1>1, <2>1, <2>5, EvidenceQuiet
<1>13. CASE SaveSnapshot
  <2>1. PICK x \in sql.records : sql' = SqlSnapshot(sql, x.id, "measured")
    BY <1>13 DEF SaveSnapshot, Both
  <2> DEFINE f == SnapshotRows(sql, x.id)
  <2>2. RowsBecome(sql', sql, f) /\ listed' = listed /\ answered' = answered
    BY <1>1, <1>13, <2>1, SqlSnapshotIs DEF SaveSnapshot
  <2>3. \A r \in sql.records : f[r] = SnapshotRow(r, x.id)
    BY DEF SnapshotRows
  <2> HIDE DEF f
  <2>4. ASSUME NEW r \in sql.records PROVE StaysEvident(r, f[r], listed, {})
    <3>1. r \in RecordSet /\ f[r] = SnapshotRow(r, x.id)
      BY <1>1, <2>3
    <3>2. /\ f[r].key = r.key /\ RecordTexts(f[r]) = RecordTexts(r) /\ Shown(f[r]) = Shown(r)
          /\ f[r].inlinks = r.inlinks /\ f[r].url = r.url /\ f[r].final = r.final
      BY <3>1, SnapshotRowIs DEF KeepsRow
    <3>3. f[r].sitemap = r.sitemap
      BY <3>1, SnapshotRowIs
    <3> QED BY <3>2, <3>3 DEF StaysEvident, Overlap
  <2>5. Evident(sql', listed \cup {}, answered)
    BY <1>1, <2>2, <2>4, RowsBecomeEvident
  <2> QED BY <2>2, <2>5
<1>14. CASE MergeMetrics
  <2>1. PICK batch \in Batches : sql' = SqlMetrics(sql, batch)
    BY <1>14 DEF MergeMetrics, Both
  <2> DEFINE f == MeasuredRows(sql, batch)
  <2>2. batch \in Seq(Texts)
    BY StoreAssumption
  <2>3. RowsBecome(sql', sql, f) /\ listed' = listed /\ answered' = answered
    BY <1>1, <1>14, <2>1, <2>2, SqlMetricsIs DEF MergeMetrics
  <2>4. \A r \in sql.records : f[r] = MeasuredRow(r, batch)
    BY DEF MeasuredRows
  <2> HIDE DEF f
  <2>5. ASSUME NEW r \in sql.records PROVE StaysEvident(r, f[r], listed, {})
    <3>1. r \in RecordSet /\ f[r] = MeasuredRow(r, batch)
      BY <1>1, <2>4
    <3>2. /\ f[r].key = r.key /\ RecordTexts(f[r]) = RecordTexts(r) /\ Shown(f[r]) = Shown(r)
          /\ f[r].inlinks = r.inlinks /\ f[r].url = r.url /\ f[r].final = r.final
      BY <2>2, <3>1, MeasuredRowIs DEF KeepsRow
    <3>3. f[r].sitemap = r.sitemap
      BY <2>2, <3>1, MeasuredRowIs
    <3> QED BY <3>2, <3>3 DEF StaysEvident, Overlap
  <2>6. Evident(sql', listed \cup {}, answered)
    BY <1>1, <2>3, <2>5, RowsBecomeEvident
  <2> QED BY <2>3, <2>6
<1>15. CASE UNCHANGED vars
  BY <1>1, <1>15 DEF vars
<1> QED BY <1>2, <1>3, <1>4, <1>5, <1>6, <1>7, <1>8, <1>9, <1>10, <1>11, <1>12, <1>13, <1>14, <1>15
    DEF Next

(* Inlink counts, the evidence edges show and the sitemap flags are those  *)
(* of everything stored so far, in whatever order it came, as long as the  *)
(* crawler names each page by one text.                                    *)
THEOREM EvidenceIsComplete ==
  ASSUME OneTextPerPage
  PROVE  Spec => []EvidenceInAnyOrder
<1>1. Init => EvidenceInv
  <2>1. Init => Evident(sql, listed, answered)
    BY EmptyIsEvident DEF Init
  <2> QED BY <2>1, RowsInit DEF EvidenceInv
<1>2. EvidenceInv /\ [Next]_vars => EvidenceInv'
  <2>1. ASSUME EvidenceInv, [Next]_vars PROVE EvidenceInv'
    <3>1. RowsInv'
      BY <2>1, RowsKeep DEF EvidenceInv, RowsStep
    <3>2. Evident(sql', listed', answered')
      BY <2>1, EvidenceKept
    <3> QED BY <3>1, <3>2 DEF EvidenceInv
  <2> QED BY <2>1
<1>3. EvidenceInv => EvidenceInAnyOrder
  BY EvidentIs DEF EvidenceInv
<1> QED BY <1>1, <1>2, <1>3, PTL DEF Spec

-----------------------------------------------------------------------------
(* The memory store mirrors the database: its vector is the table in the   *)
(* order of the ids, and its indexes are what they should be of it.        *)

IndexOf(records) == [t \in Texts |-> {i \in 1..Len(records) : t \in RecordAliases(records[i])}]
SourcesOf(edges) == [t \in Texts |-> {i \in 1..Len(edges) : t \in Aliases[edges[i].source]}]
TargetsOf(edges) == [t \in Texts |-> {i \in 1..Len(edges) : t \in Aliases[edges[i].target]}]
FirstsOf(edges) ==
  [t \in Texts |-> IF TargetsOf(edges)[t] = {} THEN None ELSE Min(TargetsOf(edges)[t])]

(* A vector of a table.                                                    *)
VectorOf(records, s) ==
  /\ records \in Seq(RecordSet) /\ Len(records) = s.lastId
  /\ s.records = {records[i] : i \in 1..Len(records)}
  /\ \A i \in 1..Len(records) : records[i].id = i

RecordsMirror(m, s) ==
  VectorOf(m.records, s) /\ m.byAlias = IndexOf(m.records) /\ m.counts = s.counts
EdgesMirror(m, s) ==
  /\ m.edges = s.edges /\ m.bySource = SourcesOf(s.edges) /\ m.byTarget = TargetsOf(s.edges)
  /\ m.firsts = FirstsOf(s.edges)
PartsMirror(m, s) ==
  m.images = s.images /\ m.references = s.references /\ m.captures = s.captures

(* The queue in the order of the positions.                                *)
Positions(p, queued, queue) ==
  /\ p \in [1..Len(queued) -> Nat]
  /\ \A i, j \in 1..Len(queued) : i < j => p[i] < p[j]
  /\ queue = {[position |-> p[i], item |-> queued[i]] : i \in 1..Len(queued)}
InPositions(queued, queue) == \E p : Positions(p, queued, queue)
QueueMirrors(m, s) ==
  \/ m.frontier = None /\ s.queue = {} /\ s.seen = {} /\ s.crawled = None
  \/ /\ m.frontier \in FrontierSet /\ InPositions(m.frontier.queued, s.queue)
     /\ s.seen = m.frontier.seen /\ s.seen # {} /\ s.crawled = m.frontier.crawled

Mirrors(m, s) ==
  /\ MemFields \subseteq DOMAIN m /\ RecordsMirror(m, s) /\ EdgesMirror(m, s)
  /\ PartsMirror(m, s) /\ QueueMirrors(m, s)

LEMMA VectorFacts ==
  ASSUME NEW s, SqlGood(s), NEW records, VectorOf(records, s)
  PROVE  /\ Len(records) \in Nat /\ DOMAIN records = 1..Len(records)
         /\ \A i \in 1..Len(records) : records[i] \in RecordSet /\ records[i] \in s.records
         /\ \A i, j \in 1..Len(records) : records[i].key = records[j].key => i = j
<1>1. /\ Len(records) \in Nat /\ DOMAIN records = 1..Len(records)
      /\ \A i \in 1..Len(records) : records[i] \in RecordSet
  BY LenProperties, ElementOfSeq DEF VectorOf
<1>2. \A i \in 1..Len(records) : records[i] \in s.records /\ records[i].id = i
  BY DEF VectorOf
<1>3. \A i, j \in 1..Len(records) : records[i].key = records[j].key => i = j
  BY <1>2 DEF SqlGood, RowsAreKeyed
<1> QED BY <1>1, <1>2, <1>3

LEMMA EmptyMirrors == Mirrors(EmptyMemory, EmptyTables)
<1>1. <<>> \in Seq(RecordSet) /\ Len(<<>>) = 0 /\ 1..0 = {}
  BY EmptySeq
<1>2. RecordsMirror(EmptyMemory, EmptyTables)
  BY <1>1 DEF EmptyMemory, EmptyTables, RecordsMirror, VectorOf, IndexOf, NoIndex
<1>3. EdgesMirror(EmptyMemory, EmptyTables)
  <2>1. TargetsOf(<<>>) = NoIndex /\ SourcesOf(<<>>) = NoIndex
    BY <1>1 DEF TargetsOf, SourcesOf, NoIndex
  <2>2. FirstsOf(<<>>) = [t \in Texts |-> None]
    BY <2>1 DEF FirstsOf, NoIndex
  <2> QED BY <2>1, <2>2 DEF EmptyMemory, EmptyTables, EdgesMirror
<1>4. PartsMirror(EmptyMemory, EmptyTables) /\ QueueMirrors(EmptyMemory, EmptyTables)
  BY DEF EmptyMemory, EmptyTables, PartsMirror, QueueMirrors
<1> QED BY <1>2, <1>3, <1>4 DEF Mirrors, EmptyMemory, MemFields

(* What a call leaves alone stays a mirror.                                *)
MemSame(n, m, fields) == MemFields \subseteq DOMAIN n /\ \A x \in fields : n[x] = m[x]
RecordFields == {"records", "byAlias", "counts"}
EdgeFields == {"edges", "bySource", "byTarget", "firsts"}
PartFields == {"images", "references", "captures"}

LEMMA RecordsStayMirrored ==
  ASSUME NEW m, NEW n, NEW s, NEW t, MemSame(n, m, RecordFields), RecordsMirror(m, s),
         t.records = s.records, t.lastId = s.lastId, t.counts = s.counts
  PROVE  RecordsMirror(n, t)
<1>1. n.records = m.records /\ n.byAlias = m.byAlias /\ n.counts = m.counts
  BY DEF MemSame, RecordFields
<1> QED BY <1>1 DEF RecordsMirror, VectorOf

LEMMA EdgesStayMirrored ==
  ASSUME NEW m, NEW n, NEW s, NEW t, MemSame(n, m, EdgeFields), EdgesMirror(m, s), t.edges = s.edges
  PROVE  EdgesMirror(n, t)
<1>1. n.edges = m.edges /\ n.bySource = m.bySource /\ n.byTarget = m.byTarget /\ n.firsts = m.firsts
  BY DEF MemSame, EdgeFields
<1> QED BY <1>1 DEF EdgesMirror

LEMMA PartsStayMirrored ==
  ASSUME NEW m, NEW n, NEW s, NEW t, MemSame(n, m, PartFields), PartsMirror(m, s),
         t.images = s.images, t.references = s.references, t.captures = s.captures
  PROVE  PartsMirror(n, t)
<1>1. n.images = m.images /\ n.references = m.references /\ n.captures = m.captures
  BY DEF MemSame, PartFields
<1> QED BY <1>1 DEF PartsMirror

LEMMA QueueStaysMirrored ==
  ASSUME NEW m, NEW n, NEW s, NEW t, MemSame(n, m, {"frontier"}), QueueMirrors(m, s),
         t.queue = s.queue, t.seen = s.seen, t.crawled = s.crawled
  PROVE  QueueMirrors(n, t)
<1>1. n.frontier = m.frontier
  BY DEF MemSame
<1> QED BY <1>1 DEF QueueMirrors

(* A call that changes only the rows, each as f says.                      *)
MapsVector(n, m, f) ==
  /\ MemSame(n, m, MemFields \ {"records"})
  /\ n.records = [i \in DOMAIN m.records |-> f[m.records[i]]]
KeepsTexts(r, x) == KeepsRow(r, x) /\ RecordTexts(x) = RecordTexts(r)

KeepsRows(s, f) == \A r \in s.records : KeepsTexts(r, f[r])

LEMMA MappedVector ==
  ASSUME NEW s, SqlGood(s), NEW records, VectorOf(records, s), NEW f, KeepsRows(s, f),
         NEW t, t.records = {f[r] : r \in s.records}, t.lastId = s.lastId,
         NEW after, after = [i \in DOMAIN records |-> f[records[i]]]
  PROVE  VectorOf(after, t) /\ IndexOf(after) = IndexOf(records) /\ Len(after) = Len(records)
<1> DEFINE n == Len(records)
<1>1. /\ n \in Nat /\ DOMAIN records = 1..n
      /\ \A i \in 1..n : records[i] \in s.records /\ records[i].id = i
      /\ s.records = {records[i] : i \in 1..n} /\ n = s.lastId
  BY VectorFacts DEF VectorOf
<1> HIDE DEF n
<1>2. \A i \in 1..n : after[i] = f[records[i]] /\ after[i] \in RecordSet /\ after[i].id = i
                      /\ RecordTexts(after[i]) = RecordTexts(records[i])
  BY <1>1 DEF KeepsRows, KeepsTexts, KeepsRow
<1>3. after \in Seq(RecordSet) /\ Len(after) = n
  <2>1. after \in [1..n -> RecordSet]
    BY <1>1, <1>2
  <2>2. after \in Seq(RecordSet)
    BY <1>1, <2>1, FunIsSeq
  <2> QED BY <1>1, <2>1, <2>2, LenProperties
<1>4. t.records = {after[i] : i \in 1..n}
  <2>1. \A r \in s.records : \E i \in 1..n : r = records[i] /\ f[r] = after[i]
    BY <1>1, <1>2
  <2>2. \A i \in 1..n : records[i] \in s.records /\ after[i] = f[records[i]]
    BY <1>1, <1>2
  <2>3. {f[r] : r \in s.records} = {after[i] : i \in 1..n}
    BY <2>1, <2>2
  <2> QED BY <2>3
<1>5. IndexOf(after) = IndexOf(records)
  <2>1. \A i \in 1..n : RecordAliases(after[i]) = RecordAliases(records[i])
    BY <1>2 DEF RecordAliases
  <2> QED BY <1>3, <2>1 DEF IndexOf, n
<1> QED BY <1>1, <1>2, <1>3, <1>4, <1>5 DEF VectorOf, n

LEMMA RowsBecomeMirrors ==
  ASSUME NEW s, SqlGood(s), NEW m, Mirrors(m, s), NEW f, KeepsRows(s, f),
         NEW t, RowsBecome(t, s, f), NEW n, MapsVector(n, m, f)
  PROVE  Mirrors(n, t)
<1>1. /\ t.records = {f[r] : r \in s.records} /\ OthersSame(t, s) /\ t.counts = s.counts
  BY DEF RowsBecome
<1>2. /\ n.byAlias = m.byAlias /\ n.counts = m.counts /\ MemSame(n, m, EdgeFields)
      /\ MemSame(n, m, PartFields) /\ MemSame(n, m, {"frontier"}) /\ MemFields \subseteq DOMAIN n
  BY DEF MapsVector, MemSame, MemFields, EdgeFields, PartFields
<1>3. VectorOf(n.records, t) /\ IndexOf(n.records) = IndexOf(m.records)
  BY <1>1, MappedVector DEF MapsVector, Mirrors, RecordsMirror, OthersSame
<1>4. RecordsMirror(n, t)
  BY <1>1, <1>2, <1>3 DEF RecordsMirror, Mirrors
<1>5. EdgesMirror(n, t) /\ PartsMirror(n, t) /\ QueueMirrors(n, t)
  BY <1>1, <1>2, EdgesStayMirrored, PartsStayMirrored, QueueStaysMirrored DEF OthersSame, Mirrors
<1> QED BY <1>2, <1>4, <1>5 DEF Mirrors

(* The texts that answer for a name, on either side.                       *)
LEMMA AliasesMeet ==
  ASSUME OneTextPerPage, NEW r \in RecordSet, NEW t \in CrawlNames
  PROVE  /\ Overlap(RecordAliases(r), Aliases[t]) <=> RowIn(r, Aliases[t])
         /\ t \in RecordAliases(r) <=> RowIn(r, Aliases[t])
<1>1. RecordTexts(r) \subseteq CrawlNames
  BY NamesOfRecord
<1>2. \A x \in CrawlNames : x \in Aliases[x]
  BY NamesAreTexts
<1>3. \A x \in CrawlNames : Overlap(Aliases[x], Aliases[t]) <=> x = t
  BY <1>2 DEF OneTextPerPage, Overlap
<1>4. Overlap(RecordAliases(r), Aliases[t]) <=> t \in RecordTexts(r)
  BY <1>1, <1>3 DEF RecordAliases, AliasesOf, Overlap
<1> QED BY <1>4, NamesMeet

(* What the memory store finds for a text in the index of its vector.      *)
LEMMA MatchesAre ==
  ASSUME NEW m, NEW s, SqlGood(s), Mirrors(m, s), NEW ts \in SUBSET Texts
  PROVE  MemMatches(m, ts)
           = {i \in 1..Len(m.records) : Overlap(RecordAliases(m.records[i]), ts)}
<1>1. m.byAlias = IndexOf(m.records)
  BY DEF Mirrors, RecordsMirror
<1>2. \A t \in ts : m.byAlias[t] = {i \in 1..Len(m.records) : t \in RecordAliases(m.records[i])}
  BY <1>1 DEF IndexOf
<1> QED BY <1>2 DEF MemMatches, Overlap

LEMMA MatchesOfName ==
  ASSUME OneTextPerPage, NEW m, NEW s, SqlGood(s), Mirrors(m, s), NEW t \in CrawlNames
  PROVE  MemMatches(m, Aliases[t])
           = {i \in 1..Len(m.records) : RowIn(m.records[i], Aliases[t])}
<1>1. \A i \in 1..Len(m.records) : m.records[i] \in RecordSet
  BY VectorFacts DEF Mirrors, RecordsMirror
<1>2. Aliases[t] \in SUBSET Texts
  BY NamesAreTexts
<1>3. MemMatches(m, Aliases[t])
        = {i \in 1..Len(m.records) : Overlap(RecordAliases(m.records[i]), Aliases[t])}
  BY <1>2, MatchesAre
<1> QED BY <1>1, <1>3, AliasesMeet

(* Marks and snapshots change the same rows in the same way.               *)
LEMMA MarkMirrors ==
  ASSUME NEW s, SqlGood(s), NEW m, Mirrors(m, s), NEW urls
  PROVE  Mirrors(MemMark(m, urls), SqlMark(s, urls))
<1> DEFINE f == MarkedRows(s, urls)
           t == SqlMark(s, urls)
           n == MemMark(m, urls)
<1>1. RowsBecome(t, s, f)
  BY SqlMarkIs
<1>2. \A r \in s.records : r \in RecordSet /\ f[r] = MarkedRow(r, urls)
  BY DEF MarkedRows, SqlGood, SqlSet
<1>3. KeepsRows(s, f)
  BY <1>2, MarkedRowIs DEF KeepsRows, KeepsTexts
<1>4. ASSUME NEW r \in RecordSet
      PROVE  [r EXCEPT !.sitemap = @ \/ Overlap({r.url, r.final}, urls)] = MarkedRow(r, urls)
  <2>1. CASE Overlap({r.url, r.final}, urls)
    <3>1. (r.sitemap \/ Overlap({r.url, r.final}, urls)) = TRUE
      BY <2>1
    <3> QED BY <2>1, <3>1 DEF MarkedRow
  <2>2. CASE ~Overlap({r.url, r.final}, urls)
    <3>1. r.sitemap \in BOOLEAN
      BY DEF RecordSet
    <3>2. (r.sitemap \/ Overlap({r.url, r.final}, urls)) = r.sitemap
      BY <2>2, <3>1
    <3>3. [r EXCEPT !.sitemap = r.sitemap] = r
      BY DEF RecordSet
    <3> QED BY <2>2, <3>2, <3>3 DEF MarkedRow
  <2> QED BY <2>1, <2>2
<1>5. \A i \in DOMAIN m.records : m.records[i] \in s.records
  BY VectorFacts DEF Mirrors, RecordsMirror
<1>6. MapsVector(n, m, f)
  <2> DEFINE marked(r) == [r EXCEPT !.sitemap = @ \/ Overlap({r.url, r.final}, urls)]
             new == [i \in DOMAIN m.records |-> marked(m.records[i])]
  <2>1. \A i \in DOMAIN m.records : marked(m.records[i]) = f[m.records[i]]
    BY <1>2, <1>4, <1>5
  <2>2. new = [i \in DOMAIN m.records |-> f[m.records[i]]]
    BY <2>1
  <2>3. n = [m EXCEPT !.records = new]
    BY DEF MemMark
  <2> HIDE DEF new, n, f
  <2> QED BY <2>2, <2>3 DEF MapsVector, MemSame, MemFields, Mirrors
<1> HIDE DEF f, t, n
<1> Mirrors(n, t)
  BY <1>1, <1>3, <1>6, RowsBecomeMirrors
<1> QED BY DEF t, n

LEMMA SnapshotMirrors ==
  ASSUME NEW s, SqlGood(s), NEW m, Mirrors(m, s), NEW id
  PROVE  Mirrors(MemSnapshot(m, id, "measured"), SqlSnapshot(s, id, "measured"))
<1> DEFINE f == SnapshotRows(s, id)
           t == SqlSnapshot(s, id, "measured")
           n == MemSnapshot(m, id, "measured")
<1>1. RowsBecome(t, s, f)
  BY SqlSnapshotIs
<1>2. \A r \in s.records : r \in RecordSet /\ f[r] = SnapshotRow(r, id)
  BY DEF SnapshotRows, SqlGood, SqlSet
<1>3. KeepsRows(s, f)
  BY <1>2, SnapshotRowIs DEF KeepsRows, KeepsTexts
<1>4. \A i \in DOMAIN m.records : m.records[i] \in s.records
  BY VectorFacts DEF Mirrors, RecordsMirror
<1>5. MapsVector(n, m, f)
  <2> DEFINE new == [i \in DOMAIN m.records |->
                      IF m.records[i].id = id THEN [m.records[i] EXCEPT !.speed = "measured"]
                      ELSE m.records[i]]
  <2>1. new = [i \in DOMAIN m.records |-> f[m.records[i]]]
    BY <1>2, <1>4 DEF SnapshotRow
  <2>2. n = [m EXCEPT !.records = new]
    BY DEF MemSnapshot
  <2> HIDE DEF new, n, f
  <2> QED BY <2>1, <2>2 DEF MapsVector, MemSame, MemFields, Mirrors
<1> HIDE DEF f, t, n
<1> Mirrors(n, t)
  BY <1>1, <1>3, <1>5, RowsBecomeMirrors
<1> QED BY DEF t, n

(* Metrics: the entry that the memory store takes for a row is the last    *)
(* that means it, as in the database.                                      *)
Naming(batch, t) == {i \in DOMAIN batch : t \in Aliases[batch[i]]}

LEMMA MetricIs ==
  ASSUME NEW batch \in Seq(Texts), LaterComesFirst(batch), NEW r \in RecordSet
  PROVE  MemMetric(batch, r) = MeasuredRow(r, batch).metric
<1> DEFINE n == Len(batch)
           named == {t \in RecordAliases(r) : Naming(batch, t) # {}}
           first == CHOOSE t \in named : \A k \in named : Rank[t] <= Rank[k]
<1>1. /\ n \in Nat /\ DOMAIN batch = 1..n /\ \A i \in 1..n : batch[i] \in Texts
  BY LenProperties, ElementOfSeq
<1>2. /\ RecordTexts(r) \subseteq CrawlNames /\ RecordTexts(r) \subseteq RecordAliases(r)
      /\ RecordAliases(r) \in SUBSET Texts
  BY NamesOfRecord
<1>3. \A t \in Texts : t \in Aliases[t]
  BY NamesAreTexts
<1>4. ASSUME NEW i \in 1..n, NEW t \in RecordAliases(r), t \in Aliases[batch[i]]
      PROVE  RowIn(r, Aliases[batch[i]])
  <2>1. PICK x \in RecordTexts(r) : t \in Aliases[x]
    BY DEF RecordAliases, AliasesOf
  <2>2. x \in Aliases[batch[i]]
    BY <1>1, <1>2, <1>4, <2>1 DEF LaterComesFirst, Overlap
  <2> QED BY <2>1, <2>2 DEF RowIn, Overlap
<1>5. ASSUME NEW i \in 1..n, RowIn(r, Aliases[batch[i]])
      PROVE  \E t \in named : i \in Naming(batch, t)
  <2>1. PICK t \in RecordTexts(r) : t \in Aliases[batch[i]]
    BY <1>5 DEF RowIn, Overlap
  <2>2. i \in Naming(batch, t)
    BY <1>1, <2>1 DEF Naming
  <2> QED BY <1>2, <2>1, <2>2
<1>6. MemMetric(batch, r) = IF named = {} THEN r.metric ELSE batch[Max(Naming(batch, first))]
  BY DEF MemMetric, Naming
<1>7. CASE Given(r, batch) = {}
  <2>1. named = {}
    BY <1>1, <1>4, <1>7 DEF Given, Naming
  <2> HIDE DEF named
  <2> QED BY <1>6, <1>7, <2>1 DEF MeasuredRow
<1>8. CASE Given(r, batch) # {}
  <2>1. Given(r, batch) \in SUBSET (1..n)
    BY <1>1 DEF Given
  <2> DEFINE k == Max(Given(r, batch))
  <2>2. k \in Given(r, batch) /\ \A i \in Given(r, batch) : i <= k
    BY <1>1, <1>8, <2>1, MaxOfIndices
  <2> HIDE DEF k
  <2>3. PICK y \in named : k \in Naming(batch, y)
    BY <1>1, <1>5, <2>2 DEF Given
  <2>4. first \in named /\ \A t \in named : Rank[first] <= Rank[t]
    <3>1. named # {} /\ named \subseteq Texts
      BY <1>2, <2>3
    <3> HIDE DEF named
    <3> DEFINE R == {Rank[t] : t \in named}
    <3>2. R \subseteq Nat /\ R # {}
      BY <3>1, StoreAssumption
    <3>3. PICK v \in R : \A x \in R : v <= x
      <4> HIDE DEF R
      <4> QED BY <3>2, LeastNatural
    <3>4. PICK t \in named : v = Rank[t]
      OBVIOUS
    <3>5. \A x \in named : Rank[t] <= Rank[x]
      BY <3>3, <3>4
    <3> QED BY <3>5
  <2> HIDE DEF first
  <2>5. Naming(batch, first) \in SUBSET (1..n) /\ Naming(batch, first) # {}
    BY <1>1, <2>4 DEF Naming
  <2> DEFINE l == Max(Naming(batch, first))
  <2>6. l \in Naming(batch, first) /\ \A i \in Naming(batch, first) : i <= l
    BY <1>1, <2>5, MaxOfIndices
  <2> HIDE DEF l
  <2>7. /\ first \in RecordAliases(r) /\ y \in RecordAliases(r)
        /\ l \in 1..n /\ k \in 1..n /\ first \in Aliases[batch[l]] /\ y \in Aliases[batch[k]]
        /\ Rank[first] <= Rank[y]
    BY <1>1, <2>3, <2>4, <2>6 DEF Naming
  <2>8. l <= k
    BY <1>1, <1>4, <2>2, <2>7 DEF Given
  <2>9. l >= k
    <3>1. SUFFICES ASSUME l < k PROVE FALSE
      BY <1>1, <2>7
    <3>2. Rank[y] <= Rank[first]
      BY <1>1, <2>7, <3>1 DEF LaterComesFirst
    <3>3. Rank[y] \in Nat /\ Rank[first] \in Nat /\ y \in Texts /\ first \in Texts
      BY <1>2, <2>7, StoreAssumption
    <3>4. y = first
      BY <2>7, <3>2, <3>3, StoreAssumption
    <3>5. k <= l
      BY <2>3, <2>6, <3>4
    <3> QED BY <1>1, <2>7, <3>1, <3>5
  <2>10. l = k
    BY <1>1, <2>7, <2>8, <2>9
  <2>11. named # {}
    BY <2>3
  <2> HIDE DEF named
  <2>12. MemMetric(batch, r) = batch[k]
    BY <1>6, <2>10, <2>11 DEF l
  <2> QED BY <1>8, <2>12 DEF MeasuredRow, k, RecordSet
<1> QED BY <1>7, <1>8

LEMMA MetricsMirror ==
  ASSUME NEW s, SqlGood(s), NEW m, Mirrors(m, s),
         NEW batch \in Seq(Texts), LaterComesFirst(batch)
  PROVE  Mirrors(MemMetrics(m, batch), SqlMetrics(s, batch))
<1> DEFINE f == MeasuredRows(s, batch)
           t == SqlMetrics(s, batch)
           n == MemMetrics(m, batch)
<1>1. RowsBecome(t, s, f)
  BY SqlMetricsIs
<1>2. \A r \in s.records : r \in RecordSet /\ f[r] = MeasuredRow(r, batch)
  BY DEF MeasuredRows, SqlGood, SqlSet
<1>3. KeepsRows(s, f)
  BY <1>2, MeasuredRowIs DEF KeepsRows, KeepsTexts
<1>4. ASSUME NEW r \in RecordSet
      PROVE  [r EXCEPT !.metric = MemMetric(batch, r)] = MeasuredRow(r, batch)
  <2>1. MemMetric(batch, r) = MeasuredRow(r, batch).metric
    BY MetricIs
  <2> QED BY <2>1 DEF MeasuredRow, RecordSet
<1>5. \A i \in DOMAIN m.records : m.records[i] \in s.records
  BY VectorFacts DEF Mirrors, RecordsMirror
<1>6. MapsVector(n, m, f)
  <2> DEFINE new == [i \in DOMAIN m.records |->
                      [m.records[i] EXCEPT !.metric = MemMetric(batch, m.records[i])]]
  <2>1. new = [i \in DOMAIN m.records |-> f[m.records[i]]]
    BY <1>2, <1>4, <1>5
  <2>2. n = [m EXCEPT !.records = new]
    BY DEF MemMetrics
  <2> HIDE DEF new, n, f
  <2> QED BY <2>1, <2>2 DEF MapsVector, MemSame, MemFields, Mirrors
<1> HIDE DEF f, t, n
<1> Mirrors(n, t)
  BY <1>1, <1>3, <1>6, RowsBecomeMirrors
<1> QED BY DEF t, n

(* A link: the memory store sums the counts of a row anew where the        *)
(* database adds one, which is the same where they added up before.        *)
LEMMA InlinkMirrors ==
  ASSUME OneTextPerPage, NEW s, SqlGood(s), Summed(s), NEW m, Mirrors(m, s), NEW x \in CrawlNames
  PROVE  Mirrors(MemInlink(m, x), SqlInlink(s, x))
<1> DEFINE f == [r \in s.records |-> InlinkedRow(r, x)]
           t == SqlInlink(s, x)
           n == MemInlink(m, x)
           counts == [m.counts EXCEPT ![x] = @ + 1]
           new == [i \in DOMAIN m.records |->
                    IF i \in MemMatches(m, Aliases[x])
                    THEN [m.records[i] EXCEPT !.inlinks = Total(counts, RecordAliases(m.records[i]))]
                    ELSE m.records[i]]
<1>1. /\ OthersSame(t, s) /\ t.counts = [s.counts EXCEPT ![x] = @ + 1]
      /\ t.records = {f[r] : r \in s.records}
  <2>1. x \in Texts
    BY NamesAreTexts
  <2>2. t.records = {InlinkedRow(r, x) : r \in s.records}
    BY <2>1, SqlInlinkIs
  <2>3. {f[r] : r \in s.records} = {InlinkedRow(r, x) : r \in s.records}
    OBVIOUS
  <2> QED BY <2>1, <2>2, <2>3, SqlInlinkIs
<1>2. /\ m.counts = s.counts /\ s.counts \in [Texts -> Nat] /\ x \in Texts
      /\ \A r \in s.records : r \in RecordSet
  BY NamesAreTexts DEF Mirrors, RecordsMirror, SqlGood, SqlSet
<1>3. KeepsRows(s, f)
  BY <1>2, InlinkedRowIs DEF KeepsRows, KeepsTexts
<1>4. ASSUME NEW i \in DOMAIN m.records
      PROVE  new[i] = f[m.records[i]]
  <2> DEFINE r == m.records[i]
  <2>1. r \in s.records /\ r \in RecordSet /\ i \in 1..Len(m.records)
    BY VectorFacts DEF Mirrors, RecordsMirror
  <2>2. i \in MemMatches(m, Aliases[x]) <=> RowIn(r, Aliases[x])
    BY <2>1, MatchesOfName
  <2>3. RowIn(r, Aliases[x]) => Total(counts, RecordAliases(r)) = r.inlinks + 1
    <3>1. RecordAliases(r) \in SUBSET Texts
      BY <2>1, NamesOfRecord
    <3>2. RowIn(r, Aliases[x]) => x \in RecordAliases(r)
      BY <2>1, AliasesMeet
    <3>3. r.inlinks = Total(m.counts, RecordAliases(r))
      BY <1>2, <2>1 DEF Summed
    <3> HIDE DEF r
    <3> QED BY <1>2, <3>1, <3>2, <3>3, TotalRises
  <2>4. f[r] = InlinkedRow(r, x)
    BY <2>1
  <2>5. new[i] = IF RowIn(r, Aliases[x]) THEN [r EXCEPT !.inlinks = r.inlinks + 1] ELSE r
    BY <2>2, <2>3
  <2> QED BY <2>4, <2>5 DEF InlinkedRow
<1>5. n = [m EXCEPT !.counts = counts, !.records = new]
  BY DEF MemInlink
<1>6. VectorOf(new, t) /\ IndexOf(new) = IndexOf(m.records)
  <2>1. new = [i \in DOMAIN m.records |-> f[m.records[i]]]
    BY <1>4
  <2> HIDE DEF new, f, t
  <2> QED BY <1>1, <1>3, <2>1, MappedVector DEF Mirrors, RecordsMirror, OthersSame
<1> HIDE DEF new, f, t
<1>7. /\ MemFields \subseteq DOMAIN n /\ n.records = new /\ n.counts = counts
      /\ MemSame(n, m, MemFields \ {"records", "counts"})
  BY <1>5 DEF MemSame, Mirrors, MemFields
<1>8. n.byAlias = m.byAlias
  BY <1>7 DEF MemSame, MemFields
<1> HIDE DEF n
<1>9. RecordsMirror(n, t)
  BY <1>1, <1>2, <1>6, <1>7, <1>8 DEF RecordsMirror, Mirrors
<1>10. MemSame(n, m, EdgeFields) /\ MemSame(n, m, PartFields) /\ MemSame(n, m, {"frontier"})
  BY <1>7 DEF MemSame, MemFields, EdgeFields, PartFields
<1>11. EdgesMirror(n, t) /\ PartsMirror(n, t) /\ QueueMirrors(n, t)
  BY <1>1, <1>10, EdgesStayMirrored, PartsStayMirrored, QueueStaysMirrored DEF OthersSame, Mirrors
<1> Mirrors(n, t)
  BY <1>7, <1>9, <1>11, SMTT(30) DEF Mirrors
<1> QED BY DEF n, t

(* The edges a row shows itself in: the memory store finds them by its     *)
(* indexes of sources and targets.                                         *)
LEMMA ShowEdgesMirror ==
  ASSUME OneTextPerPage, NEW s, SqlGood(s), NEW m, EdgesMirror(m, s), NEW row \in RecordSet
  PROVE  MemShowEdges(m, row) = SqlShowEdges(s, row)
<1> DEFINE l == Len(s.edges)
           out == UNION {m.bySource[t] : t \in RecordAliases(row)}
           in == UNION {m.byTarget[t] : t \in RecordAliases(row)}
<1>1. /\ l \in Nat /\ DOMAIN s.edges = 1..l /\ \A i \in 1..l : s.edges[i] \in EdgeSet
  BY LenProperties, ElementOfSeq DEF SqlGood, SqlSet
<1>2. RecordAliases(row) \in SUBSET Texts
  BY NamesOfRecord
<1>3. \A i \in 1..l : s.edges[i].source \in CrawlNames /\ s.edges[i].target \in CrawlNames
  BY <1>1 DEF EdgeSet
<1>4. \A x \in CrawlNames : Overlap(RecordAliases(row), Aliases[x]) <=> x \in RecordAliases(row)
  BY AliasesMeet
<1>5. \A i \in 1..l : i \in out <=> s.edges[i].source \in RecordAliases(row)
  <2>1. \A t \in RecordAliases(row) : m.bySource[t] = {i \in 1..l : t \in Aliases[s.edges[i].source]}
    BY <1>2 DEF EdgesMirror, SourcesOf
  <2>2. \A i \in 1..l : i \in out <=> Overlap(RecordAliases(row), Aliases[s.edges[i].source])
    BY <2>1 DEF Overlap
  <2> QED BY <1>3, <1>4, <2>2
<1>6. \A i \in 1..l : i \in in <=> s.edges[i].target \in RecordAliases(row)
  <2>1. \A t \in RecordAliases(row) : m.byTarget[t] = {i \in 1..l : t \in Aliases[s.edges[i].target]}
    BY <1>2 DEF EdgesMirror, TargetsOf
  <2>2. \A i \in 1..l : i \in in <=> Overlap(RecordAliases(row), Aliases[s.edges[i].target])
    BY <2>1 DEF Overlap
  <2> QED BY <1>3, <1>4, <2>2
<1>7. MemShowEdges(m, row)
        = [i \in DOMAIN s.edges |->
            [s.edges[i] EXCEPT !.from = IF i \in out THEN Shown(row) ELSE @,
                               !.to = IF i \in in THEN Shown(row) ELSE @]]
  BY DEF MemShowEdges, EdgesMirror
<1> HIDE DEF out, in, l
<1>8. \A i \in DOMAIN s.edges :
        [s.edges[i] EXCEPT !.from = IF i \in out THEN Shown(row) ELSE @,
                           !.to = IF i \in in THEN Shown(row) ELSE @]
        = [s.edges[i] EXCEPT
            !.from = IF s.edges[i].source \in RecordAliases(row) THEN Shown(row) ELSE @,
            !.to = IF s.edges[i].target \in RecordAliases(row) THEN Shown(row) ELSE @]
  BY <1>1, <1>5, <1>6
<1> QED BY <1>7, <1>8 DEF SqlShowEdges

(* The indexes of edges do not depend on what the edges show.              *)
LEMMA ShownEdgesMirror ==
  ASSUME NEW m, NEW s, EdgesMirror(m, s), NEW row, NEW n, NEW t,
         EdgesShown(t.edges, s.edges, row), n.edges = t.edges,
         n.bySource = m.bySource, n.byTarget = m.byTarget, n.firsts = m.firsts
  PROVE  EdgesMirror(n, t)
<1>1. /\ Len(t.edges) = Len(s.edges)
      /\ \A i \in 1..Len(s.edges) : /\ t.edges[i].source = s.edges[i].source
                                    /\ t.edges[i].target = s.edges[i].target
  BY DEF EdgesShown
<1>2. SourcesOf(t.edges) = SourcesOf(s.edges) /\ TargetsOf(t.edges) = TargetsOf(s.edges)
  BY <1>1 DEF SourcesOf, TargetsOf
<1>3. FirstsOf(t.edges) = FirstsOf(s.edges)
  BY <1>2 DEF FirstsOf
<1> QED BY <1>2, <1>3 DEF EdgesMirror

(* Where the memory store finds the record of a key.                       *)
LEMMA IndexOfKey ==
  ASSUME NEW s, SqlGood(s), NEW m, Mirrors(m, s), NEW key
  PROVE  /\ (\A x \in s.records : x.key # key) => MemIndexOf(m, key) = {}
         /\ \A x \in s.records : x.key = key =>
              /\ x.id \in 1..Len(m.records) /\ m.records[x.id] = x
              /\ MemIndexOf(m, key) = {x.id} /\ Min(MemIndexOf(m, key)) = x.id
<1>1. VectorOf(m.records, s)
  BY DEF Mirrors, RecordsMirror
<1>2. /\ Len(m.records) \in Nat /\ DOMAIN m.records = 1..Len(m.records)
      /\ \A i \in 1..Len(m.records) : m.records[i] \in s.records /\ m.records[i].id = i
      /\ s.records = {m.records[i] : i \in 1..Len(m.records)}
      /\ \A i, j \in 1..Len(m.records) : m.records[i].key = m.records[j].key => i = j
  BY <1>1, VectorFacts DEF VectorOf
<1>3. (\A x \in s.records : x.key # key) => MemIndexOf(m, key) = {}
  BY <1>2 DEF MemIndexOf
<1>4. ASSUME NEW x \in s.records, x.key = key
      PROVE  /\ x.id \in 1..Len(m.records) /\ m.records[x.id] = x
             /\ MemIndexOf(m, key) = {x.id} /\ Min(MemIndexOf(m, key)) = x.id
  <2>1. PICK i \in 1..Len(m.records) : x = m.records[i] /\ x.id = i
    BY <1>2
  <2>2. MemIndexOf(m, key) = {x.id}
    BY <1>2, <1>4, <2>1 DEF MemIndexOf
  <2>3. {x.id} \in SUBSET Nat /\ {x.id} # {}
    BY <1>2, <2>1
  <2>4. Min({x.id}) = x.id
    BY <2>3, MinOfNaturals
  <2> QED BY <2>1, <2>2, <2>4
<1> QED BY <1>3, <1>4

(* An index in which a row enters at a place, or leaves one.               *)
IndexWith(index, row, i) ==
  [x \in Texts |-> IF x \in RecordAliases(row) THEN index[x] \cup {i} ELSE index[x]]
IndexWithout(index, i) == [x \in Texts |-> index[x] \ {i}]
NextPlace(k, records) == k = Len(records) + 1
Appends(after, records, row) == after = Append(records, row)

LEMMA AppendedVector ==
  ASSUME NEW s, SqlGood(s), NEW records, VectorOf(records, s), NEW row \in RecordSet,
         NEW t, t.records = s.records \cup {row}, t.lastId = row.id,
         NEW k, k = row.id, NextPlace(k, records), NEW after, Appends(after, records, row)
  PROVE  /\ VectorOf(after, t)
         /\ IndexOf(after) = IndexWith(IndexOf(records), row, k)
<1> DEFINE n == Len(records)
<1>1. /\ n \in Nat /\ n = s.lastId /\ records \in Seq(RecordSet)
      /\ \A i \in 1..n : records[i].id = i /\ s.records = {records[j] : j \in 1..n}
  BY VectorFacts DEF VectorOf
<1>2. s.records = {records[j] : j \in 1..n}
  BY DEF VectorOf
<1>3. /\ after \in Seq(RecordSet) /\ Len(after) = n + 1 /\ after[n + 1] = row
      /\ \A i \in 1..n : after[i] = records[i]
      /\ row.id = n + 1 /\ t.lastId = n + 1 /\ k = n + 1
  BY <1>1, AppendProperties DEF NextPlace, Appends
<1> HIDE DEF n
<1>4. \A i \in 1..n+1 : i \in 1..n \/ i = n + 1
  BY <1>1
<1>5. \A i \in 1..n : i \in 1..n+1
  BY <1>1
<1>6. n + 1 \in 1..n+1
  BY <1>1
<1>7. t.records = {after[i] : i \in 1..n+1}
  <2>1. {after[i] : i \in 1..n+1} = {records[j] : j \in 1..n} \cup {row}
    BY <1>3, <1>4, <1>5, <1>6
  <2> QED BY <1>2, <2>1
<1>8. \A i \in 1..n+1 : after[i].id = i
  BY <1>1, <1>3, <1>4
<1>9. ASSUME NEW x \in Texts
      PROVE  {i \in 1..n+1 : x \in RecordAliases(after[i])}
               = IF x \in RecordAliases(row)
                 THEN {i \in 1..n : x \in RecordAliases(records[i])} \cup {n + 1}
                 ELSE {i \in 1..n : x \in RecordAliases(records[i])}
  <2>1. \A i \in 1..n : RecordAliases(after[i]) = RecordAliases(records[i])
    BY <1>3
  <2>2. RecordAliases(after[n + 1]) = RecordAliases(row)
    BY <1>3
  <2> QED BY <1>4, <1>5, <1>6, <2>1, <2>2
<1>10. \A x \in Texts : IndexOf(records)[x] = {i \in 1..n : x \in RecordAliases(records[i])}
  BY DEF IndexOf, n
<1>11. IndexOf(after) = [x \in Texts |-> {i \in 1..n+1 : x \in RecordAliases(after[i])}]
  BY <1>3 DEF IndexOf
<1>12. VectorOf(after, t)
  BY <1>1, <1>3, <1>7, <1>8 DEF VectorOf
<1>13. IndexOf(after) = IndexWith(IndexOf(records), row, k)
  BY <1>3, <1>9, <1>10, <1>11 DEF IndexWith
<1> QED BY <1>12, <1>13

LEMMA ReplacedVector ==
  ASSUME NEW s, SqlGood(s), NEW records, VectorOf(records, s), NEW row \in RecordSet,
         NEW prior \in s.records, row.id = prior.id,
         NEW t, t.records = (s.records \ {prior}) \cup {row}, t.lastId = s.lastId,
         NEW k \in 1..Len(records), records[k] = prior,
         NEW after, after = [records EXCEPT ![k] = row]
  PROVE  /\ VectorOf(after, t)
         /\ IndexOf(after) = IndexWith(IndexWithout(IndexOf(records), k), row, k)
<1> DEFINE n == Len(records)
<1>1. /\ n \in Nat /\ n = s.lastId /\ records \in Seq(RecordSet) /\ DOMAIN records = 1..n
      /\ \A i \in 1..n : records[i].id = i /\ records[i] \in RecordSet
  BY VectorFacts DEF VectorOf
<1>2. s.records = {records[j] : j \in 1..n}
  BY DEF VectorOf
<1> HIDE DEF n
<1>3. /\ after \in [1..n -> RecordSet] /\ after[k] = row
      /\ \A i \in 1..n : i # k => after[i] = records[i]
  <2>1. records \in [1..n -> RecordSet]
    BY <1>1, LenProperties
  <2> QED BY <1>1, <2>1 DEF n
<1>4. after \in Seq(RecordSet) /\ Len(after) = n
  <2>1. after \in Seq(RecordSet)
    BY <1>1, <1>3, FunIsSeq
  <2> QED BY <1>1, <1>3, <2>1, LenProperties
<1>5. \A i \in 1..n : after[i].id = i
  BY <1>1, <1>3
<1>6. k \in 1..n /\ prior.id = k
  BY <1>1 DEF n
<1>7. t.records = {after[i] : i \in 1..n}
  <2>1. \A x \in s.records \ {prior} : \E i \in 1..n : x = after[i]
    BY <1>2, <1>3
  <2>2. \A i \in 1..n : i # k => records[i] \in s.records /\ records[i] # prior
    BY <1>1, <1>2, <1>6
  <2>3. \A i \in 1..n : after[i] \in (s.records \ {prior}) \cup {row}
    BY <1>3, <2>2
  <2>4. \E i \in 1..n : row = after[i]
    BY <1>3, <1>6
  <2>5. (s.records \ {prior}) \cup {row} = {after[i] : i \in 1..n}
    BY <2>1, <2>3, <2>4
  <2> QED BY <2>5
<1>8. ASSUME NEW x \in Texts
      PROVE  {i \in 1..n : x \in RecordAliases(after[i])}
               = IF x \in RecordAliases(row)
                 THEN ({i \in 1..n : x \in RecordAliases(records[i])} \ {k}) \cup {k}
                 ELSE {i \in 1..n : x \in RecordAliases(records[i])} \ {k}
  <2>1. \A i \in 1..n : i # k => RecordAliases(after[i]) = RecordAliases(records[i])
    BY <1>3
  <2>2. RecordAliases(after[k]) = RecordAliases(row)
    BY <1>3
  <2> QED BY <1>6, <2>1, <2>2
<1>9. \A x \in Texts : IndexOf(records)[x] = {i \in 1..n : x \in RecordAliases(records[i])}
  BY DEF IndexOf, n
<1>10. IndexOf(after) = [x \in Texts |-> {i \in 1..n : x \in RecordAliases(after[i])}]
  BY <1>4 DEF IndexOf
<1>11. VectorOf(after, t)
  BY <1>1, <1>4, <1>5, <1>7 DEF VectorOf
<1>12. IndexOf(after) = IndexWith(IndexWithout(IndexOf(records), k), row, k)
  BY <1>8, <1>9, <1>10, ZenonT(40) DEF IndexWith, IndexWithout
<1> QED BY <1>11, <1>12

(* What an upsert leaves behind, whichever of the two it was.              *)
LEMMA WrittenMirrors ==
  ASSUME OneTextPerPage, NEW s, SqlGood(s), NEW m, Mirrors(m, s), NEW row \in RecordSet, NEW t,
         SameRest(t, s), t.edges = SqlShowEdges(s, row),
         EdgesShown(t.edges, s.edges, row), NEW n, MemFields \subseteq DOMAIN n,
         MemSame(n, m, MemFields \ {"records", "byAlias", "edges"}),
         n.edges = MemShowEdges(m, row), VectorOf(n.records, t), n.byAlias = IndexOf(n.records)
  PROVE  Mirrors(n, t)
<1>1. /\ n.counts = m.counts /\ n.bySource = m.bySource /\ n.byTarget = m.byTarget
      /\ n.firsts = m.firsts /\ MemSame(n, m, PartFields) /\ MemSame(n, m, {"frontier"})
  BY DEF MemSame, MemFields, PartFields
<1>2. RecordsMirror(n, t)
  BY <1>1 DEF RecordsMirror, Mirrors, SameRest
<1>3. n.edges = t.edges
  BY ShowEdgesMirror DEF Mirrors
<1>4. EdgesMirror(n, t)
  BY <1>1, <1>3, ShownEdgesMirror DEF Mirrors
<1>5. PartsMirror(n, t) /\ QueueMirrors(n, t)
  BY <1>1, PartsStayMirrored, QueueStaysMirrored DEF Mirrors, SameRest
<1> QED BY <1>2, <1>4, <1>5 DEF Mirrors

LEMMA InsertMirrors ==
  ASSUME OneTextPerPage, NEW s, SqlGood(s), NEW m, Mirrors(m, s), NEW r \in RecordSet,
         \A x \in s.records : x.key # r.key
  PROVE  Mirrors(MemUpsert(m, r), SqlInsert(s, r))
<1> DEFINE row == NewRow(s, r)
           t == SqlInsert(s, r)
           n == MemUpsert(m, r)
           i == Len(m.records) + 1
           index == IndexWith(m.byAlias, row, i)
<1>1. Inserted(t, s, r, row)
  BY SqlInsertIs
<1>2. /\ VectorOf(m.records, s) /\ m.byAlias = IndexOf(m.records) /\ m.counts = s.counts
      /\ Len(m.records) = s.lastId
  BY DEF Mirrors, RecordsMirror, VectorOf
<1>3. MemIndexOf(m, r.key) = {}
  BY IndexOfKey
<1>4. [MemCounted(m, r) EXCEPT !.id = i] = row
  BY <1>2 DEF MemCounted, CountedAs, NewRow
<1>5. n = [m EXCEPT !.records = Append(m.records, row), !.byAlias = index,
                    !.edges = MemShowEdges(m, row)]
  <2> HIDE DEF row
  <2> QED BY <1>3, <1>4 DEF MemUpsert, IndexWith
<1> HIDE DEF row, t, i
<1>6. /\ MemFields \subseteq DOMAIN n /\ n.records = Append(m.records, row) /\ n.byAlias = index
      /\ n.edges = MemShowEdges(m, row)
      /\ MemSame(n, m, MemFields \ {"records", "byAlias", "edges"})
  <2> HIDE DEF index, n
  <2> QED BY <1>5 DEF MemSame, Mirrors, MemFields
<1>7. row \in RecordSet /\ row.id = s.lastId + 1 /\ t.records = s.records \cup {row}
      /\ t.lastId = s.lastId + 1
  BY <1>1 DEF Inserted, RowFor, SamePage
<1> HIDE DEF n
<1>8. VectorOf(n.records, t) /\ IndexOf(n.records) = index
  <2>1. /\ VectorOf(n.records, t)
        /\ IndexOf(n.records) = IndexWith(IndexOf(m.records), row, i)
    <3>1. i = row.id /\ t.lastId = row.id /\ NextPlace(i, m.records)
      BY <1>2, <1>7 DEF i, NextPlace
    <3>2. Appends(n.records, m.records, row)
      BY <1>6 DEF Appends
    <3> QED BY <1>2, <1>7, <3>1, <3>2, AppendedVector
  <2> QED BY <1>2, <2>1
<1> HIDE DEF index
<1>9. Mirrors(n, t)
  BY <1>1, <1>6, <1>7, <1>8, WrittenMirrors DEF Inserted
<1> QED BY <1>9 DEF n, t

LEMMA UpdateMirrors ==
  ASSUME OneTextPerPage, NEW s, SqlGood(s), NEW m, Mirrors(m, s), NEW r \in RecordSet,
         NEW prior \in s.records, prior.key = r.key
  PROVE  Mirrors(MemUpsert(m, r), SqlUpdate(s, prior, r))
<1> DEFINE row == NextRow(s, r, prior)
           t == SqlUpdate(s, prior, r)
           n == MemUpsert(m, r)
           i == prior.id
           index == IndexWith(IndexWithout(m.byAlias, i), row, i)
<1>1. Updated(t, s, r, prior, row)
  BY SqlUpdateIs
<1>2. /\ VectorOf(m.records, s) /\ m.byAlias = IndexOf(m.records) /\ m.counts = s.counts
      /\ Len(m.records) = s.lastId
  BY DEF Mirrors, RecordsMirror, VectorOf
<1>3. /\ MemIndexOf(m, r.key) = {i} /\ Min(MemIndexOf(m, r.key)) = i
      /\ i \in 1..Len(m.records) /\ m.records[i] = prior
  BY IndexOfKey
<1>4. Keep(MemCounted(m, r), m.records[i]) = row
  BY <1>2, <1>3 DEF MemCounted, CountedAs, NextRow
<1>5. n = [m EXCEPT !.records = [m.records EXCEPT ![i] = row], !.byAlias = index,
                    !.edges = MemShowEdges(m, row)]
  <2> HIDE DEF row, i
  <2> QED BY <1>3, <1>4 DEF MemUpsert, IndexWith, IndexWithout, MemUnindex
<1> HIDE DEF row, t, i
<1>6. /\ MemFields \subseteq DOMAIN n /\ n.records = [m.records EXCEPT ![i] = row]
      /\ n.byAlias = index /\ n.edges = MemShowEdges(m, row)
      /\ MemSame(n, m, MemFields \ {"records", "byAlias", "edges"})
  <2> HIDE DEF index, n
  <2> QED BY <1>5 DEF MemSame, Mirrors, MemFields
<1>7. row \in RecordSet /\ row.id = prior.id /\ t.records = (s.records \ {prior}) \cup {row}
      /\ t.lastId = s.lastId
  BY <1>1 DEF Updated, RowFor, SamePage
<1> HIDE DEF n
<1>8. VectorOf(n.records, t) /\ IndexOf(n.records) = index
  <2>1. /\ VectorOf(n.records, t)
        /\ IndexOf(n.records) = IndexWith(IndexWithout(IndexOf(m.records), i), row, i)
    BY <1>2, <1>3, <1>6, <1>7, ReplacedVector
  <2> QED BY <1>2, <2>1
<1> HIDE DEF index
<1>9. Mirrors(n, t)
  BY <1>1, <1>6, <1>7, <1>8, WrittenMirrors, SMTT(40) DEF Updated
<1> QED BY <1>9 DEF n, t

LEMMA UpsertMirrors ==
  ASSUME OneTextPerPage, NEW s, SqlGood(s), NEW m, Mirrors(m, s), NEW r \in RecordSet
  PROVE  Mirrors(MemUpsert(m, r), SqlUpsert(s, r))
BY UpsertCases, InsertMirrors, UpdateMirrors

(* A link: both stores show the earliest record at each end.               *)
LEMMA EndsMirror ==
  ASSUME OneTextPerPage, NEW s, SqlGood(s), NEW m, Mirrors(m, s), NEW t \in CrawlNames, NEW known
  PROVE  MemEnd(m, t, known) = SqlEnd(s, t, known)
<1> DEFINE l == Len(m.records)
           hit == {i \in 1..l : RowIn(m.records[i], Aliases[t])}
<1>1. /\ l \in Nat /\ \A i \in 1..l : m.records[i] \in s.records /\ m.records[i].id = i
      /\ s.records = {m.records[j] : j \in 1..l}
  BY VectorFacts DEF Mirrors, RecordsMirror, VectorOf
<1>2. s.records = {m.records[j] : j \in 1..l}
  BY DEF Mirrors, RecordsMirror, VectorOf
<1>3. MemMatches(m, Aliases[t]) = hit
  BY MatchesOfName
<1> HIDE DEF l
<1>4. Hits(s, t) = {m.records[i] : i \in hit}
  BY <1>1, <1>2 DEF Hits
<1>5. EndIs(SqlEnd(s, t, known), s, t, known)
  BY SqlEndIs
<1>6. MemEnd(m, t, known) = IF hit = {} THEN known ELSE Shown(m.records[Min(hit)])
  BY <1>3 DEF MemEnd
<1>7. CASE hit = {}
  <2>1. Hits(s, t) = {}
    BY <1>4, <1>7
  <2>2. SqlEnd(s, t, known) = known
    BY <1>5, <2>1 DEF EndIs
  <2> HIDE DEF hit
  <2> QED BY <1>6, <1>7, <2>2
<1>8. CASE hit # {}
  <2> DEFINE i == Min(hit)
  <2>1. i \in hit /\ \A k \in hit : i <= k
    <3>1. hit \in SUBSET Nat
      BY <1>1
    <3> HIDE DEF hit
    <3> QED BY <1>8, <3>1, MinOfNaturals
  <2> HIDE DEF i
  <2>2. Hits(s, t) # {}
    BY <1>4, <2>1
  <2>3. PICK r \in Hits(s, t) :
          SqlEnd(s, t, known) = Shown(r) /\ \A x \in Hits(s, t) : r.id <= x.id
    BY <1>5, <2>2 DEF EndIs
  <2>4. PICK k \in hit : r = m.records[k]
    BY <1>4, <2>3
  <2>5. k \in 1..l /\ i \in 1..l
    BY <2>1, <2>4
  <2>6. m.records[k].id <= m.records[i].id
    BY <1>4, <2>1, <2>3, <2>4
  <2>7. k = i
    BY <1>1, <2>1, <2>4, <2>5, <2>6
  <2> HIDE DEF hit
  <2> QED BY <1>6, <1>8, <2>3, <2>4, <2>7 DEF i
<1> QED BY <1>7, <1>8

(* An index of edges in which a new edge enters for some texts.            *)
AlsoFor(index, ts, i) == [t \in Texts |-> IF t \in ts THEN index[t] \cup {i} ELSE index[t]]

LEMMA AppendedEdges ==
  ASSUME NEW edges \in Seq(EdgeSet), NEW edge \in EdgeSet, NEW after, Appends(after, edges, edge),
         NEW k, NextPlace(k, edges)
  PROVE  /\ SourcesOf(after) = AlsoFor(SourcesOf(edges), Aliases[edge.source], k)
         /\ TargetsOf(after) = AlsoFor(TargetsOf(edges), Aliases[edge.target], k)
<1> DEFINE n == Len(edges)
<1>1. /\ n \in Nat /\ after \in Seq(EdgeSet) /\ Len(after) = n + 1 /\ after[n + 1] = edge /\ k = n + 1
      /\ \A i \in 1..n : after[i] = edges[i]
  BY AppendProperties, LenProperties DEF Appends, NextPlace
<1> HIDE DEF n
<1>2. /\ \A i \in 1..n+1 : i \in 1..n \/ i = n + 1
      /\ \A i \in 1..n : i \in 1..n+1
      /\ n + 1 \in 1..n+1
  BY <1>1
<1>3. ASSUME NEW t \in Texts
      PROVE  {i \in 1..n+1 : t \in Aliases[after[i].source]}
               = IF t \in Aliases[edge.source]
                 THEN {i \in 1..n : t \in Aliases[edges[i].source]} \cup {n + 1}
                 ELSE {i \in 1..n : t \in Aliases[edges[i].source]}
  BY <1>1, <1>2
<1>4. ASSUME NEW t \in Texts
      PROVE  {i \in 1..n+1 : t \in Aliases[after[i].target]}
               = IF t \in Aliases[edge.target]
                 THEN {i \in 1..n : t \in Aliases[edges[i].target]} \cup {n + 1}
                 ELSE {i \in 1..n : t \in Aliases[edges[i].target]}
  BY <1>1, <1>2
<1>5. SourcesOf(after) = AlsoFor(SourcesOf(edges), Aliases[edge.source], k)
  <2>1. SourcesOf(after) = [t \in Texts |-> {i \in 1..n+1 : t \in Aliases[after[i].source]}]
    BY <1>1 DEF SourcesOf
  <2>2. \A t \in Texts : SourcesOf(edges)[t] = {i \in 1..n : t \in Aliases[edges[i].source]}
    BY DEF SourcesOf, n
  <2> QED BY <1>1, <1>3, <2>1, <2>2 DEF AlsoFor
<1>6. TargetsOf(after) = AlsoFor(TargetsOf(edges), Aliases[edge.target], k)
  <2>1. TargetsOf(after) = [t \in Texts |-> {i \in 1..n+1 : t \in Aliases[after[i].target]}]
    BY <1>1 DEF TargetsOf
  <2>2. \A t \in Texts : TargetsOf(edges)[t] = {i \in 1..n : t \in Aliases[edges[i].target]}
    BY DEF TargetsOf, n
  <2> QED BY <1>1, <1>4, <2>1, <2>2 DEF AlsoFor
<1> QED BY <1>5, <1>6

(* The first edge to a text is noted once.                                 *)
LEMMA FirstEdges ==
  ASSUME NEW edges \in Seq(EdgeSet), NEW edge \in EdgeSet, NEW after, Appends(after, edges, edge),
         NEW k, NextPlace(k, edges)
  PROVE  FirstsOf(after)
           = [t \in Texts |-> IF t \in Aliases[edge.target] /\ FirstsOf(edges)[t] = None
                              THEN k ELSE FirstsOf(edges)[t]]
<1> DEFINE n == Len(edges)
           T(t) == TargetsOf(edges)[t]
<1>1. n \in Nat /\ k = n + 1
  BY LenProperties DEF NextPlace
<1>2. \A t \in Texts : T(t) \in SUBSET (1..n)
  BY DEF TargetsOf
<1> HIDE DEF n
<1>3. \A t \in Texts : TargetsOf(after)[t] = IF t \in Aliases[edge.target] THEN T(t) \cup {k} ELSE T(t)
  <2>1. TargetsOf(after) = AlsoFor(TargetsOf(edges), Aliases[edge.target], k)
    BY AppendedEdges
  <2> QED BY <2>1 DEF AlsoFor
<1>4. \A t \in Texts : FirstsOf(edges)[t] = IF T(t) = {} THEN None ELSE Min(T(t))
  BY DEF FirstsOf
<1>5. FirstsOf(after)
        = [t \in Texts |-> IF TargetsOf(after)[t] = {} THEN None ELSE Min(TargetsOf(after)[t])]
  BY DEF FirstsOf
<1>6. ASSUME NEW t \in Texts
      PROVE  (IF TargetsOf(after)[t] = {} THEN None ELSE Min(TargetsOf(after)[t]))
               = IF t \in Aliases[edge.target] /\ FirstsOf(edges)[t] = None
                 THEN k ELSE FirstsOf(edges)[t]
  <2> DEFINE old == T(t)
             new == TargetsOf(after)[t]
  <2>1. /\ old \in SUBSET Nat /\ \A i \in old : i < k
        /\ FirstsOf(edges)[t] = IF old = {} THEN None ELSE Min(old)
        /\ new = IF t \in Aliases[edge.target] THEN old \cup {k} ELSE old
    <3>1. old \in SUBSET (1..n) /\ new = IF t \in Aliases[edge.target] THEN old \cup {k} ELSE old
      BY <1>2, <1>3
    <3>2. FirstsOf(edges)[t] = IF old = {} THEN None ELSE Min(old)
      BY <1>4
    <3> HIDE DEF old, new
    <3> QED BY <1>1, <3>1, <3>2
  <2> HIDE DEF old, new
  <2>2. CASE t \notin Aliases[edge.target]
    BY <2>1, <2>2 DEF new
  <2>3. CASE t \in Aliases[edge.target] /\ old = {}
    <3>1. new = {k} /\ FirstsOf(edges)[t] = None
      BY <2>1, <2>3
    <3>2. Min({k}) = k
      <4>1. {k} \in SUBSET Nat /\ {k} # {}
        BY <1>1
      <4> QED BY <4>1, MinOfNaturals
    <3> QED BY <2>3, <3>1, <3>2 DEF new
  <2>4. CASE t \in Aliases[edge.target] /\ old # {}
    <3>1. Min(old) \in old /\ \A x \in old : Min(old) <= x
      BY <2>1, <2>4, MinOfNaturals
    <3>2. new = old \cup {k} /\ new \in SUBSET Nat /\ new # {}
      BY <1>1, <2>1, <2>4
    <3>3. Min(new) \in new /\ \A x \in new : Min(new) <= x
      BY <3>2, MinOfNaturals
    <3>4. Min(old) \in new /\ k \in new
      BY <3>1, <3>2
    <3>5. Min(new) = Min(old)
      <4>1. Min(new) \in Nat /\ Min(old) \in Nat /\ Min(new) <= Min(old) /\ Min(old) < k
        BY <2>1, <3>1, <3>2, <3>3, <3>4
      <4>2. Min(new) \in old
        BY <1>1, <3>2, <3>3, <4>1
      <4>3. Min(old) <= Min(new)
        BY <3>1, <4>2
      <4> QED BY <4>1, <4>3
    <3>6. Min(old) # None
      BY <2>1, <3>1, NamesAreTexts
    <3> QED BY <2>1, <2>4, <3>2, <3>5, <3>6 DEF new
  <2> QED BY <2>2, <2>3, <2>4
<1> HIDE DEF T
<1> QED BY <1>5, <1>6

LEMMA EdgeMirrors ==
  ASSUME OneTextPerPage, NEW s, SqlGood(s), NEW m, Mirrors(m, s), NEW e \in EdgeSet
  PROVE  Mirrors(MemEdge(m, e), SqlEdge(s, e))
<1> DEFINE n == MemEdge(m, e)
           t == SqlEdge(s, e)
           edge == NewEdge(s, e)
           i == Len(m.edges) + 1
           firsts == [x \in Texts |-> IF x \in Aliases[e.target] /\ m.firsts[x] = None
                                      THEN i ELSE m.firsts[x]]
           bySource == AlsoFor(m.bySource, Aliases[e.source], i)
           byTarget == AlsoFor(m.byTarget, Aliases[e.target], i)
<1>1. /\ SameRest(t, s) /\ t.records = s.records /\ t.lastId = s.lastId
      /\ t.edges = Append(s.edges, edge) /\ edge \in EdgeSet
      /\ edge.source = e.source /\ edge.target = e.target
  BY SqlEdgeIs
<1>2. /\ m.edges = s.edges /\ s.edges \in Seq(EdgeSet) /\ m.bySource = SourcesOf(s.edges)
      /\ m.byTarget = TargetsOf(s.edges) /\ m.firsts = FirstsOf(s.edges)
  BY DEF Mirrors, EdgesMirror, SqlGood, SqlSet
<1>3. [e EXCEPT !.from = MemEnd(m, e.source, e.from), !.to = MemEnd(m, e.target, e.to)] = edge
  <2>1. e.source \in CrawlNames /\ e.target \in CrawlNames
    BY DEF EdgeSet
  <2>2. /\ MemEnd(m, e.source, e.from) = SqlEnd(s, e.source, e.from)
        /\ MemEnd(m, e.target, e.to) = SqlEnd(s, e.target, e.to)
    BY <2>1, EndsMirror
  <2> QED BY <2>2 DEF NewEdge
<1>4. n = [m EXCEPT !.edges = Append(m.edges, edge), !.firsts = firsts,
                    !.bySource = bySource, !.byTarget = byTarget]
  <2> HIDE DEF edge
  <2>1. n = [m EXCEPT !.edges = Append(m.edges,
                [e EXCEPT !.from = MemEnd(m, e.source, e.from), !.to = MemEnd(m, e.target, e.to)]),
                      !.firsts = firsts, !.bySource = bySource, !.byTarget = byTarget]
    BY DEF MemEdge, AlsoFor
  <2> QED BY <1>3, <2>1
<1> HIDE DEF edge, t
<1>5. /\ MemFields \subseteq DOMAIN n /\ n.edges = Append(m.edges, edge) /\ n.firsts = firsts
      /\ n.bySource = bySource /\ n.byTarget = byTarget
      /\ MemSame(n, m, MemFields \ EdgeFields)
  <2> HIDE DEF n, firsts, bySource, byTarget, i
  <2> QED BY <1>4 DEF MemSame, Mirrors, MemFields, EdgeFields
<1> HIDE DEF n
<1>6. Appends(t.edges, s.edges, edge) /\ NextPlace(i, s.edges)
  BY <1>1, <1>2 DEF Appends, NextPlace
<1> HIDE DEF i
<1>7. SourcesOf(t.edges) = bySource /\ TargetsOf(t.edges) = byTarget
  <2>1. /\ SourcesOf(t.edges) = AlsoFor(SourcesOf(s.edges), Aliases[edge.source], i)
        /\ TargetsOf(t.edges) = AlsoFor(TargetsOf(s.edges), Aliases[edge.target], i)
    BY <1>1, <1>2, <1>6, AppendedEdges
  <2> QED BY <1>1, <1>2, <2>1
<1>8. FirstsOf(t.edges) = firsts
  <2>1. FirstsOf(t.edges)
          = [x \in Texts |-> IF x \in Aliases[edge.target] /\ FirstsOf(s.edges)[x] = None
                             THEN i ELSE FirstsOf(s.edges)[x]]
    BY <1>1, <1>2, <1>6, FirstEdges
  <2> QED BY <1>1, <1>2, <2>1
<1> HIDE DEF firsts, bySource, byTarget
<1>9. EdgesMirror(n, t)
  BY <1>1, <1>2, <1>5, <1>7, <1>8 DEF EdgesMirror
<1>10. MemSame(n, m, RecordFields) /\ MemSame(n, m, PartFields) /\ MemSame(n, m, {"frontier"})
  BY <1>5 DEF MemSame, MemFields, EdgeFields, RecordFields, PartFields
<1>11. RecordsMirror(n, t) /\ PartsMirror(n, t) /\ QueueMirrors(n, t)
  BY <1>1, <1>10, RecordsStayMirrored, PartsStayMirrored, QueueStaysMirrored DEF SameRest, Mirrors
<1> Mirrors(n, t)
  BY <1>5, <1>9, <1>11 DEF Mirrors
<1> QED BY DEF n, t

(* References, images and captures.  The memory store removes the images   *)
(* of every alias of the page, the database those of the page itself.      *)
PartsChange(n, m, t, s) ==
  /\ MemSame(n, m, MemFields \ PartFields) /\ PartsMirror(n, t)
  /\ RowsSame(t, s) /\ t.queue = s.queue /\ t.seen = s.seen /\ t.crawled = s.crawled

LEMMA PartsChangeMirrors ==
  ASSUME NEW s, NEW m, Mirrors(m, s), NEW t, NEW n, PartsChange(n, m, t, s)
  PROVE  Mirrors(n, t)
<1>1. /\ MemSame(n, m, RecordFields) /\ MemSame(n, m, EdgeFields) /\ MemSame(n, m, {"frontier"})
      /\ MemFields \subseteq DOMAIN n
  BY DEF PartsChange, MemSame, MemFields, EdgeFields, RecordFields, PartFields
<1>2. RecordsMirror(n, t) /\ EdgesMirror(n, t) /\ QueueMirrors(n, t)
  BY <1>1, RecordsStayMirrored, EdgesStayMirrored, QueueStaysMirrored
  DEF PartsChange, RowsSame, Mirrors
<1> QED BY <1>1, <1>2 DEF Mirrors, PartsChange

LEMMA ReferencesMirror ==
  ASSUME NEW s, SqlGood(s), NEW m, Mirrors(m, s), NEW key, NEW targets
  PROVE  Mirrors(MemReferences(m, key, targets), SqlReferences(s, key, targets))
<1> DEFINE t == SqlReferences(s, key, targets)
           n == MemReferences(m, key, targets)
           new == {x \in s.references : x.key # key} \cup [key : {key}, target : targets]
<1>1. m.references = s.references /\ m.images = s.images /\ m.captures = s.captures
      /\ MemFields \subseteq DOMAIN m /\ s \in SqlSet
  BY DEF Mirrors, PartsMirror, SqlGood
<1>2. t = [s EXCEPT !.references = new] /\ n = [m EXCEPT !.references = new]
  BY <1>1 DEF SqlReferences, MemReferences
<1> HIDE DEF t, n, new
<1>3. PartsChange(n, m, t, s)
  BY <1>1, <1>2 DEF PartsChange, PartsMirror, MemSame, MemFields, PartFields, RowsSame, SqlSet
<1> Mirrors(n, t)
  BY <1>3, PartsChangeMirrors
<1> QED BY DEF n, t

LEMMA ImagesMirror ==
  ASSUME OneTextPerPage, NEW s, SqlGood(s), NEW m, Mirrors(m, s), NEW page \in CrawlNames, NEW pics
  PROVE  Mirrors(MemImages(m, page, pics), SqlImages(s, page, pics))
<1> DEFINE t == SqlImages(s, page, pics)
           n == MemImages(m, page, pics)
           new == {x \in s.images : x.page # page} \cup [page : {page}, pic : pics]
<1>1. m.references = s.references /\ m.images = s.images /\ m.captures = s.captures
      /\ MemFields \subseteq DOMAIN m /\ s \in SqlSet
  BY DEF Mirrors, PartsMirror, SqlGood
<1>2. \A x \in s.images : Overlap(Aliases[x.page], Aliases[page]) <=> x.page = page
  <2>1. \A x \in s.images : x.page \in CrawlNames
    BY <1>1 DEF SqlSet, ImageSet
  <2>2. page \in Aliases[page]
    BY NamesAreTexts
  <2> QED BY <2>1, <2>2 DEF OneTextPerPage, Overlap
<1>3. {x \in s.images : ~Overlap(Aliases[x.page], Aliases[page])} = {x \in s.images : x.page # page}
  BY <1>2
<1>4. t = [s EXCEPT !.images = new] /\ n = [m EXCEPT !.images = new]
  BY <1>1, <1>3 DEF SqlImages, MemImages
<1> HIDE DEF t, n, new
<1>5. PartsChange(n, m, t, s)
  BY <1>1, <1>4 DEF PartsChange, PartsMirror, MemSame, MemFields, PartFields, RowsSame, SqlSet
<1> Mirrors(n, t)
  BY <1>5, PartsChangeMirrors
<1> QED BY DEF n, t

LEMMA CaptureMirrors ==
  ASSUME NEW s, SqlGood(s), NEW m, Mirrors(m, s), NEW key, NEW body
  PROVE  Mirrors(MemCapture(m, key, body), SqlCapture(s, key, body))
<1> DEFINE t == SqlCapture(s, key, body)
           n == MemCapture(m, key, body)
           new == {x \in s.captures : x.key # key}
                    \cup (IF body = None THEN {} ELSE {[key |-> key, body |-> body]})
<1>1. m.references = s.references /\ m.images = s.images /\ m.captures = s.captures
      /\ MemFields \subseteq DOMAIN m /\ s \in SqlSet
  BY DEF Mirrors, PartsMirror, SqlGood
<1>2. t = [s EXCEPT !.captures = new] /\ n = [m EXCEPT !.captures = new]
  BY <1>1 DEF SqlCapture, MemCapture
<1> HIDE DEF t, n, new
<1>3. PartsChange(n, m, t, s)
  BY <1>1, <1>2 DEF PartsChange, PartsMirror, MemSame, MemFields, PartFields, RowsSame, SqlSet
<1> Mirrors(n, t)
  BY <1>3, PartsChangeMirrors
<1> QED BY DEF n, t

(* The saved queue: what an update leaves, adds and flags stays in order.  *)
LEMMA LeftPositions ==
  ASSUME NEW q \in Seq(QueueItems), NEW queue, InPositions(q, queue), NEW done
  PROVE  InPositions(LeftItems(q, done), {row \in queue : row.item.key # done})
<1> DEFINE n == Len(q)
           k == LeftItems(q, done)
           l == Len(k)
           T == {item \in ToSet(q) : item.key # done}
           left == {row \in queue : row.item.key # done}
<1>1. PICK p : Positions(p, q, queue)
  BY DEF InPositions
<1>2. n \in Nat /\ DOMAIN q = 1..n /\ \A i \in 1..n : q[i] \in QueueItems /\ q[i] \in ToSet(q)
  BY LenProperties, ElementOfSeq DEF ToSet
<1>3. PICK e : Places(e, k, q, T, n)
  BY KeptIs DEF LeftItems, KeptOf
<1>4. k \in Seq(QueueItems) /\ l \in Nat
  BY KeptIs, LenProperties DEF LeftItems
<1>5. \A i \in 1..n : q[i] \in T <=> q[i].key # done
  BY <1>2
<1> DEFINE f == [i \in 1..l |-> p[e[i]]]
<1> HIDE DEF n, k, l, T
<1>6. /\ \A i \in 1..l : e[i] \in 1..n /\ k[i] = q[e[i]]
      /\ \A i, j \in 1..l : i < j => e[i] < e[j]
      /\ \A i \in 1..n : q[i] \in T <=> \E j \in 1..l : e[j] = i
  BY <1>3 DEF Places, l
<1>7. /\ \A i \in 1..n : p[i] \in Nat
      /\ \A i, j \in 1..n : i < j => p[i] < p[j]
      /\ queue = {[position |-> p[i], item |-> q[i]] : i \in 1..n}
  BY <1>1 DEF Positions, n
<1>8. f \in [1..l -> Nat] /\ \A i, j \in 1..l : i < j => f[i] < f[j]
  BY <1>6, <1>7
<1>9. left = {[position |-> f[i], item |-> k[i]] : i \in 1..l}
  <2>1. ASSUME NEW row \in left
        PROVE  \E i \in 1..l : row = [position |-> f[i], item |-> k[i]]
    <3>1. PICK j \in 1..n : row = [position |-> p[j], item |-> q[j]]
      BY <1>7
    <3>2. q[j] \in T
      BY <1>5, <3>1
    <3>3. PICK i \in 1..l : e[i] = j
      BY <1>6, <3>2
    <3> QED BY <1>6, <3>1, <3>3
  <2>2. ASSUME NEW i \in 1..l PROVE [position |-> f[i], item |-> k[i]] \in left
    <3>1. e[i] \in 1..n /\ k[i] = q[e[i]] /\ f[i] = p[e[i]] /\ q[e[i]] \in T
      BY <1>6
    <3>2. [position |-> p[e[i]], item |-> q[e[i]]] \in queue
      BY <1>7, <3>1
    <3> QED BY <1>5, <3>1, <3>2
  <2> HIDE DEF left, f
  <2> QED BY <2>1, <2>2
<1>10. Positions(f, k, left)
  BY <1>8, <1>9 DEF Positions, l
<1> QED BY <1>10 DEF InPositions, k

LEMMA AddedPositions ==
  ASSUME NEW q \in Seq(QueueItems), NEW queue, InPositions(q, queue), NEW new \in Seq(QueueItems),
         NEW next \in Nat, \A row \in queue : row.position < next
  PROVE  InPositions(q \o new, queue \cup AddedRows(next, new))
<1> DEFINE n == Len(q)
           l == Len(new)
           k == q \o new
<1>1. PICK p : Positions(p, q, queue)
  BY DEF InPositions
<1>2. /\ n \in Nat /\ l \in Nat /\ Len(k) = n + l /\ DOMAIN new = 1..l
      /\ \A i \in 1..n+l : k[i] = IF i <= n THEN q[i] ELSE new[i - n]
  BY LenProperties, ConcatProperties
<1> DEFINE f == [i \in 1..n+l |-> IF i <= n THEN p[i] ELSE next + (i - n) - 1]
<1> HIDE DEF n, l, k
<1>3. /\ \A i \in 1..n : p[i] \in Nat
      /\ \A i, j \in 1..n : i < j => p[i] < p[j]
      /\ queue = {[position |-> p[i], item |-> q[i]] : i \in 1..n}
  BY <1>1 DEF Positions, n
<1>4. \A i \in 1..n : p[i] < next
  <2>1. \A i \in 1..n : [position |-> p[i], item |-> q[i]] \in queue
    BY <1>3
  <2> QED BY <2>1
<1>5. \A i \in 1..n+l : /\ i <= n => i \in 1..n /\ f[i] = p[i]
                        /\ ~(i <= n) => i - n \in 1..l /\ f[i] = next + (i - n) - 1
  BY <1>2
<1>6. \A i \in 1..n+l : f[i] \in Nat
  BY <1>2, <1>3, <1>5
<1>7. ASSUME NEW i \in 1..n+l, NEW j \in 1..n+l, i < j PROVE f[i] < f[j]
  <2>1. CASE j <= n
    BY <1>2, <1>3, <1>5, <1>7, <2>1
  <2>2. CASE ~(j <= n) /\ i <= n
    <3>1. f[i] < next /\ f[j] = next + (j - n) - 1 /\ j - n \in 1..l /\ f[i] \in Nat
      BY <1>4, <1>5, <1>6, <2>2
    <3> HIDE DEF f
    <3> QED BY <1>2, <3>1
  <2>3. CASE ~(j <= n) /\ ~(i <= n)
    <3>1. f[i] = next + (i - n) - 1 /\ f[j] = next + (j - n) - 1
      BY <1>5, <2>3
    <3> HIDE DEF f
    <3> QED BY <1>2, <1>7, <3>1
  <2> QED BY <2>1, <2>2, <2>3
<1>8. queue \cup AddedRows(next, new) = {[position |-> f[i], item |-> k[i]] : i \in 1..n+l}
  <2>1. \A i \in 1..n : i \in 1..n+l /\ f[i] = p[i] /\ k[i] = q[i]
    BY <1>2, <1>5
  <2>2. \A i \in 1..l : n + i \in 1..n+l /\ f[n + i] = next + i - 1 /\ k[n + i] = new[i]
    <3>1. ASSUME NEW i \in 1..l
          PROVE  n + i \in 1..n+l /\ ~(n + i <= n) /\ (n + i) - n = i
      BY <1>2
    <3> HIDE DEF f
    <3>2. ASSUME NEW i \in 1..l
          PROVE  f[n + i] = next + i - 1 /\ k[n + i] = new[i]
      <4>1. f[n + i] = next + ((n + i) - n) - 1
        BY <1>5, <3>1
      <4>2. k[n + i] = new[(n + i) - n]
        BY <1>2, <3>1
      <4> QED BY <3>1, <4>1, <4>2
    <3> QED BY <3>1, <3>2
  <2>3. AddedRows(next, new) = {[position |-> next + i - 1, item |-> new[i]] : i \in 1..l}
    BY <1>2 DEF AddedRows
  <2> HIDE DEF f
  <2>4. ASSUME NEW row \in queue \cup AddedRows(next, new)
        PROVE  \E i \in 1..n+l : row = [position |-> f[i], item |-> k[i]]
    <3>1. CASE row \in queue
      BY <1>3, <2>1, <3>1
    <3>2. CASE row \in AddedRows(next, new)
      BY <2>2, <2>3, <3>2
    <3> QED BY <3>1, <3>2
  <2>5. ASSUME NEW i \in 1..n+l
        PROVE  [position |-> f[i], item |-> k[i]] \in queue \cup AddedRows(next, new)
    <3>1. CASE i <= n
      <4>1. i \in 1..n /\ f[i] = p[i] /\ k[i] = q[i]
        BY <1>2, <1>5, <3>1
      <4> QED BY <1>3, <4>1
    <3>2. CASE ~(i <= n)
      <4>1. i - n \in 1..l /\ f[i] = next + (i - n) - 1 /\ k[i] = new[i - n]
        BY <1>2, <1>5, <3>2
      <4> QED BY <2>3, <4>1
    <3> QED BY <3>1, <3>2
  <2> QED BY <2>4, <2>5
<1>9. f \in [1..n+l -> Nat]
  BY <1>6
<1> HIDE DEF f
<1>10. Positions(f, k, queue \cup AddedRows(next, new))
  BY <1>2, <1>7, <1>8, <1>9 DEF Positions
<1> QED BY <1>10 DEF InPositions, k

LEMMA FlaggedPositions ==
  ASSUME NEW q \in Seq(QueueItems), NEW queue, InPositions(q, queue), NEW urls
  PROVE  InPositions(FlaggedItems(q, urls), FlaggedRows(queue, urls))
<1> DEFINE n == Len(q)
           k == FlaggedItems(q, urls)
<1>1. PICK p : Positions(p, q, queue)
  BY DEF InPositions
<1>2. Len(k) = n /\ \A i \in 1..n : k[i] = FlaggedItem(q[i], urls)
  BY FlaggedItemsType
<1> HIDE DEF n, k
<1>3. /\ p \in [1..n -> Nat] /\ \A i, j \in 1..n : i < j => p[i] < p[j]
      /\ queue = {[position |-> p[i], item |-> q[i]] : i \in 1..n}
  BY <1>1 DEF Positions, n
<1>4. \A i \in 1..n : FlaggedRow([position |-> p[i], item |-> q[i]], urls)
                        = [position |-> p[i], item |-> k[i]]
  BY <1>2 DEF FlaggedRow
<1>5. FlaggedRows(queue, urls) = {[position |-> p[i], item |-> k[i]] : i \in 1..n}
  BY <1>3, <1>4 DEF FlaggedRows
<1>6. Positions(p, k, FlaggedRows(queue, urls))
  BY <1>2, <1>3, <1>5 DEF Positions
<1> QED BY <1>6 DEF InPositions, k

(* The calls on the frontier.                                              *)
FrontierChange(n, m, t, s) ==
  /\ MemSame(n, m, MemFields \ {"frontier"}) /\ QueueMirrors(n, t) /\ RowsSame(t, s)
  /\ t.images = s.images /\ t.references = s.references /\ t.captures = s.captures

LEMMA FrontierChangeMirrors ==
  ASSUME NEW s, NEW m, Mirrors(m, s), NEW t, NEW n, FrontierChange(n, m, t, s)
  PROVE  Mirrors(n, t)
<1>1. /\ MemSame(n, m, RecordFields) /\ MemSame(n, m, EdgeFields) /\ MemSame(n, m, PartFields)
      /\ MemFields \subseteq DOMAIN n
  BY DEF FrontierChange, MemSame, MemFields, EdgeFields, RecordFields, PartFields
<1>2. RecordsMirror(n, t) /\ EdgesMirror(n, t) /\ PartsMirror(n, t)
  BY <1>1, RecordsStayMirrored, EdgesStayMirrored, PartsStayMirrored
  DEF FrontierChange, RowsSame, Mirrors
<1> QED BY <1>1, <1>2 DEF Mirrors, FrontierChange

LEMMA UpdateFrontierMirrors ==
  ASSUME NEW s, SqlGood(s), NEW m, Mirrors(m, s), m.frontier \in FrontierSet, NEW done,
         NEW new \in Seq(QueueItems), NEW urls, NEW crawled \in Nat
  PROVE  Mirrors(MemFrontier(m, done, new, urls, crawled), SqlFrontier(s, done, new, urls, crawled))
<1> DEFINE n == MemFrontier(m, done, new, urls, crawled)
           t == SqlFrontier(s, done, new, urls, crawled)
           q == m.frontier.queued
           left == LeftRows(s, done)
           next == NextPosition(left)
           seen == m.frontier.seen \cup {item.key : item \in ToSet(new)}
           all == LeftItems(q, done) \o new
           state == [queued |-> FlaggedItems(all, urls), seen |-> seen, crawled |-> crawled]
<1>1. /\ MemFields \subseteq DOMAIN n /\ n.frontier \in FrontierSet /\ n.frontier = state
  BY MemFrontierIs DEF MemShape, Mirrors
<1>2. MemSame(n, m, MemFields \ {"frontier"})
  <2>1. \E x : n = [m EXCEPT !.frontier = x]
    BY DEF MemFrontier
  <2> HIDE DEF n
  <2> QED BY <2>1 DEF MemSame, MemFields, Mirrors
<1>3. /\ RowsSame(t, s) /\ t.queue = FlaggedRows(NewRows(s, done, new), urls)
  <2>1. /\ RowsSame(SqlFrontier(s, done, new, urls, crawled), s)
        /\ SqlFrontier(s, done, new, urls, crawled).queue
             = FlaggedRows(NewRows(s, done, new), urls)
    BY SqlFrontierIs
  <2> QED BY <2>1
<1>4. /\ t.seen = s.seen \cup {item.key : item \in ToSet(new)} /\ t.crawled = crawled
      /\ t.images = s.images /\ t.references = s.references /\ t.captures = s.captures
  <2>1. s \in SqlSet
    BY SMTT(30) DEF SqlGood
  <2>2. \E x : t = [s EXCEPT !.queue = x, !.seen = @ \cup {item.key : item \in ToSet(new)},
                             !.crawled = crawled]
    BY DEF SqlFrontier
  <2> HIDE DEF t
  <2> QED BY <2>1, <2>2 DEF SqlSet
<1>5. /\ q \in Seq(QueueItems) /\ InPositions(q, s.queue)
      /\ s.seen = m.frontier.seen /\ s.seen # {}
  BY FrontiersAreSomething DEF Mirrors, QueueMirrors, FrontierSet
<1>6. LeftItems(q, done) \in Seq(QueueItems)
  BY <1>5, KeptIs DEF LeftItems
<1>7. InPositions(LeftItems(q, done), left)
  BY <1>5, LeftPositions DEF LeftRows
<1>8. next \in Nat /\ \A row \in left : row.position < next
  <2>1. left \in SUBSET RowSet /\ Bounded(left)
    BY DEF LeftRows, Bounded, SqlGood, SqlSet, RowSet
  <2> HIDE DEF left
  <2> QED BY <2>1, NextPositionIs
<1>9. NewRows(s, done, new) = left \cup AddedRows(next, new)
  BY DEF NewRows
<1> HIDE DEF left, next, q, n, t, seen
<1>10. all \in Seq(QueueItems) /\ InPositions(all, NewRows(s, done, new))
  BY <1>6, <1>7, <1>8, <1>9, AddedPositions, ConcatProperties, SMTT(30)
<1> HIDE DEF all
<1>11. InPositions(FlaggedItems(all, urls), t.queue)
  BY <1>3, <1>10, FlaggedPositions
<1>12. t.seen = seen /\ seen # {}
  BY <1>4, <1>5 DEF seen
<1>13. /\ n.frontier.queued = FlaggedItems(all, urls) /\ n.frontier.seen = seen
       /\ n.frontier.crawled = crawled
  BY <1>1
<1>14. QueueMirrors(n, t)
  BY <1>1, <1>4, <1>11, <1>12, <1>13 DEF QueueMirrors
<1>15. FrontierChange(n, m, t, s)
  BY <1>2, <1>3, <1>4, <1>14 DEF FrontierChange
<1> Mirrors(n, t)
  BY <1>15, FrontierChangeMirrors
<1> QED BY DEF n, t

LEMMA StartMirrors ==
  ASSUME NEW s, SqlGood(s), NEW m, Mirrors(m, s), NEW state \in FrontierSet, state.seen # {}
  PROVE  Mirrors([m EXCEPT !.frontier = state], SqlSaveFrontier(SqlClearFrontier(s), state))
<1> DEFINE n == [m EXCEPT !.frontier = state]
           u == SqlClearFrontier(s)
           t == SqlSaveFrontier(u, state)
           q == state.queued
<1>1. SqlGood(u) /\ RowsSame(u, s)
  BY SqlClearFrontierIs
<1>2. SqlGood(t) /\ RowsSame(t, u)
  <2> HIDE DEF u
  <2> QED BY <1>1, SqlSaveFrontierIs
<1>3. RowsSame(t, s)
  BY <1>1, <1>2 DEF RowsSame
<1>4. /\ t.queue = {[position |-> i - 1, item |-> q[i]] : i \in DOMAIN q}
      /\ t.seen = state.seen /\ t.crawled = state.crawled
      /\ t.images = s.images /\ t.references = s.references /\ t.captures = s.captures
  BY DEF SqlSaveFrontier, SqlClearFrontier, SqlGood, SqlSet
<1>5. n.frontier = state /\ MemSame(n, m, MemFields \ {"frontier"})
  BY DEF MemSame, Mirrors, MemFields
<1>6. q \in Seq(QueueItems) /\ Len(q) \in Nat /\ DOMAIN q = 1..Len(q)
  BY LenProperties DEF FrontierSet
<1> HIDE DEF t, u, n, q
<1> DEFINE f == [i \in 1..Len(q) |-> i - 1]
<1>7. f \in [1..Len(q) -> Nat] /\ \A i, j \in 1..Len(q) : i < j => f[i] < f[j]
  BY <1>6
<1>8. {[position |-> i - 1, item |-> q[i]] : i \in 1..Len(q)}
        = {[position |-> f[i], item |-> q[i]] : i \in 1..Len(q)}
  OBVIOUS
<1> HIDE DEF f
<1>9. Positions(f, q, t.queue)
  BY <1>4, <1>6, <1>7, <1>8 DEF Positions
<1>10. QueueMirrors(n, t)
  BY <1>4, <1>5, <1>9 DEF QueueMirrors, InPositions, q
<1>11. FrontierChange(n, m, t, s)
  BY <1>3, <1>4, <1>5, <1>10 DEF FrontierChange
<1> Mirrors(n, t)
  BY <1>11, FrontierChangeMirrors
<1> QED BY DEF n, t, u

LEMMA EndMirrors ==
  ASSUME NEW s, SqlGood(s), NEW m, Mirrors(m, s)
  PROVE  Mirrors([m EXCEPT !.frontier = None], SqlClearFrontier(s))
<1> DEFINE n == [m EXCEPT !.frontier = None]
           t == SqlClearFrontier(s)
<1>1. RowsSame(t, s)
  BY SqlClearFrontierIs
<1>2. /\ t.queue = {} /\ t.seen = {} /\ t.crawled = None
      /\ t.images = s.images /\ t.references = s.references /\ t.captures = s.captures
  BY DEF SqlClearFrontier, SqlGood, SqlSet
<1>3. n.frontier = None /\ MemSame(n, m, MemFields \ {"frontier"})
  BY DEF MemSame, Mirrors, MemFields
<1> HIDE DEF n, t
<1>4. FrontierChange(n, m, t, s)
  BY <1>1, <1>2, <1>3 DEF FrontierChange, QueueMirrors
<1> Mirrors(n, t)
  BY <1>4, FrontierChangeMirrors
<1> QED BY DEF n, t

-----------------------------------------------------------------------------
(* Both stores take every call, and stay mirrors of one another.           *)
MirrorInv == EvidenceInv /\ Mirrors(mem, sql)

LEMMA StartKeepsMirror ==
  ASSUME MirrorInv, StartCrawl
  PROVE  Mirrors(mem', sql')
<1>1. PICK seeds \in Seeds :
        LET state == [queued |-> seeds, seen |-> {item.key : item \in ToSet(seeds)}, crawled |-> 0]
        IN Both([mem EXCEPT !.frontier = state], SqlSaveFrontier(SqlClearFrontier(sql), state))
  BY DEF StartCrawl
<1> DEFINE state == [queued |-> seeds, seen |-> {item.key : item \in ToSet(seeds)}, crawled |-> 0]
<1>2. mem' = [mem EXCEPT !.frontier = state] /\ sql' = SqlSaveFrontier(SqlClearFrontier(sql), state)
  BY <1>1 DEF Both
<1>3. state \in FrontierSet
  BY SeedTypes DEF FrontierSet
<1>4. state.seen # {}
  <2>1. seeds \in Seq(Items) /\ seeds # <<>>
    BY StoreAssumption
  <2>2. 1 \in DOMAIN seeds
    BY <2>1, EmptySeq, LenProperties
  <2>3. seeds[1] \in ToSet(seeds)
    BY <2>2 DEF ToSet
  <2> QED BY <2>3
<1> HIDE DEF state
<1>5. SqlGood(sql) /\ Mirrors(mem, sql)
  BY DEF MirrorInv, EvidenceInv, RowsInv
<1> QED BY <1>2, <1>3, <1>4, <1>5, StartMirrors

LEMMA FrontierKeepsMirror ==
  ASSUME MirrorInv, UpdateFrontier
  PROVE  Mirrors(mem', sql')
<1> DEFINE c == Head(calls)
           crawled == mem.frontier.crawled + 1
<1>1. /\ mem' = MemFrontier(mem, c.done, c.new, c.urls, crawled)
      /\ sql' = SqlFrontier(sql, c.done, c.new, c.urls, crawled) /\ Calling("frontier")
  BY DEF UpdateFrontier, Both
<1>2. RowsInv /\ SqlGood(sql) /\ Mirrors(mem, sql)
  BY DEF MirrorInv, EvidenceInv, RowsInv
<1>3. c \in FrontierCalls /\ mem.frontier \in FrontierSet
  BY <1>1, <1>2, CallDue, CallKinds
<1>4. crawled \in Nat /\ c.new \in Seq(QueueItems)
  BY <1>3 DEF FrontierSet, FrontierCalls
<1> HIDE DEF c, crawled
<1> QED BY <1>1, <1>2, <1>3, <1>4, UpdateFrontierMirrors

LEMMA PartsKeepMirror ==
  ASSUME OneTextPerPage, MirrorInv, AddPageReferences \/ AddImageAssets \/ ReplacePageCapture
  PROVE  Mirrors(mem', sql')
<1> DEFINE c == Head(calls)
<1>1. RowsInv /\ SqlGood(sql) /\ Mirrors(mem, sql)
  BY DEF MirrorInv, EvidenceInv, RowsInv
<1>2. CASE AddPageReferences
  <2>1. mem' = MemReferences(mem, c.key, c.targets) /\ sql' = SqlReferences(sql, c.key, c.targets)
    BY <1>2 DEF AddPageReferences, Both
  <2> HIDE DEF c
  <2> QED BY <1>1, <2>1, ReferencesMirror
<1>3. CASE AddImageAssets
  <2>1. /\ mem' = MemImages(mem, c.page, c.pics) /\ sql' = SqlImages(sql, c.page, c.pics)
        /\ Calling("images")
    BY <1>3 DEF AddImageAssets, Both
  <2>2. c.page \in CrawlNames
    BY <1>1, <2>1, CallDue, CallKinds DEF ImageCalls
  <2> HIDE DEF c
  <2> QED BY <1>1, <2>1, <2>2, ImagesMirror
<1>4. CASE ReplacePageCapture
  <2>1. mem' = MemCapture(mem, c.key, c.body) /\ sql' = SqlCapture(sql, c.key, c.body)
    BY <1>4 DEF ReplacePageCapture, Both
  <2> HIDE DEF c
  <2> QED BY <1>1, <2>1, CaptureMirrors
<1> QED BY <1>2, <1>3, <1>4

LEMMA LinksKeepMirror ==
  ASSUME OneTextPerPage, MirrorInv, AddInlink \/ AddLinkEdge
  PROVE  Mirrors(mem', sql')
<1> DEFINE c == Head(calls)
<1>1. RowsInv /\ SqlGood(sql) /\ Mirrors(mem, sql) /\ Summed(sql)
  BY DEF MirrorInv, EvidenceInv, RowsInv, Evident
<1>2. CASE AddInlink
  <2>1. mem' = MemInlink(mem, c.target) /\ sql' = SqlInlink(sql, c.target) /\ Calling("inlink")
    BY <1>2 DEF AddInlink, Both
  <2>2. c.target \in CrawlNames
    BY <1>1, <2>1, CallDue, CallKinds DEF InlinkCalls
  <2> HIDE DEF c
  <2> QED BY <1>1, <2>1, <2>2, InlinkMirrors
<1>3. CASE AddLinkEdge
  <2>1. mem' = MemEdge(mem, c.edge) /\ sql' = SqlEdge(sql, c.edge) /\ Calling("edge")
    BY <1>3 DEF AddLinkEdge, Both
  <2>2. c.edge \in EdgeSet
    BY <1>1, <2>1, CallDue, CallKinds DEF EdgeCalls
  <2> HIDE DEF c
  <2> QED BY <1>1, <2>1, <2>2, EdgeMirrors
<1> QED BY <1>2, <1>3

LEMMA RecordsKeepMirror ==
  ASSUME OneTextPerPage, MirrorInv, MarkSitemapUrls \/ Upsert
  PROVE  Mirrors(mem', sql')
<1> DEFINE c == Head(calls)
<1>1. RowsInv /\ SqlGood(sql) /\ Mirrors(mem, sql)
  BY DEF MirrorInv, EvidenceInv, RowsInv
<1>2. CASE MarkSitemapUrls
  <2>1. mem' = MemMark(mem, c.urls) /\ sql' = SqlMark(sql, c.urls)
    BY <1>2 DEF MarkSitemapUrls, Both
  <2> HIDE DEF c
  <2> QED BY <1>1, <2>1, MarkMirrors
<1>3. CASE Upsert
  <2>1. /\ mem' = MemUpsert(mem, Arriving(c)) /\ sql' = SqlUpsert(sql, Arriving(c))
        /\ Calling("upsert")
    BY <1>3 DEF Upsert, Both, Arriving
  <2>2. Arriving(c) \in RecordSet
    BY <1>1, <2>1, CallDue, CallKinds, ArrivingIs
  <2> HIDE DEF c
  <2> QED BY <1>1, <2>1, <2>2, UpsertMirrors
<1> QED BY <1>2, <1>3

LEMMA ToolsKeepMirror ==
  ASSUME BatchesAreOrdered, MirrorInv, SaveSnapshot \/ MergeMetrics
  PROVE  Mirrors(mem', sql')
<1>1. RowsInv /\ SqlGood(sql) /\ Mirrors(mem, sql)
  BY DEF MirrorInv, EvidenceInv, RowsInv
<1>2. CASE SaveSnapshot
  <2>1. PICK r \in sql.records : /\ mem' = MemSnapshot(mem, r.id, "measured")
                                 /\ sql' = SqlSnapshot(sql, r.id, "measured")
    BY <1>2 DEF SaveSnapshot, Both
  <2> QED BY <1>1, <2>1, SnapshotMirrors
<1>3. CASE MergeMetrics
  <2>1. PICK batch \in Batches : mem' = MemMetrics(mem, batch) /\ sql' = SqlMetrics(sql, batch)
    BY <1>3 DEF MergeMetrics, Both
  <2>2. batch \in Seq(Texts) /\ LaterComesFirst(batch)
    BY StoreAssumption DEF BatchesAreOrdered
  <2> QED BY <1>1, <2>1, <2>2, MetricsMirror
<1> QED BY <1>2, <1>3

LEMMA MirrorKept ==
  ASSUME OneTextPerPage, BatchesAreOrdered, MirrorInv, [Next]_vars
  PROVE  Mirrors(mem', sql')
<1>1. SqlGood(sql) /\ Mirrors(mem, sql)
  BY DEF MirrorInv, EvidenceInv, RowsInv
<1>2. CASE StartCrawl
  BY <1>2, StartKeepsMirror
<1>3. CASE EndCrawl
  <2>1. mem' = [mem EXCEPT !.frontier = None] /\ sql' = SqlClearFrontier(sql)
    BY <1>3 DEF EndCrawl, Both
  <2> QED BY <1>1, <2>1, EndMirrors
<1>4. CASE UpdateFrontier
  BY <1>4, FrontierKeepsMirror
<1>5. CASE AddPageReferences \/ AddImageAssets \/ ReplacePageCapture
  BY <1>5, PartsKeepMirror
<1>6. CASE AddInlink \/ AddLinkEdge
  BY <1>6, LinksKeepMirror
<1>7. CASE MarkSitemapUrls \/ Upsert
  BY <1>7, RecordsKeepMirror
<1>8. CASE SaveSnapshot \/ MergeMetrics
  BY <1>8, ToolsKeepMirror
<1>9. CASE BeginPage \/ UNCHANGED vars
  <2>1. mem' = mem /\ sql' = sql
    BY <1>9 DEF BeginPage, vars
  <2> QED BY <1>1, <2>1
<1> QED BY <1>2, <1>3, <1>4, <1>5, <1>6, <1>7, <1>8, <1>9 DEF Next

-----------------------------------------------------------------------------
(* What the readers see of two mirrors is the same.                        *)

(* The first source of a page: the memory store noted it for each text,    *)
(* the database takes the first of all edges that lead to the page.        *)
LEMMA FirstsAgree ==
  ASSUME OneTextPerPage, NEW s, SqlGood(s), NEW m, Mirrors(m, s), NEW r \in RecordSet
  PROVE  MemFirst(m, r) = SqlFirst(s, r)
<1> DEFINE l == Len(s.edges)
           given == {i \in DOMAIN s.edges : s.edges[i].target \in RecordAliases(r)}
           noted == {m.firsts[t] : t \in RecordAliases(r)} \ {None}
           T == TargetsOf(s.edges)
<1>1. /\ l \in Nat /\ DOMAIN s.edges = 1..l /\ \A i \in 1..l : s.edges[i] \in EdgeSet
  BY LenProperties, ElementOfSeq DEF SqlGood, SqlSet
<1>2. \A i \in 1..l : s.edges[i].target \in CrawlNames
  BY <1>1 DEF EdgeSet
<1>3. RecordAliases(r) \in SUBSET Texts
  BY NamesOfRecord
<1>4. \A i \in 1..l : s.edges[i].target \in RecordAliases(r)
                        <=> Overlap(RecordAliases(r), Aliases[s.edges[i].target])
  BY <1>2, AliasesMeet
<1>5. m.edges = s.edges /\ m.firsts = FirstsOf(s.edges)
  BY DEF Mirrors, EdgesMirror
<1>6. \A t \in Texts : T[t] = {i \in 1..l : t \in Aliases[s.edges[i].target]}
  BY DEF TargetsOf
<1>7. \A t \in Texts : m.firsts[t] = IF T[t] = {} THEN None ELSE Min(T[t])
  BY <1>5 DEF FirstsOf
<1> HIDE DEF T, l
<1>8. /\ given \in SUBSET (1..l)
      /\ \A t \in RecordAliases(r) : T[t] \subseteq given
      /\ \A i \in given : \E t \in RecordAliases(r) : i \in T[t]
  BY <1>1, <1>3, <1>4, <1>6 DEF Overlap
<1> HIDE DEF given
<1>9. \A t \in RecordAliases(r) : T[t] # {} => /\ Min(T[t]) \in T[t] /\ Min(T[t]) \in Nat
                                               /\ \A i \in T[t] : Min(T[t]) <= i
  <2>1. given \in SUBSET Nat
    BY <1>1, <1>8
  <2>2. ASSUME NEW t \in RecordAliases(r) PROVE T[t] \in SUBSET Nat
    BY <1>8, <2>1
  <2> QED BY <2>2, MinOfNaturals
<1>10. None \notin Nat
  BY NamesAreTexts
<1>11. CASE given = {}
  <2>1. noted = {}
    BY <1>3, <1>7, <1>8, <1>11
  <2> HIDE DEF noted
  <2> QED BY <1>11, <2>1 DEF MemFirst, SqlFirst, noted, given
<1>12. CASE given # {}
  <2> DEFINE k == Min(given)
  <2>1. given \in SUBSET Nat
    BY <1>1, <1>8
  <2>2. k \in given /\ k \in Nat /\ \A i \in given : k <= i
    BY <1>12, <2>1, MinOfNaturals
  <2> HIDE DEF k
  <2>3. PICK t \in RecordAliases(r) : k \in T[t]
    BY <1>8, <2>2
  <2>4. Min(T[t]) \in given /\ Min(T[t]) <= k /\ Min(T[t]) \in Nat
    BY <1>8, <1>9, <2>3
  <2>5. Min(T[t]) = k
    BY <2>2, <2>4
  <2>6. k \in noted
    BY <1>3, <1>7, <1>10, <2>2, <2>3, <2>5
  <2>7. \A n \in noted : n \in given
    BY <1>3, <1>7, <1>8, <1>9
  <2> HIDE DEF noted
  <2>8. noted # {} /\ noted \in SUBSET Nat
    BY <2>1, <2>6, <2>7
  <2>9. Min(noted) \in noted /\ Min(noted) <= k
    BY <2>6, <2>8, MinOfNaturals
  <2>10. Min(noted) \in Nat /\ k <= Min(noted)
    BY <2>2, <2>7, <2>8, <2>9
  <2>11. Min(noted) = k
    BY <2>2, <2>9, <2>10
  <2>12. SqlFirst(s, r) = s.edges[k].source
    BY <1>12 DEF SqlFirst, k, given
  <2>13. MemFirst(m, r) = m.edges[Min(noted)].source
    BY <2>8 DEF MemFirst, noted
  <2> QED BY <1>5, <2>11, <2>12, <2>13
<1> QED BY <1>11, <1>12

LEMMA RecordsAgree ==
  ASSUME OneTextPerPage, NEW s, SqlGood(s), NEW m, Mirrors(m, s)
  PROVE  MemRecords(m) = SqlRecords(s)
<1>1. VectorOf(m.records, s)
  BY DEF Mirrors, RecordsMirror
<1>2. DOMAIN m.records = 1..Len(m.records)
  BY <1>1, VectorFacts
<1>3. ToSet(m.records) = s.records
  BY <1>1, <1>2 DEF ToSet, VectorOf
<1>4. \A r \in s.records : MemFirst(m, r) = SqlFirst(s, r)
  <2>1. s.records \subseteq RecordSet
    BY DEF SqlGood, SqlSet
  <2> QED BY <2>1, FirstsAgree
<1> QED BY <1>3, <1>4 DEF MemRecords, SqlRecords

(* The queue a crawl resumes from: the database sorts its rows by their    *)
(* positions, and that is the order the memory store kept.                 *)
LEMMA SortedPositions ==
  ASSUME NEW q \in Seq(QueueItems), NEW queue, NEW p, Positions(p, q, queue)
  PROVE  Sorted([x \in queue |-> {y \in queue : y.position < x.position}])
           = [i \in 1..Len(q) |-> [position |-> p[i], item |-> q[i]]]
<1> DEFINE n == Len(q)
           e == [i \in 1..n |-> [position |-> p[i], item |-> q[i]]]
           before == [x \in queue |-> {y \in queue : y.position < x.position}]
<1>1. n \in Nat
  BY LenProperties
<1> HIDE DEF n
<1>2. /\ \A i \in 1..n : p[i] \in Nat
      /\ queue = {[position |-> p[i], item |-> q[i]] : i \in 1..n}
  BY DEF Positions, n
<1>3. \A i, j \in 1..n : i < j => p[i] < p[j]
  BY DEF Positions, n
<1>4. \A i \in 1..n : p[i] \in Nat /\ e[i] = [position |-> p[i], item |-> q[i]]
  BY <1>2
<1>5. \A i, j \in 1..n : p[j] < p[i] <=> j < i
  BY <1>1, <1>3, <1>4
<1>6. queue = {e[i] : i \in 1..n}
  BY <1>2, <1>4
<1>7. \A i \in 1..n : e[i].position = p[i]
  BY <1>4
<1>8. e = [i \in 1..n |-> e[i]]
  OBVIOUS
<1> HIDE DEF e
<1>9. Elements(e, n) = queue
  BY <1>6 DEF Elements
<1>10. \A i, j \in 1..n : e[i] = e[j] => i = j
  BY <1>1, <1>4, <1>5, <1>7
<1>11. Enumerates(e, n)
  BY <1>8, <1>10 DEF Enumerates
<1>12. ASSUME NEW i \in 1..n PROVE before[e[i]] = Elements(e, i - 1)
  <2>1. before[e[i]] = {y \in queue : y.position < p[i]}
    BY <1>6, <1>7
  <2>2. \A j \in 1..i-1 : j \in 1..n /\ j < i
    BY <1>1
  <2>3. \A j \in 1..n : j < i => j \in 1..i-1
    BY <1>1
  <2>4. \A y \in queue : y.position < p[i] => y \in Elements(e, i - 1)
    BY <1>5, <1>6, <1>7, <2>3 DEF Elements
  <2>5. \A y \in Elements(e, i - 1) : y \in queue /\ y.position < p[i]
    BY <1>5, <1>6, <1>7, <2>2 DEF Elements
  <2> QED BY <2>1, <2>4, <2>5
<1>13. Prior(before, e, n)
  BY <1>9, <1>12 DEF Prior
<1> HIDE DEF before
<1>14. Sorted(before) = e
  BY <1>1, <1>11, <1>13, SortedIs
<1> QED BY <1>14 DEF before, e, n

LEMMA FrontierAgrees ==
  ASSUME NEW s, NEW m, QueueMirrors(m, s)
  PROVE  m.frontier = SqlLoadFrontier(s)
<1> DEFINE ordered == Sorted([x \in s.queue |-> {y \in s.queue : y.position < x.position}])
<1>1. SqlLoadFrontier(s)
        = IF s.queue = {} /\ s.seen = {} THEN None
          ELSE [queued |-> [i \in DOMAIN ordered |-> ordered[i].item],
                seen |-> s.seen, crawled |-> IF s.crawled = None THEN 0 ELSE s.crawled]
  BY DEF SqlLoadFrontier
<1>2. CASE m.frontier = None /\ s.queue = {} /\ s.seen = {}
  BY <1>1, <1>2
<1>3. CASE /\ m.frontier \in FrontierSet /\ InPositions(m.frontier.queued, s.queue)
           /\ s.seen = m.frontier.seen /\ s.seen # {} /\ s.crawled = m.frontier.crawled
  <2> DEFINE q == m.frontier.queued
  <2>1. PICK p : Positions(p, q, s.queue)
    BY <1>3 DEF InPositions
  <2>2. q \in Seq(QueueItems) /\ m.frontier.crawled \in Nat
    BY <1>3 DEF FrontierSet
  <2>3. ordered = [i \in 1..Len(q) |-> [position |-> p[i], item |-> q[i]]]
    BY <2>1, <2>2, SortedPositions
  <2> HIDE DEF ordered
  <2>4. [i \in DOMAIN ordered |-> ordered[i].item] = [i \in 1..Len(q) |-> q[i]]
    BY <2>3
  <2>5. [i \in 1..Len(q) |-> q[i]] = q
    BY <2>2, LenProperties
  <2>6. s.crawled # None
    BY <1>3, <2>2, NamesAreTexts
  <2>7. SqlLoadFrontier(s)
          = [queued |-> q, seen |-> m.frontier.seen, crawled |-> m.frontier.crawled]
    BY <1>1, <1>3, <2>4, <2>5, <2>6
  <2> QED BY <1>3, <2>7 DEF FrontierSet
<1> QED BY <1>2, <1>3 DEF QueueMirrors

-----------------------------------------------------------------------------
(* The nodes of the graph: what the memory store has after each record of  *)
(* its vector, and what the database chooses by rank.                      *)

NodeMaps == UNION {[names -> {Node(r) : r \in RecordSet}] : names \in SUBSET CrawlNames}
NoNodes == [t \in {} |-> None]
Admit(chosen, r, max) ==
  IF Cardinality(DOMAIN chosen) >= max /\ r.final \notin DOMAIN chosen
  THEN chosen ELSE Put(chosen, r.final, Node(r))

(* g[k] is what has been chosen after k records.                           *)
Admits(g, q, max) ==
  g[0] = NoNodes /\ \A k \in 1..Len(q) : g[k] = Admit(g[k-1], q[k], max)

LEMMA AdmitType ==
  ASSUME NEW chosen \in NodeMaps, NEW r \in RecordSet, NEW max
  PROVE  NoNodes \in NodeMaps /\ Admit(chosen, r, max) \in NodeMaps
<1> DEFINE Shows == {Node(x) : x \in RecordSet}
<1>1. r.final \in CrawlNames /\ Node(r) \in Shows
  BY DEF RecordSet
<1>2. NoNodes \in NodeMaps
  <2>1. NoNodes \in [{} -> Shows]
    BY DEF NoNodes
  <2> HIDE DEF Shows
  <2>2. {} \in SUBSET CrawlNames
    OBVIOUS
  <2> QED BY <2>1, <2>2 DEF NodeMaps, Shows
<1>3. PICK names \in SUBSET CrawlNames : chosen \in [names -> Shows]
  BY DEF NodeMaps
<1> HIDE DEF Shows
<1>4. Put(chosen, r.final, Node(r)) \in [names \cup {r.final} -> Shows]
  BY <1>1, <1>3 DEF Put
<1>5. names \cup {r.final} \in SUBSET CrawlNames
  BY <1>1, <1>3
<1>6. Put(chosen, r.final, Node(r)) \in NodeMaps
  BY <1>4, <1>5 DEF NodeMaps, Shows
<1> QED BY <1>2, <1>6 DEF Admit

LEMMA NodesAreAdmitted ==
  ASSUME NEW m, m.records \in Seq(RecordSet), NEW max
  PROVE  \E g : Admits(g, m.records, max) /\ MemNodes(m, max) = g[Len(m.records)]
<1> DEFINE q == m.records
           base == NoNodes
           n == Len(q)
           V == NodeMaps
           H == [p \in (1..n) \X V |-> Admit(p[2], q[p[1]], max)]
           Step(g, s) == IF s = {} THEN base ELSE Admit(g[s \ {Max(s)}], q[Max(s)], max)
           IsIter(g) == g = [s \in SUBSET (1..n) |-> Step(g, s)]
           iter == CHOOSE g : IsIter(g)
<1>1. /\ n \in Nat /\ DOMAIN q = 1..n
      /\ \A k \in 1..n : q[k] \in RecordSet
  BY LenProperties, ElementOfSeq
<1>2. base \in V /\ \A chosen \in V, r \in RecordSet : Admit(chosen, r, max) \in V
  <2>1. NoNodes \in [{} -> {Node(x) : x \in RecordSet}] /\ {} \in SUBSET CrawlNames
    BY DEF NoNodes
  <2>2. NoNodes \in NodeMaps
    BY <2>1 DEF NodeMaps
  <2> QED BY <2>2, AdmitType
<1>3. MemNodes(m, max) = iter[1..n]
  BY <1>1 DEF MemNodes, FoldLeft, MapThenFoldSet, Admit, NoNodes
<1>4. H \in [(1..n) \X V -> V]
  BY <1>1, <1>2
<1>5. \E g \in [SUBSET (1..n) -> V] : IsIter(g)
  <2>1. PICK g \in [SUBSET (1..n) -> V] : \A s \in SUBSET (1..n) :
             g[s] = IF s = {} THEN base ELSE H[<<Max(s), g[s \ {Max(s)}]>>]
    <3>1. HasPrefixRecursion(n, V, base, H)
      <4> HIDE DEF H, n, V, base
      <4> QED BY <1>1, <1>2, <1>4, RecursionOnPrefixes
    <3> HIDE DEF H, base
    <3> QED BY <3>1 DEF HasPrefixRecursion
  <2>2. ASSUME NEW s \in SUBSET (1..n)
        PROVE  g[s] = Step(g, s)
    <3> HIDE DEF n, V, base
    <3>1. CASE s = {}
      BY <2>1, <3>1
    <3>2. CASE s # {}
      <4>1. Max(s) \in 1..n
        BY <1>1, <3>2, MaxOfIndices
      <4> QED BY <2>1, <3>2, <4>1
    <3> QED BY <3>1, <3>2
  <2> HIDE DEF Step
  <2> QED BY <2>2
<1>6. IsIter(iter)
  <2> HIDE DEF IsIter
  <2> QED BY <1>5
<1>7. iter[{}] = base /\ \A k \in 1..n : iter[1..k] = Admit(iter[1..k-1], q[k], max)
  <2> HIDE DEF iter, n, base
  <2>1. \A s \in SUBSET (1..n) : iter[s] = Step(iter, s)
    BY <1>6
  <2> QED BY <1>1, <2>1, PrefixMax
<1> DEFINE g == [k \in 0..n |-> iter[1..k]]
<1>8. 1..0 = {} /\ \A k \in 1..n : k \in 0..n /\ k - 1 \in 0..n
  BY <1>1
<1> HIDE DEF iter
<1>9. g[0] = base /\ g[n] = iter[1..n]
  BY <1>1, <1>7, <1>8
<1>10. \A k \in 1..n : g[k] = Admit(g[k-1], q[k], max)
  <2> HIDE DEF n
  <2> QED BY <1>7, <1>8
<1>11. Admits(g, q, max)
  <2> HIDE DEF g
  <2> QED BY <1>9, <1>10 DEF Admits
<1> QED BY <1>3, <1>9, <1>11

(* The records whose final URL is the first of its kind among the first k, *)
(* and those of them that fit under the cap.                               *)
IsFirst(q, i) == \A j \in 1..i-1 : q[j].final # q[i].final
FirstsTo(q, k) == {i \in 1..k : IsFirst(q, i)}
Fitting(q, k, max) == {i \in FirstsTo(q, k) : Cardinality(FirstsTo(q, i - 1)) < max}
FinalsOf(q, T) == {q[i].final : i \in T}
Least(a, b) == IF a < b THEN a ELSE b

LEMMA FirstsStep ==
  ASSUME NEW q, NEW k \in Nat, k # 0, NEW max
  PROVE  /\ FirstsTo(q, k) = IF IsFirst(q, k) THEN FirstsTo(q, k - 1) \cup {k} ELSE FirstsTo(q, k - 1)
         /\ Fitting(q, k, max)
              = IF IsFirst(q, k) /\ Cardinality(FirstsTo(q, k - 1)) < max
                THEN Fitting(q, k - 1, max) \cup {k} ELSE Fitting(q, k - 1, max)
         /\ k \notin FirstsTo(q, k - 1)
<1>1. 1..k = (1..k-1) \cup {k} /\ k \notin 1..k-1
  OBVIOUS
<1>2. FirstsTo(q, k) = IF IsFirst(q, k) THEN FirstsTo(q, k - 1) \cup {k} ELSE FirstsTo(q, k - 1)
  BY <1>1 DEF FirstsTo
<1>3. k \notin FirstsTo(q, k - 1)
  BY <1>1 DEF FirstsTo
<1> QED BY <1>2, <1>3 DEF Fitting

LEMMA FirstsFinite ==
  ASSUME NEW q, NEW k \in Nat, NEW max
  PROVE  /\ IsFiniteSet(FirstsTo(q, k)) /\ Cardinality(FirstsTo(q, k)) \in Nat
         /\ IsFiniteSet(Fitting(q, k, max)) /\ Cardinality(Fitting(q, k, max)) \in Nat
<1>1. IsFiniteSet(1..k) /\ FirstsTo(q, k) \subseteq 1..k /\ Fitting(q, k, max) \subseteq 1..k
  BY FS_Interval DEF FirstsTo, Fitting
<1> QED BY <1>1, FS_Subset, FS_CardinalityType

(* The cap counts what fits.                                               *)
LEMMA FittingCount ==
  ASSUME NEW q, NEW n \in Nat, NEW max \in Nat
  PROVE  \A k \in 0..n : Cardinality(Fitting(q, k, max)) = Least(Cardinality(FirstsTo(q, k)), max)
<1> DEFINE Good == {k \in 0..n : Cardinality(Fitting(q, k, max))
                                   = Least(Cardinality(FirstsTo(q, k)), max)}
<1>1. 0 \in Good
  <2>1. FirstsTo(q, 0) = {} /\ Fitting(q, 0, max) = {}
    BY DEF FirstsTo, Fitting
  <2> QED BY <2>1, FS_EmptySet DEF Least
<1>2. ASSUME NEW k \in 1..n, k - 1 \in Good PROVE k \in Good
  <2> DEFINE a == FirstsTo(q, k - 1)
             b == Fitting(q, k - 1, max)
  <2>1. k \in Nat /\ k # 0 /\ k - 1 \in Nat /\ k \in 0..n
    OBVIOUS
  <2>2. /\ IsFiniteSet(a) /\ Cardinality(a) \in Nat /\ IsFiniteSet(b) /\ Cardinality(b) \in Nat
    BY <2>1, FirstsFinite
  <2>3. Cardinality(b) = Least(Cardinality(a), max)
    BY <1>2
  <2>4. k \notin a /\ k \notin b
    BY <2>1, FirstsStep DEF Fitting
  <2>5. /\ FirstsTo(q, k) = IF IsFirst(q, k) THEN a \cup {k} ELSE a
        /\ Fitting(q, k, max) = IF IsFirst(q, k) /\ Cardinality(a) < max THEN b \cup {k} ELSE b
    BY <2>1, FirstsStep
  <2> HIDE DEF a, b
  <2>6. Cardinality(a \cup {k}) = Cardinality(a) + 1 /\ Cardinality(b \cup {k}) = Cardinality(b) + 1
    BY <2>2, <2>4, FS_AddElement
  <2>7. Cardinality(Fitting(q, k, max)) = Least(Cardinality(FirstsTo(q, k)), max)
    BY <2>2, <2>3, <2>5, <2>6 DEF Least
  <2> QED BY <2>1, <2>7
<1> HIDE DEF Good
<1>3. \A k \in 0..n : k \in Good
  BY <1>1, <1>2, InductionUpTo
<1> QED BY <1>3 DEF Good

(* As many URLs are chosen as records fit.                                 *)
LEMMA FinalsCount ==
  ASSUME NEW q, NEW k \in Nat, NEW T \in SUBSET FirstsTo(q, k)
  PROVE  /\ Cardinality(FinalsOf(q, T)) = Cardinality(T)
         /\ \A i, j \in T : q[i].final = q[j].final => i = j
<1> DEFINE f == [i \in T |-> q[i].final]
<1>1. ASSUME NEW i \in T, NEW j \in T, q[i].final = q[j].final PROVE i = j
  <2>1. i \in 1..k /\ j \in 1..k /\ IsFirst(q, i) /\ IsFirst(q, j)
    BY DEF FirstsTo
  <2>2. ~(i < j) /\ ~(j < i)
    BY <1>1, <2>1 DEF IsFirst
  <2> QED BY <2>1, <2>2
<1>2. f \in Bijection(T, FinalsOf(q, T))
  BY <1>1 DEF FinalsOf, Bijection, Injection, Surjection, IsInjective
<1>3. IsFiniteSet(T)
  <2>1. IsFiniteSet(FirstsTo(q, k))
    BY FirstsFinite
  <2> QED BY <2>1, FS_Subset
<1>4. Cardinality(FinalsOf(q, T)) = Cardinality(T)
  BY <1>2, <1>3, FS_Bijection DEF ExistsBijection
<1> QED BY <1>1, <1>4

(* A URL that is not new came first with a record before.                  *)
LEMMA EarlierFirst ==
  ASSUME NEW q, NEW k \in Nat, k # 0, ~IsFirst(q, k)
  PROVE  \E i \in FirstsTo(q, k - 1) : q[i].final = q[k].final
<1> DEFINE T == {j \in 1..k-1 : q[j].final = q[k].final}
<1>1. T \subseteq Nat /\ T # {}
  BY DEF IsFirst
<1>2. PICK i \in T : \A j \in T : i <= j
  <2> HIDE DEF T
  <2> QED BY <1>1, LeastNatural
<1>3. i \in 1..k-1 /\ q[i].final = q[k].final
  BY <1>2
<1>4. \A j \in 1..i-1 : j \in 1..k-1 /\ j < i
  BY <1>3
<1>5. IsFirst(q, i)
  BY <1>2, <1>3, <1>4 DEF IsFirst
<1> QED BY <1>3, <1>5 DEF FirstsTo

(* What the chosen URLs show: each the last record that has it.            *)
LastAt(q, k, t) == Max({i \in 1..k : q[i].final = t})
NodesAt(q, k, max) == [t \in FinalsOf(q, Fitting(q, k, max)) |-> Node(q[LastAt(q, k, t)])]

LEMMA LastStep ==
  ASSUME NEW q, NEW k \in Nat, k # 0
  PROVE  /\ LastAt(q, k, q[k].final) = k
         /\ \A t : t # q[k].final => LastAt(q, k, t) = LastAt(q, k - 1, t)
<1>1. ASSUME NEW t, t # q[k].final
      PROVE  {i \in 1..k : q[i].final = t} = {i \in 1..k-1 : q[i].final = t}
  <2>1. 1..k = (1..k-1) \cup {k}
    OBVIOUS
  <2> QED BY <1>1, <2>1
<1>2. LastAt(q, k, q[k].final) = k
  <2> DEFINE T == {i \in 1..k : q[i].final = q[k].final}
  <2>1. T \in SUBSET (1..k) /\ k \in T
    OBVIOUS
  <2> HIDE DEF T
  <2>2. Max(T) \in T /\ \A i \in T : i <= Max(T)
    BY <2>1, MaxOfIndices
  <2>3. Max(T) \in 1..k /\ k <= Max(T)
    BY <2>1, <2>2
  <2>4. Max(T) = k
    BY <2>3
  <2> QED BY <2>4 DEF LastAt, T
<1> QED BY <1>1, <1>2 DEF LastAt

(* The chosen URLs before and after a record, that enters them or not.     *)
Extended(after, D, f, admitted) ==
  (admitted => after = D \cup {f}) /\ (~admitted => after = D /\ f \notin D)

(* One record more: admitted or not, the memory store has these nodes.     *)
LEMMA AdmitStep ==
  ASSUME NEW q, NEW k \in Nat, k # 0, NEW max \in Nat
  PROVE  Admit(NodesAt(q, k - 1, max), q[k], max) = NodesAt(q, k, max)
<1> DEFINE f == q[k].final
           firsts == FirstsTo(q, k - 1)
           B == Fitting(q, k - 1, max)
           D == FinalsOf(q, B)
           after == FinalsOf(q, Fitting(q, k, max))
           admitted == ~(Cardinality(D) >= max /\ f \notin D)
           prior == NodesAt(q, k - 1, max)
<1>1. k - 1 \in Nat /\ k - 1 \in 0..(k - 1)
  OBVIOUS
<1>2. /\ Cardinality(D) = Cardinality(B) /\ Cardinality(B) = Least(Cardinality(firsts), max)
      /\ Cardinality(firsts) \in Nat /\ IsFiniteSet(firsts)
  <2>1. B \in SUBSET firsts
    BY DEF Fitting
  <2>2. Cardinality(D) = Cardinality(B)
    BY <1>1, <2>1, FinalsCount
  <2>3. Cardinality(B) = Least(Cardinality(firsts), max)
    BY <1>1, FittingCount
  <2> QED BY <1>1, <2>2, <2>3, FirstsFinite
<1>3. Cardinality(D) >= max <=> ~(Cardinality(firsts) < max)
  <2> HIDE DEF D, B, firsts
  <2> QED BY <1>2 DEF Least
<1>4. Fitting(q, k, max) = IF IsFirst(q, k) /\ Cardinality(firsts) < max THEN B \cup {k} ELSE B
  BY FirstsStep
<1>5. /\ \A i \in B : i \in firsts /\ i \in 1..k-1 /\ q[i].final \in D
      /\ \A i \in firsts : i \notin B => ~(Cardinality(FirstsTo(q, i - 1)) < max)
      /\ FinalsOf(q, B \cup {k}) = D \cup {f} /\ FinalsOf(q, B) = D
  BY DEF Fitting, FirstsTo, FinalsOf
<1>6. IsFirst(q, k) => f \notin D
  BY <1>5 DEF FinalsOf, IsFirst
<1> HIDE DEF D, B
<1>7. ASSUME IsFirst(q, k) PROVE Extended(after, D, f, admitted)
  <2>1. f \notin D
    BY <1>6, <1>7
  <2>2. admitted <=> Cardinality(firsts) < max
    BY <1>3, <2>1
  <2>3. Cardinality(firsts) < max => after = D \cup {f}
    BY <1>4, <1>5, <1>7
  <2>4. ~(Cardinality(firsts) < max) => after = D
    BY <1>4, <1>5, <1>7
  <2> HIDE DEF admitted, after
  <2> QED BY <2>1, <2>2, <2>3, <2>4 DEF Extended
<1>8. ASSUME ~IsFirst(q, k) PROVE Extended(after, D, f, admitted)
  <2>1. after = D
    BY <1>4, <1>5, <1>8
  <2>2. PICK i \in firsts : q[i].final = f
    BY <1>8, EarlierFirst
  <2>3. ASSUME i \notin B PROVE Cardinality(D) >= max
    <3>1. ~(Cardinality(FirstsTo(q, i - 1)) < max)
      BY <1>5, <2>2, <2>3
    <3>2. i \in 1..k-1 /\ i - 1 \in Nat
      BY <2>2 DEF FirstsTo
    <3>3. \A j \in 1..i-1 : j \in 1..k-1
      BY <3>2
    <3>4. FirstsTo(q, i - 1) \subseteq firsts
      BY <3>3 DEF FirstsTo
    <3>5. Cardinality(FirstsTo(q, i - 1)) <= Cardinality(firsts)
      BY <1>2, <3>4, FS_Subset
    <3>6. Cardinality(FirstsTo(q, i - 1)) \in Nat
      BY <3>2, FirstsFinite
    <3>7. ~(Cardinality(firsts) < max)
      BY <1>2, <3>1, <3>5, <3>6
    <3> QED BY <1>3, <3>7
  <2>4. i \in B => f \in D
    BY <1>5, <2>2
  <2>5. admitted <=> f \in D
    BY <2>3, <2>4
  <2> HIDE DEF admitted, after
  <2> QED BY <2>1, <2>5 DEF Extended
<1>9. Extended(after, D, f, admitted)
  BY <1>7, <1>8
<1>10. /\ prior = [t \in D |-> Node(q[LastAt(q, k - 1, t)])] /\ DOMAIN prior = D
       /\ NodesAt(q, k, max) = [t \in after |-> Node(q[LastAt(q, k, t)])]
  BY DEF NodesAt, D, B
<1>11. /\ LastAt(q, k, f) = k
       /\ \A t \in D : t # f => LastAt(q, k, t) = LastAt(q, k - 1, t)
  BY LastStep
<1>12. Admit(prior, q[k], max) = IF ~admitted THEN prior ELSE Put(prior, f, Node(q[k]))
  BY <1>10 DEF Admit
<1> HIDE DEF admitted, prior, after
<1>13. CASE admitted
  <2>1. Put(prior, f, Node(q[k])) = [t \in D \cup {f} |-> Node(q[LastAt(q, k, t)])]
    <3>1. Put(prior, f, Node(q[k]))
            = [t \in D \cup {f} |-> IF t = f THEN Node(q[k]) ELSE prior[t]]
      BY <1>10 DEF Put
    <3>2. \A t \in D \cup {f} : (IF t = f THEN Node(q[k]) ELSE prior[t]) = Node(q[LastAt(q, k, t)])
      BY <1>10, <1>11
    <3> QED BY <3>1, <3>2
  <2>2. after = D \cup {f}
    BY <1>9, <1>13 DEF Extended
  <2>3. Admit(prior, q[k], max) = NodesAt(q, k, max)
    BY <1>10, <1>12, <1>13, <2>1, <2>2
  <2> QED BY <2>3 DEF prior
<1>14. CASE ~admitted
  <2>1. after = D /\ f \notin D
    BY <1>9, <1>14 DEF Extended
  <2>2. [t \in D |-> Node(q[LastAt(q, k - 1, t)])] = [t \in D |-> Node(q[LastAt(q, k, t)])]
    BY <1>11, <2>1
  <2>3. Admit(prior, q[k], max) = NodesAt(q, k, max)
    BY <1>10, <1>12, <1>14, <2>1, <2>2
  <2> QED BY <2>3 DEF prior
<1> QED BY <1>13, <1>14

LEMMA MemNodesAre ==
  ASSUME NEW m, m.records \in Seq(RecordSet), NEW max \in Nat
  PROVE  MemNodes(m, max) = NodesAt(m.records, Len(m.records), max)
<1> DEFINE q == m.records
           n == Len(q)
<1>1. PICK g : Admits(g, q, max) /\ MemNodes(m, max) = g[n]
  BY NodesAreAdmitted
<1>2. n \in Nat
  BY LenProperties
<1>3. g[0] = NoNodes /\ \A k \in 1..n : g[k] = Admit(g[k-1], q[k], max)
  BY <1>1 DEF Admits
<1> HIDE DEF n, q
<1> DEFINE Good == {k \in 0..n : g[k] = NodesAt(q, k, max)}
<1>4. 0 \in Good
  <2>1. Fitting(q, 0, max) = {}
    BY DEF Fitting, FirstsTo
  <2>2. FinalsOf(q, {}) = {}
    BY DEF FinalsOf
  <2>3. NodesAt(q, 0, max) = NoNodes
    BY <2>1, <2>2 DEF NodesAt, NoNodes
  <2> QED BY <1>2, <1>3, <2>3
<1>5. ASSUME NEW k \in 1..n, k - 1 \in Good PROVE k \in Good
  <2>1. k \in Nat /\ k # 0 /\ k \in 0..n
    BY <1>2
  <2>2. Admit(NodesAt(q, k - 1, max), q[k], max) = NodesAt(q, k, max)
    BY <2>1, AdmitStep
  <2> QED BY <1>3, <1>5, <2>1, <2>2
<1> HIDE DEF Good
<1>6. \A k \in 0..n : k \in Good
  BY <1>2, <1>4, <1>5, InductionUpTo
<1>7. n \in 0..n
  BY <1>2
<1>8. g[n] = NodesAt(q, n, max)
  BY <1>6, <1>7 DEF Good
<1> QED BY <1>1, <1>8 DEF n, q

(* The database ranks the same rows, if they were stored in that order.    *)
InOrder(q) == \A i, k \in DOMAIN q : i < k => Before(q[i], q[k])

LEMMA OrderIs ==
  ASSUME NEW q \in Seq(RecordSet), InOrder(q)
  PROVE  \A i, j \in 1..Len(q) : Before(q[i], q[j]) <=> i < j
<1>1. /\ Len(q) \in Nat /\ DOMAIN q = 1..Len(q) /\ \A i \in 1..Len(q) : q[i] \in RecordSet
  BY LenProperties, ElementOfSeq
<1>2. \A x \in RecordSet : Place(x) \in Nat /\ x.id \in Nat
  BY DEF RecordSet, Place
<1>3. ASSUME NEW x \in RecordSet, NEW y \in RecordSet, Before(x, y) PROVE ~Before(y, x) /\ x # y
  <2>1. Place(x) \in Nat /\ Place(y) \in Nat /\ x.id \in Nat /\ y.id \in Nat
    BY <1>2
  <2> QED BY <1>3, <2>1 DEF Before
<1>4. ASSUME NEW i \in 1..Len(q), NEW j \in 1..Len(q), Before(q[i], q[j]) PROVE i < j
  <2>1. ~Before(q[j], q[i]) /\ q[i] # q[j]
    BY <1>1, <1>3, <1>4
  <2>2. ~(j < i) /\ i # j
    BY <1>1, <2>1 DEF InOrder
  <2> QED BY <1>1, <2>2
<1>5. ASSUME NEW i \in 1..Len(q), NEW j \in 1..Len(q), i < j PROVE Before(q[i], q[j])
  BY <1>1, <1>5 DEF InOrder
<1> QED BY <1>4, <1>5

LEMMA LastRowIs ==
  ASSUME NEW s, NEW q \in Seq(RecordSet), InOrder(q), s.records = {q[i] : i \in 1..Len(q)},
         NEW t, \E i \in 1..Len(q) : q[i].final = t
  PROVE  LastRow({r \in s.records : r.final = t}) = q[LastAt(q, Len(q), t)]
<1> DEFINE n == Len(q)
           T == {i \in 1..n : q[i].final = t}
           held == {r \in s.records : r.final = t}
           l == Max(T)
           fits(r) == \A x \in held : x = r \/ Before(x, r)
<1>1. n \in Nat /\ \A i, j \in 1..n : Before(q[i], q[j]) <=> i < j
  BY LenProperties, OrderIs
<1>2. T \in SUBSET (1..n) /\ T # {}
  OBVIOUS
<1>3. held = {q[i] : i \in T}
  OBVIOUS
<1> HIDE DEF T, held, n
<1>4. l \in T /\ \A i \in T : i <= l
  BY <1>1, <1>2, MaxOfIndices
<1> HIDE DEF l
<1>5. q[l] \in held /\ fits(q[l])
  <2>1. ASSUME NEW i \in T PROVE i \in 1..n /\ l \in 1..n /\ (i = l \/ i < l)
    <3>1. i \in 1..n /\ l \in 1..n /\ i <= l
      BY <1>2, <1>4
    <3> QED BY <1>1, <3>1
  <2> QED BY <1>1, <1>3, <1>4, <2>1
<1>6. ASSUME NEW r \in held, fits(r) PROVE r = q[l]
  <2>1. PICK i \in T : r = q[i]
    BY <1>3
  <2>2. q[l] = r \/ Before(q[l], q[i])
    BY <1>5, <1>6, <2>1
  <2>3. i \in 1..n /\ l \in 1..n /\ i <= l
    BY <1>2, <1>4, <2>1
  <2>4. ~(l < i)
    BY <1>1, <2>3
  <2> QED BY <1>1, <2>2, <2>3, <2>4
<1> HIDE DEF fits
<1>7. (CHOOSE r \in held : fits(r)) = q[l]
  BY <1>5, <1>6
<1> QED BY <1>7 DEF LastRow, LastAt, fits, l, held, T, n

LEMMA SqlNodesAre ==
  ASSUME NEW s, SqlGood(s), NEW q, VectorOf(q, s), InOrder(q), NEW max \in Nat
  PROVE  SqlNodes(s, max) = NodesAt(q, Len(q), max)
<1> DEFINE n == Len(q)
           firsts == {r \in s.records : \A x \in s.records : x.final = r.final => ~Before(x, r)}
           chosen == {r.final : r \in {r \in firsts :
                        Cardinality({x \in firsts : Before(x, r)}) < max}}
<1>1. /\ n \in Nat /\ q \in Seq(RecordSet) /\ s.records = {q[i] : i \in 1..n}
      /\ \A i \in 1..n : q[i].id = i
  BY VectorFacts DEF VectorOf
<1>2. \A i, j \in 1..n : Before(q[i], q[j]) <=> i < j
  BY <1>1, OrderIs
<1>3. s.records = {q[i] : i \in 1..n} /\ \A i, j \in 1..n : q[i] = q[j] => i = j
  BY <1>1
<1> HIDE DEF n
<1>4. ASSUME NEW i \in 1..n PROVE q[i] \in firsts <=> IsFirst(q, i)
  <2>1. q[i] \in firsts <=> \A j \in 1..n : q[j].final = q[i].final => ~(j < i)
    BY <1>2, <1>3
  <2>2. \A j \in 1..n : j < i => j \in 1..i-1
    BY <1>1
  <2>3. \A j \in 1..i-1 : j \in 1..n /\ j < i
    BY <1>1
  <2> HIDE DEF firsts
  <2> QED BY <2>1, <2>2, <2>3 DEF IsFirst
<1>5. firsts \subseteq s.records
  OBVIOUS
<1> HIDE DEF firsts
<1>6. firsts = {q[i] : i \in FirstsTo(q, n)}
  BY <1>3, <1>4, <1>5 DEF FirstsTo
<1>7. ASSUME NEW i \in 1..n
      PROVE  Cardinality({x \in firsts : Before(x, q[i])}) = Cardinality(FirstsTo(q, i - 1))
  <2>1. \A j \in 1..i-1 : j \in 1..n /\ j < i
    BY <1>1
  <2>2. \A j \in 1..n : j < i => j \in 1..i-1
    BY <1>1
  <2>3. \A j \in FirstsTo(q, i - 1) : j \in 1..n /\ q[j] \in firsts /\ Before(q[j], q[i])
    BY <1>2, <1>4, <2>1 DEF FirstsTo
  <2>4. ASSUME NEW x \in firsts, Before(x, q[i]) PROVE \E j \in FirstsTo(q, i - 1) : x = q[j]
    <3>1. PICK j \in FirstsTo(q, n) : x = q[j]
      BY <1>6
    <3>2. j \in 1..n /\ IsFirst(q, j)
      BY DEF FirstsTo
    <3>3. j \in 1..i-1
      BY <1>2, <2>2, <2>4, <3>1, <3>2
    <3> QED BY <3>1, <3>2, <3>3 DEF FirstsTo
  <2>5. {x \in firsts : Before(x, q[i])} = {q[j] : j \in FirstsTo(q, i - 1)}
    BY <2>3, <2>4
  <2>6. i - 1 \in Nat
    BY <1>1
  <2>7. IsFiniteSet(FirstsTo(q, i - 1)) /\ \A j, k \in FirstsTo(q, i - 1) : q[j] = q[k] => j = k
    BY <1>3, <2>3, <2>6, FirstsFinite
  <2> QED BY <2>5, <2>7, ImageCount
<1>8. chosen = FinalsOf(q, Fitting(q, n, max))
  <2>1. \A i \in FirstsTo(q, n) : i \in 1..n /\ q[i] \in firsts
    BY <1>6 DEF FirstsTo
  <2>2. ASSUME NEW f \in chosen PROVE f \in FinalsOf(q, Fitting(q, n, max))
    <3>1. PICK r \in firsts : Cardinality({x \in firsts : Before(x, r)}) < max /\ f = r.final
      OBVIOUS
    <3>2. PICK i \in FirstsTo(q, n) : r = q[i]
      BY <1>6
    <3>3. Cardinality(FirstsTo(q, i - 1)) < max
      BY <1>7, <2>1, <3>1, <3>2
    <3> QED BY <3>1, <3>2, <3>3 DEF FinalsOf, Fitting
  <2>3. ASSUME NEW f \in FinalsOf(q, Fitting(q, n, max)) PROVE f \in chosen
    <3>1. PICK i \in Fitting(q, n, max) : f = q[i].final
      BY DEF FinalsOf
    <3>2. i \in FirstsTo(q, n) /\ Cardinality(FirstsTo(q, i - 1)) < max
      BY <3>1 DEF Fitting
    <3>3. q[i] \in firsts /\ Cardinality({x \in firsts : Before(x, q[i])}) < max
      BY <1>7, <2>1, <3>2
    <3> QED BY <3>1, <3>3
  <2> HIDE DEF chosen
  <2> QED BY <2>2, <2>3
<1>9. SqlNodes(s, max) = [t \in chosen |-> Node(LastRow({r \in s.records : r.final = t}))]
  BY DEF SqlNodes, firsts
<1> HIDE DEF chosen
<1>10. ASSUME NEW t \in chosen
       PROVE  LastRow({r \in s.records : r.final = t}) = q[LastAt(q, n, t)]
  <2>1. \E i \in 1..n : q[i].final = t
    BY <1>8 DEF FinalsOf, Fitting, FirstsTo
  <2> QED BY <1>1, <2>1, LastRowIs DEF n
<1>11. SqlNodes(s, max) = [t \in chosen |-> Node(q[LastAt(q, n, t)])]
  BY <1>9, <1>10
<1> QED BY <1>8, <1>11 DEF NodesAt, n

LEMMA GraphsAreAlike ==
  ASSUME SqlGood(sql), Mirrors(mem, sql)
  PROVE  GraphsAgree
<1> SUFFICES ASSUME StoredInOrder, NEW max \in 1..4
             PROVE  Graph(MemNodes(mem, max), mem.edges, max)
                      = Graph(SqlNodes(sql, max), sql.edges, max)
  BY DEF GraphsAgree
<1>1. VectorOf(mem.records, sql) /\ mem.edges = sql.edges /\ max \in Nat
  BY DEF Mirrors, RecordsMirror, EdgesMirror
<1>2. InOrder(mem.records)
  BY DEF StoredInOrder, InOrder
<1>3. MemNodes(mem, max) = NodesAt(mem.records, Len(mem.records), max)
  BY <1>1, MemNodesAre DEF VectorOf
<1>4. SqlNodes(sql, max) = NodesAt(mem.records, Len(mem.records), max)
  BY <1>1, <1>2, SqlNodesAre
<1> QED BY <1>1, <1>3, <1>4

(* Either store answers like the other after any sequence of calls.        *)
LEMMA MirrorsAnswerAlike ==
  ASSUME OneTextPerPage, SqlGood(sql), Mirrors(mem, sql)
  PROVE  StoresAgree
<1>1. MemRecords(mem) = SqlRecords(sql) /\ mem.frontier = SqlLoadFrontier(sql) /\ GraphsAgree
  <2>1. QueueMirrors(mem, sql)
    BY DEF Mirrors
  <2> QED BY <2>1, RecordsAgree, FrontierAgrees, GraphsAreAlike
<1>2. /\ mem.counts = sql.counts /\ mem.edges = sql.edges /\ mem.images = sql.images
      /\ mem.references = sql.references /\ mem.captures = sql.captures
  BY DEF Mirrors, RecordsMirror, EdgesMirror, PartsMirror
<1> QED BY <1>1, <1>2 DEF StoresAgree

LEMMA MirrorInit == Init => MirrorInv
<1>1. Init => Evident(sql, listed, answered) /\ Mirrors(mem, sql)
  BY EmptyIsEvident, EmptyMirrors DEF Init
<1> QED BY <1>1, RowsInit DEF MirrorInv, EvidenceInv

LEMMA MirrorInvKept ==
  ASSUME OneTextPerPage, BatchesAreOrdered, MirrorInv, [Next]_vars
  PROVE  MirrorInv'
<1>1. RowsInv'
  BY RowsKeep DEF MirrorInv, EvidenceInv, RowsStep
<1>2. Evident(sql', listed', answered')
  BY EvidenceKept DEF MirrorInv
<1>3. Mirrors(mem', sql')
  BY MirrorKept
<1> QED BY <1>1, <1>2, <1>3 DEF MirrorInv, EvidenceInv

(* The memory store and the database answer alike after every sequence of  *)
(* calls, as long as the crawler names each page by one text and the       *)
(* batches of metrics are ordered.                                         *)
THEOREM StoresAnswerAlike ==
  ASSUME OneTextPerPage, BatchesAreOrdered
  PROVE  Spec => []StoresAgree
<1>1. MirrorInv /\ [Next]_vars => MirrorInv'
  BY MirrorInvKept
<1>2. MirrorInv => StoresAgree
  BY MirrorsAnswerAlike DEF MirrorInv, EvidenceInv, RowsInv
<1> QED BY <1>1, <1>2, MirrorInit, PTL DEF Spec

-----------------------------------------------------------------------------
(* The archive of either store: what it holds is what the import makes of   *)
(* it again.                                                               *)

LEMMA SortedEnumeration ==
  ASSUME NEW S, NEW before, Ranks(before, S)
  PROVE  Sorted(before) = Enumeration(before, S)
BY DEF Ranks, Sorted, Enumeration

(* A sequence of the rows of a table, without repetition.                  *)
Keyed(q) ==
  /\ q \in Seq(RecordSet)
  /\ \A i, k \in 1..Len(q) : q[i].key = q[k].key \/ q[i].id = q[k].id => i = k
Lists(q, s) == Keyed(q) /\ s.records = {q[i] : i \in 1..Len(q)}

LEMMA VectorLists ==
  ASSUME NEW s, SqlGood(s), NEW records, VectorOf(records, s)
  PROVE  Lists(records, s) /\ IsFiniteSet(s.records)
<1>1. /\ Len(records) \in Nat
      /\ \A i, j \in 1..Len(records) : records[i].key = records[j].key => i = j
  BY VectorFacts
<1>2. \A i, j \in 1..Len(records) : records[i].id = records[j].id => i = j
  BY DEF VectorOf
<1>3. Lists(records, s)
  BY <1>1, <1>2 DEF Lists, Keyed, VectorOf
<1>4. \A i, j \in 1..Len(records) : records[i] = records[j] => i = j
  BY <1>2
<1>5. IsFiniteSet(Elements(records, Len(records)))
  BY <1>1, <1>4, ElementsCounted
<1> QED BY <1>3, <1>5 DEF Lists, Elements

(* The rows of the database in the order of its lists.                     *)
RowsBefore(s) == [x \in s.records |-> {y \in s.records : Before(y, x)}]

LEMMA RowsAreRanked ==
  ASSUME NEW s, SqlGood(s)
  PROVE  Ranks(RowsBefore(s), s.records)
<1>1. s.records \subseteq RecordSet
  BY DEF SqlGood, SqlSet
<1>2. \A x \in s.records : x.id \in Nat /\ Place(x) \in Nat
  BY <1>1, NamesAreTexts DEF RecordSet, Place
<1>3. \A x, y \in s.records : x.id = y.id => x = y
  BY DEF SqlGood, RowsAreKeyed
<1>4. \A x \in s.records : RowsBefore(s)[x] = {y \in s.records : Before(y, x)}
  BY DEF RowsBefore
<1>5. RowsBefore(s) \in [s.records -> SUBSET s.records]
  BY DEF RowsBefore
<1> HIDE DEF RowsBefore
<1>6. \A x \in s.records : ~Before(x, x)
  BY <1>2 DEF Before
<1>7. \A x, y, z \in s.records : Before(x, y) /\ Before(y, z) => Before(x, z)
  BY <1>2 DEF Before
<1>8. \A x, y \in s.records : x = y \/ Before(x, y) \/ Before(y, x)
  BY <1>2, <1>3 DEF Before
<1> QED BY <1>4, <1>5, <1>6, <1>7, <1>8 DEF Ranks

LEMMA SortedLists ==
  ASSUME NEW s, SqlGood(s), IsFiniteSet(s.records)
  PROVE  Lists(Sorted(RowsBefore(s)), s)
<1> DEFINE q == Sorted(RowsBefore(s))
           n == Cardinality(s.records)
<1>1. /\ q \in [1..n -> s.records]
      /\ \A i, k \in 1..n : q[i] = q[k] => i = k
      /\ s.records = {q[i] : i \in 1..n}
  BY RowsAreRanked, SortedEnumerates, SortedEnumeration
<1>2. n \in Nat
  BY FS_CardinalityType
<1> HIDE DEF q, n
<1>3. s.records \in SUBSET RecordSet
  BY DEF SqlGood, SqlSet
<1>4. q \in Seq(RecordSet)
  BY <1>1, <1>2, <1>3, FunIsSeq
<1>5. Len(q) = n
  BY <1>1, <1>2, <1>4, LenProperties
<1>6. \A i, k \in 1..n : q[i].key = q[k].key \/ q[i].id = q[k].id => i = k
  BY <1>1 DEF SqlGood, RowsAreKeyed
<1> QED BY <1>1, <1>4, <1>5, <1>6 DEF Lists, Keyed, q

(* What is staged after k records: each has the number of its place.       *)
Numbered(q, k) == {[q[i] EXCEPT !.id = i] : i \in 1..k}
StagedAs(s, q, k) ==
  /\ SqlGood(s) /\ s.records = Numbered(q, k) /\ s.lastId = k
  /\ s.edges = <<>> /\ SameRest(s, EmptyTables)

LEMMA NumberedStep ==
  ASSUME NEW q, NEW k \in Nat, k # 0
  PROVE  Numbered(q, k) = Numbered(q, k - 1) \cup {[q[k] EXCEPT !.id = k]}
<1>1. 1..k = 1..(k - 1) \cup {k}
  OBVIOUS
<1> QED BY <1>1 DEF Numbered

LEMMA StagedStep ==
  ASSUME NEW q, Keyed(q), NEW k \in 1..Len(q), NEW s, StagedAs(s, q, k - 1)
  PROVE  StagedAs(SqlUpsert(s, q[k]), q, k)
<1> DEFINE r == q[k]
           t == SqlUpsert(s, r)
           row == NewRow(s, r)
<1>1. /\ Len(q) \in Nat /\ \A i \in 1..Len(q) : q[i] \in RecordSet
      /\ k \in Nat /\ k # 0 /\ k - 1 \in Nat /\ \A i \in 1..k-1 : i \in 1..Len(q) /\ i # k /\ i \in Nat
  BY LenProperties, ElementOfSeq DEF Keyed
<1>2. SqlGood(s) /\ r \in RecordSet
  BY <1>1 DEF StagedAs
<1>3. \A x \in s.records : x.key # r.key
  <2>1. ASSUME NEW i \in 1..k-1 PROVE [q[i] EXCEPT !.id = i].key # r.key
    <3>1. [q[i] EXCEPT !.id = i].key = q[i].key
      BY <1>1, NumberedIs
    <3> QED BY <1>1, <3>1 DEF Keyed
  <2> QED BY <2>1 DEF StagedAs, Numbered
<1>4. t = SqlInsert(s, r)
  BY <1>3, UpsertCases
<1> HIDE DEF r
<1>5. SqlGood(t) /\ Inserted(t, s, r, row)
  BY <1>2, <1>3, <1>4, SqlInsertIs
<1>6. row = [r EXCEPT !.id = k]
  <2>1. s.counts = NoCounts /\ s.lastId + 1 = k
    BY <1>1 DEF StagedAs, SameRest, EmptyTables
  <2>2. Total(s.counts, RecordAliases(r)) = 0
    BY <1>2, <2>1, NamesOfRecord, TotalOfNone
  <2> QED BY <2>1, <2>2 DEF NewRow, CountedAs
<1> HIDE DEF t, row
<1>7. t.records = Numbered(q, k)
  BY <1>1, <1>5, <1>6, NumberedStep DEF Inserted, StagedAs, r
<1>8. t.edges = <<>>
  <2>1. t.edges \in Seq(EdgeSet) /\ Len(t.edges) = 0
    BY <1>5 DEF Inserted, EdgesShown, StagedAs
  <2> QED BY <2>1, EmptySeq
<1>9. t.lastId = k /\ SameRest(t, EmptyTables)
  BY <1>1, <1>5 DEF Inserted, StagedAs, SameRest
<1> QED BY <1>5, <1>7, <1>8, <1>9 DEF StagedAs, t, r

(* What is in the tables when all records are in.                          *)
LEMMA StagedIs ==
  ASSUME NEW q, Keyed(q)
  PROVE  StagedAs(FoldLeft(SqlUpsert, EmptyTables, q), q, Len(q))
<1> DEFINE base == EmptyTables
           n == Len(q)
           V == {s \in SqlSet : SqlGood(s)}
           H == [p \in (1..n) \X V |-> SqlUpsert(p[2], q[p[1]])]
           Step(g, s) == IF s = {} THEN base ELSE SqlUpsert(g[s \ {Max(s)}], q[Max(s)])
           IsIter(g) == g = [s \in SUBSET (1..n) |-> Step(g, s)]
           iter == CHOOSE g : IsIter(g)
<1>1. /\ n \in Nat /\ DOMAIN q = 1..n
      /\ \A k \in 1..n : q[k] \in RecordSet
  BY LenProperties, ElementOfSeq DEF Keyed
<1>2. base \in V /\ \A s \in V, r \in RecordSet : SqlUpsert(s, r) \in V
  <2>1. \A s : SqlGood(s) => s \in V
    BY DEF SqlGood
  <2> HIDE DEF V, base
  <2>2. base \in V
    BY <2>1, EmptyTablesGood DEF base
  <2>3. \A s \in V : SqlGood(s)
    BY DEF V
  <2> QED BY <2>1, <2>2, <2>3, SqlUpsertGood
<1>3. FoldLeft(SqlUpsert, EmptyTables, q) = iter[1..n]
  BY <1>1 DEF FoldLeft, MapThenFoldSet
<1> HIDE DEF V
<1>4. H \in [(1..n) \X V -> V]
  BY <1>1, <1>2
<1>5. \E g \in [SUBSET (1..n) -> V] : IsIter(g)
  <2>1. PICK g \in [SUBSET (1..n) -> V] : \A s \in SUBSET (1..n) :
             g[s] = IF s = {} THEN base ELSE H[<<Max(s), g[s \ {Max(s)}]>>]
    <3>1. HasPrefixRecursion(n, V, base, H)
      <4> HIDE DEF H, n, base
      <4> QED BY <1>1, <1>2, <1>4, RecursionOnPrefixes
    <3> HIDE DEF H, base
    <3> QED BY <3>1 DEF HasPrefixRecursion
  <2>2. ASSUME NEW s \in SUBSET (1..n)
        PROVE  g[s] = Step(g, s)
    <3> HIDE DEF n, base
    <3>1. CASE s = {}
      BY <2>1, <3>1
    <3>2. CASE s # {}
      <4>1. Max(s) \in 1..n
        BY <1>1, <3>2, MaxOfIndices
      <4> QED BY <2>1, <3>2, <4>1
    <3> QED BY <3>1, <3>2
  <2> HIDE DEF Step
  <2> QED BY <2>2
<1>6. IsIter(iter)
  <2> HIDE DEF IsIter
  <2> QED BY <1>5
<1>7. iter[{}] = base /\ \A k \in 1..n : iter[1..k] = SqlUpsert(iter[1..k-1], q[k])
  <2> HIDE DEF iter, n, base
  <2>1. \A s \in SUBSET (1..n) : iter[s] = Step(iter, s)
    BY <1>6
  <2> QED BY <1>1, <2>1, PrefixMax
<1> HIDE DEF iter
<1> DEFINE T == {k \in 0..n : StagedAs(iter[1..k], q, k)}
<1>8. 0 \in T
  <2>1. 1..0 = {} /\ 0 \in 0..n
    BY <1>1
  <2>2. Numbered(q, 0) = {}
    BY DEF Numbered
  <2>3. StagedAs(base, q, 0)
    BY <2>2, EmptyTablesGood DEF StagedAs, EmptyTables, SameRest
  <2> QED BY <1>7, <2>1, <2>3
<1>9. \A k \in 1..n : k - 1 \in T => k \in T
  <2> HIDE DEF base
  <2> SUFFICES ASSUME NEW k \in 1..n, StagedAs(iter[1..k-1], q, k - 1)
               PROVE  StagedAs(iter[1..k], q, k)
    BY <1>1
  <2> QED BY <1>7, StagedStep
<1>10. n \in T
  <2> HIDE DEF T, n
  <2>1. \A k \in 0..n : k \in T
    BY <1>1, <1>8, <1>9, InductionUpTo
  <2> QED BY <1>1, <2>1
<1> QED BY <1>3, <1>10

(* What the document of a store says.                                      *)
Documents(archive, s) ==
  /\ Lists(archive.records, s) /\ archive.edges = s.edges /\ archive.images = s.images
  /\ archive.references = s.references /\ archive.captures = s.captures
  /\ archive.frontier = SqlLoadFrontier(s)

LEMMA ArchivesAre ==
  ASSUME NEW s, SqlGood(s), NEW m, Mirrors(m, s), NEW archive \in {MemArchive(m), SqlArchive(s)}
  PROVE  Documents(archive, s)
<1>1. VectorOf(m.records, s) /\ m.frontier = SqlLoadFrontier(s)
  BY FrontierAgrees DEF Mirrors, RecordsMirror
<1>2. Lists(m.records, s) /\ IsFiniteSet(s.records)
  BY <1>1, VectorLists
<1>3. CASE archive = MemArchive(m)
  BY <1>1, <1>2, <1>3 DEF MemArchive, Document, Documents, Mirrors, EdgesMirror, PartsMirror
<1>4. CASE archive = SqlArchive(s)
  <2>1. Lists(Sorted(RowsBefore(s)), s)
    BY <1>2, SortedLists
  <2>2. archive = Document(Sorted(RowsBefore(s)), s, SqlLoadFrontier(s))
    BY <1>4 DEF SqlArchive, RowsBefore
  <2> HIDE DEF RowsBefore
  <2> QED BY <2>1, <2>2 DEF Document, Documents
<1> QED BY <1>3, <1>4

(* The numbers are those of the records again, and the next one that of    *)
(* the table.                                                              *)
LEMMA GreatestId ==
  ASSUME NEW s, SqlGood(s), NEW records, VectorOf(records, s), NEW q, Lists(q, s)
  PROVE  Max({r.id : r \in ToSet(q)} \cup {0}) = s.lastId
<1>1. s.lastId \in Nat /\ s.lastId + 1 \in Nat
  BY DEF SqlGood, SqlSet
<1>2. q \in Seq(RecordSet) /\ DOMAIN q = 1..Len(q)
  BY LenProperties DEF Lists, Keyed
<1>3. ToSet(q) = s.records
  BY <1>2 DEF ToSet, Lists
<1>4. {r.id : r \in s.records} = 1..s.lastId
  <2>1. \A r \in s.records : r.id \in 1..s.lastId
    BY DEF SqlGood, RowsAreKeyed
  <2>2. \A i \in 1..s.lastId : records[i] \in s.records /\ records[i].id = i
    BY DEF VectorOf
  <2> QED BY <2>1, <2>2
<1>5. {r.id : r \in ToSet(q)} \cup {0} = 0..s.lastId
  <2>1. 1..s.lastId \cup {0} = 0..s.lastId
    BY <1>1
  <2> QED BY <1>3, <1>4, <2>1
<1>6. Max(0..s.lastId) \in 0..s.lastId /\ \A x \in 0..s.lastId : x <= Max(0..s.lastId)
  <2> DEFINE T == 0..s.lastId
             b == s.lastId + 1
  <2>1. T \in SUBSET Nat /\ T # {} /\ b \in Nat /\ \A x \in T : x < b
    BY <1>1
  <2> HIDE DEF T, b
  <2>2. Max(T) \in T /\ \A x \in T : x <= Max(T)
    BY <2>1, MaxOfBounded
  <2> QED BY <2>2 DEF T
<1> DEFINE T == {r.id : r \in ToSet(q)} \cup {0}
<1>7. T = 0..s.lastId
  BY <1>5
<1> HIDE DEF T
<1>8. Max(T) \in 0..s.lastId /\ s.lastId \in 0..s.lastId /\ \A x \in 0..s.lastId : x <= Max(T)
  BY <1>1, <1>6, <1>7
<1>9. Max(T) = s.lastId
  BY <1>1, <1>8
<1> QED BY <1>9 DEF T

SavedAs(q, r) == CHOOSE x \in ToSet(q) : x.key = r.key

LEMMA RenumberedIs ==
  ASSUME NEW s, SqlGood(s), NEW records, VectorOf(records, s), NEW q, Lists(q, s),
         NEW staged, StagedAs(staged, q, Len(q)), NEW u, u = Renumbered(staged, q)
  PROVE  /\ u \in SqlSet /\ u.records = s.records /\ u.lastId = s.lastId
         /\ SameRest(u, EmptyTables)
<1> DEFINE back(r) == [r EXCEPT !.id = SavedAs(q, r).id]
           renumbered == {back(r) : r \in staged.records}
           last == Max({r.id : r \in ToSet(q)} \cup {0})
<1>1. u = [staged EXCEPT !.records = renumbered, !.lastId = last]
  BY DEF Renumbered, SavedAs
<1>2. last = s.lastId
  BY GreatestId
<1>3. /\ Len(q) \in Nat /\ DOMAIN q = 1..Len(q)
      /\ \A i \in 1..Len(q) : q[i] \in RecordSet
  BY LenProperties, ElementOfSeq DEF Lists, Keyed
<1>4. ASSUME NEW i \in 1..Len(q) PROVE back([q[i] EXCEPT !.id = i]) = q[i]
  <2> DEFINE r == [q[i] EXCEPT !.id = i]
  <2>1. i \in Nat
    BY <1>3
  <2>2. r.key = q[i].key
    BY <1>3, <2>1, NumberedIs
  <2>3. q[i] \in ToSet(q) /\ \A x \in ToSet(q) : x.key = q[i].key => x = q[i]
    BY <1>3 DEF ToSet, Lists, Keyed
  <2>4. SavedAs(q, r) = q[i]
    <3> HIDE DEF r
    <3> QED BY <2>2, <2>3 DEF SavedAs
  <2> HIDE DEF SavedAs
  <2>5. [r EXCEPT !.id = q[i].id] = q[i]
    BY <1>3 DEF RecordSet
  <2> QED BY <2>4, <2>5
<1> HIDE DEF back
<1>5. renumbered = s.records
  <2>1. renumbered = {back([q[i] EXCEPT !.id = i]) : i \in 1..Len(q)}
    BY DEF StagedAs, Numbered
  <2>2. renumbered = {q[i] : i \in 1..Len(q)}
    BY <1>4, <2>1
  <2> QED BY <2>2 DEF Lists
<1> HIDE DEF renumbered, last
<1>6. staged \in SqlSet /\ SameRest(staged, EmptyTables)
  BY DEF StagedAs, SqlGood
<1>7. s.records \in SUBSET RecordSet /\ s.lastId \in Nat
  BY DEF SqlGood, SqlSet
<1> QED BY <1>1, <1>2, <1>5, <1>6, <1>7 DEF SqlSet, SameRest

(* A queue that is saved as it is has the positions it had.                *)
LEMMA SavedPositions ==
  ASSUME NEW q \in Seq(QueueItems)
  PROVE  InPositions(q, {[position |-> i - 1, item |-> q[i]] : i \in DOMAIN q})
<1> DEFINE p == [i \in 1..Len(q) |-> i - 1]
           queue == {[position |-> i - 1, item |-> q[i]] : i \in DOMAIN q}
<1>1. Len(q) \in Nat /\ DOMAIN q = 1..Len(q)
  BY LenProperties
<1>2. p \in [1..Len(q) -> Nat] /\ \A i, j \in 1..Len(q) : i < j => p[i] < p[j]
  BY <1>1
<1>3. queue = {[position |-> p[i], item |-> q[i]] : i \in 1..Len(q)}
  BY <1>1
<1> HIDE DEF p, queue
<1>4. Positions(p, q, queue)
  BY <1>2, <1>3 DEF Positions
<1> QED BY <1>4 DEF InPositions, queue

(* The frontier that is saved is the frontier that is read.                *)
LEMMA QueuedIs ==
  ASSUME NEW m, NEW s, QueueMirrors(m, s), NEW w \in SqlSet,
         w.queue = {}, w.seen = {}, w.crawled = None
  PROVE  /\ QueueMirrors(m, Queued(w, m.frontier))
         /\ Queued(w, m.frontier).records = w.records /\ Queued(w, m.frontier).lastId = w.lastId
         /\ Queued(w, m.frontier).edges = w.edges /\ Queued(w, m.frontier).images = w.images
         /\ Queued(w, m.frontier).references = w.references
         /\ Queued(w, m.frontier).captures = w.captures
<1> DEFINE t == Queued(w, m.frontier)
<1>2. CASE m.frontier = None
  BY <1>2 DEF Queued, QueueMirrors
<1>3. CASE m.frontier # None
  <2>1. m.frontier \in FrontierSet /\ m.frontier.seen # {}
    BY <1>3 DEF QueueMirrors
  <2>2. t = SqlSaveFrontier(w, m.frontier)
    BY <1>3 DEF Queued
  <2>3. m.frontier.queued \in Seq(QueueItems)
    BY <2>1 DEF FrontierSet
  <2>4. /\ t.queue = {[position |-> i - 1, item |-> m.frontier.queued[i]]
                        : i \in DOMAIN m.frontier.queued}
        /\ t.seen = m.frontier.seen /\ t.crawled = m.frontier.crawled
        /\ t.records = w.records /\ t.lastId = w.lastId /\ t.edges = w.edges
        /\ t.images = w.images /\ t.references = w.references /\ t.captures = w.captures
    BY <2>2 DEF SqlSaveFrontier, SqlSet
  <2> HIDE DEF t
  <2>5. InPositions(m.frontier.queued, t.queue)
    BY <2>3, <2>4, SavedPositions
  <2>6. QueueMirrors(m, t)
    BY <2>1, <2>4, <2>5 DEF QueueMirrors
  <2> QED BY <2>4, <2>6 DEF t
<1> QED BY <1>2, <1>3

LEMMA RestoredTells ==
  ASSUME NEW s, SqlGood(s), NEW m, Mirrors(m, s), NEW archive, Documents(archive, s)
  PROVE  Told(Restored(archive)) = Told(s)
<1> DEFINE q == archive.records
           staged == Staged(archive)
           u == Renumbered(staged, q)
           w == [u EXCEPT !.edges = archive.edges, !.images = archive.images,
                          !.references = archive.references, !.captures = archive.captures]
           t == Queued(w, m.frontier)
<1>1. VectorOf(m.records, s) /\ QueueMirrors(m, s) /\ Lists(q, s)
  BY DEF Mirrors, RecordsMirror, Documents
<1>2. archive.frontier = m.frontier /\ m.frontier = SqlLoadFrontier(s)
  BY <1>1, FrontierAgrees DEF Documents
<1>3. Restored(archive) = t
  BY <1>2 DEF Restored
<1>4. StagedAs(staged, q, Len(q))
  BY <1>1, StagedIs DEF Lists, Staged
<1> HIDE DEF staged
<1>5. /\ u \in SqlSet /\ u.records = s.records /\ u.lastId = s.lastId
      /\ SameRest(u, EmptyTables)
  <2> HIDE DEF q
  <2> QED BY <1>1, <1>4, RenumberedIs
<1>6. s \in SqlSet
  BY DEF SqlGood
<1> HIDE DEF u, q
<1>7. /\ w \in SqlSet /\ w.records = s.records /\ w.lastId = s.lastId /\ w.edges = s.edges
      /\ w.images = s.images /\ w.references = s.references /\ w.captures = s.captures
  BY <1>5, <1>6 DEF Documents, SqlSet
<1>8. w.queue = {} /\ w.seen = {} /\ w.crawled = None
  BY <1>5, <1>6 DEF SqlSet, SameRest, EmptyTables
<1> HIDE DEF w, t
<1>9. /\ QueueMirrors(m, t) /\ t.records = s.records /\ t.lastId = s.lastId
      /\ t.edges = s.edges /\ t.images = s.images /\ t.references = s.references
      /\ t.captures = s.captures
  BY <1>1, <1>7, <1>8, QueuedIs DEF t
<1>10. SqlLoadFrontier(t) = SqlLoadFrontier(s)
  BY <1>2, <1>9, FrontierAgrees
<1>11. \A r : SqlFirst(t, r) = SqlFirst(s, r)
  BY <1>9 DEF SqlFirst
<1>12. SqlRecords(t) = SqlRecords(s)
  BY <1>9, <1>11 DEF SqlRecords
<1> QED BY <1>3, <1>9, <1>10, <1>12 DEF Told

(* The captures are keyed, each belongs to a record, and one that is still *)
(* to be stored to a record that is stored before it.                      *)
HasRow(s, key) == \E r \in s.records : r.key = key
Captured(s) ==
  /\ \A x, y \in s.captures : x.key = y.key => x = y
  /\ \A x \in s.captures : HasRow(s, x.key)
Due(s, cs) ==
  \A i \in 1..Len(cs) : cs[i].op = "capture" =>
    \/ HasRow(s, cs[i].key)
    \/ \E j \in 1..i-1 : cs[j].op = "upsert" /\ cs[j].record.key = cs[i].key
CapturesInv == Captured(sql) /\ Due(sql, calls)

LEMMA DocumentsAreImportable ==
  ASSUME NEW s, Captured(s), NEW archive, Documents(archive, s)
  PROVE  Importable(archive)
<1> DEFINE q == archive.records
<1>1. /\ q \in Seq(RecordSet) /\ s.records = {q[i] : i \in 1..Len(q)}
      /\ archive.captures = s.captures
      /\ \A i, k \in 1..Len(q) : q[i].key = q[k].key \/ q[i].id = q[k].id => i = k
  BY DEF Documents, Lists, Keyed
<1> HIDE DEF q
<1>2. DOMAIN q = 1..Len(q)
  BY <1>1, LenProperties
<1>3. \A x \in s.captures : \E i \in DOMAIN q : q[i].key = x.key
  BY <1>1, <1>2 DEF Captured, HasRow
<1> QED BY <1>1, <1>2, <1>3 DEF Importable, Captured, q

(* Rows keep their keys.                                                   *)
LEMMA RowsRemain ==
  ASSUME NEW s, NEW t, Enriched(s, t)
  PROVE  \A key : HasRow(s, key) => HasRow(t, key)
BY DEF Enriched, HasRow

LEMMA CapturesRemain ==
  ASSUME NEW s, NEW t, Enriched(s, t), t.captures = s.captures, Captured(s)
  PROVE  Captured(t)
BY RowsRemain DEF Captured

(* A call is made: what was due before the others is due still, and the    *)
(* record of an upsert is there.                                           *)
LEMMA DueAfterCall ==
  ASSUME NEW cs \in Seq(CallSet), cs # <<>>, NEW s, NEW t, Enriched(s, t), Due(s, cs),
         Head(cs).op = "upsert" => HasRow(t, Head(cs).record.key)
  PROVE  Due(t, Tail(cs))
<1> DEFINE n == Len(cs)
           rest == Tail(cs)
<1>1. /\ n \in Nat /\ n # 0 /\ Head(cs) = cs[1] /\ Len(rest) = n - 1
      /\ \A i \in 1..(n - 1) : rest[i] = cs[i + 1]
  BY HeadTailProperties, LenProperties, EmptySeq
<1> HIDE DEF rest, n
<1>2. ASSUME NEW i \in 1..(n - 1), rest[i].op = "capture"
      PROVE  \/ HasRow(t, rest[i].key)
             \/ \E j \in 1..i-1 : rest[j].op = "upsert" /\ rest[j].record.key = rest[i].key
  <2> DEFINE k == i + 1
  <2>1. k \in 1..n /\ k \in Nat /\ rest[i] = cs[k]
    BY <1>1
  <2>2. \/ HasRow(s, cs[k].key)
        \/ \E j \in 1..k-1 : cs[j].op = "upsert" /\ cs[j].record.key = cs[k].key
    BY <1>2, <2>1 DEF Due, n
  <2>3. CASE HasRow(s, cs[k].key)
    BY <2>1, <2>3, RowsRemain
  <2>4. ASSUME NEW j \in 1..k-1, cs[j].op = "upsert" /\ cs[j].record.key = cs[k].key
        PROVE  \/ HasRow(t, rest[i].key)
               \/ \E j1 \in 1..i-1 : rest[j1].op = "upsert" /\ rest[j1].record.key = rest[i].key
    <3>1. CASE j = 1
      BY <1>1, <2>1, <2>4, <3>1
    <3>2. CASE j # 1
      <4>1. j - 1 \in 1..i-1 /\ j - 1 \in 1..(n - 1) /\ (j - 1) + 1 = j
        BY <1>1, <3>2
      <4>2. rest[j - 1] = cs[j]
        BY <1>1, <4>1
      <4> QED BY <2>1, <2>4, <4>1, <4>2
    <3> QED BY <3>1, <3>2
  <2> QED BY <2>2, <2>3, <2>4
<1> QED BY <1>1, <1>2 DEF Due, rest

LEMMA DueRemains ==
  ASSUME NEW s, NEW t, Enriched(s, t), NEW cs, Due(s, cs)
  PROVE  Due(t, cs)
BY RowsRemain DEF Due

(* A commit stores the record before the capture.                          *)
LEMMA CommitIsDue ==
  ASSUME NEW item \in QueueItems, NEW served \in Answers[item.key], NEW s
  PROVE  Due(s, Commit(item, served))
<1> DEFINE MP == MarkPart(served)
           IP == InlinkPart(served)
           EP == EdgePart(item, served)
           PP == PagePart(item, served)
           Links == MarkCalls \cup InlinkCalls \cup EdgeCalls
           front == (MP \o IP) \o EP
           n == Len(front)
           cs == Commit(item, served)
<1>1. /\ MP \in Seq(MarkCalls) /\ IP \in Seq(InlinkCalls) /\ EP \in Seq(EdgeCalls)
      /\ PP \in Seq(CallSet)
  BY CommitTypes
<1>2. /\ Len(PP) = 5 /\ PP[3].op = "upsert" /\ PP[3].record.key = item.key
      /\ PP[4].key = item.key /\ PP[4].op = "capture"
      /\ PP[1].op = "references" /\ PP[2].op = "images" /\ PP[5].op = "frontier"
  BY DEF PagePart, Record
<1>3. front \in Seq(Links)
  <2> HIDE DEF MP, IP, EP
  <2>1. /\ Seq(MarkCalls) \subseteq Seq(Links) /\ Seq(InlinkCalls) \subseteq Seq(Links)
        /\ Seq(EdgeCalls) \subseteq Seq(Links)
    BY SeqMonotonic
  <2> HIDE DEF Links
  <2>2. MP \in Seq(Links) /\ IP \in Seq(Links) /\ EP \in Seq(Links)
    BY <1>1, <2>1
  <2>3. MP \o IP \in Seq(Links)
    BY <2>2, ConcatProperties
  <2> QED BY <2>2, <2>3, ConcatProperties
<1>4. cs = front \o PP
  BY CommitParts
<1> HIDE DEF front, cs, PP, MP, IP, EP
<1>5. \A c \in Links : c.op # "capture"
  BY DEF MarkCalls, InlinkCalls, EdgeCalls
<1>6. front \in Seq(Links \cup CallSet) /\ PP \in Seq(Links \cup CallSet)
  BY <1>1, <1>3, SeqMonotonic
<1>7. /\ n \in Nat /\ Len(cs) = n + 5
      /\ \A i \in 1..(n + 5) : cs[i] = IF i <= n THEN front[i] ELSE PP[i - n]
  <2> DEFINE All == Links \cup CallSet
  <2> HIDE DEF All
  <2>1. front \in Seq(All) /\ PP \in Seq(All)
    BY <1>6 DEF All
  <2>2. /\ Len(front \o PP) = Len(front) + Len(PP)
        /\ \A i \in 1..Len(front) + Len(PP) :
             (front \o PP)[i] = IF i <= Len(front) THEN front[i] ELSE PP[i - Len(front)]
    BY <2>1, ConcatProperties
  <2> QED BY <1>2, <1>4, <2>1, <2>2, LenProperties
<1>8. \A i \in 1..n : front[i].op # "capture"
  BY <1>3, <1>5, ElementOfSeq
<1> HIDE DEF n
<1>9. ASSUME NEW i \in 1..(n + 5), cs[i].op = "capture"
      PROVE  \E j \in 1..i-1 : cs[j].op = "upsert" /\ cs[j].record.key = cs[i].key
  <2>1. ~(i <= n)
    BY <1>7, <1>8, <1>9
  <2>2. i - n \in 1..5 /\ cs[i] = PP[i - n]
    BY <1>7, <2>1
  <2>3. i - n = 4
    BY <1>2, <1>9, <2>2
  <2>4. n + 3 \in 1..i-1 /\ n + 3 \in 1..(n + 5) /\ ~(n + 3 <= n) /\ (n + 3) - n = 3
    BY <1>7, <2>3
  <2>5. cs[n + 3] = PP[3]
    BY <1>7, <2>4
  <2> QED BY <1>2, <2>2, <2>3, <2>4, <2>5
<1> QED BY <1>7, <1>9 DEF Due, cs

LEMMA SameCaptures ==
  ASSUME NEW s, SqlGood(s), NEW t, NEW urls, NEW e, NEW key, NEW targets, NEW pics, NEW id
  PROVE  /\ SqlMark(s, urls).captures = s.captures /\ SqlInlink(s, t).captures = s.captures
         /\ SqlEdge(s, e).captures = s.captures /\ SqlImages(s, key, pics).captures = s.captures
         /\ SqlReferences(s, key, targets).captures = s.captures
         /\ SqlSnapshot(s, id, "measured").captures = s.captures
BY DEF SqlGood, SqlSet, SqlMark, SqlInlink, SqlEdge, SqlImages, SqlReferences, SqlSnapshot

LEMMA SameCapturesToo ==
  ASSUME NEW s, SqlGood(s), NEW batch, NEW state, NEW done, NEW new, NEW urls, NEW crawled
  PROVE  /\ SqlMetrics(s, batch).captures = s.captures
         /\ SqlSaveFrontier(SqlClearFrontier(s), state).captures = s.captures
         /\ SqlClearFrontier(s).captures = s.captures
         /\ SqlFrontier(s, done, new, urls, crawled).captures = s.captures
BY DEF SqlGood, SqlSet, SqlMetrics, SqlSaveFrontier, SqlClearFrontier, SqlFrontier

LEMMA UpsertCaptures ==
  ASSUME NEW s, SqlGood(s), NEW r \in RecordSet
  PROVE  SqlUpsert(s, r).captures = s.captures /\ HasRow(SqlUpsert(s, r), r.key)
<1>1. SqlUpsert(s, r).captures = s.captures
  <2>1. CASE \A x \in s.records : x.key # r.key
    BY <2>1, UpsertCases, SqlInsertIs DEF Inserted, SameRest
  <2>2. CASE \E x \in s.records : x.key = r.key
    BY <2>2, UpsertCases, SqlUpdateIs DEF Updated, SameRest
  <2> QED BY <2>1, <2>2
<1>2. PICK row : Written(SqlUpsert(s, r), s, r, row)
  BY UpsertWrites
<1>3. HasRow(SqlUpsert(s, r), r.key)
  BY <1>2 DEF Written, RowFor, SamePage, HasRow
<1> QED BY <1>1, <1>3

(* A store call that leaves the captures alone.                            *)
LEMMA CallKeepsCaptures ==
  ASSUME RowsInv, CapturesInv, NEW op, Calling(op), Called, Enriched(sql, sql'),
         sql'.captures = sql.captures, op = "upsert" => HasRow(sql', Head(calls).record.key)
  PROVE  CapturesInv'
<1>1. calls \in Seq(CallSet) /\ calls # <<>> /\ Head(calls).op = op /\ calls' = Tail(calls)
  BY DEF RowsInv, Calling, Called
<1>2. Due(sql', Tail(calls))
  BY <1>1, DueAfterCall DEF CapturesInv
<1>3. Captured(sql')
  BY CapturesRemain DEF CapturesInv
<1> QED BY <1>1, <1>2, <1>3 DEF CapturesInv

(* The capture of a page: it replaces what was stored under its key, and   *)
(* the record is there.                                                    *)
LEMMA CaptureKeepsCaptures ==
  ASSUME RowsInv, CapturesInv, ReplacePageCapture, Enriched(sql, sql')
  PROVE  CapturesInv'
<1> DEFINE c == Head(calls)
<1>1. /\ calls \in Seq(CallSet) /\ calls # <<>> /\ c.op = "capture" /\ calls' = Tail(calls)
      /\ sql' = SqlCapture(sql, c.key, c.body)
  BY DEF RowsInv, Calling, Called, ReplacePageCapture, Both
<1>2. HasRow(sql, c.key)
  <2>1. Len(calls) \in Nat /\ Len(calls) # 0 /\ c = calls[1]
    BY <1>1, HeadTailProperties, LenProperties, EmptySeq
  <2>2. 1 \in 1..Len(calls) /\ 1..(1 - 1) = {}
    BY <2>1
  <2> HIDE DEF c
  <2> QED BY <1>1, <2>1, <2>2 DEF CapturesInv, Due
<1> HIDE DEF c
<1>3. sql'.captures = {x \in sql.captures : x.key # c.key}
                        \cup (IF c.body = None THEN {} ELSE {[key |-> c.key, body |-> c.body]})
  BY <1>1 DEF SqlCapture, RowsInv, SqlGood, SqlSet
<1>4. \A x \in sql'.captures : (x \in sql.captures /\ x.key # c.key) \/ x = [key |-> c.key, body |-> c.body]
  BY <1>3
<1>5. Captured(sql')
  <2>1. HasRow(sql', c.key)
    BY <1>2, RowsRemain
  <2>2. \A x \in sql'.captures : HasRow(sql', x.key)
    BY <1>4, <2>1, RowsRemain DEF CapturesInv, Captured
  <2>3. \A x, y \in sql'.captures : x.key = y.key => x = y
    BY <1>4 DEF CapturesInv, Captured
  <2> QED BY <2>2, <2>3 DEF Captured
<1>6. Due(sql', Tail(calls))
  BY <1>1, DueAfterCall DEF CapturesInv, c
<1> QED BY <1>1, <1>5, <1>6 DEF CapturesInv

LEMMA CapturesKept ==
  ASSUME RowsInv, CapturesInv, [Next]_vars
  PROVE  CapturesInv'
<1>1. Enriched(sql, sql') /\ SqlGood(sql)
  BY RowsKeep DEF RowsStep, RowsInv
<1>2. ASSUME calls' = calls, sql'.captures = sql.captures PROVE CapturesInv'
  BY <1>1, <1>2, CapturesRemain, DueRemains DEF CapturesInv
<1>3. CASE StartCrawl
  <2>1. calls' = calls /\ \E state : sql' = SqlSaveFrontier(SqlClearFrontier(sql), state)
    BY <1>3 DEF StartCrawl, Both
  <2> QED BY <1>1, <1>2, <2>1, SameCapturesToo
<1>4. CASE BeginPage
  <2>1. PICK item \in ToSet(mem.frontier.queued) :
          \E served \in Answers[item.key] : calls' = Commit(item, served)
    BY <1>4 DEF BeginPage
  <2>2. sql' = sql /\ mem.frontier \in FrontierSet
    BY <1>4 DEF BeginPage, RowsInv, MemShape
  <2>3. item \in QueueItems
    BY <2>2, FrontierItem
  <2>4. Due(sql', calls')
    BY <2>1, <2>3, CommitIsDue
  <2> QED BY <2>2, <2>4 DEF CapturesInv
<1>5. CASE EndCrawl
  BY <1>1, <1>2, <1>5, SameCapturesToo DEF EndCrawl, Both
<1>6. CASE MarkSitemapUrls
  BY <1>1, <1>6, SameCaptures, CallKeepsCaptures DEF MarkSitemapUrls, Both
<1>7. CASE AddInlink
  BY <1>1, <1>7, SameCaptures, CallKeepsCaptures DEF AddInlink, Both
<1>8. CASE AddLinkEdge
  BY <1>1, <1>8, SameCaptures, CallKeepsCaptures DEF AddLinkEdge, Both
<1>9. CASE AddPageReferences
  BY <1>1, <1>9, SameCaptures, CallKeepsCaptures DEF AddPageReferences, Both
<1>10. CASE AddImageAssets
  BY <1>1, <1>10, SameCaptures, CallKeepsCaptures DEF AddImageAssets, Both
<1>11. CASE Upsert
  <2> DEFINE c == Head(calls)
             r == Arriving(c)
  <2>1. Calling("upsert") /\ Called /\ sql' = SqlUpsert(sql, r)
    BY <1>11 DEF Upsert, Both, Arriving
  <2>2. c \in UpsertCalls
    BY <2>1, CallDue, CallKinds
  <2>3. r \in RecordSet /\ r.key = c.record.key
    BY <2>2, ArrivingIs
  <2> HIDE DEF r
  <2>4. sql'.captures = sql.captures /\ HasRow(sql', c.record.key)
    BY <1>1, <2>1, <2>3, UpsertCaptures
  <2> QED BY <1>1, <2>1, <2>4, CallKeepsCaptures
<1>12. CASE ReplacePageCapture
  BY <1>1, <1>12, CaptureKeepsCaptures
<1>13. CASE UpdateFrontier
  BY <1>1, <1>13, SameCapturesToo, CallKeepsCaptures DEF UpdateFrontier, Both
<1>14. CASE SaveSnapshot
  BY <1>1, <1>2, <1>14, SameCaptures DEF SaveSnapshot, Both
<1>15. CASE MergeMetrics
  BY <1>1, <1>2, <1>15, SameCapturesToo DEF MergeMetrics, Both
<1>16. CASE UNCHANGED vars
  BY <1>2, <1>16 DEF vars
<1> QED BY <1>3, <1>4, <1>5, <1>6, <1>7, <1>8, <1>9, <1>10, <1>11, <1>12, <1>13, <1>14, <1>15, <1>16
        DEF Next

(* The archive of either store is one that the import accepts, and what it *)
(* is restored to tells what was archived: after any sequence of calls,    *)
(* for any number of records, links and saved pages.                       *)
THEOREM ArchivesRestoreTheCrawl ==
  ASSUME OneTextPerPage, BatchesAreOrdered
  PROVE  Spec => []ArchivesKeepTheCrawl
<1> DEFINE Inv == MirrorInv /\ CapturesInv
<1>1. Init => Inv
  <2>1. Init => CapturesInv
    <3>1. Captured(EmptyTables)
      BY DEF Captured, EmptyTables
    <3>2. Len(<<>>) = 0 /\ 1..0 = {}
      BY EmptySeq
    <3>3. Due(EmptyTables, <<>>)
      BY <3>2 DEF Due
    <3> QED BY <3>1, <3>3 DEF Init, CapturesInv
  <2> QED BY <2>1, MirrorInit
<1>2. Inv /\ [Next]_vars => Inv'
  BY MirrorInvKept, CapturesKept DEF MirrorInv, EvidenceInv
<1>3. Inv => ArchivesKeepTheCrawl
  <2>1. ASSUME Inv, NEW archive \in {MemArchive(mem), SqlArchive(sql)}
        PROVE  Importable(archive) /\ Told(Restored(archive)) = Told(sql)
    <3>1. SqlGood(sql) /\ Mirrors(mem, sql) /\ Captured(sql)
      BY <2>1 DEF MirrorInv, EvidenceInv, RowsInv, CapturesInv
    <3>2. Documents(archive, sql)
      BY <3>1, ArchivesAre
    <3> QED BY <3>1, <3>2, DocumentsAreImportable, RestoredTells
  <2> QED BY <2>1 DEF ArchivesKeepTheCrawl
<1> QED BY <1>1, <1>2, <1>3, PTL DEF Spec

-----------------------------------------------------------------------------
(* The paths of the crawl.                                                 *)

(* The crawler names a page by one text: pages meet only if they are one.  *)
LEMMA NamesAlone ==
  ASSUME OneTextPerPage, NEW s \in CrawlNames
  PROVE  /\ \A t \in CrawlNames : Overlap(Aliases[s], Aliases[t]) <=> s = t
         /\ \A T \in SUBSET CrawlNames : Overlap(Aliases[s], AliasesOf(T)) <=> s \in T
         /\ \A T \in SUBSET CrawlNames : AliasesOf(T) \in SUBSET Texts /\ (s \in AliasesOf(T) <=> s \in T)
<1>1. CrawlNames \subseteq Texts /\ \A t \in CrawlNames : Aliases[t] \in SUBSET Texts /\ t \in Aliases[t]
  BY NamesAreTexts
<1>2. \A t \in CrawlNames : Overlap(Aliases[s], Aliases[t]) <=> s = t
  BY <1>1 DEF OneTextPerPage, Overlap
<1>3. ASSUME NEW T \in SUBSET CrawlNames
      PROVE  /\ Overlap(Aliases[s], AliasesOf(T)) <=> s \in T
             /\ AliasesOf(T) \in SUBSET Texts /\ (s \in AliasesOf(T) <=> s \in T)
  <2>1. \A x : x \in AliasesOf(T) <=> \E t \in T : x \in Aliases[t]
    BY DEF AliasesOf
  <2>2. Overlap(Aliases[s], AliasesOf(T)) => s \in T
    BY <1>2, <2>1 DEF Overlap
  <2>3. s \in T => s \in AliasesOf(T)
    BY <1>1, <2>1
  <2>4. s \in AliasesOf(T) => Overlap(Aliases[s], AliasesOf(T))
    BY <1>1 DEF Overlap
  <2>5. AliasesOf(T) \in SUBSET Texts
    BY <1>1, <2>1
  <2> QED BY <2>2, <2>3, <2>4, <2>5
<1> QED BY <1>2, <1>3

LEMMA EdgeNames ==
  ASSUME NEW edges \in Seq(EdgeSet)
  PROVE  /\ Len(edges) \in Nat /\ DOMAIN edges = 1..Len(edges)
         /\ ToSet(edges) = {edges[i] : i \in 1..Len(edges)}
         /\ \A i \in 1..Len(edges) : edges[i] \in EdgeSet /\ edges[i].source \in CrawlNames
                                     /\ edges[i].target \in CrawlNames
<1>1. Len(edges) \in Nat /\ DOMAIN edges = 1..Len(edges)
  BY LenProperties
<1>2. \A i \in 1..Len(edges) : edges[i] \in EdgeSet
  BY ElementOfSeq
<1> QED BY <1>1, <1>2 DEF EdgeSet, ToSet

(* The starts are pages of the crawl.                                      *)
LEMMA StartsAre ==
  ASSUME NEW edges \in Seq(EdgeSet)
  PROVE  Starts(edges) \in Seq(CrawlNames) /\ ToSet(Starts(edges)) \in SUBSET CrawlNames
<1> DEFINE depths == {e.from.depth : e \in ToSet(edges)}
           S == {e.source : e \in {x \in ToSet(edges) : x.from.depth = Min(depths)}}
           before == [x \in S |-> {y \in S : Rank[y] < Rank[x]}]
<1>1. S \in SUBSET CrawlNames
  BY EdgeNames
<1>2. Starts(edges) = Sorted(before)
  BY DEF Starts
<1> HIDE DEF S
<1>3. IsFiniteSet(S)
  BY <1>1, NamesAreTexts, FS_Subset
<1>4. \A x \in S : Rank[x] \in Nat
  BY <1>1, NamesAreTexts, StoreAssumption
<1>5. \A x, y \in S : Rank[x] = Rank[y] => x = y
  BY <1>1, NamesAreTexts, StoreAssumption
<1>6. before \in [S -> SUBSET S] /\ \A x \in S : before[x] = {y \in S : Rank[y] < Rank[x]}
  OBVIOUS
<1> HIDE DEF before
<1>7. Ranks(before, S)
  BY <1>4, <1>5, <1>6 DEF Ranks
<1>8. Sorted(before) \in [1..Cardinality(S) -> S] /\ Cardinality(S) \in Nat
  BY <1>3, <1>7, SortedEnumerates, SortedEnumeration, FS_CardinalityType
<1>9. Sorted(before) \in Seq(CrawlNames)
  BY <1>1, <1>8, FunIsSeq
<1>10. ToSet(Sorted(before)) \in SUBSET CrawlNames
  BY <1>1, <1>8 DEF ToSet
<1> QED BY <1>2, <1>9, <1>10

(* The pages within one link more of a set of pages.                       *)
Onward(edges, T) ==
  T \cup {edges[i].target : i \in {k \in 1..Len(edges) : edges[k].source \in T}}

Layers(W, edges, n) ==
  /\ W \in [0..n -> SUBSET CrawlNames]
  /\ W[0] = ToSet(Starts(edges))
  /\ \A k \in 1..n : W[k] = Onward(edges, W[k-1])

LEMMA OnwardNames ==
  ASSUME NEW edges \in Seq(EdgeSet), NEW T \in SUBSET CrawlNames
  PROVE  Onward(edges, T) \in SUBSET CrawlNames
BY EdgeNames DEF Onward

LEMMA LayersExist ==
  ASSUME NEW edges \in Seq(EdgeSet), NEW n \in Nat
  PROVE  \E W : Layers(W, edges, n)
<1> DEFINE base == ToSet(Starts(edges))
           V == SUBSET CrawlNames
           H == [p \in (1..n) \X V |-> Onward(edges, p[2])]
<1>1. base \in V
  BY StartsAre
<1>2. H \in [(1..n) \X V -> V]
  BY OnwardNames
<1> HIDE DEF base, V
<1>3. \A k \in 1..n, T \in V : H[<<k, T>>] = Onward(edges, T)
  OBVIOUS
<1> HIDE DEF H
<1>4. HasPrefixRecursion(n, V, base, H)
  BY <1>1, <1>2, RecursionOnPrefixes
<1>5. PICK g \in [SUBSET (1..n) -> V] : \A s \in SUBSET (1..n) :
            g[s] = IF s = {} THEN base ELSE H[<<Max(s), g[s \ {Max(s)}]>>]
  BY <1>4 DEF HasPrefixRecursion
<1> DEFINE W == [k \in 0..n |-> g[1..k]]
<1>6. W[0] = base
  <2>1. 1..0 = {} /\ {} \in SUBSET (1..n) /\ 0 \in 0..n
    OBVIOUS
  <2> QED BY <1>5, <2>1
<1>7. ASSUME NEW k \in 1..n PROVE W[k] = Onward(edges, W[k-1])
  <2>1. /\ 1..k \in SUBSET (1..n) /\ 1..k # {} /\ Max(1..k) = k /\ (1..k) \ {Max(1..k)} = 1..k-1
    BY PrefixMax
  <2>2. k \in 0..n /\ k - 1 \in 0..n /\ 1..k-1 \in SUBSET (1..n)
    OBVIOUS
  <2>3. g[1..k] = H[<<k, g[1..k-1]>>] /\ g[1..k-1] \in V
    BY <1>5, <2>1, <2>2
  <2> QED BY <1>3, <2>2, <2>3
<1>8. W \in [0..n -> V]
  <2>1. \A k \in 0..n : 1..k \in SUBSET (1..n)
    OBVIOUS
  <2> QED BY <1>5, <2>1
<1> HIDE DEF W
<1>9. Layers(W, edges, n)
  BY <1>6, <1>7, <1>8 DEF Layers, base, V
<1> QED BY <1>9

(* Within computes them, in terms of the aliases of the pages.             *)
LEMMA WithinStep ==
  ASSUME OneTextPerPage, NEW edges \in Seq(EdgeSet), NEW T \in SUBSET CrawlNames
  PROVE  AliasesOf(T) \cup AliasesOf({e.target : e \in {x \in ToSet(edges) :
                                        Overlap(Aliases[x.source], AliasesOf(T))}})
           = AliasesOf(Onward(edges, T))
<1> DEFINE far == {e.target : e \in {x \in ToSet(edges) : Overlap(Aliases[x.source], AliasesOf(T))}}
           near == {edges[i].target : i \in {k \in 1..Len(edges) : edges[k].source \in T}}
<1>1. \A i \in 1..Len(edges) : Overlap(Aliases[edges[i].source], AliasesOf(T)) <=> edges[i].source \in T
  BY EdgeNames, NamesAlone
<1>2. far = near
  BY <1>1, EdgeNames
<1>3. Onward(edges, T) = T \cup near
  BY DEF Onward
<1> HIDE DEF far, near
<1>4. AliasesOf(T) \cup AliasesOf(near) = AliasesOf(T \cup near)
  BY DEF AliasesOf
<1> QED BY <1>2, <1>3, <1>4 DEF far

LinksOn(edges, texts) ==
  texts \cup AliasesOf({e.target : e \in {x \in ToSet(edges) : Overlap(Aliases[x.source], texts)}})

LEMMA WithinIs ==
  ASSUME OneTextPerPage, NEW edges \in Seq(EdgeSet), NEW n \in Nat, NEW W, Layers(W, edges, n),
         NEW k \in 0..n
  PROVE  Within(edges, k) = AliasesOf(W[k])
<1> DEFINE base == AliasesOf(ToSet(Starts(edges)))
           q == [j \in 1..k |-> j]
           V == SUBSET Texts
           H == [p \in (1..k) \X V |-> LinksOn(edges, p[2])]
           Step(g, s) == IF s = {} THEN base ELSE LinksOn(edges, g[s \ {Max(s)}])
           IsIter(g) == g = [s \in SUBSET (1..k) |-> Step(g, s)]
           iter == CHOOSE g : IsIter(g)
<1>1. k \in Nat /\ DOMAIN q = 1..k
  OBVIOUS
<1>2. base \in V /\ \A texts \in V : LinksOn(edges, texts) \in V
  <2>1. \A T \in SUBSET CrawlNames : AliasesOf(T) \in SUBSET Texts
    BY NamesAreTexts DEF AliasesOf
  <2>2. \A texts : {e.target : e \in {x \in ToSet(edges) : Overlap(Aliases[x.source], texts)}}
                     \in SUBSET CrawlNames
    BY EdgeNames
  <2> QED BY <2>1, <2>2, StartsAre DEF LinksOn
<1>3. Within(edges, k) = iter[1..k]
  BY <1>1 DEF Within, FoldLeft, MapThenFoldSet, LinksOn
<1> HIDE DEF V, q
<1>4. H \in [(1..k) \X V -> V]
  BY <1>1, <1>2
<1>5. \E g \in [SUBSET (1..k) -> V] : IsIter(g)
  <2>1. PICK g \in [SUBSET (1..k) -> V] : \A s \in SUBSET (1..k) :
             g[s] = IF s = {} THEN base ELSE H[<<Max(s), g[s \ {Max(s)}]>>]
    <3>1. HasPrefixRecursion(k, V, base, H)
      <4> HIDE DEF H, base
      <4> QED BY <1>1, <1>2, <1>4, RecursionOnPrefixes
    <3> HIDE DEF H, base
    <3> QED BY <3>1 DEF HasPrefixRecursion
  <2>2. ASSUME NEW s \in SUBSET (1..k)
        PROVE  g[s] = Step(g, s)
    <3> HIDE DEF base
    <3>1. CASE s = {}
      BY <2>1, <3>1
    <3>2. CASE s # {}
      <4>1. Max(s) \in 1..k
        BY <1>1, <3>2, MaxOfIndices
      <4> QED BY <2>1, <3>2, <4>1
    <3> QED BY <3>1, <3>2
  <2> HIDE DEF Step
  <2> QED BY <2>2
<1>6. IsIter(iter)
  <2> HIDE DEF IsIter
  <2> QED BY <1>5
<1>7. iter[{}] = base /\ \A j \in 1..k : iter[1..j] = LinksOn(edges, iter[1..j-1])
  <2> HIDE DEF iter, base
  <2>1. \A s \in SUBSET (1..k) : iter[s] = Step(iter, s)
    BY <1>6
  <2> QED BY <1>1, <2>1, PrefixMax
<1> HIDE DEF iter
<1> DEFINE T == {j \in 0..k : iter[1..j] = AliasesOf(W[j])}
<1>8. 0 \in T
  <2>1. 1..0 = {} /\ 0 \in 0..k
    BY <1>1
  <2> QED BY <1>7, <2>1 DEF Layers
<1>9. \A j \in 1..k : j - 1 \in T => j \in T
  <2> SUFFICES ASSUME NEW j \in 1..k, iter[1..j-1] = AliasesOf(W[j-1])
               PROVE  iter[1..j] = AliasesOf(W[j])
    BY <1>1
  <2>1. j \in 1..n /\ j - 1 \in 0..n
    OBVIOUS
  <2>2. W[j] = Onward(edges, W[j-1]) /\ W[j-1] \in SUBSET CrawlNames
    BY <2>1 DEF Layers
  <2>3. LinksOn(edges, AliasesOf(W[j-1])) = AliasesOf(Onward(edges, W[j-1]))
    BY <2>2, WithinStep DEF LinksOn
  <2> QED BY <1>7, <2>2, <2>3
<1>10. k \in T
  <2> HIDE DEF T
  <2>1. \A j \in 0..k : j \in T
    BY <1>1, <1>8, <1>9, InductionUpTo
  <2> QED BY <1>1, <2>1
<1> QED BY <1>3, <1>10

LEMMA LayersGrow ==
  ASSUME NEW edges, NEW n \in Nat, NEW W, Layers(W, edges, n), NEW j \in 0..n, NEW k \in j..n
  PROVE  W[j] \subseteq W[k]
<1> DEFINE T == {m \in 0..(k - j) : W[j] \subseteq W[j + m]}
<1>1. k - j \in Nat /\ j \in Nat
  OBVIOUS
<1>2. 0 \in T
  <2>1. j + 0 = j /\ 0 \in 0..(k - j)
    BY <1>1
  <2> QED BY <2>1
<1>3. \A m \in 1..(k - j) : m - 1 \in T => m \in T
  <2> SUFFICES ASSUME NEW m \in 1..(k - j), W[j] \subseteq W[j + (m - 1)]
               PROVE  W[j] \subseteq W[j + m]
    BY <1>1
  <2>1. j + m \in 1..n /\ (j + m) - 1 = j + (m - 1)
    BY <1>1
  <2>2. W[j + m] = Onward(edges, W[j + (m - 1)])
    BY <2>1 DEF Layers
  <2> QED BY <2>2 DEF Onward
<1>4. k - j \in T
  <2> HIDE DEF T
  <2>1. \A m \in 0..(k - j) : m \in T
    BY <1>1, <1>2, <1>3, InductionUpTo
  <2> QED BY <1>1, <2>1
<1>5. j + (k - j) = k
  BY <1>1
<1> QED BY <1>4, <1>5

(* Once nothing is new, nothing ever is.                                   *)
LEMMA LayersStay ==
  ASSUME NEW edges, NEW n \in Nat, NEW W, Layers(W, edges, n), NEW j \in 1..n, W[j] = W[j-1],
         NEW k \in j..n
  PROVE  W[k] = W[k-1]
<1> DEFINE T == {m \in 0..(k - j) : W[j + m] = W[(j + m) - 1]}
<1>1. k - j \in Nat /\ j \in Nat
  OBVIOUS
<1>2. 0 \in T
  <2>1. j + 0 = j /\ 0 \in 0..(k - j)
    BY <1>1
  <2> QED BY <2>1
<1>3. \A m \in 1..(k - j) : m - 1 \in T => m \in T
  <2> SUFFICES ASSUME NEW m \in 1..(k - j), W[j + (m - 1)] = W[(j + (m - 1)) - 1]
               PROVE  W[j + m] = W[(j + m) - 1]
    BY <1>1
  <2>1. /\ j + m \in 1..n /\ (j + m) - 1 = j + (m - 1)
        /\ j + (m - 1) \in 1..n
    BY <1>1
  <2>2. W[j + m] = Onward(edges, W[j + (m - 1)])
        /\ W[j + (m - 1)] = Onward(edges, W[(j + (m - 1)) - 1])
    BY <2>1 DEF Layers
  <2> QED BY <2>1, <2>2
<1>4. k - j \in T
  <2> HIDE DEF T
  <2>1. \A m \in 0..(k - j) : m \in T
    BY <1>1, <1>2, <1>3, InductionUpTo
  <2> QED BY <1>1, <2>1
<1>5. j + (k - j) = k
  BY <1>1
<1> QED BY <1>4, <1>5

(* Each layer that has something new has a link that leads to it, and no   *)
(* link leads to two of them: there are no more such layers than links.    *)
LEMMA LayersAreBounded ==
  ASSUME NEW edges \in Seq(EdgeSet), NEW n \in Nat, NEW W, Layers(W, edges, n), NEW l \in 1..n,
         W[l] # W[l-1]
  PROVE  l <= Len(edges)
<1> DEFINE Leads(j, i) == i \in 1..Len(edges) /\ edges[i].target \in W[j] /\ edges[i].target \notin W[j-1]
           c == [j \in 1..l |-> CHOOSE i : Leads(j, i)]
<1>1. Len(edges) \in Nat /\ l \in Nat
  BY EdgeNames
<1>2. ASSUME NEW j \in 1..l PROVE \E i : Leads(j, i)
  <2>1. j \in 1..n /\ l \in j..n
    OBVIOUS
  <2>2. W[j] # W[j-1]
    BY <2>1, LayersStay
  <2>3. W[j] = Onward(edges, W[j-1])
    BY <2>1 DEF Layers
  <2> QED BY <2>2, <2>3 DEF Onward
<1>3. \A j \in 1..l : Leads(j, c[j])
  <2> HIDE DEF Leads
  <2> QED BY <1>2
<1> HIDE DEF c
<1>4. c \in [1..l -> 1..Len(edges)]
  <2>1. c = [j \in 1..l |-> c[j]]
    BY DEF c
  <2> QED BY <1>3, <2>1
<1>5. ASSUME NEW j \in 1..l, NEW k \in 1..l, j < k PROVE c[j] # c[k]
  <2>1. j \in 0..n /\ k - 1 \in j..n
    BY <1>5
  <2>2. W[j] \subseteq W[k-1]
    BY <2>1, LayersGrow
  <2> QED BY <1>3, <2>2
<1>6. \A j, k \in 1..l : c[j] = c[k] => j = k
  BY <1>1, <1>5
<1>7. c \in Injection(1..l, 1..Len(edges))
  BY <1>4, <1>6 DEF Injection, IsInjective
<1>8. \A k \in Nat : IsFiniteSet(1..k) /\ Cardinality(1..k) = k
  <2> SUFFICES ASSUME NEW k \in Nat PROVE IsFiniteSet(1..k) /\ Cardinality(1..k) = k
    OBVIOUS
  <2>1. 1 \in Int /\ k \in Int /\ k - 1 + 1 = k
    OBVIOUS
  <2>2. IsFiniteSet(1..k) /\ Cardinality(1..k) = IF 1 > k THEN 0 ELSE k - 1 + 1
    BY <2>1, FS_Interval
  <2> QED BY <2>2
<1> QED BY <1>1, <1>7, <1>8, FS_Injection

(* How many links away from a start a page is, where links lead to it.     *)
Distances(lev, edges) ==
  /\ DOMAIN lev \in SUBSET CrawlNames /\ lev \in [DOMAIN lev -> 0..Len(edges)]
  /\ \A t \in CrawlNames : t \in DOMAIN lev /\ lev[t] = 0 <=> t \in ToSet(Starts(edges))
  /\ \A i \in 1..Len(edges) : edges[i].source \in DOMAIN lev =>
       edges[i].target \in DOMAIN lev /\ lev[edges[i].target] <= lev[edges[i].source] + 1
  /\ \A t \in DOMAIN lev : lev[t] # 0 =>
       \E i \in 1..Len(edges) : /\ edges[i].target = t /\ edges[i].source \in DOMAIN lev
                                /\ lev[edges[i].source] + 1 = lev[t]

Measures(lev, edges) ==
  \A t \in CrawlNames, k \in 0..Len(edges) :
    Reaches(edges, k, t) <=> t \in DOMAIN lev /\ lev[t] <= k

LEMMA DistancesExist ==
  ASSUME OneTextPerPage, NEW edges \in Seq(EdgeSet)
  PROVE  \E lev : Distances(lev, edges) /\ Measures(lev, edges)
<1> DEFINE m == Len(edges)
           n == m + 1
<1>1. m \in Nat /\ n \in Nat
  BY EdgeNames
<1>2. PICK W : Layers(W, edges, n)
  BY <1>1, LayersExist
<1> DEFINE D == W[n]
           First(t, l) == l \in 0..n /\ t \in W[l] /\ \A j \in 0..n : t \in W[j] => l <= j
           lev == [t \in D |-> CHOOSE l : First(t, l)]
<1>3. ASSUME NEW t \in D PROVE \E l : First(t, l)
  <2> DEFINE T == {j \in 0..n : t \in W[j]}
  <2>1. n \in T /\ T \subseteq Nat
    BY <1>1
  <2> HIDE DEF T
  <2>2. PICK l \in T : \A j \in T : l <= j
    BY <2>1, LeastNatural
  <2> QED BY <2>2 DEF T
<1>4. \A t \in D : First(t, lev[t])
  <2> HIDE DEF First
  <2> QED BY <1>3
<1>5. DOMAIN lev = D
  OBVIOUS
<1> HIDE DEF lev
<1>6. \A j \in 0..n : W[j] \in SUBSET CrawlNames /\ W[j] \subseteq D
  <2> SUFFICES ASSUME NEW j \in 0..n PROVE W[j] \in SUBSET CrawlNames /\ W[j] \subseteq W[n]
    OBVIOUS
  <2>1. n \in j..n /\ j \in 0..n
    BY <1>1
  <2>2. W[j] \subseteq W[n]
    BY <1>1, <1>2, <2>1, LayersGrow
  <2> QED BY <1>2, <2>2 DEF Layers
<1> HIDE DEF n
<1>7. ASSUME NEW t \in D
      PROVE  /\ lev[t] \in 0..n /\ lev[t] <= m
             /\ \A j \in 0..n : t \in W[j] <=> lev[t] <= j
  <2>1. lev[t] \in 0..n /\ t \in W[lev[t]] /\ \A j \in 0..n : t \in W[j] => lev[t] <= j
    BY <1>4
  <2>2. ASSUME NEW j \in 0..n, lev[t] <= j PROVE t \in W[j]
    <3>1. j \in lev[t]..n
      BY <1>1, <2>1, <2>2
    <3>2. W[lev[t]] \subseteq W[j]
      BY <1>1, <1>2, <2>1, <3>1, LayersGrow
    <3> QED BY <2>1, <3>2
  <2>3. lev[t] <= m
    <3>1. CASE lev[t] = 0
      BY <1>1, <3>1
    <3>2. CASE lev[t] # 0
      <4> DEFINE l == lev[t]
      <4>1. l \in 1..n /\ l - 1 \in 0..n /\ ~(l <= l - 1)
        BY <1>1, <2>1, <3>2
      <4>2. t \in W[l] /\ t \notin W[l-1]
        BY <2>1, <4>1
      <4> HIDE DEF l
      <4>3. l <= Len(edges)
        BY <1>1, <1>2, <4>1, <4>2, LayersAreBounded
      <4> QED BY <4>3 DEF l
    <3> QED BY <3>1, <3>2
  <2> QED BY <2>1, <2>2, <2>3
<1>8. D \in SUBSET CrawlNames /\ lev \in [D -> 0..m]
  <2>1. n \in 0..n
    BY <1>1
  <2>2. lev = [t \in D |-> lev[t]]
    BY DEF lev
  <2>3. \A t \in D : lev[t] \in 0..m
    BY <1>1, <1>7
  <2> QED BY <1>6, <2>1, <2>2, <2>3
<1>9. ASSUME NEW t \in CrawlNames PROVE t \in D /\ lev[t] = 0 <=> t \in ToSet(Starts(edges))
  <2>1. 0 \in 0..n /\ W[0] = ToSet(Starts(edges)) /\ W[0] \subseteq D
    BY <1>1, <1>2, <1>6 DEF Layers
  <2>2. \A l \in 0..n : l <= 0 <=> l = 0
    BY <1>1
  <2> QED BY <1>7, <2>1, <2>2
<1>10. ASSUME NEW i \in 1..Len(edges), edges[i].source \in D
       PROVE  edges[i].target \in D /\ lev[edges[i].target] <= lev[edges[i].source] + 1
  <2> DEFINE l == lev[edges[i].source]
  <2>1. l \in 0..n /\ l <= m /\ edges[i].source \in W[l]
    BY <1>7, <1>10
  <2>2. l + 1 \in 1..n /\ (l + 1) - 1 = l /\ l + 1 \in 0..n
    BY <1>1, <2>1 DEF n
  <2>3. W[l+1] = Onward(edges, W[l])
    BY <1>2, <2>2 DEF Layers
  <2>4. edges[i].target \in W[l+1]
    BY <2>1, <2>3 DEF Onward
  <2>5. edges[i].target \in D
    BY <1>6, <2>2, <2>4
  <2> QED BY <1>7, <2>2, <2>4, <2>5
<1>11. ASSUME NEW t \in D, lev[t] # 0
       PROVE  \E i \in 1..Len(edges) : /\ edges[i].target = t /\ edges[i].source \in D
                                       /\ lev[edges[i].source] + 1 = lev[t]
  <2> DEFINE l == lev[t]
  <2>1. l \in 1..n /\ l - 1 \in 0..n /\ ~(l <= l - 1) /\ l \in 0..n
    BY <1>1, <1>7, <1>11
  <2>2. t \in W[l] /\ t \notin W[l-1]
    BY <1>7, <2>1
  <2>3. W[l] = Onward(edges, W[l-1])
    BY <1>2, <2>1 DEF Layers
  <2>4. PICK i \in 1..Len(edges) : edges[i].target = t /\ edges[i].source \in W[l-1]
    BY <2>2, <2>3 DEF Onward
  <2>5. edges[i].source \in D
    BY <1>6, <2>1, <2>4
  <2>6. lev[edges[i].source] <= l - 1
    BY <1>7, <2>1, <2>4, <2>5
  <2>7. l <= lev[edges[i].source] + 1
    BY <1>10, <2>4, <2>5
  <2>8. lev[edges[i].source] \in Nat /\ l \in Nat
    BY <1>1, <1>7, <2>5
  <2>9. lev[edges[i].source] + 1 = l
    BY <2>6, <2>7, <2>8
  <2> QED BY <2>4, <2>5, <2>9
<1>12. Distances(lev, edges)
  <2> HIDE DEF D, m
  <2> QED BY <1>5, <1>8, <1>9, <1>10, <1>11 DEF Distances, m
<1>13. ASSUME NEW t \in CrawlNames, NEW k \in 0..Len(edges)
       PROVE  Reaches(edges, k, t) <=> t \in D /\ lev[t] <= k
  <2>1. k \in 0..n
    BY <1>1 DEF n
  <2>2. Within(edges, k) = AliasesOf(W[k]) /\ W[k] \in SUBSET CrawlNames
    BY <1>1, <1>2, <1>6, <2>1, WithinIs
  <2>3. Reaches(edges, k, t) <=> t \in W[k]
    BY <2>2, NamesAlone DEF Reaches, Overlap
  <2> QED BY <1>6, <1>7, <2>1, <2>3
<1>14. Measures(lev, edges)
  <2> HIDE DEF D
  <2> QED BY <1>5, <1>13 DEF Measures
<1> QED BY <1>12, <1>14

(* A set of pages that holds the starts and with each page nearer than l   *)
(* what it links to, holds all that are not further than l.                *)
LEMMA NearPagesAreIn ==
  ASSUME NEW edges \in Seq(EdgeSet), NEW lev, Distances(lev, edges), NEW M,
         ToSet(Starts(edges)) \subseteq M, NEW l \in Nat,
         \A i \in 1..Len(edges) :
           /\ edges[i].source \in M /\ edges[i].source \in DOMAIN lev
           /\ lev[edges[i].source] < l
           => edges[i].target \in M
  PROVE  \A t \in DOMAIN lev : lev[t] <= l => t \in M
<1> DEFINE T == {k \in 0..l : \A t \in DOMAIN lev : lev[t] <= k => t \in M}
<1>1. \A t \in DOMAIN lev : lev[t] \in Nat /\ t \in CrawlNames
  <2>1. Len(edges) \in Nat
    BY EdgeNames
  <2> QED BY <2>1 DEF Distances
<1>2. 0 \in T
  BY <1>1 DEF Distances
<1>3. ASSUME NEW k \in 1..l, k - 1 \in T PROVE k \in T
  <2>1. ASSUME NEW t \in DOMAIN lev, lev[t] <= k PROVE t \in M
    <3>1. CASE lev[t] <= k - 1
      BY <1>3, <3>1
    <3>2. CASE lev[t] = k
      <4>1. PICK i \in 1..Len(edges) : /\ edges[i].target = t /\ edges[i].source \in DOMAIN lev
                                       /\ lev[edges[i].source] + 1 = lev[t]
        BY <3>2 DEF Distances
      <4>2. lev[edges[i].source] <= k - 1 /\ lev[edges[i].source] < l
        BY <1>1, <3>2, <4>1
      <4>3. edges[i].source \in M
        BY <1>3, <4>1, <4>2
      <4> QED BY <4>1, <4>2, <4>3
    <3> QED BY <1>1, <2>1, <3>1, <3>2
  <2> QED BY <2>1
<1>4. l \in T
  <2> HIDE DEF T
  <2>1. \A k \in 0..l : k \in T
    BY <1>2, <1>3, InductionUpTo
  <2> QED BY <2>1
<1> QED BY <1>4

(* The state of a search: the queue, the texts visited, the link a page was *)
(* first reached by, and the page found.                                   *)
Vias == [page : CrawlNames, link : Nat]
ViaMaps == UNION {[names -> Vias] : names \in SUBSET CrawlNames}
SearchSet == [queue : Seq(CrawlNames), visited : SUBSET Texts, via : ViaMaps,
              found : CrawlNames \cup {None}]

(* The pages visited, by their names; those of them that are no more in    *)
(* the queue have been left along their links.                             *)
Met(acc) == {t \in CrawlNames : t \in acc.visited}
Expanded(acc) == Met(acc) \ Range(acc.queue)

LEMMA PutVia ==
  ASSUME NEW via \in ViaMaps, NEW url \in CrawlNames, NEW v \in Vias
  PROVE  /\ Put(via, url, v) \in ViaMaps /\ DOMAIN Put(via, url, v) = DOMAIN via \cup {url}
         /\ Put(via, url, v)[url] = v
         /\ \A t \in DOMAIN via : t # url => Put(via, url, v)[t] = via[t]
<1>1. PICK names \in SUBSET CrawlNames : via \in [names -> Vias]
  BY DEF ViaMaps
<1>2. Put(via, url, v) \in [names \cup {url} -> Vias]
  BY <1>1 DEF Put
<1>3. names \cup {url} \in SUBSET CrawlNames
  BY <1>1
<1>4. Put(via, url, v) \in ViaMaps
  BY <1>2, <1>3 DEF ViaMaps
<1> QED BY <1>4 DEF Put

LEMMA ViaIs ==
  ASSUME NEW via \in ViaMaps
  PROVE  DOMAIN via \in SUBSET CrawlNames /\ \A t \in DOMAIN via : via[t] \in Vias
BY DEF ViaMaps

NoVias == [t \in {} |-> None]

LEMMA NoViasAre == NoVias \in ViaMaps /\ DOMAIN NoVias = {}
<1>1. NoVias \in [{} -> Vias] /\ {} \in SUBSET CrawlNames
  BY DEF NoVias
<1> QED BY <1>1 DEF ViaMaps, NoVias

(* A page is visited for the first time: it enters the queue at its end.   *)
Visits(new, acc, url, via) ==
  /\ new \in SearchSet /\ new.queue = Append(acc.queue, url) /\ new.found = acc.found
  /\ new.visited = acc.visited \cup Aliases[url]
  /\ via = None => new.via = acc.via
  /\ via # None => new.via = Put(acc.via, url, via)

LEMMA VisitIs ==
  ASSUME NEW acc \in SearchSet, NEW url \in CrawlNames, NEW via \in Vias \cup {None}
  PROVE  /\ Overlap(Aliases[url], acc.visited) => Visit(acc, url, via) = acc
         /\ ~Overlap(Aliases[url], acc.visited) => Visits(Visit(acc, url, via), acc, url, via)
         /\ Visit(acc, url, via) \in SearchSet
<1> DEFINE after == IF via = None THEN acc.via ELSE Put(acc.via, url, via)
<1>1. /\ acc.queue \in Seq(CrawlNames) /\ acc.visited \in SUBSET Texts /\ acc.via \in ViaMaps
      /\ acc.found \in CrawlNames \cup {None}
  BY DEF SearchSet
<1>2. after \in ViaMaps
  BY <1>1, PutVia
<1>3. Append(acc.queue, url) \in Seq(CrawlNames) /\ acc.visited \cup Aliases[url] \in SUBSET Texts
  BY <1>1, AppendProperties, NamesAreTexts
<1>4. ~Overlap(Aliases[url], acc.visited) =>
        Visit(acc, url, via) = [acc EXCEPT !.queue = Append(acc.queue, url),
                                           !.visited = acc.visited \cup Aliases[url], !.via = after]
  BY DEF Visit
<1>5. Overlap(Aliases[url], acc.visited) => Visit(acc, url, via) = acc
  BY DEF Visit
<1>6. (via = None => after = acc.via) /\ (via # None => after = Put(acc.via, url, via))
  OBVIOUS
<1> HIDE DEF after
<1>7. ~Overlap(Aliases[url], acc.visited) => Visits(Visit(acc, url, via), acc, url, via)
  BY <1>1, <1>2, <1>3, <1>4, <1>6 DEF SearchSet, Visits
<1> QED BY <1>5, <1>7 DEF Visits

(* What is visited are the pages met, under all their texts.               *)
Visited(acc) == acc \in SearchSet /\ acc.visited = AliasesOf(Met(acc))

LEMMA VisitMeets ==
  ASSUME OneTextPerPage, NEW acc, Visited(acc), NEW url \in CrawlNames, NEW via \in Vias \cup {None}
  PROVE  /\ url \in Met(acc) => Visit(acc, url, via) = acc
         /\ url \notin Met(acc) =>
              /\ Visits(Visit(acc, url, via), acc, url, via)
              /\ Met(Visit(acc, url, via)) = Met(acc) \cup {url}
         /\ Visited(Visit(acc, url, via))
<1> DEFINE new == Visit(acc, url, via)
<1>1. acc \in SearchSet /\ acc.visited = AliasesOf(Met(acc)) /\ Met(acc) \in SUBSET CrawlNames
  BY DEF Visited, Met
<1>2. Overlap(Aliases[url], acc.visited) <=> url \in Met(acc)
  BY <1>1, NamesAlone
<1>3. url \in Met(acc) => new = acc
  BY <1>1, <1>2, VisitIs
<1>4. url \notin Met(acc) => Visits(new, acc, url, via)
  BY <1>1, <1>2, VisitIs
<1> HIDE DEF new
<1>5. ASSUME url \notin Met(acc) PROVE Met(new) = Met(acc) \cup {url} /\ Visited(new)
  <2>1. new \in SearchSet /\ new.visited = acc.visited \cup Aliases[url]
    BY <1>4, <1>5 DEF Visits
  <2>2. Met(acc) \cup {url} \in SUBSET CrawlNames
    BY <1>1
  <2>3. AliasesOf(Met(acc) \cup {url}) = AliasesOf(Met(acc)) \cup Aliases[url]
    BY DEF AliasesOf
  <2>4. new.visited = AliasesOf(Met(acc) \cup {url})
    BY <1>1, <2>1, <2>3
  <2>5. \A t \in CrawlNames : t \in new.visited <=> t \in Met(acc) \cup {url}
    BY <2>2, <2>4, NamesAlone
  <2>6. Met(new) = Met(acc) \cup {url}
    BY <2>2, <2>5 DEF Met
  <2> QED BY <2>1, <2>4, <2>6 DEF Visited
<1> QED BY <1>3, <1>4, <1>5 DEF new

(* The search before its first page, and once the starts are in the queue. *)
NoSearch == [queue |-> <<>>, visited |-> {}, via |-> [t \in {} |-> None], found |-> None]
Began(edges) == FoldLeft(LAMBDA acc, t : Visit(acc, t, None), NoSearch, Starts(edges))

LEMMA NoSearchIs == NoSearch \in SearchSet
BY NoViasAre, EmptySeq DEF NoSearch, SearchSet, NoVias

BeginRun(g, edges) ==
  /\ g \in [0..Len(Starts(edges)) -> SearchSet] /\ g[0] = NoSearch
  /\ \A k \in 1..Len(Starts(edges)) : g[k] = Visit(g[k-1], Starts(edges)[k], None)
  /\ Began(edges) = g[Len(Starts(edges))]

LEMMA BeganIs ==
  ASSUME NEW edges \in Seq(EdgeSet)
  PROVE  \E g : BeginRun(g, edges)
<1> DEFINE q == Starts(edges)
           n == Len(q)
           V == SearchSet
           H == [p \in (1..n) \X V |-> Visit(p[2], q[p[1]], None)]
           Step(g, s) == IF s = {} THEN NoSearch ELSE Visit(g[s \ {Max(s)}], q[Max(s)], None)
           IsIter(g) == g = [s \in SUBSET (1..n) |-> Step(g, s)]
           iter == CHOOSE g : IsIter(g)
<1>1. n \in Nat /\ DOMAIN q = 1..n /\ q \in Seq(CrawlNames)
  BY StartsAre, LenProperties
<1>2. NoSearch \in V /\ \A k \in 1..n, v \in V : Visit(v, q[k], None) \in V
  <2>1. \A k \in 1..n : q[k] \in CrawlNames
    BY <1>1, ElementOfSeq
  <2> QED BY <2>1, NoSearchIs, VisitIs
<1>3. Began(edges) = iter[1..n]
  BY <1>1 DEF Began, FoldLeft, MapThenFoldSet
<1> HIDE DEF V, q, n
<1>4. H \in [(1..n) \X V -> V]
  BY <1>2
<1>5. \E g \in [SUBSET (1..n) -> V] : IsIter(g)
  <2>1. PICK g \in [SUBSET (1..n) -> V] : \A s \in SUBSET (1..n) :
             g[s] = IF s = {} THEN NoSearch ELSE H[<<Max(s), g[s \ {Max(s)}]>>]
    <3>1. HasPrefixRecursion(n, V, NoSearch, H)
      <4> HIDE DEF H
      <4> QED BY <1>1, <1>2, <1>4, RecursionOnPrefixes
    <3> HIDE DEF H
    <3> QED BY <3>1 DEF HasPrefixRecursion
  <2>2. ASSUME NEW s \in SUBSET (1..n)
        PROVE  g[s] = Step(g, s)
    <3>1. CASE s = {}
      BY <2>1, <3>1
    <3>2. CASE s # {}
      <4>1. Max(s) \in 1..n
        BY <1>1, <3>2, MaxOfIndices
      <4> QED BY <2>1, <3>2, <4>1
    <3> QED BY <3>1, <3>2
  <2> HIDE DEF Step
  <2> QED BY <2>2
<1>6. IsIter(iter)
  <2> HIDE DEF IsIter
  <2> QED BY <1>5
<1>7. /\ iter[{}] = NoSearch
      /\ \A j \in 1..n : iter[1..j] = Visit(iter[1..j-1], q[j], None)
  <2> HIDE DEF iter
  <2>1. \A s \in SUBSET (1..n) : iter[s] = Step(iter, s)
    BY <1>6
  <2> QED BY <1>1, <2>1, PrefixMax
<1> HIDE DEF iter
<1> DEFINE g == [k \in 0..n |-> iter[1..k]]
           T == {k \in 0..n : g[k] \in V}
<1>9. g[0] = NoSearch /\ \A k \in 1..n : g[k] = Visit(g[k-1], q[k], None)
  <2>1. 1..0 = {} /\ 0 \in 0..n
    BY <1>1
  <2>2. \A k \in 1..n : k \in 0..n /\ k - 1 \in 0..n
    BY <1>1
  <2> QED BY <1>7, <2>1, <2>2
<1>10. g[n] = iter[1..n]
  BY <1>1
<1>11. DOMAIN g = 0..n /\ g = [k \in 0..n |-> g[k]]
  OBVIOUS
<1> HIDE DEF g
<1>12. \A k \in 0..n : k \in T
  <2>1. 0 \in T
    BY <1>1, <1>2, <1>9
  <2>2. \A k \in 1..n : k - 1 \in T => k \in T
    BY <1>1, <1>2, <1>9
  <2> HIDE DEF T
  <2> QED BY <1>1, <2>1, <2>2, InductionUpTo
<1>13. g \in [0..n -> V]
  BY <1>11, <1>12
<1> QED BY <1>3, <1>9, <1>10, <1>13 DEF BeginRun, n, q, V

(* The links of a page, as the code follows them one by one.               *)
Followed(acc, edges, url, target, i) ==
  IF acc.found # None THEN acc
  ELSE IF Overlap(Aliases[edges[i].target], Aliases[target])
  THEN [acc EXCEPT !.found = edges[i].target,
                   !.via = Put(@, edges[i].target, [page |-> url, link |-> i])]
  ELSE Visit(acc, edges[i].target, [page |-> url, link |-> i])

Left(acc) == [acc EXCEPT !.queue = Tail(@)]

LEMMA OutgoingIs ==
  ASSUME OneTextPerPage, NEW edges \in Seq(EdgeSet), NEW url \in CrawlNames
  PROVE  /\ Outgoing(edges, url) \in Seq(1..Len(edges))
         /\ ToSet(Outgoing(edges, url)) = {i \in 1..Len(edges) : edges[i].source = url}
<1> DEFINE n == Len(edges)
           q == [i \in 1..n |-> i]
           T == {i \in 1..n : Overlap(Aliases[edges[i].source], Aliases[url])}
           U == {i \in 1..n : edges[i].source = url}
           k == Kept(q, T)
<1>1. n \in Nat /\ DOMAIN edges = 1..n
  BY EdgeNames
<1>2. Outgoing(edges, url) = k
  BY <1>1 DEF Outgoing
<1>3. T = U
  <2>1. \A i \in 1..n : Overlap(Aliases[edges[i].source], Aliases[url]) <=> edges[i].source = url
    BY EdgeNames, NamesAlone
  <2> QED BY <2>1
<1>4. q \in Seq(1..n) /\ Len(q) = n /\ \A i \in 1..n : q[i] = i
  <2>1. q \in [1..n -> 1..n]
    OBVIOUS
  <2> QED BY <1>1, <2>1, FunIsSeq, LenProperties
<1> HIDE DEF q, T
<1>5. k \in Seq(1..n) /\ KeptOf(k, q, T, n)
  BY <1>4, KeptIs
<1>6. PICK e : Places(e, k, q, T, n)
  BY <1>5 DEF KeptOf
<1> HIDE DEF k
<1>7. \A x : x \in ToSet(k) <=> x \in T
  <2>1. DOMAIN k = 1..Len(k) /\ Len(k) \in Nat /\ T \subseteq 1..n
    BY <1>3, <1>5, LenProperties DEF U
  <2>2. \A x : x \in ToSet(k) <=> \E j \in 1..Len(k) : k[j] = x
    BY <2>1 DEF ToSet
  <2>3. \A j \in 1..Len(k) : e[j] \in 1..n /\ k[j] = e[j]
    BY <1>4, <1>6 DEF Places
  <2>4. \A i \in 1..n : i \in T <=> \E j \in 1..Len(k) : e[j] = i
    BY <1>4, <1>6 DEF Places
  <2> QED BY <2>1, <2>2, <2>3, <2>4
<1> HIDE DEF n
<1>8. ToSet(k) = T
  BY <1>7
<1> QED BY <1>2, <1>3, <1>5, <1>8 DEF n, U

LEMMA HeadIs ==
  ASSUME NEW acc \in SearchSet, acc.queue # <<>>
  PROVE  /\ Head(acc.queue) \in CrawlNames /\ Tail(acc.queue) \in Seq(CrawlNames)
         /\ Len(acc.queue) \in Nat /\ Len(acc.queue) > 0 /\ Head(acc.queue) = acc.queue[1]
<1>1. acc.queue \in Seq(CrawlNames)
  BY DEF SearchSet
<1> QED BY <1>1, HeadTailProperties, LenProperties, EmptySeq

LEMMA LeftIs ==
  ASSUME NEW acc \in SearchSet, acc.queue # <<>>
  PROVE  /\ Left(acc) \in SearchSet /\ Left(acc).queue = Tail(acc.queue)
         /\ Left(acc).visited = acc.visited /\ Left(acc).via = acc.via /\ Left(acc).found = acc.found
<1>1. Tail(acc.queue) \in Seq(CrawlNames)
  BY HeadIs
<1>2. Left(acc) = [acc EXCEPT !.queue = Tail(acc.queue)]
  BY DEF Left
<1> QED BY <1>1, <1>2 DEF SearchSet

(* A link is a step to a page, kept as what the page was reached by.       *)
LEMMA LinkIsVia ==
  ASSUME NEW edges \in Seq(EdgeSet), NEW url \in CrawlNames, NEW i \in 1..Len(edges)
  PROVE  /\ edges[i].target \in CrawlNames
         /\ [page |-> url, link |-> i] \in Vias /\ [page |-> url, link |-> i] # None
<1>1. edges[i].target \in CrawlNames /\ Len(edges) \in Nat
  BY EdgeNames
<1>2. [page |-> url, link |-> i] \in [page : Texts, link : Nat]
  BY <1>1, NamesAreTexts
<1> QED BY <1>1, <1>2, PathAssumption DEF Vias

(* One link: nothing once the target is found, else it is found, else its  *)
(* page is visited.                                                        *)
LEMMA FollowedIs ==
  ASSUME OneTextPerPage, NEW edges \in Seq(EdgeSet), NEW acc \in SearchSet, NEW url \in CrawlNames,
         NEW target \in CrawlNames, NEW i \in 1..Len(edges)
  PROVE  LET new == Followed(acc, edges, url, target, i)
             v == [page |-> url, link |-> i]
         IN /\ new \in SearchSet
            /\ acc.found # None => new = acc
            /\ acc.found = None /\ edges[i].target = target =>
                 /\ new.found = target /\ new.via = Put(acc.via, target, v)
                 /\ new.queue = acc.queue /\ new.visited = acc.visited
            /\ acc.found = None /\ edges[i].target # target => new = Visit(acc, edges[i].target, v)
<1> DEFINE v == [page |-> url, link |-> i]
           t == edges[i].target
           new == Followed(acc, edges, url, target, i)
<1>1. t \in CrawlNames /\ v \in Vias
  BY LinkIsVia
<1>2. Overlap(Aliases[t], Aliases[target]) <=> t = target
  BY <1>1, NamesAlone
<1>3. /\ acc.queue \in Seq(CrawlNames) /\ acc.visited \in SUBSET Texts /\ acc.via \in ViaMaps
      /\ acc.found \in CrawlNames \cup {None}
  BY DEF SearchSet
<1> DEFINE after == Put(acc.via, t, v)
<1>4. after \in ViaMaps
  BY <1>1, <1>3, PutVia
<1>5. /\ acc.found # None => new = acc
      /\ acc.found = None /\ t = target => new = [acc EXCEPT !.found = t, !.via = after]
      /\ acc.found = None /\ t # target => new = Visit(acc, t, v)
  BY <1>2 DEF Followed
<1>6. Visit(acc, t, v) \in SearchSet
  BY <1>1, VisitIs
<1> HIDE DEF new, after, v, t
<1>7. acc.found = None /\ t = target =>
        /\ new \in SearchSet /\ new.found = target /\ new.via = after
        /\ new.queue = acc.queue /\ new.visited = acc.visited
  BY <1>1, <1>3, <1>4, <1>5 DEF SearchSet
<1>8. t = target => after = Put(acc.via, target, v)
  BY DEF after
<1> QED BY <1>5, <1>6, <1>7, <1>8 DEF v, t, new

FollowRun(g, from, edges, target) ==
  LET url == Head(from.queue)
      q == Outgoing(edges, url)
  IN /\ g \in [0..Len(q) -> SearchSet] /\ g[0] = Left(from)
     /\ \A k \in 1..Len(q) : g[k] = Followed(g[k-1], edges, url, target, q[k])
     /\ Expand(from, edges, url, target) = g[Len(q)]

LEMMA FollowingIs ==
  ASSUME OneTextPerPage, NEW edges \in Seq(EdgeSet), NEW from \in SearchSet, from.queue # <<>>, NEW target \in CrawlNames
  PROVE  \E g : FollowRun(g, from, edges, target)
<1> DEFINE url == Head(from.queue)
           q == Outgoing(edges, url)
           begin == Left(from)
           n == Len(q)
           V == SearchSet
           H == [p \in (1..n) \X V |-> Followed(p[2], edges, url, target, q[p[1]])]
           Step(g, s) == IF s = {} THEN begin ELSE Followed(g[s \ {Max(s)}], edges, url, target, q[Max(s)])
           IsIter(g) == g = [s \in SUBSET (1..n) |-> Step(g, s)]
           iter == CHOOSE g : IsIter(g)
<1>1. n \in Nat /\ DOMAIN q = 1..n /\ url \in CrawlNames /\ \A k \in 1..n : q[k] \in 1..Len(edges)
  BY HeadIs, OutgoingIs, LenProperties, SMTT(30)
<1>2. begin \in V /\ \A k \in 1..n, v \in V : Followed(v, edges, url, target, q[k]) \in V
  <2> QED BY <1>1, LeftIs, FollowedIs
<1>3. Expand(from, edges, url, target) = iter[1..n]
  BY <1>1 DEF Expand, FoldLeft, Followed, Left, MapThenFoldSet
<1> HIDE DEF V, q, n, begin
<1>4. H \in [(1..n) \X V -> V]
  BY <1>2
<1>5. \E g \in [SUBSET (1..n) -> V] : IsIter(g)
  <2>1. PICK g \in [SUBSET (1..n) -> V] : \A s \in SUBSET (1..n) :
             g[s] = IF s = {} THEN begin ELSE H[<<Max(s), g[s \ {Max(s)}]>>]
    <3>1. HasPrefixRecursion(n, V, begin, H)
      <4> HIDE DEF H
      <4> QED BY <1>1, <1>2, <1>4, RecursionOnPrefixes
    <3> HIDE DEF H
    <3> QED BY <3>1 DEF HasPrefixRecursion
  <2>2. ASSUME NEW s \in SUBSET (1..n)
        PROVE  g[s] = Step(g, s)
    <3>1. CASE s = {}
      BY <2>1, <3>1
    <3>2. CASE s # {}
      <4>1. Max(s) \in 1..n
        BY <1>1, <3>2, MaxOfIndices
      <4> QED BY <2>1, <3>2, <4>1
    <3> QED BY <3>1, <3>2
  <2> HIDE DEF Step
  <2> QED BY <2>2
<1>6. IsIter(iter)
  <2> HIDE DEF IsIter
  <2> QED BY <1>5
<1>7. /\ iter[{}] = begin
      /\ \A j \in 1..n : iter[1..j] = Followed(iter[1..j-1], edges, url, target, q[j])
  <2> HIDE DEF iter
  <2>1. \A s \in SUBSET (1..n) : iter[s] = Step(iter, s)
    BY <1>6
  <2> QED BY <1>1, <2>1, PrefixMax
<1> HIDE DEF iter
<1> DEFINE g == [k \in 0..n |-> iter[1..k]]
           T == {k \in 0..n : g[k] \in V}
<1>9. g[0] = begin /\ \A k \in 1..n : g[k] = Followed(g[k-1], edges, url, target, q[k])
  <2>1. 1..0 = {} /\ 0 \in 0..n
    BY <1>1
  <2>2. \A k \in 1..n : k \in 0..n /\ k - 1 \in 0..n
    BY <1>1
  <2> QED BY <1>7, <2>1, <2>2
<1>10. g[n] = iter[1..n]
  BY <1>1
<1>11. DOMAIN g = 0..n /\ g = [k \in 0..n |-> g[k]]
  OBVIOUS
<1> HIDE DEF g
<1>12. \A k \in 0..n : k \in T
  <2>1. 0 \in T
    BY <1>1, <1>2, <1>9
  <2>2. \A k \in 1..n : k - 1 \in T => k \in T
    BY <1>1, <1>2, <1>9
  <2> HIDE DEF T
  <2> QED BY <1>1, <2>1, <2>2, InductionUpTo
<1>13. g \in [0..n -> V]
  BY <1>11, <1>12
<1> QED BY <1>3, <1>9, <1>10, <1>13 DEF FollowRun, n, q, V, begin

-----------------------------------------------------------------------------
(* The order of the search.                                                *)

OneOn(lev, t, l) == t \in DOMAIN lev /\ lev[t] = l + 1

(* The queue holds the pages of one distance, then those one link further. *)
InTurn(q, lev, l) ==
  /\ \A i \in 1..Len(q) : lev[q[i]] \in {l, l + 1}
  /\ \A i, j \in 1..Len(q) : i <= j => lev[q[i]] <= lev[q[j]]

(* The link a page was first reached by leads one link further from a page *)
(* that is a start or was reached so itself.                               *)
Linked(via, lev, edges) ==
  \A t \in DOMAIN via :
    LET page == via[t].page
        i == via[t].link
    IN /\ i \in 1..Len(edges) /\ edges[i].source = page /\ edges[i].target = t
       /\ page \in DOMAIN lev /\ OneOn(lev, t, lev[page])
       /\ lev[page] # 0 => page \in DOMAIN via

(* The search goes on: what it has met, and E, the pages it left.          *)
Searching(acc, lev, edges, target, E, l) ==
  /\ Visited(acc) /\ acc.found = None /\ l \in Nat
  /\ Met(acc) \subseteq DOMAIN lev /\ ToSet(Starts(edges)) \subseteq Met(acc)
  /\ target \notin Met(acc)
  /\ Range(acc.queue) \subseteq Met(acc) /\ IsInjective(acc.queue)
  /\ E = Expanded(acc) /\ InTurn(acc.queue, lev, l) /\ \A t \in E : lev[t] <= l
  /\ Linked(acc.via, lev, edges) /\ \A t \in Met(acc) : lev[t] # 0 => t \in DOMAIN acc.via

(* Every link of these pages leads to a page met.                          *)
ClosedFor(pages, M, edges) ==
  \A i \in 1..Len(edges) : edges[i].source \in pages => edges[i].target \in M

LEMMA Levels ==
  ASSUME NEW edges \in Seq(EdgeSet), NEW lev, Distances(lev, edges)
  PROVE  /\ DOMAIN lev \in SUBSET CrawlNames /\ \A t \in DOMAIN lev : lev[t] \in Nat /\ lev[t] <= Len(edges)
         /\ \A i \in 1..Len(edges) : edges[i].source \in DOMAIN lev =>
              edges[i].target \in DOMAIN lev /\ lev[edges[i].target] <= lev[edges[i].source] + 1
<1>1. Len(edges) \in Nat
  BY EdgeNames
<1> QED BY <1>1 DEF Distances

(* One more page at the end of the queue.                                  *)
LEMMA AppendOne ==
  ASSUME NEW S, NEW q \in Seq(S), NEW t \in S, t \notin Range(q), IsInjective(q)
  PROVE  IsInjective(Append(q, t)) /\ Range(Append(q, t)) = Range(q) \cup {t}
<1> DEFINE p == Append(q, t)
           n == Len(q)
<1>1. n \in Nat /\ DOMAIN q = 1..n
  BY LenProperties
<1>2. /\ Len(p) = n + 1 /\ DOMAIN p = 1..(n + 1) /\ p[n+1] = t
      /\ \A i \in 1..n : p[i] = q[i]
  BY <1>1, AppendProperties, LenProperties
<1> HIDE DEF p
<1>3. \A i \in 1..(n + 1) : i \in 1..n \/ i = n + 1
  BY <1>1
<1>4. \A i \in 1..n : q[i] \in Range(q) /\ q[i] # t
  BY <1>1 DEF Range
<1>5. Range(p) = Range(q) \cup {t}
  BY <1>1, <1>2, <1>3 DEF Range
<1>6. IsInjective(p)
  <2>1. \A i, j \in 1..n : q[i] = q[j] => i = j
    BY <1>1 DEF IsInjective
  <2> QED BY <1>2, <1>3, <1>4, <2>1 DEF IsInjective
<1> QED BY <1>5, <1>6 DEF p

LEMMA AppendInTurn ==
  ASSUME NEW q \in Seq(CrawlNames), NEW lev, NEW l \in Nat, NEW t \in CrawlNames, OneOn(lev, t, l),
         InTurn(q, lev, l)
  PROVE  InTurn(Append(q, t), lev, l)
<1> DEFINE p == Append(q, t)
           n == Len(q)
<1>1. n \in Nat /\ DOMAIN q = 1..n
  BY LenProperties
<1>2. Len(p) = n + 1 /\ p[n+1] = t /\ \A i \in 1..n : p[i] = q[i]
  BY <1>1, AppendProperties, LenProperties
<1> HIDE DEF p
<1>3. \A i \in 1..(n + 1) : i \in 1..n \/ i = n + 1
  BY <1>1
<1>4. \A i \in 1..n : lev[q[i]] \in {l, l + 1}
  BY DEF InTurn
<1>7. InTurn(p, lev, l)
  <2>1. lev[t] = l + 1
    BY DEF OneOn
  <2>2. \A i, j \in 1..n : i <= j => lev[q[i]] <= lev[q[j]]
    BY <1>1 DEF InTurn
  <2>3. \A i \in 1..(n + 1) : lev[p[i]] \in {l, l + 1}
    BY <1>2, <1>3, <1>4, <2>1
  <2>4. ASSUME NEW i \in 1..(n + 1), NEW j \in 1..(n + 1), i <= j PROVE lev[p[i]] <= lev[p[j]]
    <3>1. CASE j = n + 1
      <4>1. p[j] = t /\ lev[p[i]] \in {l, l + 1}
        BY <1>2, <2>3, <3>1
      <4> QED BY <2>1, <4>1
    <3>2. CASE j \in 1..n
      <4>1. i \in 1..n
        BY <1>1, <2>4, <3>2
      <4> QED BY <1>2, <2>2, <2>4, <3>2, <4>1
    <3> QED BY <1>3, <3>1, <3>2
  <2> QED BY <1>2, <2>3, <2>4 DEF InTurn
<1> QED BY <1>7 DEF p

LEMMA LinkedOn ==
  ASSUME NEW edges \in Seq(EdgeSet), NEW lev, NEW via \in ViaMaps, Linked(via, lev, edges),
         NEW i \in 1..Len(edges), edges[i].source \in DOMAIN lev,
         OneOn(lev, edges[i].target, lev[edges[i].source]),
         lev[edges[i].source] # 0 => edges[i].source \in DOMAIN via
  PROVE  Linked(Put(via, edges[i].target, [page |-> edges[i].source, link |-> i]), lev, edges)
<1> DEFINE u == edges[i].source
           t == edges[i].target
           v == [page |-> u, link |-> i]
           new == Put(via, t, v)
<1>1. t \in CrawlNames /\ v \in Vias /\ u \in CrawlNames
  BY EdgeNames, LinkIsVia
<1>2. v.page = u /\ v.link = i
  OBVIOUS
<1> HIDE DEF v
<1>3. DOMAIN new = DOMAIN via \cup {t} /\ new[t] = v /\ \A x \in DOMAIN via : x # t => new[x] = via[x]
  <2>1. t \in CrawlNames /\ v \in Vias
    BY <1>1
  <2> HIDE DEF t
  <2> QED BY <2>1, PutVia
<1> HIDE DEF new
<1>4. ASSUME NEW x \in DOMAIN new
      PROVE  /\ new[x].link \in 1..Len(edges) /\ edges[new[x].link].source = new[x].page
             /\ edges[new[x].link].target = x
             /\ new[x].page \in DOMAIN lev /\ OneOn(lev, x, lev[new[x].page])
             /\ lev[new[x].page] # 0 => new[x].page \in DOMAIN new
  <2>1. CASE x = t
    BY <1>2, <1>3, <2>1
  <2>2. CASE x # t
    BY <1>3, <2>2 DEF Linked
  <2> QED BY <2>1, <2>2
<1>5. Linked(new, lev, edges)
  BY <1>4 DEF Linked
<1> QED BY <1>5 DEF new, v

(* A page that is new when the search leaves u is one link further than u. *)
LEMMA NewIsFurther ==
  ASSUME NEW edges \in Seq(EdgeSet), NEW lev, Distances(lev, edges), NEW acc, NEW target, NEW l, NEW E,
         Searching(acc, lev, edges, target, E, l), NEW u \in E, lev[u] = l,
         ClosedFor(E \ {u}, Met(acc), edges),
         NEW i \in 1..Len(edges), edges[i].source = u, edges[i].target \notin Met(acc)
  PROVE  OneOn(lev, edges[i].target, l) /\ l \in Nat /\ u \in DOMAIN lev
<1> DEFINE M == Met(acc)
           t == edges[i].target
<1>1. u \in DOMAIN lev /\ u \in M /\ l \in Nat
  BY Levels DEF Searching, Expanded
<1>2. t \in DOMAIN lev /\ lev[t] <= l + 1 /\ lev[t] \in Nat
  BY <1>1, Levels
<1>3. ASSUME NEW k \in 1..Len(edges), edges[k].source \in M, edges[k].source \in DOMAIN lev,
             lev[edges[k].source] < l
      PROVE  edges[k].target \in M
  <2> DEFINE s == edges[k].source
  <2>1. acc.queue \in Seq(CrawlNames)
    BY DEF Searching, Visited, SearchSet
  <2>2. s \notin Range(acc.queue)
    <3> SUFFICES ASSUME s \in Range(acc.queue) PROVE FALSE
      OBVIOUS
    <3>1. PICK j \in 1..Len(acc.queue) : acc.queue[j] = s
      BY <2>1, LenProperties DEF Range
    <3>2. lev[s] \in {l, l + 1}
      BY <3>1 DEF Searching, InTurn
    <3> QED BY <1>1, <1>3, <3>2
  <2>3. s \in E \ {u}
    BY <1>1, <1>3, <2>2 DEF Searching, Expanded
  <2> QED BY <2>3 DEF ClosedFor
<1>4. \A x \in DOMAIN lev : lev[x] <= l => x \in M
  <2>1. ToSet(Starts(edges)) \subseteq M
    BY DEF Searching
  <2> HIDE DEF M
  <2> QED BY <1>1, <1>3, <2>1, NearPagesAreIn
<1>5. ~(lev[t] <= l)
  BY <1>2, <1>4
<1> QED BY <1>1, <1>2, <1>5 DEF OneOn

FoundIt(acc, lev, edges, target) ==
  /\ acc \in SearchSet /\ acc.found = target
  /\ Linked(acc.via, lev, edges) /\ target \in DOMAIN acc.via

(* One link of the page u the search leaves.                               *)
LEMMA LinkFollowed ==
  ASSUME OneTextPerPage, NEW edges \in Seq(EdgeSet), NEW lev, Distances(lev, edges),
         NEW target \in CrawlNames, NEW acc, NEW l, NEW E,
         Searching(acc, lev, edges, target, E, l), NEW u \in E, lev[u] = l,
         ClosedFor(E \ {u}, Met(acc), edges),
         NEW i \in 1..Len(edges), edges[i].source = u
  PROVE  LET new == Followed(acc, edges, u, target, i)
         IN /\ edges[i].target = target => FoundIt(new, lev, edges, target)
            /\ edges[i].target # target =>
                 /\ Searching(new, lev, edges, target, E, l)
                 /\ Met(acc) \subseteq Met(new) /\ edges[i].target \in Met(new)
<1> DEFINE t == edges[i].target
           v == [page |-> u, link |-> i]
           new == Followed(acc, edges, u, target, i)
<1>1. /\ acc \in SearchSet /\ acc.found = None /\ Visited(acc) /\ Met(acc) \in SUBSET CrawlNames
      /\ acc.queue \in Seq(CrawlNames) /\ acc.via \in ViaMaps
  BY DEF Searching, Visited, Met, SearchSet
<1>2. t \in CrawlNames /\ u \in CrawlNames
  BY EdgeNames
<1>3. v \in Vias /\ v # None
  BY <1>2, LinkIsVia
<1>4. u \in Met(acc) /\ u \in DOMAIN lev /\ (lev[u] # 0 => u \in DOMAIN acc.via)
  BY DEF Searching, Expanded
<1>5. t \notin Met(acc) => OneOn(lev, t, l) /\ l \in Nat
  BY NewIsFurther
<1>6. Linked(acc.via, lev, edges)
  BY DEF Searching
<1>7. t \notin Met(acc) => Linked(Put(acc.via, t, v), lev, edges)
  BY <1>1, <1>4, <1>5, <1>6, LinkedOn
<1>8. /\ new \in SearchSet
      /\ t = target => /\ new.found = target /\ new.via = Put(acc.via, target, v)
      /\ t # target => new = Visit(acc, t, v)
  BY <1>1, <1>2, FollowedIs
<1>9. ASSUME t = target PROVE FoundIt(new, lev, edges, target)
  <2>1. t \notin Met(acc)
    BY <1>9 DEF Searching
  <2>2. target \in DOMAIN Put(acc.via, target, v)
    <3> DEFINE via == acc.via
    <3>1. via \in ViaMaps /\ v \in Vias
      BY <1>1, <1>3
    <3> HIDE DEF v, via
    <3>2. DOMAIN Put(via, target, v) = DOMAIN via \cup {target}
      BY <3>1, PutVia
    <3> QED BY <3>2 DEF via
  <2> HIDE DEF v, new
  <2> QED BY <1>7, <1>8, <1>9, <2>1, <2>2 DEF FoundIt
<1>10. ASSUME t # target
       PROVE  /\ Searching(new, lev, edges, target, E, l)
              /\ Met(acc) \subseteq Met(new) /\ t \in Met(new)
  <2>1. /\ t \in Met(acc) => Visit(acc, t, v) = acc
        /\ t \notin Met(acc) => /\ Visits(Visit(acc, t, v), acc, t, v)
                                /\ Met(Visit(acc, t, v)) = Met(acc) \cup {t}
        /\ Visited(Visit(acc, t, v))
    BY <1>1, <1>2, <1>3, VisitMeets
  <2>2. CASE t \in Met(acc)
    BY <1>8, <1>10, <2>1, <2>2
  <2>3. CASE t \notin Met(acc)
    <3> HIDE DEF new
    <3>1. /\ Visited(new) /\ Met(new) = Met(acc) \cup {t} /\ new.queue = Append(acc.queue, t)
          /\ new.found = None /\ new.via = Put(acc.via, t, v)
      BY <1>1, <1>3, <1>8, <1>10, <2>1, <2>3 DEF Visits
    <3>2. Range(acc.queue) \subseteq Met(acc) /\ IsInjective(acc.queue) /\ InTurn(acc.queue, lev, l)
      BY DEF Searching
    <3>4. t \notin Range(acc.queue)
      BY <2>3, <3>2
    <3>5. /\ IsInjective(Append(acc.queue, t)) /\ InTurn(Append(acc.queue, t), lev, l)
          /\ Range(Append(acc.queue, t)) = Range(acc.queue) \cup {t}
      <4> HIDE DEF t
      <4>1. InTurn(Append(acc.queue, t), lev, l)
        BY <1>1, <1>2, <1>5, <2>3, <3>2, AppendInTurn
      <4> QED BY <1>1, <1>2, <3>2, <3>4, <4>1, AppendOne
    <3>6. Expanded(new) = Expanded(acc)
      BY <2>3, <3>1, <3>4, <3>5 DEF Expanded
    <3>7. DOMAIN new.via = DOMAIN acc.via \cup {t}
      <4> DEFINE via == acc.via
      <4>1. via \in ViaMaps /\ v \in Vias /\ t \in CrawlNames /\ new.via = Put(via, t, v)
        BY <1>1, <1>2, <1>3, <3>1
      <4> HIDE DEF t, v, via
      <4>2. DOMAIN Put(via, t, v) = DOMAIN via \cup {t}
        BY <4>1, PutVia
      <4> QED BY <4>1, <4>2 DEF via
    <3>8. Linked(new.via, lev, edges)
      BY <1>7, <2>3, <3>1
    <3>9. t \in DOMAIN lev
      BY <1>5, <2>3 DEF OneOn
    <3> HIDE DEF t, v
    <3> QED BY <1>10, <3>1, <3>2, <3>5, <3>6, <3>7, <3>8, <3>9 DEF Searching
  <2> QED BY <2>2, <2>3
<1> QED BY <1>9, <1>10

(* The search leaves the first page of its queue.                          *)
LEMMA HeadLeft ==
  ASSUME NEW edges \in Seq(EdgeSet), NEW lev, Distances(lev, edges), NEW target, NEW acc, NEW l, NEW E,
         Searching(acc, lev, edges, target, E, l), acc.queue # <<>>
  PROVE  LET u == Head(acc.queue)
         IN /\ u \in CrawlNames /\ u \notin E /\ Met(Left(acc)) = Met(acc)
            /\ Searching(Left(acc), lev, edges, target, E \cup {u}, lev[u])
<1> DEFINE u == Head(acc.queue)
           q == acc.queue
           p == Tail(q)
<1>1. /\ acc \in SearchSet /\ Visited(acc) /\ q \in Seq(CrawlNames) /\ Met(acc) \in SUBSET CrawlNames
      /\ acc.visited = AliasesOf(Met(acc))
  BY DEF Searching, Visited, Met, SearchSet
<1>2. /\ Left(acc) \in SearchSet /\ Left(acc).queue = p /\ Left(acc).visited = acc.visited
      /\ Left(acc).via = acc.via /\ Left(acc).found = acc.found
  BY <1>1, LeftIs
<1>3. Met(Left(acc)) = Met(acc) /\ Visited(Left(acc))
  BY <1>1, <1>2 DEF Met, Visited
<1>4. Range(q) \subseteq Met(acc) /\ IsInjective(q) /\ InTurn(q, lev, l)
  BY DEF Searching
<1>5. p \in Seq(CrawlNames) /\ u \in Range(q) /\ Range(p) = Range(q) \ {u} /\ IsInjective(p)
  BY <1>1, <1>4, TailRange
<1>6. u \in CrawlNames /\ u \notin E /\ Expanded(Left(acc)) = E \cup {u}
  BY <1>1, <1>2, <1>3, <1>4, <1>5 DEF Expanded, Searching
<1>7. /\ Len(q) \in Nat /\ Len(p) = Len(q) - 1 /\ \A i \in 1..Len(p) : p[i] = q[i+1]
      /\ u = q[1] /\ Len(q) > 0 /\ DOMAIN q = 1..Len(q)
  BY <1>1, HeadIs, HeadTailProperties, LenProperties
<1>8. \A x \in Met(acc) : lev[x] \in Nat
  BY Levels DEF Searching
<1> HIDE DEF p
<1>9. lev[u] \in {l, l + 1} /\ lev[u] \in Nat /\ l <= lev[u]
  <2>1. lev[u] \in {l, l + 1} /\ lev[u] \in Nat
    BY <1>4, <1>5, <1>7, <1>8 DEF InTurn
  <2>2. l \in Nat
    BY DEF Searching
  <2> QED BY <2>1, <2>2
<1>10. InTurn(p, lev, lev[u])
  <2>1. ASSUME NEW i \in 1..Len(p)
        PROVE  i + 1 \in 1..Len(q) /\ lev[q[i+1]] \in {l, l + 1} /\ lev[u] <= lev[q[i+1]]
    BY <1>4, <1>7 DEF InTurn
  <2>2. \A i \in 1..Len(p) : lev[p[i]] \in {lev[u], lev[u] + 1}
    <3> SUFFICES ASSUME NEW i \in 1..Len(p) PROVE lev[p[i]] \in {lev[u], lev[u] + 1}
      OBVIOUS
    <3> DEFINE x == lev[q[i+1]]
               y == lev[u]
    <3>1. l \in Nat /\ x \in {l, l + 1} /\ y \in {l, l + 1} /\ y <= x
      BY <1>9, <2>1 DEF Searching
    <3>2. lev[p[i]] = x
      BY <1>7
    <3> HIDE DEF x, y
    <3>3. x \in {y, y + 1}
      BY <3>1
    <3> QED BY <3>2, <3>3 DEF y
  <2>3. ASSUME NEW i \in 1..Len(p), NEW j \in 1..Len(p), i <= j PROVE lev[p[i]] <= lev[p[j]]
    <3>1. i + 1 \in 1..Len(q) /\ j + 1 \in 1..Len(q) /\ i + 1 <= j + 1
      BY <1>7, <2>3
    <3>2. lev[q[i+1]] <= lev[q[j+1]]
      BY <1>4, <3>1 DEF InTurn
    <3> QED BY <1>7, <3>2
  <2> QED BY <2>2, <2>3 DEF InTurn
<1>11. \A t \in E \cup {u} : lev[t] <= lev[u]
  <2> HIDE DEF u
  <2> QED BY <1>8, <1>9 DEF Searching, Expanded
<1>12. Searching(Left(acc), lev, edges, target, E \cup {u}, lev[u])
  <2>1. lev[u] \in Nat
    BY <1>9
  <2> HIDE DEF u
  <2>2. E \cup {u} = Expanded(Left(acc)) /\ \A t \in E \cup {u} : lev[t] <= lev[u]
    BY <1>6, <1>11
  <2>3. /\ Range(Left(acc).queue) \subseteq Met(Left(acc)) /\ IsInjective(Left(acc).queue)
        /\ InTurn(Left(acc).queue, lev, lev[u])
    BY <1>2, <1>3, <1>4, <1>5, <1>10
  <2>4. /\ Left(acc).found = None /\ Met(Left(acc)) \subseteq DOMAIN lev
        /\ ToSet(Starts(edges)) \subseteq Met(Left(acc)) /\ target \notin Met(Left(acc))
        /\ Linked(Left(acc).via, lev, edges)
        /\ \A t \in Met(Left(acc)) : lev[t] # 0 => t \in DOMAIN Left(acc).via
    BY <1>2, <1>3 DEF Searching
  <2> QED BY <1>3, <2>1, <2>2, <2>3, <2>4 DEF Searching
<1> QED BY <1>3, <1>6, <1>12

(* It follows the links of a page, one by one.                             *)
LEMMA ExpandIs ==
  ASSUME OneTextPerPage, NEW edges \in Seq(EdgeSet), NEW lev, Distances(lev, edges),
         NEW target \in CrawlNames, NEW acc, NEW l, NEW E,
         Searching(acc, lev, edges, target, E, l), acc.queue # <<>>, ClosedFor(E, Met(acc), edges)
  PROVE  LET u == Head(acc.queue)
             new == Expand(acc, edges, u, target)
         IN /\ u \in CrawlNames /\ u \notin E
            /\ \/ FoundIt(new, lev, edges, target)
               \/ Searching(new, lev, edges, target, E \cup {u}, lev[u])
                  /\ ClosedFor(E \cup {u}, Met(new), edges)
<1> DEFINE u == Head(acc.queue)
           q == Outgoing(edges, u)
           n == Len(q)
           F == E \cup {u}
<1>1. acc \in SearchSet
  BY DEF Searching, Visited
<1>2. /\ u \in CrawlNames /\ u \notin E /\ Met(Left(acc)) = Met(acc)
      /\ Searching(Left(acc), lev, edges, target, F, lev[u])
  BY HeadLeft
<1>3. PICK g : FollowRun(g, acc, edges, target)
  BY <1>1, FollowingIs
<1>4. /\ g \in [0..n -> SearchSet] /\ g[0] = Left(acc)
      /\ \A k \in 1..n : g[k] = Followed(g[k-1], edges, u, target, q[k])
      /\ Expand(acc, edges, u, target) = g[n]
  BY <1>3 DEF FollowRun
<1> HIDE DEF u
<1>5. q \in Seq(1..Len(edges)) /\ ToSet(q) = {i \in 1..Len(edges) : edges[i].source = u}
  BY <1>2, OutgoingIs
<1> HIDE DEF q
<1>6. n \in Nat /\ DOMAIN q = 1..n /\ \A k \in 1..n : q[k] \in 1..Len(edges) /\ edges[q[k]].source = u
  BY <1>5, LenProperties, ElementOfSeq DEF ToSet
<1>7. F \ {u} = E /\ u \in F
  BY <1>2
<1> HIDE DEF F, n
<1> DEFINE On(k) == /\ Searching(g[k], lev, edges, target, F, lev[u]) /\ ClosedFor(E, Met(g[k]), edges)
                    /\ \A j \in 1..k : edges[q[j]].target \in Met(g[k])
           Good == {k \in 0..n : FoundIt(g[k], lev, edges, target) \/ On(k)}
<1>8. 0 \in Good
  BY <1>2, <1>4, <1>6
<1>9. ASSUME NEW k \in 1..n, k - 1 \in Good PROVE k \in Good
  <2>1. k \in 0..n /\ k - 1 \in 0..n /\ g[k-1] \in SearchSet
    BY <1>4, <1>6
  <2> DEFINE old == g[k-1]
             i == q[k]
  <2>2. i \in 1..Len(edges) /\ edges[i].source = u /\ g[k] = Followed(old, edges, u, target, i)
    BY <1>4, <1>6
  <2>3. ASSUME FoundIt(old, lev, edges, target) PROVE g[k] = old
    <3>1. old.found # None /\ old \in SearchSet
      BY <2>3, NamesAreTexts, StoreAssumption DEF FoundIt
    <3> HIDE DEF old, i
    <3>2. old.found # None => Followed(old, edges, u, target, i) = old
      BY DEF Followed
    <3> QED BY <2>2, <3>1, <3>2
  <2>4. ASSUME On(k - 1) PROVE FoundIt(g[k], lev, edges, target) \/ On(k)
    <3>1. Searching(old, lev, edges, target, F, lev[u]) /\ ClosedFor(F \ {u}, Met(old), edges)
      BY <1>7, <2>4
    <3> HIDE DEF old, i
    <3>2. /\ edges[i].target = target => FoundIt(g[k], lev, edges, target)
          /\ edges[i].target # target =>
               /\ Searching(g[k], lev, edges, target, F, lev[u])
               /\ Met(old) \subseteq Met(g[k]) /\ edges[i].target \in Met(g[k])
      BY <1>7, <2>2, <3>1, LinkFollowed
    <3>3. \A j \in 1..k : j \in 1..(k - 1) \/ j = k
      BY <1>6
    <3>4. \A j \in 1..(k - 1) : edges[q[j]].target \in Met(old)
      BY <2>4 DEF old
    <3>5. edges[i].target # target => On(k)
      BY <1>7, <3>1, <3>2, <3>3, <3>4 DEF ClosedFor, i
    <3> HIDE DEF On
    <3> QED BY <3>2, <3>5
  <2> HIDE DEF On
  <2> QED BY <1>9, <2>1, <2>3, <2>4
<1>10. n \in Good
  <2> HIDE DEF Good
  <2>1. \A k \in 0..n : k \in Good
    BY <1>6, <1>8, <1>9, InductionUpTo
  <2> QED BY <1>6, <2>1
<1>11. On(n) => ClosedFor(F, Met(g[n]), edges)
  <2> SUFFICES ASSUME On(n), NEW i \in 1..Len(edges), edges[i].source \in F
               PROVE  edges[i].target \in Met(g[n])
    BY DEF ClosedFor
  <2>1. CASE edges[i].source \in E
    BY <2>1 DEF ClosedFor
  <2>2. CASE edges[i].source = u
    <3>1. PICK j \in 1..n : q[j] = i
      BY <1>5, <1>6, <2>2 DEF ToSet
    <3> QED BY <3>1
  <2> QED BY <2>1, <2>2 DEF F
<1>12. \/ FoundIt(g[n], lev, edges, target)
       \/ Searching(g[n], lev, edges, target, F, lev[u]) /\ ClosedFor(F, Met(g[n]), edges)
  BY <1>10, <1>11
<1> HIDE DEF Good, On
<1> QED BY <1>2, <1>4, <1>12 DEF F, u

(* With the starts in the queue, it has left no page yet.                  *)
LEMMA BeganSearches ==
  ASSUME OneTextPerPage, NEW edges \in Seq(EdgeSet), NEW lev, Distances(lev, edges),
         NEW target \in CrawlNames, target \notin ToSet(Starts(edges))
  PROVE  Searching(Began(edges), lev, edges, target, {}, 0)
<1> DEFINE q == Starts(edges)
           n == Len(q)
<1>1. n \in Nat /\ DOMAIN q = 1..n /\ \A k \in 1..n : q[k] \in CrawlNames
  BY StartsAre, LenProperties, ElementOfSeq
<1>2. PICK g : BeginRun(g, edges)
  BY BeganIs
<1>3. /\ g \in [0..n -> SearchSet] /\ g[0] = NoSearch /\ Began(edges) = g[n]
      /\ \A k \in 1..n : g[k] = Visit(g[k-1], q[k], None)
  BY <1>2 DEF BeginRun
<1>4. ToSet(q) = {q[j] : j \in 1..n}
  BY <1>1 DEF ToSet
<1> HIDE DEF q, n
<1> DEFINE First(k) == {q[j] : j \in 1..k}
           Good == {k \in 0..n : /\ Visited(g[k]) /\ g[k].found = None /\ g[k].via = NoVias
                                 /\ Met(g[k]) = First(k)
                                 /\ Range(g[k].queue) = Met(g[k]) /\ IsInjective(g[k].queue)}
<1>5. 0 \in Good
  <2>1. /\ NoSearch.visited = {} /\ NoSearch.queue = <<>> /\ NoSearch.found = None
        /\ NoSearch.via = NoVias
    BY DEF NoSearch, NoVias
  <2>2. Met(NoSearch) = {} /\ AliasesOf({}) = {}
    BY <2>1 DEF Met, AliasesOf
  <2>3. First(0) = {}
    OBVIOUS
  <2>4. Range(<<>>) = {} /\ IsInjective(<<>>)
    BY EmptyRange
  <2>5. Visited(NoSearch)
    BY <2>1, <2>2, NoSearchIs DEF Visited
  <2>6. /\ Visited(g[0]) /\ g[0].found = None /\ g[0].via = NoVias /\ Met(g[0]) = {}
        /\ Range(g[0].queue) = Met(g[0]) /\ IsInjective(g[0].queue)
    BY <1>3, <2>1, <2>2, <2>4, <2>5
  <2> HIDE DEF First
  <2>7. 0 \in 0..n
    BY <1>1
  <2> QED BY <2>3, <2>6, <2>7
<1>6. ASSUME NEW k \in 1..n, k - 1 \in Good PROVE k \in Good
  <2> DEFINE old == g[k-1]
             t == q[k]
             new == g[k]
  <2>1. k \in 0..n /\ t \in CrawlNames /\ new = Visit(old, t, None)
    BY <1>1, <1>3
  <2>2. First(k) = First(k - 1) \cup {t}
    <3>1. \A j \in 1..k : j \in 1..(k - 1) \/ j = k
      BY <1>1
    <3>2. 1..(k - 1) \subseteq 1..k /\ k \in 1..k
      BY <1>1
    <3> QED BY <3>1, <3>2
  <2> HIDE DEF First
  <2>3. /\ Visited(old) /\ old.found = None /\ old.via = NoVias /\ Met(old) = First(k - 1)
        /\ Range(old.queue) = Met(old) /\ IsInjective(old.queue) /\ old.queue \in Seq(CrawlNames)
    BY <1>6 DEF Visited, SearchSet
  <2> HIDE DEF old, t
  <2>4. /\ t \in Met(old) => Visit(old, t, None) = old
        /\ t \notin Met(old) => /\ Visits(Visit(old, t, None), old, t, None)
                                /\ Met(Visit(old, t, None)) = Met(old) \cup {t}
        /\ Visited(Visit(old, t, None))
    BY <2>1, <2>3, VisitMeets
  <2>5. CASE t \in Met(old)
    <3>1. new = old /\ Met(old) = First(k)
      BY <2>1, <2>2, <2>3, <2>4, <2>5
    <3> QED BY <2>1, <2>3, <3>1
  <2>6. CASE t \notin Met(old)
    <3>1. IsInjective(Append(old.queue, t)) /\ Range(Append(old.queue, t)) = Range(old.queue) \cup {t}
      BY <2>1, <2>3, <2>6, AppendOne
    <3>2. /\ new.queue = Append(old.queue, t) /\ new.found = None /\ new.via = NoVias /\ Visited(new)
          /\ Met(new) = Met(old) \cup {t}
      BY <2>1, <2>3, <2>4, <2>6 DEF Visits
    <3> HIDE DEF new
    <3>3. Met(new) = First(k) /\ Range(new.queue) = Met(new) /\ IsInjective(new.queue)
      BY <2>2, <2>3, <3>1, <3>2
    <3> QED BY <2>1, <3>2, <3>3 DEF new
  <2> QED BY <2>5, <2>6
<1>7. n \in Good
  <2> HIDE DEF Good
  <2>1. \A k \in 0..n : k \in Good
    BY <1>1, <1>5, <1>6, InductionUpTo
  <2> QED BY <1>1, <2>1
<1> DEFINE acc == Began(edges)
<1>8. /\ Visited(acc) /\ acc.found = None /\ acc.via = NoVias /\ Met(acc) = ToSet(q)
      /\ Range(acc.queue) = Met(acc) /\ IsInjective(acc.queue) /\ acc.queue \in Seq(CrawlNames)
  BY <1>3, <1>4, <1>7 DEF Visited, SearchSet
<1> HIDE DEF Good, acc
<1>9. \A t \in Met(acc) : t \in DOMAIN lev /\ lev[t] = 0
  BY <1>8, StartsAre DEF Distances, q
<1>10. InTurn(acc.queue, lev, 0)
  <2>1. \A i \in 1..Len(acc.queue) : lev[acc.queue[i]] = 0
    BY <1>8, <1>9, LenProperties DEF Range
  <2> QED BY <2>1 DEF InTurn
<1>11. Linked(acc.via, lev, edges)
  BY <1>8, NoViasAre DEF Linked
<1>12. Expanded(acc) = {}
  BY <1>8 DEF Expanded
<1>13. Searching(acc, lev, edges, target, {}, 0)
  BY <1>8, <1>9, <1>10, <1>11, <1>12 DEF Searching, q
<1> QED BY <1>13 DEF acc

(* The search leaves the first page of its queue, while there is one and   *)
(* the target is not found.                                                *)
Pursued(acc, edges, target) ==
  IF acc.queue = <<>> \/ acc.found # None THEN acc
  ELSE Expand(acc, edges, Head(acc.queue), target)

LEMMA PursuedIs ==
  ASSUME OneTextPerPage, NEW edges \in Seq(EdgeSet), NEW target \in CrawlNames, NEW acc \in SearchSet
  PROVE  Pursued(acc, edges, target) \in SearchSet
<1>1. CASE acc.queue = <<>> \/ acc.found # None
  BY <1>1 DEF Pursued
<1>2. CASE acc.queue # <<>> /\ acc.found = None
  <2> DEFINE q == Outgoing(edges, Head(acc.queue))
  <2>1. PICK g : FollowRun(g, acc, edges, target)
    BY <1>2, FollowingIs
  <2>2. /\ g \in [0..Len(q) -> SearchSet]
        /\ Pursued(acc, edges, target) = g[Len(q)]
    BY <1>2, <2>1 DEF FollowRun, Pursued
  <2>3. Len(q) \in Nat
    BY <1>2, HeadIs, OutgoingIs, LenProperties
  <2> QED BY <2>2, <2>3
<1> QED BY <1>1, <1>2

SearchRun(g, edges, target) ==
  /\ g \in [0..Cardinality(Texts) -> SearchSet] /\ g[0] = Began(edges)
  /\ \A k \in 1..Cardinality(Texts) : g[k] = Pursued(g[k-1], edges, target)
  /\ Search(edges, target) = g[Cardinality(Texts)]

LEMMA SearchIs ==
  ASSUME OneTextPerPage, NEW edges \in Seq(EdgeSet), NEW target \in CrawlNames
  PROVE  \E g : SearchRun(g, edges, target)
<1> DEFINE q == [i \in 1..Cardinality(Texts) |-> i]
           begin == Began(edges)
           n == Cardinality(Texts)
           V == SearchSet
           H == [p \in (1..n) \X V |-> Pursued(p[2], edges, target)]
           Step(g, s) == IF s = {} THEN begin ELSE Pursued(g[s \ {Max(s)}], edges, target)
           IsIter(g) == g = [s \in SUBSET (1..n) |-> Step(g, s)]
           iter == CHOOSE g : IsIter(g)
<1>1. n \in Nat /\ DOMAIN q = 1..n
  BY StoreAssumption, FS_CardinalityType
<1>2. begin \in V /\ \A v \in V : Pursued(v, edges, target) \in V
  <2> QED BY BeganIs, StartsAre, LenProperties, PursuedIs DEF BeginRun
<1>3. Search(edges, target) = iter[1..n]
  BY <1>1 DEF Search, FoldLeft, Pursued, Began, NoSearch, MapThenFoldSet
<1> HIDE DEF V, q, n, begin
<1>4. H \in [(1..n) \X V -> V]
  BY <1>2
<1>5. \E g \in [SUBSET (1..n) -> V] : IsIter(g)
  <2>1. PICK g \in [SUBSET (1..n) -> V] : \A s \in SUBSET (1..n) :
             g[s] = IF s = {} THEN begin ELSE H[<<Max(s), g[s \ {Max(s)}]>>]
    <3>1. HasPrefixRecursion(n, V, begin, H)
      <4> HIDE DEF H
      <4> QED BY <1>1, <1>2, <1>4, RecursionOnPrefixes
    <3> HIDE DEF H
    <3> QED BY <3>1 DEF HasPrefixRecursion
  <2>2. ASSUME NEW s \in SUBSET (1..n)
        PROVE  g[s] = Step(g, s)
    <3>1. CASE s = {}
      BY <2>1, <3>1
    <3>2. CASE s # {}
      <4>1. Max(s) \in 1..n
        BY <1>1, <3>2, MaxOfIndices
      <4> QED BY <2>1, <3>2, <4>1
    <3> QED BY <3>1, <3>2
  <2> HIDE DEF Step
  <2> QED BY <2>2
<1>6. IsIter(iter)
  <2> HIDE DEF IsIter
  <2> QED BY <1>5
<1>7. /\ iter[{}] = begin
      /\ \A j \in 1..n : iter[1..j] = Pursued(iter[1..j-1], edges, target)
  <2> HIDE DEF iter
  <2>1. \A s \in SUBSET (1..n) : iter[s] = Step(iter, s)
    BY <1>6
  <2> QED BY <1>1, <2>1, PrefixMax
<1> HIDE DEF iter
<1> DEFINE g == [k \in 0..n |-> iter[1..k]]
           T == {k \in 0..n : g[k] \in V}
<1>9. g[0] = begin /\ \A k \in 1..n : g[k] = Pursued(g[k-1], edges, target)
  <2>1. 1..0 = {} /\ 0 \in 0..n
    BY <1>1
  <2>2. \A k \in 1..n : k \in 0..n /\ k - 1 \in 0..n
    BY <1>1
  <2> QED BY <1>7, <2>1, <2>2
<1>10. g[n] = iter[1..n]
  BY <1>1
<1>11. DOMAIN g = 0..n /\ g = [k \in 0..n |-> g[k]]
  OBVIOUS
<1> HIDE DEF g
<1>12. \A k \in 0..n : k \in T
  <2>1. 0 \in T
    BY <1>1, <1>2, <1>9
  <2>2. \A k \in 1..n : k - 1 \in T => k \in T
    BY <1>1, <1>2, <1>9
  <2> HIDE DEF T
  <2> QED BY <1>1, <2>1, <2>2, InductionUpTo
<1>13. g \in [0..n -> V]
  BY <1>11, <1>12
<1> QED BY <1>3, <1>9, <1>10, <1>13 DEF SearchRun, n, V, begin

(* The target is found, or no page is left to leave.                       *)
LEMMA SearchEnds ==
  ASSUME OneTextPerPage, NEW edges \in Seq(EdgeSet), NEW lev, Distances(lev, edges),
         NEW target \in CrawlNames, target \notin ToSet(Starts(edges))
  PROVE  LET acc == Search(edges, target)
         IN \/ FoundIt(acc, lev, edges, target)
            \/ \E E, l : /\ Searching(acc, lev, edges, target, E, l) /\ acc.queue = <<>>
                        /\ ClosedFor(E, Met(acc), edges)
<1> DEFINE n == Cardinality(Texts)
<1>1. n \in Nat
  BY StoreAssumption, FS_CardinalityType
<1>2. PICK g : SearchRun(g, edges, target)
  BY SearchIs
<1>3. /\ g \in [0..n -> SearchSet] /\ g[0] = Began(edges) /\ Search(edges, target) = g[n]
      /\ \A k \in 1..n : g[k] = Pursued(g[k-1], edges, target)
  BY <1>2 DEF SearchRun
<1> DEFINE Goes(acc, k, E, l) == /\ Searching(acc, lev, edges, target, E, l)
                                 /\ ClosedFor(E, Met(acc), edges)
                                 /\ acc.queue = <<>> \/ Cardinality(E) >= k
           On(acc, k) == \E E, l : Goes(acc, k, E, l)
           Good == {k \in 0..n : FoundIt(g[k], lev, edges, target) \/ On(g[k], k)}
<1>4. 0 \in Good
  <2>1. Searching(Began(edges), lev, edges, target, {}, 0)
    BY BeganSearches
  <2>2. Cardinality({}) = 0 /\ ClosedFor({}, Met(Began(edges)), edges)
    BY FS_EmptySet DEF ClosedFor
  <2>3. Goes(Began(edges), 0, {}, 0)
    BY <2>1, <2>2
  <2> HIDE DEF Goes
  <2> QED BY <1>1, <1>3, <2>3
<1>5. ASSUME NEW E, NEW acc, NEW l, Searching(acc, lev, edges, target, E, l)
      PROVE  E \in SUBSET Texts /\ IsFiniteSet(E)
  <2>1. E \in SUBSET CrawlNames
    BY <1>5 DEF Searching, Expanded, Met
  <2> QED BY <2>1, NamesAreTexts, StoreAssumption, FS_Subset
<1>6. ASSUME NEW k \in 1..n, k - 1 \in Good PROVE k \in Good
  <2> DEFINE old == g[k-1]
             new == g[k]
  <2>1. k \in 0..n /\ k - 1 \in 0..n /\ new = Pursued(old, edges, target)
    BY <1>1, <1>3
  <2>2. CASE FoundIt(old, lev, edges, target)
    <3>1. old.found # None
      BY <2>2, NamesAreTexts, StoreAssumption DEF FoundIt
    <3>2. new = old
      BY <2>1, <3>1 DEF Pursued
    <3> QED BY <2>1, <2>2, <3>2
  <2>3. CASE On(old, k - 1)
    <3> HIDE DEF old, new
    <3>1. PICK E, l : Goes(old, k - 1, E, l)
      BY <2>3
    <3>2. Searching(old, lev, edges, target, E, l) /\ ClosedFor(E, Met(old), edges)
          /\ (old.queue = <<>> \/ Cardinality(E) >= k - 1)
      BY <3>1
    <3>3. CASE old.queue = <<>>
      <4>1. new = old
        BY <2>1, <3>3 DEF Pursued
      <4>2. Goes(new, k, E, l)
        BY <3>2, <3>3, <4>1
      <4> HIDE DEF Goes
      <4> QED BY <2>1, <4>2 DEF new
    <3>4. CASE old.queue # <<>>
      <4> DEFINE u == Head(old.queue)
      <4>1. new = Expand(old, edges, u, target)
        BY <2>1, <3>2, <3>4 DEF Pursued, Searching
      <4>2. /\ u \in CrawlNames /\ u \notin E
            /\ \/ FoundIt(new, lev, edges, target)
               \/ Searching(new, lev, edges, target, E \cup {u}, lev[u])
                  /\ ClosedFor(E \cup {u}, Met(new), edges)
        BY <3>2, <3>4, <4>1, ExpandIs
      <4>3. Cardinality(E \cup {u}) = Cardinality(E) + 1 /\ Cardinality(E) \in Nat
        BY <1>5, <3>2, <4>2, FS_AddElement, FS_CardinalityType
      <4>4. Cardinality(E \cup {u}) >= k
        BY <1>1, <3>2, <3>4, <4>3
      <4> HIDE DEF u
      <4>5. FoundIt(new, lev, edges, target) \/ Goes(new, k, E \cup {u}, lev[u])
        BY <4>2, <4>4
      <4> HIDE DEF Goes
      <4> QED BY <2>1, <4>5 DEF new
    <3> QED BY <3>3, <3>4
  <2> HIDE DEF On
  <2> QED BY <1>6, <2>2, <2>3
<1>7. n \in Good
  <2> HIDE DEF Good
  <2>1. \A k \in 0..n : k \in Good
    BY <1>1, <1>4, <1>6, InductionUpTo
  <2> QED BY <1>1, <2>1
<1>8. ASSUME On(g[n], n)
      PROVE  \E E, l : /\ Searching(g[n], lev, edges, target, E, l) /\ g[n].queue = <<>>
                      /\ ClosedFor(E, Met(g[n]), edges)
  <2> DEFINE acc == g[n]
  <2>1. PICK E, l : Goes(acc, n, E, l)
    BY <1>8
  <2> HIDE DEF acc
  <2>2. /\ Searching(acc, lev, edges, target, E, l) /\ ClosedFor(E, Met(acc), edges)
        /\ (acc.queue = <<>> \/ Cardinality(E) >= n)
    BY <2>1
  <2>3. ASSUME acc.queue # <<>> PROVE FALSE
    <3>1. E \in SUBSET Texts /\ Cardinality(E) >= n
      BY <1>5, <2>2, <2>3
    <3>2. E = Texts
      BY <1>1, <3>1, StoreAssumption, FS_Subset, FS_CardinalityType
    <3>3. Head(acc.queue) \in CrawlNames /\ Head(acc.queue) \notin E
      BY <2>2, <2>3, HeadLeft
    <3> QED BY <3>2, <3>3, NamesAreTexts
  <2> QED BY <2>2, <2>3 DEF acc
<1> HIDE DEF On
<1> QED BY <1>3, <1>7, <1>8

(* A search finds what links lead to, and only that.                       *)
LEMMA SearchFinds ==
  ASSUME OneTextPerPage, NEW edges \in Seq(EdgeSet), NEW lev, Distances(lev, edges),
         NEW target \in CrawlNames, target \notin ToSet(Starts(edges))
  PROVE  LET acc == Search(edges, target)
         IN /\ target \in DOMAIN lev => FoundIt(acc, lev, edges, target)
            /\ target \notin DOMAIN lev => acc.found = None
<1> DEFINE acc == Search(edges, target)
<1>1. \/ FoundIt(acc, lev, edges, target)
      \/ \E E, l : /\ Searching(acc, lev, edges, target, E, l) /\ acc.queue = <<>>
                  /\ ClosedFor(E, Met(acc), edges)
  BY SearchEnds
<1> HIDE DEF acc
<1>2. FoundIt(acc, lev, edges, target) => target \in DOMAIN lev
  BY DEF FoundIt, Linked, OneOn
<1>3. ASSUME NEW E, NEW l, Searching(acc, lev, edges, target, E, l), acc.queue = <<>>,
             ClosedFor(E, Met(acc), edges)
      PROVE  target \notin DOMAIN lev /\ acc.found = None
  <2> DEFINE M == Met(acc)
  <2>1. Range(acc.queue) = {}
    BY <1>3, EmptyRange
  <2>2. E = M /\ ToSet(Starts(edges)) \subseteq M /\ target \notin M /\ acc.found = None
    BY <1>3, <2>1 DEF Searching, Expanded
  <2>3. \A i \in 1..Len(edges) : edges[i].source \in M => edges[i].target \in M
    BY <1>3, <2>2 DEF ClosedFor
  <2> HIDE DEF M
  <2>4. Len(edges) \in Nat /\ \A t \in DOMAIN lev : lev[t] <= Len(edges)
    BY EdgeNames, Levels
  <2>5. \A t \in DOMAIN lev : t \in M
    BY <2>2, <2>3, <2>4, NearPagesAreIn
  <2> QED BY <2>2, <2>5
<1> QED BY <1>1, <1>2, <1>3 DEF acc

-----------------------------------------------------------------------------
(* The path, from the page found back to a start.                          *)

WaySet == [at : CrawlNames, links : Seq(Nat)]

Backed(acc, via) ==
  IF acc.at \in DOMAIN via
  THEN [at |-> via[acc.at].page, links |-> <<via[acc.at].link>> \o acc.links]
  ELSE acc

LEMMA BackedIs ==
  ASSUME NEW via \in ViaMaps, NEW acc \in WaySet
  PROVE  Backed(acc, via) \in WaySet
<1>1. CASE acc.at \notin DOMAIN via
  BY <1>1 DEF Backed
<1>2. CASE acc.at \in DOMAIN via
  <2>1. via[acc.at] \in Vias
    BY <1>2, ViaIs
  <2>2. via[acc.at].page \in CrawlNames /\ via[acc.at].link \in Nat /\ acc.links \in Seq(Nat)
    BY <2>1 DEF Vias, WaySet
  <2>3. <<via[acc.at].link>> \in Seq(Nat)
    BY <2>2
  <2>4. <<via[acc.at].link>> \o acc.links \in Seq(Nat)
    BY <2>2, <2>3, ConcatProperties
  <2> QED BY <1>2, <2>2, <2>4 DEF Backed, WaySet
<1> QED BY <1>1, <1>2

BackRun(g, search, max) ==
  /\ g \in [0..(max + 1) -> WaySet] /\ g[0] = [at |-> search.found, links |-> <<>>]
  /\ \A k \in 1..(max + 1) : g[k] = Backed(g[k-1], search.via)
  /\ PathSteps(search, max) = g[max + 1].links

LEMMA BackIs ==
  ASSUME NEW search \in SearchSet, search.found \in CrawlNames, NEW max \in Nat
  PROVE  \E g : BackRun(g, search, max)
<1> DEFINE q == [i \in 1..(max + 1) |-> i]
           begin == [at |-> search.found, links |-> <<>>]
           n == max + 1
           V == WaySet
           H == [p \in (1..n) \X V |-> Backed(p[2], search.via)]
           Step(g, s) == IF s = {} THEN begin ELSE Backed(g[s \ {Max(s)}], search.via)
           IsIter(g) == g = [s \in SUBSET (1..n) |-> Step(g, s)]
           iter == CHOOSE g : IsIter(g)
<1>1. n \in Nat /\ DOMAIN q = 1..n
  OBVIOUS
<1>2. begin \in V /\ \A v \in V : Backed(v, search.via) \in V
  <2>1. begin \in V
    BY EmptySeq DEF WaySet
  <2>2. search.via \in ViaMaps
    BY SMTT(30) DEF SearchSet
  <2> QED BY <2>1, <2>2, BackedIs
<1>3. PathSteps(search, max) = iter[1..n].links
  BY <1>1 DEF PathSteps, FoldLeft, Backed, MapThenFoldSet
<1> HIDE DEF V, q, n, begin
<1>4. H \in [(1..n) \X V -> V]
  BY <1>2
<1>5. \E g \in [SUBSET (1..n) -> V] : IsIter(g)
  <2>1. PICK g \in [SUBSET (1..n) -> V] : \A s \in SUBSET (1..n) :
             g[s] = IF s = {} THEN begin ELSE H[<<Max(s), g[s \ {Max(s)}]>>]
    <3>1. HasPrefixRecursion(n, V, begin, H)
      <4> HIDE DEF H
      <4> QED BY <1>1, <1>2, <1>4, RecursionOnPrefixes
    <3> HIDE DEF H
    <3> QED BY <3>1 DEF HasPrefixRecursion
  <2>2. ASSUME NEW s \in SUBSET (1..n)
        PROVE  g[s] = Step(g, s)
    <3>1. CASE s = {}
      BY <2>1, <3>1
    <3>2. CASE s # {}
      <4>1. Max(s) \in 1..n
        BY <1>1, <3>2, MaxOfIndices
      <4> QED BY <2>1, <3>2, <4>1
    <3> QED BY <3>1, <3>2
  <2> HIDE DEF Step
  <2> QED BY <2>2
<1>6. IsIter(iter)
  <2> HIDE DEF IsIter
  <2> QED BY <1>5
<1>7. /\ iter[{}] = begin
      /\ \A j \in 1..n : iter[1..j] = Backed(iter[1..j-1], search.via)
  <2> HIDE DEF iter
  <2>1. \A s \in SUBSET (1..n) : iter[s] = Step(iter, s)
    BY <1>6
  <2> QED BY <1>1, <2>1, PrefixMax
<1> HIDE DEF iter
<1> DEFINE g == [k \in 0..n |-> iter[1..k]]
           T == {k \in 0..n : g[k] \in V}
<1>9. g[0] = begin /\ \A k \in 1..n : g[k] = Backed(g[k-1], search.via)
  <2>1. 1..0 = {} /\ 0 \in 0..n
    BY <1>1
  <2>2. \A k \in 1..n : k \in 0..n /\ k - 1 \in 0..n
    BY <1>1
  <2> QED BY <1>7, <2>1, <2>2
<1>10. g[n] = iter[1..n]
  BY <1>1
<1>11. DOMAIN g = 0..n /\ g = [k \in 0..n |-> g[k]]
  OBVIOUS
<1> HIDE DEF g
<1>12. \A k \in 0..n : k \in T
  <2>1. 0 \in T
    BY <1>1, <1>2, <1>9
  <2>2. \A k \in 1..n : k - 1 \in T => k \in T
    BY <1>1, <1>2, <1>9
  <2> HIDE DEF T
  <2> QED BY <1>1, <2>1, <2>2, InductionUpTo
<1>13. g \in [0..n -> V]
  BY <1>11, <1>12
<1> QED BY <1>3, <1>9, <1>10, <1>13 DEF BackRun, n, V, begin

(* Links that follow one another from a page to the target, each of them   *)
(* one further than the one before.                                        *)
IsWay(links, at, edges, lev, target) ==
  /\ links \in Seq(1..Len(edges)) /\ at \in DOMAIN lev /\ lev[at] + Len(links) = lev[target]
  /\ Len(links) = 0 => at = target
  /\ Len(links) > 0 => edges[links[1]].source = at /\ edges[links[Len(links)]].target = target
  /\ \A i \in 1..(Len(links) - 1) : edges[links[i]].target = edges[links[i+1]].source

LEMMA WayOn ==
  ASSUME NEW edges \in Seq(EdgeSet), NEW lev, Distances(lev, edges), NEW target,
         NEW links, NEW at, IsWay(links, at, edges, lev, target),
         NEW via \in ViaMaps, Linked(via, lev, edges), at \in DOMAIN via
  PROVE  /\ IsWay(<<via[at].link>> \o links, via[at].page, edges, lev, target)
         /\ Len(<<via[at].link>> \o links) = Len(links) + 1
<1> DEFINE first == via[at].link
           page == via[at].page
           one == <<first>>
           new == one \o links
           n == Len(links)
<1>1. /\ first \in 1..Len(edges) /\ edges[first].source = page /\ edges[first].target = at
      /\ page \in DOMAIN lev /\ lev[at] = lev[page] + 1 /\ at \in DOMAIN lev
  BY DEF Linked, OneOn
<1>2. lev[page] \in Nat /\ lev[at] \in Nat
  BY <1>1, Levels
<1> HIDE DEF first, page
<1>3. /\ links \in Seq(1..Len(edges)) /\ n \in Nat /\ lev[at] + n = lev[target]
      /\ (n = 0 => at = target)
      /\ (n > 0 => edges[links[1]].source = at /\ edges[links[n]].target = target)
      /\ \A i \in 1..(n - 1) : edges[links[i]].target = edges[links[i+1]].source
  BY LenProperties DEF IsWay
<1>4. one \in Seq(1..Len(edges)) /\ Len(one) = 1 /\ one[1] = first
  BY <1>1
<1> HIDE DEF one
<1>5. /\ new \in Seq(1..Len(edges)) /\ Len(new) = n + 1 /\ new[1] = first
      /\ \A i \in 1..n : new[i+1] = links[i]
  <2> DEFINE S == 1..Len(edges)
  <2>1. one \in Seq(S) /\ links \in Seq(S)
    BY <1>3, <1>4
  <2> HIDE DEF S
  <2>2. /\ new \in Seq(S) /\ Len(new) = Len(one) + Len(links)
        /\ \A i \in 1..Len(new) : new[i] = IF i <= Len(one) THEN one[i] ELSE links[i - Len(one)]
    BY <2>1, ConcatProperties
  <2>3. Len(new) = n + 1
    BY <1>3, <1>4, <2>2
  <2>4. new[1] = first
    BY <1>3, <1>4, <2>2, <2>3
  <2>5. ASSUME NEW i \in 1..n PROVE new[i+1] = links[i]
    <3>1. i + 1 \in 1..Len(new) /\ ~(i + 1 <= Len(one)) /\ (i + 1) - Len(one) = i
      BY <1>3, <1>4, <2>3
    <3> QED BY <2>2, <3>1
  <2> QED BY <2>2, <2>3, <2>4, <2>5 DEF S
<1> HIDE DEF new
<1>6. lev[page] + Len(new) = lev[target]
  BY <1>1, <1>2, <1>3, <1>5
<1>7. edges[new[1]].source = page
  BY <1>1, <1>5
<1>8. edges[new[Len(new)]].target = target
  <2>1. CASE n = 0
    BY <1>1, <1>3, <1>5, <2>1
  <2>2. CASE n > 0
    <3>1. n \in 1..n
      BY <1>3, <2>2
    <3>2. new[n+1] = links[n]
      BY <1>5, <3>1
    <3> QED BY <1>3, <1>5, <2>2, <3>2
  <2> QED BY <1>3, <2>1, <2>2
<1>9. ASSUME NEW i \in 1..(Len(new) - 1) PROVE edges[new[i]].target = edges[new[i+1]].source
  <2>1. i \in 1..n /\ new[i+1] = links[i] /\ n > 0
    BY <1>3, <1>5
  <2>2. CASE i = 1
    BY <1>1, <1>3, <1>5, <2>1, <2>2
  <2>3. CASE i # 1
    <3>1. i - 1 \in 1..(n - 1) /\ i - 1 \in 1..n /\ (i - 1) + 1 = i
      BY <1>3, <2>1, <2>3
    <3>2. new[(i - 1) + 1] = links[i - 1] /\ edges[links[i - 1]].target = edges[links[(i - 1) + 1]].source
      BY <1>3, <1>5, <3>1
    <3> QED BY <2>1, <3>1, <3>2
  <2> QED BY <2>2, <2>3
<1>10. IsWay(new, page, edges, lev, target)
  BY <1>1, <1>3, <1>5, <1>6, <1>7, <1>8, <1>9 DEF IsWay
<1> QED BY <1>5, <1>10 DEF new, one, first, page

(* The path of a search that found the target is a way from a start.       *)
LEMMA PathStepsAre ==
  ASSUME NEW edges \in Seq(EdgeSet), NEW lev, Distances(lev, edges), NEW target \in CrawlNames,
         NEW search, FoundIt(search, lev, edges, target), NEW max \in Nat, Len(edges) <= max
  PROVE  \E at : lev[at] = 0 /\ IsWay(PathSteps(search, max), at, edges, lev, target)
<1> DEFINE n == max + 1
           via == search.via
<1>1. /\ search \in SearchSet /\ search.found = target /\ via \in ViaMaps
      /\ Linked(via, lev, edges) /\ target \in DOMAIN via
  BY DEF FoundIt, SearchSet
<1>2. target \in DOMAIN lev
  BY <1>1 DEF Linked, OneOn
<1>3. \A t \in DOMAIN lev : lev[t] \in Nat /\ lev[t] <= Len(edges)
  BY Levels
<1>4. n \in Nat /\ Len(edges) < n /\ Len(edges) \in Nat
  BY EdgeNames
<1>5. PICK g : BackRun(g, search, max)
  BY <1>1, BackIs
<1>6. /\ g \in [0..n -> WaySet] /\ g[0] = [at |-> target, links |-> <<>>]
      /\ \A k \in 1..n : g[k] = Backed(g[k-1], via)
      /\ PathSteps(search, max) = g[n].links
  BY <1>1, <1>5 DEF BackRun
<1> HIDE DEF n, via
<1> DEFINE On(acc, k) == /\ IsWay(acc.links, acc.at, edges, lev, target)
                         /\ lev[acc.at] # 0 => acc.at \in DOMAIN via /\ Len(acc.links) = k
           Good == {k \in 0..n : On(g[k], k)}
<1>7. 0 \in Good
  <2>1. g[0].at = target /\ g[0].links = <<>> /\ Len(<<>>) = 0 /\ <<>> \in Seq(1..Len(edges))
    BY <1>6, EmptySeq
  <2>2. IsWay(<<>>, target, edges, lev, target)
    BY <1>2, <1>3, <2>1 DEF IsWay
  <2>3. On(g[0], 0)
    BY <1>1, <2>1, <2>2
  <2> HIDE DEF On
  <2> QED BY <1>4, <2>3
<1>8. ASSUME NEW k \in 1..n, k - 1 \in Good PROVE k \in Good
  <2> DEFINE old == g[k-1]
             new == g[k]
  <2>1. k \in 0..n /\ k \in Nat /\ new = Backed(old, via)
    BY <1>4, <1>6
  <2>2. IsWay(old.links, old.at, edges, lev, target) /\ (lev[old.at] # 0 => Len(old.links) = k - 1)
        /\ old.at \in DOMAIN lev
    BY <1>8 DEF IsWay
  <2>3. lev[old.at] # 0 => old.at \in DOMAIN via
    BY <1>8
  <2> HIDE DEF old, new
  <2>4. CASE old.at \notin DOMAIN via
    <3>1. new = old /\ lev[old.at] = 0
      BY <2>1, <2>3, <2>4 DEF Backed
    <3>2. On(new, k)
      BY <2>2, <3>1
    <3> HIDE DEF On
    <3> QED BY <2>1, <3>2 DEF new
  <2>5. CASE old.at \in DOMAIN via
    <3> DEFINE page == via[old.at].page
               links == <<via[old.at].link>> \o old.links
    <3>1. new.at = page /\ new.links = links
      BY <2>1, <2>5 DEF Backed
    <3>2. /\ page \in DOMAIN lev /\ lev[old.at] = lev[page] + 1 /\ (lev[page] # 0 => page \in DOMAIN via)
      BY <1>1, <2>5 DEF Linked, OneOn
    <3>3. lev[old.at] # 0 /\ lev[page] \in Nat
      BY <1>3, <3>2
    <3>4. IsWay(links, page, edges, lev, target) /\ Len(links) = Len(old.links) + 1
      BY <1>1, <2>2, <2>5, WayOn
    <3> HIDE DEF page, links
    <3>5. Len(links) = k
      BY <2>1, <2>2, <3>3, <3>4
    <3>6. On(new, k)
      BY <3>1, <3>2, <3>4, <3>5
    <3> HIDE DEF On
    <3> QED BY <2>1, <3>6 DEF new
  <2> QED BY <2>4, <2>5
<1>9. n \in Good
  <2> HIDE DEF Good
  <2>1. \A k \in 0..n : k \in Good
    BY <1>4, <1>7, <1>8, InductionUpTo
  <2> QED BY <1>4, <2>1
<1> DEFINE acc == g[n]
<1>10. IsWay(acc.links, acc.at, edges, lev, target) /\ (lev[acc.at] # 0 => Len(acc.links) = n)
  BY <1>9
<1> HIDE DEF acc
<1>11. lev[acc.at] = 0
  <2>1. lev[acc.at] \in Nat /\ lev[acc.at] + Len(acc.links) = lev[target] /\ lev[target] <= Len(edges)
    BY <1>2, <1>3, <1>10 DEF IsWay
  <2>2. Len(acc.links) = n => FALSE
    BY <1>2, <1>3, <1>4, <2>1
  <2> QED BY <1>10, <2>2
<1> QED BY <1>6, <1>10, <1>11 DEF acc

LEMMA ExploredIs ==
  ASSUME NEW S, sql.edges \in Seq(S), NEW max \in Nat
  PROVE  Explored(max) \in Seq(S) /\ Len(Explored(max)) <= max /\ Len(Explored(max)) \in Nat
<1> DEFINE n == Len(sql.edges)
           m == Min({max, n})
<1>1. n \in Nat /\ \A i \in 1..n : sql.edges[i] \in S
  BY LenProperties, ElementOfSeq
<1> HIDE DEF n
<1>2. \E x \in {max, n} : \A y \in {max, n} : x <= y
  BY <1>1
<1>3. m \in {max, n} /\ m <= max /\ m <= n
  BY <1>2 DEF Min
<1>4. Explored(max) = SubSeq(sql.edges, 1, m)
  BY DEF Explored, n
<1> HIDE DEF m
<1>5. m \in Nat /\ 1 \in Int /\ m \in Int /\ \A i \in 1..m : sql.edges[i] \in S
  BY <1>1, <1>3
<1>6. SubSeq(sql.edges, 1, m) \in Seq(S)
      /\ Len(SubSeq(sql.edges, 1, m)) = IF 1 <= m THEN m - 1 + 1 ELSE 0
  BY <1>5, SubSeqProperties
<1> QED BY <1>3, <1>4, <1>5, <1>6

(* A path is the shortest, for any links and any page.                     *)
LEMMA PathToIsShortest ==
  ASSUME OneTextPerPage, NEW max \in Nat, Explored(max) \in Seq(EdgeSet), Len(Explored(max)) <= max,
         NEW target \in CrawlNames
  PROVE  PathIsShortest(Explored(max), target, PathTo(target, max))
<1> DEFINE edges == Explored(max)
           n == Len(edges)
           search == Search(edges, target)
           path == PathTo(target, max)
           links == path.links
<1> SUFFICES PathIsShortest(edges, target, path)
  OBVIOUS
<1>1. edges \in Seq(EdgeSet) /\ n \in Nat /\ n <= max
  BY EdgeNames
<1>2. /\ edges = <<>> => path.found = FALSE
      /\ edges # <<>> /\ (\E t \in ToSet(Starts(edges)) : Overlap(Aliases[t], Aliases[target])) =>
           path.found = TRUE /\ path.links = <<>>
      /\ edges # <<>> /\ ~(\E t \in ToSet(Starts(edges)) : Overlap(Aliases[t], Aliases[target])) =>
           /\ path.found = (search.found # None)
           /\ search.found # None => path.links = PathSteps(search, max)
  BY DEF PathTo
<1> HIDE DEF path
<1>3. PICK lev : Distances(lev, edges) /\ Measures(lev, edges)
  <2> HIDE DEF edges
  <2> QED BY <1>1, DistancesExist
<1>4. Reaches(edges, n, target) <=> target \in DOMAIN lev
  <2>1. n \in 0..n
    BY <1>1
  <2>2. \A t \in DOMAIN lev : lev[t] <= n
    BY <1>1, <1>3, Levels
  <2> QED BY <1>3, <2>1, <2>2 DEF Measures
<1>5. (\E t \in ToSet(Starts(edges)) : Overlap(Aliases[t], Aliases[target]))
        <=> target \in ToSet(Starts(edges))
  <2>1. ToSet(Starts(edges)) \in SUBSET CrawlNames
    BY <1>1, StartsAre
  <2> QED BY <2>1, NamesAlone
<1> HIDE DEF edges, search
<1>6. CASE edges = <<>>
  BY <1>2, <1>6 DEF PathIsShortest
<1>7. CASE edges # <<>> /\ target \in ToSet(Starts(edges))
  <2>1. path.found = TRUE /\ path.links = <<>> /\ Len(path.links) = 0
    BY <1>2, <1>5, <1>7, EmptySeq
  <2>2. target \in DOMAIN lev
    BY <1>3, <1>7 DEF Distances
  <2>3. ~(0 > 0) /\ 1..(0 - 1) = {}
    OBVIOUS
  <2> QED BY <1>4, <1>7, <2>1, <2>2, <2>3 DEF PathIsShortest
<1>8. CASE edges # <<>> /\ target \notin ToSet(Starts(edges))
  <2>1. /\ path.found = (search.found # None)
        /\ search.found # None => path.links = PathSteps(search, max)
    BY <1>2, <1>5, <1>8
  <2>2. /\ target \in DOMAIN lev => FoundIt(search, lev, edges, target)
        /\ target \notin DOMAIN lev => search.found = None
    BY <1>1, <1>3, <1>8, SearchFinds DEF search
  <2>3. CASE target \notin DOMAIN lev
    <3>1. path.found = FALSE
      BY <2>1, <2>2, <2>3
    <3> QED BY <1>4, <2>3, <3>1 DEF PathIsShortest
  <2>4. CASE target \in DOMAIN lev
    <3>1. FoundIt(search, lev, edges, target) /\ search.found # None
      BY <2>2, <2>4, NamesAreTexts, StoreAssumption DEF FoundIt
    <3>2. path.found = TRUE /\ links = PathSteps(search, max)
      BY <2>1, <3>1
    <3>3. PICK at : lev[at] = 0 /\ IsWay(PathSteps(search, max), at, edges, lev, target)
      BY <1>1, <1>3, <3>1, PathStepsAre
    <3>4. IsWay(links, at, edges, lev, target)
      BY <3>2, <3>3
    <3> HIDE DEF links
    <3> DEFINE L == Len(links)
    <3>5. /\ links \in Seq(1..n) /\ L \in Nat /\ at \in DOMAIN lev /\ L = lev[target]
          /\ L > 0 => edges[links[1]].source = at /\ edges[links[L]].target = target
          /\ \A i \in 1..(L - 1) : edges[links[i]].target = edges[links[i+1]].source
      <4>1. lev[at] = 0 /\ lev[target] \in Nat
        BY <1>1, <1>3, <2>4, <3>3, Levels
      <4>2. /\ links \in Seq(1..n) /\ at \in DOMAIN lev /\ lev[at] + L = lev[target]
            /\ L > 0 => edges[links[1]].source = at /\ edges[links[L]].target = target
            /\ \A i \in 1..(L - 1) : edges[links[i]].target = edges[links[i+1]].source
        BY <3>4 DEF IsWay
      <4>3. L \in Nat
        BY <4>2, LenProperties
      <4> HIDE DEF L
      <4>4. L = lev[target]
        BY <4>1, <4>2, <4>3
      <4> QED BY <4>2, <4>3, <4>4
    <3>6. at \in CrawlNames /\ at \in ToSet(Starts(edges)) /\ lev[target] <= n
      BY <1>1, <1>3, <3>3, <3>5, <2>4, Levels DEF Distances
    <3>7. \A i \in 1..L : /\ edges[links[i]].source \in CrawlNames
                          /\ edges[links[i]].target \in CrawlNames
      <4>1. \A i \in 1..L : links[i] \in 1..n
        BY <3>5, ElementOfSeq
      <4> QED BY <1>1, <4>1, EdgeNames
    <3>8. \A t \in CrawlNames : Overlap(Aliases[t], Aliases[t])
      BY NamesAlone
    <3>9. ASSUME L > 0
          PROVE  /\ ~Reaches(edges, L - 1, target)
                 /\ \E t \in ToSet(Starts(edges)) : Overlap(Aliases[t], Aliases[edges[links[1]].source])
                 /\ Overlap(Aliases[edges[links[L]].target], Aliases[target])
      <4>1. L - 1 \in 0..n /\ ~(lev[target] <= L - 1)
        BY <1>1, <3>5, <3>6, <3>9, SMTT(30)
      <4>2. ~Reaches(edges, L - 1, target)
        BY <1>3, <4>1 DEF Measures
      <4> QED BY <3>5, <3>6, <3>8, <3>9, <4>2
    <3>10. ASSUME NEW i \in 1..(L - 1)
           PROVE  Overlap(Aliases[edges[links[i]].target], Aliases[edges[links[i+1]].source])
      <4>1. i \in 1..L
        BY <3>5
      <4> QED BY <3>5, <3>7, <3>8, <4>1
    <3>11. path.found <=> edges # <<>> /\ Reaches(edges, Len(edges), target)
      BY <1>4, <1>8, <2>4, <3>2
    <3>12. path.links = links
      BY DEF links
    <3> QED BY <3>9, <3>10, <3>11, <3>12 DEF PathIsShortest
  <2> QED BY <2>3, <2>4
<1> QED BY <1>6, <1>7, <1>8

(* The path to a page is found exactly when stored links lead there from a *)
(* start, and no shorter sequence of links does: for every page the links  *)
(* name, and any number of links.                                          *)
THEOREM PathsAreShortest ==
  ASSUME OneTextPerPage
  PROVE  Spec => []CrawlPathsAreShortest
<1>1. Init => RowsInv
  BY RowsInit
<1>2. RowsInv /\ [Next]_vars => RowsInv'
  BY RowsKeep DEF RowsStep
<1>3. RowsInv => CrawlPathsAreShortest
  <2> SUFFICES ASSUME RowsInv, NEW target \in UNION {{e.source, e.target} : e \in ToSet(sql.edges)},
                      NEW max \in {2, Len(sql.edges) + 1}
               PROVE  PathIsShortest(Explored(max), target, PathTo(target, max))
    BY DEF CrawlPathsAreShortest
  <2>1. sql.edges \in Seq(EdgeSet)
    BY DEF RowsInv, SqlGood, SqlSet
  <2>2. Len(sql.edges) \in Nat /\ \A e \in ToSet(sql.edges) : e.source \in CrawlNames /\ e.target \in CrawlNames
    BY <2>1, EdgeNames
  <2>3. target \in CrawlNames /\ max \in Nat
    BY <2>2
  <2>4. Explored(max) \in Seq(EdgeSet) /\ Len(Explored(max)) <= max
    BY <2>1, <2>3, ExploredIs
  <2> QED BY <2>3, <2>4, PathToIsShortest
<1> QED BY <1>1, <1>2, <1>3, PTL DEF Spec
=============================================================================
