---------------------------- MODULE ResultStore ----------------------------
(* The two result stores of crates/storage: MemoryStore keeps vectors and   *)
(* hash indexes, SqliteStore keeps tables and finds rows by their text.     *)
(* The crawler, the audits and the imports make the same calls on either.   *)
(* The module gives one sequence of calls to both, in the order in which    *)
(* the crawler commits a page, with the calls of the user's tools (a        *)
(* PageSpeed snapshot, imported metrics) between any two of them.           *)
(*                                                                          *)
(* A text is a URL or a storage key as stored.  Aliases[t] is the set       *)
(* url_aliases computes for t: t itself, its normal form without fragment,  *)
(* and the bare host form of a root URL.                                    *)
EXTENDS Naturals, Sequences, FiniteSets, FiniteSetsExt, SequencesExt

CONSTANTS
  Texts,        \* every text that may be stored or looked up
  Aliases,      \* [Texts -> SUBSET Texts]
  Seeds,        \* the queues a crawl may start from, of items
  Answers,      \* [key -> set of answers the site may give for it]
  Batches,      \* the metric batches the user may import: sequences of texts
  Rank,         \* the order of the texts: [Texts -> Nat]
  MaxPages,     \* bound: pages committed
  MaxCrawls,    \* bound: crawls started over the store
  MaxTools,     \* bound: calls of the user's tools
  None          \* the absent value of an Option

Items == [key : Texts, url : Texts, depth : Nat, position : Nat \cup {None}, sitemap : BOOLEAN]
Frontiers == [queued : Seq(Items), seen : SUBSET Texts, crawled : Nat]

(* A queue has something in it and nothing twice.                           *)
ASSUME StoreAssumption ==
  /\ IsFiniteSet(Texts) /\ Aliases \in [Texts -> SUBSET Texts]
  /\ \A t \in Texts : t \in Aliases[t]
  /\ Rank \in [Texts -> Nat] /\ \A s, t \in Texts : Rank[s] = Rank[t] => s = t
  /\ None \notin Nat \cup {"measured"} \cup Texts \cup Frontiers
  /\ \A batch \in Batches : batch \in Seq(Texts)
  /\ \A seeds \in Seeds :
       /\ seeds \in Seq(Items) /\ seeds # <<>>
       /\ \A i, k \in DOMAIN seeds : seeds[i].key = seeds[k].key => i = k
  /\ \A t \in Texts : \A answer \in Answers[t] :
       /\ answer.final \in Texts /\ answer.links \in Seq(Texts)
       /\ answer.references \subseteq Texts /\ answer.listed \in Seq(Texts)

(* The texts a crawl stores for its pages and links.                        *)
SeedItems == UNION {ToSet(seeds) : seeds \in Seeds}
AllAnswers == UNION {Answers[t] : t \in Texts}
CrawlNames ==
  UNION ({{item.key, item.url} : item \in SeedItems}
         \cup {{answer.final} \cup ToSet(answer.links) \cup ToSet(answer.listed) :
                   answer \in AllAnswers})

(* The crawler stores normal forms, and no two of them are aliases of one   *)
(* another.  The exception is a redirect that names a fragment.             *)
OneTextPerPage ==
  \A s, t \in CrawlNames : s # t => Aliases[s] \cap Aliases[t] = {}

(* The batches of metrics on which both stores agree: an entry meets the    *)
(* aliases of a name only if it has the name itself for an alias, and a     *)
(* later entry comes first in the order of the texts.  The database lets    *)
(* the later of two entries for a page win, the memory store that of the    *)
(* page's first alias.                                                      *)
LaterComesFirst(batch) ==
  /\ \A i \in DOMAIN batch : \A t \in CrawlNames :
       Aliases[t] \cap Aliases[batch[i]] # {} => t \in Aliases[batch[i]]
  /\ \A i, k \in DOMAIN batch : i < k =>
       \A x \in Aliases[batch[i]], y \in Aliases[batch[k]] : Rank[y] <= Rank[x]
BatchesAreOrdered == \A batch \in Batches : LaterComesFirst(batch)

VARIABLES
  mem,      \* the MemoryStore
  sql,      \* the SqliteStore
  calls,    \* the store calls that remain of the page being committed
  listed,   \* sitemap_pages of the crawler: URLs the sitemaps announced
  answered, \* history: the texts each key has ever answered for
  spent     \* how much of each bound is used

vars == <<mem, sql, calls, listed, answered, spent>>

-----------------------------------------------------------------------------
(* Sequences and functions: SelectSeq, SetToSortSeq and @@ in terms that    *)
(* the provers know.                                                        *)

(* What is in T of a sequence.                                              *)
Kept(q, T) == FoldLeft(LAMBDA acc, x : IF x \in T THEN Append(acc, x) ELSE acc, <<>>, q)

(* A set in the order that gives each element the set of those before it:   *)
(* the i-th has i - 1 before it.                                            *)
Sorted(before) ==
  LET S == DOMAIN before
  IN [i \in 1..Cardinality(S) |-> CHOOSE x \in S : Cardinality(before[x]) = i - 1]

Put(f, x, y) == [t \in DOMAIN f \cup {x} |-> IF t = x THEN y ELSE f[t]]

-----------------------------------------------------------------------------
(* Records, edges and what both stores compute from texts.                  *)

RecordTexts(r) == {r.key, r.url, r.final}
AliasesOf(ts) == UNION {Aliases[t] : t \in ts}
RecordAliases(r) == AliasesOf(RecordTexts(r))
Overlap(s, t) == s \cap t # {}

(* The status and the depth that an edge shows for one of its ends.         *)
Shown(r) == [status |-> r.status, depth |-> r.depth]
Total(counts, ts) == MapThenSumSet(LAMBDA t : counts[t], ts)

NoCounts == [t \in Texts |-> 0]
NoIndex == [t \in Texts |-> {}]

(* Fault: measurements are overwritten with what the crawl knows of them.    *)
KeepFault(r, prior) == [r EXCEPT !.id = prior.id]
(* What an upsert keeps of the record it replaces: the id and the snapshots *)
(* (page_speed, field_vitals, ai_insights).  The imported metrics (search,  *)
(* analytics, backlinks) are overwritten with what the crawl knows of them, *)
(* which is nothing.                                                        *)
Keep(r, prior) ==
  [r EXCEPT !.id = prior.id, !.speed = IF @ = None THEN prior.speed ELSE @]

-----------------------------------------------------------------------------
(* MemoryStore: every helper returns the store after the call.              *)

EmptyMemory ==
  [records |-> <<>>, byAlias |-> NoIndex, counts |-> NoCounts,
   firsts |-> [t \in Texts |-> None], edges |-> <<>>,
   bySource |-> NoIndex, byTarget |-> NoIndex,
   images |-> {}, references |-> {}, captures |-> {}, frontier |-> None]

MemIndexOf(m, key) == {i \in DOMAIN m.records : m.records[i].key = key}
MemMatches(m, ts) == UNION {m.byAlias[t] : t \in ts}

(* update_memory_edge_statuses                                              *)
MemShowEdges(m, r) ==
  LET out == UNION {m.bySource[t] : t \in RecordAliases(r)}
      in  == UNION {m.byTarget[t] : t \in RecordAliases(r)}
  IN [i \in DOMAIN m.edges |->
       [m.edges[i] EXCEPT !.from = IF i \in out THEN Shown(r) ELSE @,
                          !.to = IF i \in in THEN Shown(r) ELSE @]]

MemUnindex(m, i) == [t \in Texts |-> m.byAlias[t] \ {i}]

(* memory_inlink_count_for_record, and what is kept when nothing links.     *)
MemCounted(m, r) ==
  LET n == Total(m.counts, RecordAliases(r))
  IN IF n > 0 THEN [r EXCEPT !.inlinks = n] ELSE r

MemUpsert(m, r) ==
  LET at == MemIndexOf(m, r.key)
      i == IF at = {} THEN Len(m.records) + 1 ELSE Min(at)
      new == IF at = {} THEN [MemCounted(m, r) EXCEPT !.id = i]
             ELSE Keep(MemCounted(m, r), m.records[i])
      left == IF at = {} THEN m.byAlias ELSE MemUnindex(m, i)
  IN [m EXCEPT
       !.records = IF at = {} THEN Append(@, new) ELSE [@ EXCEPT ![i] = new],
       !.byAlias = [t \in Texts |->
                     IF t \in RecordAliases(new) THEN left[t] \cup {i} ELSE left[t]],
       !.edges = MemShowEdges(m, new)]

(* add_inlink: the count is kept per text, each record shows the sum over   *)
(* its aliases.                                                             *)
MemInlink(m, t) ==
  LET counts == [m.counts EXCEPT ![t] = @ + 1]
      hit == MemMatches(m, Aliases[t])
  IN [m EXCEPT
       !.counts = counts,
       !.records = [i \in DOMAIN @ |->
         IF i \in hit
         THEN [@[i] EXCEPT !.inlinks = Total(counts, RecordAliases(m.records[i]))]
         ELSE @[i]]]

(* add_link_edge: each end shows the earliest record it matches, the first  *)
(* source of a target is noted once, the edge enters both indexes.          *)
MemEnd(m, t, known) ==
  LET hit == MemMatches(m, Aliases[t])
  IN IF hit = {} THEN known ELSE Shown(m.records[Min(hit)])

MemEdge(m, e) ==
  LET i == Len(m.edges) + 1
      edge == [e EXCEPT !.from = MemEnd(m, e.source, @), !.to = MemEnd(m, e.target, @)]
  IN [m EXCEPT
       !.edges = Append(@, edge),
       !.firsts = [t \in Texts |-> IF t \in Aliases[e.target] /\ @[t] = None
                                   THEN i ELSE @[t]],
       !.bySource = [t \in Texts |-> IF t \in Aliases[e.source] THEN @[t] \cup {i} ELSE @[t]],
       !.byTarget = [t \in Texts |-> IF t \in Aliases[e.target] THEN @[t] \cup {i} ELSE @[t]]]

MemReferences(m, key, targets) ==
  [m EXCEPT !.references = {x \in @ : x.key # key} \cup [key : {key}, target : targets]]

(* add_image_assets removes what any alias of the page holds.               *)
MemImages(m, page, pics) ==
  [m EXCEPT !.images = {x \in @ : ~Overlap(Aliases[x.page], Aliases[page])}
                         \cup [page : {page}, pic : pics]]

MemCapture(m, key, body) ==
  [m EXCEPT !.captures = {x \in @ : x.key # key}
                           \cup (IF body = None THEN {} ELSE {[key |-> key, body |-> body]})]

(* try_save_page_speed, try_save_field_vitals and try_save_ai_insights      *)
(* replace one snapshot of the record with that id.                         *)
MemSnapshot(m, id, snapshot) ==
  [m EXCEPT !.records = [i \in DOMAIN @ |->
     IF @[i].id = id THEN [@[i] EXCEPT !.speed = snapshot] ELSE @[i]]]

(* merge_*_metrics: a record takes the metric of its first alias, in the    *)
(* order of the texts, that has one; of two metrics of an alias the later.  *)
MemMetric(batch, r) ==
  LET naming(t) == {i \in DOMAIN batch : t \in Aliases[batch[i]]}
      named == {t \in RecordAliases(r) : naming(t) # {}}
      first == CHOOSE t \in named : \A k \in named : Rank[t] <= Rank[k]
  IN IF named = {} THEN r.metric ELSE batch[Max(naming(first))]

MemMetrics(m, batch) ==
  [m EXCEPT !.records = [i \in DOMAIN @ |->
     [@[i] EXCEPT !.metric = MemMetric(batch, m.records[i])]]]

MemMark(m, urls) ==
  LET marked(r) == [r EXCEPT !.sitemap = @ \/ Overlap({r.url, r.final}, urls)]
  IN [m EXCEPT !.records = [i \in DOMAIN @ |-> marked(@[i])]]

(* CrawlFrontierState::update                                               *)
MemFrontier(m, done, new, urls, crawled) ==
  LET old == IF m.frontier = None THEN [queued |-> <<>>, seen |-> {}, crawled |-> 0]
             ELSE m.frontier
      queued == Kept(old.queued, {item \in ToSet(old.queued) : item.key # done}) \o new
  IN [m EXCEPT !.frontier =
       [queued |-> [i \in DOMAIN queued |->
                     [queued[i] EXCEPT !.sitemap = @ \/ queued[i].url \in urls]],
        seen |-> old.seen \cup {item.key : item \in ToSet(new)},
        crawled |-> crawled]]

-----------------------------------------------------------------------------
(* SqliteStore.  A row is found when one of its texts, as stored, is an     *)
(* alias of what is looked up; the aliases of the row are not stored.       *)

EmptyTables ==
  [records |-> {}, lastId |-> 0, counts |-> NoCounts, edges |-> <<>>,
   images |-> {}, references |-> {}, captures |-> {},
   queue |-> {}, seen |-> {}, crawled |-> None]

RowIn(r, ts) == Overlap(RecordTexts(r), ts)

(* update_sqlite_edge_statuses                                              *)
(* Fault: only the edges that leave the page are updated.                   *)
SqlShowEdgesFault(s, r) ==
  [i \in DOMAIN s.edges |->
    [s.edges[i] EXCEPT !.from = IF s.edges[i].source \in RecordAliases(r) THEN Shown(r) ELSE @]]
SqlShowEdges(s, r) ==
  [i \in DOMAIN s.edges |->
    [s.edges[i] EXCEPT
      !.from = IF s.edges[i].source \in RecordAliases(r) THEN Shown(r) ELSE @,
      !.to = IF s.edges[i].target \in RecordAliases(r) THEN Shown(r) ELSE @]]

SqlCounted(s, r) ==
  LET n == Total(s.counts, RecordAliases(r))
  IN IF n > 0 THEN [r EXCEPT !.inlinks = n] ELSE r

(* The row with the key of the record is overwritten.                       *)
SqlUpdate(s, prior, r) ==
  LET row == Keep(SqlCounted(s, r), prior)
  IN [s EXCEPT !.records = (@ \ {prior}) \cup {row}, !.edges = SqlShowEdges(s, row)]

(* No row has the key: the table gives the record the next id.              *)
SqlInsert(s, r) ==
  LET row == [SqlCounted(s, r) EXCEPT !.id = s.lastId + 1]
  IN [s EXCEPT !.records = @ \cup {row}, !.lastId = @ + 1, !.edges = SqlShowEdges(s, row)]

SqlUpsert(s, r) ==
  LET prior == {x \in s.records : x.key = r.key}
  IN IF prior = {} THEN SqlInsert(s, r) ELSE SqlUpdate(s, CHOOSE x \in prior : TRUE, r)

SqlInlink(s, t) ==
  [s EXCEPT !.counts[t] = @ + 1,
            !.records = {IF RowIn(r, Aliases[t]) THEN [r EXCEPT !.inlinks = @ + 1] ELSE r
                          : r \in s.records}]

(* sqlite_record_status: the earliest row.                                  *)
SqlEnd(s, t, known) ==
  LET hit == {r \in s.records : RowIn(r, Aliases[t])}
  IN IF hit = {} THEN known
     ELSE Shown(CHOOSE r \in hit : \A x \in hit : r.id <= x.id)

SqlEdge(s, e) ==
  [s EXCEPT !.edges = Append(@,
    [e EXCEPT !.from = SqlEnd(s, e.source, @), !.to = SqlEnd(s, e.target, @)])]

SqlReferences(s, key, targets) ==
  [s EXCEPT !.references = {x \in @ : x.key # key} \cup [key : {key}, target : targets]]

(* add_image_assets deletes what is stored under exactly this page URL.     *)
SqlImages(s, page, pics) ==
  [s EXCEPT !.images = {x \in @ : x.page # page} \cup [page : {page}, pic : pics]]

SqlCapture(s, key, body) ==
  [s EXCEPT !.captures = {x \in @ : x.key # key}
                           \cup (IF body = None THEN {} ELSE {[key |-> key, body |-> body]})]

SqlSnapshot(s, id, snapshot) ==
  [s EXCEPT !.records = {IF r.id = id THEN [r EXCEPT !.speed = snapshot] ELSE r : r \in @}]

(* Each metric in turn overwrites the rows it matches.                      *)
SqlMetrics(s, batch) ==
  LET given(r) == {i \in DOMAIN batch : RowIn(r, Aliases[batch[i]])}
  IN [s EXCEPT !.records =
       {IF given(r) = {} THEN r ELSE [r EXCEPT !.metric = batch[Max(given(r))]] : r \in @}]

(* Fault: the URL a record ended on is not compared.                        *)
SqlMarkFault(s, urls) ==
  [s EXCEPT !.records = {IF r.url \in urls THEN [r EXCEPT !.sitemap = TRUE] ELSE r : r \in @}]
SqlMark(s, urls) ==
  [s EXCEPT !.records =
    {IF Overlap({r.url, r.final}, urls) THEN [r EXCEPT !.sitemap = TRUE] ELSE r : r \in @}]

(* try_update_frontier_state: positions grow from the last one in use.      *)
(* Fault: positions start over, so that saved rows change places.           *)
SqlFrontierFault(s, done, new, urls, crawled) ==
  LET left == {row \in s.queue : row.item.key # done}
  IN [s EXCEPT
       !.queue = left \cup {[position |-> i - 1, item |-> new[i]] : i \in DOMAIN new},
       !.seen = @ \cup {item.key : item \in ToSet(new)},
       !.crawled = crawled]
SqlFrontier(s, done, new, urls, crawled) ==
  LET left == {row \in s.queue : row.item.key # done}
      next == IF left = {} THEN 0 ELSE Max({row.position : row \in left}) + 1
      all == left \cup {[position |-> next + i - 1, item |-> new[i]] : i \in DOMAIN new}
  IN [s EXCEPT
       !.queue = {[row EXCEPT !.item.sitemap = @ \/ row.item.url \in urls] : row \in all},
       !.seen = @ \cup {item.key : item \in ToSet(new)},
       !.crawled = crawled]

SqlSaveFrontier(s, state) ==
  [s EXCEPT !.queue = {[position |-> i - 1, item |-> state.queued[i]] : i \in DOMAIN state.queued},
            !.seen = state.seen, !.crawled = state.crawled]

SqlClearFrontier(s) == [s EXCEPT !.queue = {}, !.seen = {}, !.crawled = None]

(* try_load_frontier_state                                                  *)
SqlLoadFrontier(s) ==
  LET ordered == Sorted([x \in s.queue |-> {y \in s.queue : y.position < x.position}])
  IN IF s.queue = {} /\ s.seen = {} THEN None
     ELSE [queued |-> [i \in DOMAIN ordered |-> ordered[i].item],
           seen |-> s.seen, crawled |-> IF s.crawled = None THEN 0 ELSE s.crawled]

-----------------------------------------------------------------------------
(* What the readers of the stores see.                                      *)

(* annotate_first_inlink_sources: the first edge to an alias of the record. *)
MemFirst(m, r) ==
  LET noted == {m.firsts[t] : t \in RecordAliases(r)} \ {None}
  IN IF noted = {} THEN None ELSE m.edges[Min(noted)].source

SqlFirst(s, r) ==
  LET given == {i \in DOMAIN s.edges : s.edges[i].target \in RecordAliases(r)}
  IN IF given = {} THEN None ELSE s.edges[Min(given)].source

MemRecords(m) == {<<r, MemFirst(m, r)>> : r \in ToSet(m.records)}
SqlRecords(s) == {<<r, SqlFirst(s, r)>> : r \in s.records}

(* The nodes of crawl_graph, at most max final URLs.  The memory store walks *)
(* its vector: a URL is admitted at its first record, and shows its last.   *)
Node(r) == [shown |-> Shown(r), inlinks |-> r.inlinks]

MemNodes(m, max) ==
  LET admit(chosen, r) ==
        IF Cardinality(DOMAIN chosen) >= max /\ r.final \notin DOMAIN chosen
        THEN chosen ELSE Put(chosen, r.final, Node(r))
  IN FoldLeft(admit, [t \in {} |-> None], m.records)

(* The database ranks rows by list position, or id where there is none.     *)
Place(r) == IF r.position = None THEN r.id ELSE r.position
Before(x, y) == Place(x) < Place(y) \/ (Place(x) = Place(y) /\ x.id < y.id)
LastRow(rows) == CHOOSE r \in rows : \A x \in rows : x = r \/ Before(x, r)

SqlNodes(s, max) ==
  LET firsts == {r \in s.records : \A x \in s.records : x.final = r.final => ~Before(x, r)}
      chosen == {r.final : r \in {r \in firsts : Cardinality({x \in firsts : Before(x, r)}) < max}}
  IN [t \in chosen |-> Node(LastRow({r \in s.records : r.final = t}))]

(* finish_crawl_graph: the ends of the edges fill what is left of the cap,  *)
(* edges without both ends are left out.                                    *)
Graph(nodes, edges, max) ==
  LET fill(all, t) == IF Cardinality(all) >= max THEN all ELSE all \cup {t}
      all == FoldLeft(LAMBDA acc, e : fill(fill(acc, e.source), e.target), DOMAIN nodes, edges)
  IN [nodes |-> nodes, placeholders |-> all \ DOMAIN nodes,
      edges |-> Kept(edges, {e \in ToSet(edges) : {e.source, e.target} \subseteq all})]

-----------------------------------------------------------------------------
(* The calls.  Whoever holds the store calls one function at a time: the    *)
(* crawler commits a page call by call, a tool may call in between.         *)

Record(item, answer) ==
  [id |-> 0, key |-> item.key, url |-> item.url, final |-> answer.final,
   status |-> answer.status, depth |-> item.depth, inlinks |-> 0,
   position |-> item.position, sitemap |-> FALSE, speed |-> None, metric |-> None]

Edge(item, answer, target) ==
  [source |-> answer.final, target |-> target,
   from |-> [status |-> answer.status, depth |-> item.depth], to |-> None]

(* What is not yet seen, each once.                                         *)
Unseen(urls, seen) ==
  LET new == {i \in DOMAIN urls : urls[i] \notin seen /\ \A k \in 1..(i - 1) : urls[k] # urls[i]}
      at == Kept([i \in DOMAIN urls |-> i], new)
  IN [k \in DOMAIN at |-> urls[at[k]]]

NewItems(urls, level, fromSitemap) ==
  [i \in DOMAIN urls |-> [key |-> urls[i], url |-> urls[i], depth |-> level,
                          position |-> None, sitemap |-> fromSitemap]]

(* The pages of linked sitemaps enter the queue first, at the top level;    *)
(* then the pages that are linked to, one level deeper.                     *)
Discovered(item, answer, seen) ==
  NewItems(Unseen(answer.listed, seen), 0, TRUE)
    \o NewItems(Unseen(answer.links, seen \cup ToSet(answer.listed)), item.depth + 1, FALSE)

(* What the linked sitemaps announce for the first time.                    *)
Announced(answer) == ToSet(answer.listed) \ listed

(* The commit of a page in the order of the crawl loop.                     *)
Commit(item, answer) ==
  (IF Announced(answer) = {} THEN <<>>
   ELSE <<[op |-> "mark", urls |-> Announced(answer)]>>)
  \o [i \in DOMAIN answer.links |-> [op |-> "inlink", target |-> answer.links[i]]]
  \o [i \in DOMAIN answer.links |-> [op |-> "edge", edge |-> Edge(item, answer, answer.links[i])]]
  \o <<[op |-> "references", key |-> item.key, targets |-> answer.references],
       [op |-> "images", page |-> answer.final, pics |-> answer.pics],
       [op |-> "upsert", record |-> Record(item, answer), flagged |-> item.sitemap],
       [op |-> "capture", key |-> item.key, body |-> answer.body],
       [op |-> "frontier", done |-> item.key, urls |-> Announced(answer),
        new |-> Discovered(item, answer, mem.frontier.seen)]>>

Both(m, s) == mem' = m /\ sql' = s

Init ==
  /\ mem = EmptyMemory
  /\ sql = EmptyTables
  /\ calls = <<>>
  /\ listed = {}
  /\ answered = {}
  /\ spent = [pages |-> 0, crawls |-> 0, tools |-> 0]

(* A crawl starts over the store, which may hold the results of an earlier  *)
(* one (the command line opens the database it is given).                   *)
StartCrawl ==
  /\ mem.frontier = None
  /\ spent.crawls < MaxCrawls
  /\ spent' = [spent EXCEPT !.crawls = @ + 1]
  /\ listed' = {}
  /\ \E seeds \in Seeds :
       LET state == [queued |-> seeds, seen |-> {item.key : item \in ToSet(seeds)}, crawled |-> 0]
       IN Both([mem EXCEPT !.frontier = state], SqlSaveFrontier(SqlClearFrontier(sql), state))
  /\ UNCHANGED <<calls, answered>>

(* The fetch of a saved item is done; its commit begins.                    *)
BeginPage ==
  /\ calls = <<>>
  /\ mem.frontier # None
  /\ spent.pages < MaxPages
  /\ \E item \in ToSet(mem.frontier.queued) : \E answer \in Answers[item.key] :
       calls' = Commit(item, answer)
  /\ spent' = [spent EXCEPT !.pages = @ + 1]
  /\ UNCHANGED <<mem, sql, listed, answered>>

Calling(op) == calls # <<>> /\ Head(calls).op = op
Called == calls' = Tail(calls) /\ UNCHANGED spent

MarkSitemapUrls ==
  /\ Calling("mark")
  /\ LET urls == Head(calls).urls
     IN /\ listed' = listed \cup urls
        /\ Both(MemMark(mem, urls), SqlMark(sql, urls))
  /\ Called /\ UNCHANGED answered

AddInlink ==
  /\ Calling("inlink")
  /\ LET t == Head(calls).target IN Both(MemInlink(mem, t), SqlInlink(sql, t))
  /\ Called /\ UNCHANGED <<listed, answered>>

AddLinkEdge ==
  /\ Calling("edge")
  /\ LET e == Head(calls).edge IN Both(MemEdge(mem, e), SqlEdge(sql, e))
  /\ Called /\ UNCHANGED <<listed, answered>>

AddPageReferences ==
  /\ Calling("references")
  /\ LET c == Head(calls)
     IN Both(MemReferences(mem, c.key, c.targets), SqlReferences(sql, c.key, c.targets))
  /\ Called /\ UNCHANGED <<listed, answered>>

AddImageAssets ==
  /\ Calling("images")
  /\ LET c == Head(calls) IN Both(MemImages(mem, c.page, c.pics), SqlImages(sql, c.page, c.pics))
  /\ Called /\ UNCHANGED <<listed, answered>>

(* in_sitemap of the record is computed when the record is stored.          *)
Upsert ==
  /\ Calling("upsert")
  /\ LET c == Head(calls)
         r == [c.record EXCEPT !.sitemap = c.flagged \/ Overlap({c.record.url, c.record.final}, listed)]
     IN /\ Both(MemUpsert(mem, r), SqlUpsert(sql, r))
        /\ answered' = answered \cup ({r.key} \X RecordAliases(r))
  /\ Called /\ UNCHANGED listed

ReplacePageCapture ==
  /\ Calling("capture")
  /\ LET c == Head(calls) IN Both(MemCapture(mem, c.key, c.body), SqlCapture(sql, c.key, c.body))
  /\ Called /\ UNCHANGED <<listed, answered>>

UpdateFrontier ==
  /\ Calling("frontier")
  /\ LET c == Head(calls)
         crawled == mem.frontier.crawled + 1
     IN Both(MemFrontier(mem, c.done, c.new, c.urls, crawled),
             SqlFrontier(sql, c.done, c.new, c.urls, crawled))
  /\ Called /\ UNCHANGED <<listed, answered>>

(* The queue is empty: the crawl is finished and its frontier is cleared.   *)
EndCrawl ==
  /\ calls = <<>>
  /\ mem.frontier # None
  /\ mem.frontier.queued = <<>>
  /\ Both([mem EXCEPT !.frontier = None], SqlClearFrontier(sql))
  /\ UNCHANGED <<calls, listed, answered, spent>>

Tool == spent.tools < MaxTools /\ spent' = [spent EXCEPT !.tools = @ + 1]

SaveSnapshot ==
  /\ Tool
  /\ \E r \in sql.records :
       Both(MemSnapshot(mem, r.id, "measured"), SqlSnapshot(sql, r.id, "measured"))
  /\ UNCHANGED <<calls, listed, answered>>

MergeMetrics ==
  /\ Tool
  /\ \E batch \in Batches : Both(MemMetrics(mem, batch), SqlMetrics(sql, batch))
  /\ UNCHANGED <<calls, listed, answered>>

Next ==
  \/ StartCrawl \/ BeginPage \/ EndCrawl
  \/ MarkSitemapUrls \/ AddInlink \/ AddLinkEdge \/ AddPageReferences
  \/ AddImageAssets \/ Upsert \/ ReplacePageCapture \/ UpdateFrontier
  \/ SaveSnapshot \/ MergeMetrics

Spec == Init /\ [][Next]_vars

-----------------------------------------------------------------------------
(* Properties.                                                              *)

(* Both stores draw the same graph under every cap on its nodes, as long as *)
(* the records were stored in the order of their List positions.  (The      *)
(* memory store has no other order than that of its vector.)                *)
StoredInOrder == \A i, k \in DOMAIN mem.records : i < k => Before(mem.records[i], mem.records[k])

GraphsAgree ==
  StoredInOrder =>
    \A max \in 1..4 : Graph(MemNodes(mem, max), mem.edges, max)
                         = Graph(SqlNodes(sql, max), sql.edges, max)

(* After any sequence of calls both stores answer alike: the same records   *)
(* with the same counts, enrichment and first source, the same edges with   *)
(* the same evidence at both ends, images, references, captures, the same   *)
(* frontier to resume from, and the same graph.                             *)
StoresAgree ==
  /\ MemRecords(mem) = SqlRecords(sql)
  /\ mem.counts = sql.counts
  /\ mem.edges = sql.edges
  /\ mem.images = sql.images
  /\ mem.references = sql.references
  /\ mem.captures = sql.captures
  /\ mem.frontier = SqlLoadFrontier(sql)
  /\ GraphsAgree

(* The inlink count of a row, which is set when the row is written and      *)
(* incremented when a link is found, is always the number of links counted  *)
(* for its aliases, whichever came first.                                   *)
InlinksAddUp ==
  \A r \in sql.records : r.inlinks = Total(sql.counts, RecordAliases(r))

(* An edge whose target only one page has ever answered for shows the       *)
(* status and the depth last stored for that page, whether the page or the  *)
(* link was stored first.                                                   *)
EdgesShowTheirPage ==
  \A i \in DOMAIN sql.edges : \A r \in sql.records :
    LET t == sql.edges[i].target
    IN t \in RecordAliases(r) /\ {x \in answered : x[2] = t} = {<<r.key, t>>}
         => sql.edges[i].to = Shown(r)

(* A page that a sitemap announces is flagged, whether it was stored before *)
(* the sitemap was read or after.                                           *)
ListedPagesAreFlagged ==
  \A r \in sql.records : Overlap({r.url, r.final}, listed) => r.sitemap

(* What one call learns reaches what another has stored, in either order.   *)
EvidenceInAnyOrder == InlinksAddUp /\ EdgesShowTheirPage /\ ListedPagesAreFlagged

(* The crawl is storing this page.                                         *)
Storing(key) == Calling("upsert") /\ Head(calls).record.key = key

(* No call drops what the user's tools have measured for a page or gives   *)
(* the page a new identity; and the metrics imported for it go only when   *)
(* that page itself is stored again, whatever other pages, links and       *)
(* sitemaps the crawl and its resumes commit.                              *)
EnrichmentIsKept ==
  [][\A r \in sql.records : \E x \in sql'.records :
       /\ x.key = r.key /\ x.id = r.id
       /\ r.speed # None => x.speed # None
       /\ r.metric # None => x.metric # None \/ Storing(r.key)]_vars
=============================================================================
