------------------------------ MODULE Comparison ------------------------------
(***************************************************************************)
(* Two crawls compared: which URLs were added, removed or changed, and by  *)
(* what.  An archive is compared with the open crawl in Rust               *)
(* (compare_records), two saved crawls in SQL (comparison_cte), and the    *)
(* answers are shown in the same table.                                    *)
(*                                                                         *)
(* A crawl is a sequence of rows, in the order of their ids: a record, the *)
(* position and the count of its URL in a List crawl (None and 0 outside), *)
(* and the fingerprint of its content with the settings it was made under. *)
(* Texts that are compared by nothing but equality share one field.        *)
(***************************************************************************)
EXTENDS References

CONSTANTS
    UrlOrder,     \* the URLs in text order, as a sequence
    MaxRows,      \* bound: rows a comparison shows (1000)
    Compared      \* bound: the sites whose crawls are compared

ASSUME ComparisonAssumption ==
    MaxRows \in Nat /\ UrlOrder \in Seq(Urls) /\ ToSet(UrlOrder) = Urls

Row(record, position, duplicate, content) ==
    [record |-> record, position |-> position, duplicate |-> duplicate, content |-> content]

Fields == {"finalUrl", "statusCode", "title", "metaDescription", "indexability", "headings",
           "canonical", "robotsDirectives", "content", "responseHash"}

-----------------------------------------------------------------------------
(* Identity: a URL, and which of its occurrences.                          *)

Place(rows, i) == IF rows[i].position = None THEN i ELSE rows[i].position

\* By position, then by key (that of a List item is the greater), then by id.
Precedes(rows, i, k) ==
    LET listed(j) == IF rows[j].position = None THEN 0 ELSE 1
    IN \/ Place(rows, i) < Place(rows, k)
       \/ Place(rows, i) = Place(rows, k) /\ listed(i) < listed(k)
       \/ Place(rows, i) = Place(rows, k) /\ listed(i) = listed(k) /\ i < k

Group(rows, u) == {i \in DOMAIN rows : rows[i].record.url = u}
Ordinal(rows, i) ==
    1 + Cardinality({k \in Group(rows, rows[i].record.url) : Precedes(rows, k, i)})

\* The counts a List crawl noted, unless one is missing or two are the same.
Occurrence(rows, i) ==
    LET known == {rows[k].duplicate : k \in Group(rows, rows[i].record.url)}
    IN IF 0 \notin known /\ Cardinality(known) = Cardinality(Group(rows, rows[i].record.url))
       THEN rows[i].duplicate ELSE Ordinal(rows, i)

\* comparison_listingby_identity: a map; the last of two rows would stay.
ByIdentity(rows) ==
    LET identity(i) == <<rows[i].record.url, Occurrence(rows, i)>>
    IN [id \in {identity(i) : i \in DOMAIN rows} |->
          rows[CHOOSE i \in DOMAIN rows : identity(i) = id
                 /\ \A k \in DOMAIN rows : identity(k) = id => ~Precedes(rows, i, k)]]

\* comparison_cte numbers the rows of a group, and keeps every row.
SqlOccurrence(rows, i) ==
    LET group == Group(rows, rows[i].record.url)
        least == Min({rows[k].duplicate : k \in group})
    IN IF least > 0 /\ Cardinality({rows[k].duplicate : k \in group}) = Cardinality(group)
       THEN rows[i].duplicate ELSE Ordinal(rows, i)

SqlIdentified(rows) ==
    {[url |-> rows[i].record.url, occurrence |-> SqlOccurrence(rows, i), row |-> rows[i]] :
       i \in DOMAIN rows}

-----------------------------------------------------------------------------
(* What differs between two rows of one identity.                          *)

Known(x, y) == x # None /\ y # None
TextDiffers(x, y) == x.value # y.value \/ (Known(x.count, y.count) /\ x.count # y.count)

\* Contents are comparable when both are known and made under one setting.
ContentOf(previous, current) ==
    IF ~Known(previous.content, current.content)
       \/ previous.content.context # current.content.context THEN "unavailable"
    ELSE IF previous.content.hash = current.content.hash THEN "unchanged" ELSE "changed"

\* comparison_row
Changed(previous, current) ==
    LET was == previous.record
        is == current.record
    IN {f \in Fields :
        CASE f = "finalUrl"         -> was.final # is.final
          [] f = "statusCode"       -> was.status # is.status
          [] f = "title"            -> TextDiffers(was.text["title"], is.text["title"])
          [] f = "metaDescription"  -> TextDiffers(was.text["meta"], is.text["meta"])
          [] f = "indexability"     -> was.indexability # is.indexability \/ was.indexStatus # is.indexStatus
          [] f = "headings"         ->
                \E h \in {"h1", "h2"} : was.text[h].value # is.text[h].value \/ was.text[h].count # is.text[h].count
          [] f = "canonical"        -> was.canonical # is.canonical \/ was.canonicals # is.canonicals
          [] f = "robotsDirectives" -> was.robots # is.robots
          [] f = "content"          -> ContentOf(previous, current) = "changed"
          [] f = "responseHash"     -> Known(was.hash, is.hash) /\ was.hash # is.hash}

\* The columns of comparison_cte; its content_diff holds only where the two
\* contents are comparable.
SqlChanged(previous, current) ==
    LET was == previous.record
        is == current.record
        comparable == /\ Known(previous.content, current.content)
                      /\ previous.content.context = current.content.context
        counted(e) == Holds(AllOf({was.text[e].count # None, is.text[e].count # None,
                                   was.text[e].count # is.text[e].count}))
    IN {f \in Fields :
        CASE f = "finalUrl"         -> was.final # is.final
          [] f = "statusCode"       -> was.status # is.status
          [] f = "title"            -> was.text["title"].value # is.text["title"].value \/ counted("title")
          [] f = "metaDescription"  -> was.text["meta"].value # is.text["meta"].value \/ counted("meta")
          [] f = "indexability"     ->
                <<was.indexability, was.indexStatus>> # <<is.indexability, is.indexStatus>>
          [] f = "headings"         ->
                \E h \in {"h1", "h2"} : <<was.text[h].value, was.text[h].count>> # <<is.text[h].value, is.text[h].count>>
          [] f = "canonical"        -> <<was.canonical, was.canonicals>> # <<is.canonical, is.canonicals>>
          [] f = "robotsDirectives" -> was.robots # is.robots
          [] f = "content"          -> comparable /\ previous.content.hash # current.content.hash
          [] f = "responseHash"     ->
                Holds(AllOf({was.hash # None, is.hash # None, was.hash # is.hash}))}
-----------------------------------------------------------------------------
(* The answer: how many of each, and the first rows in order of change, URL *)
(* and occurrence.                                                          *)

Line(u, occurrence, change, fields) ==
    [url |-> u, occurrence |-> occurrence, change |-> change, fields |-> fields]

\* comparison_change_order
ChangeOrder(change) == CASE change = "added" -> 0 [] change = "removed" -> 1
                   [] change = "changed" -> 2 [] OTHER -> 3
UrlRank(u) == CHOOSE i \in DOMAIN UrlOrder : UrlOrder[i] = u
LineBefore(x, y) ==
    \/ ChangeOrder(x.change) < ChangeOrder(y.change)
    \/ ChangeOrder(x.change) = ChangeOrder(y.change) /\ UrlRank(x.url) < UrlRank(y.url)
    \/ ChangeOrder(x.change) = ChangeOrder(y.change) /\ x.url = y.url /\ x.occurrence < y.occurrence

\* A set in the order that gives each element the set of those before it: the
\* n-th has n - 1 before it.
InOrder(before) ==
    [n \in 1..Cardinality(DOMAIN before) |-> CHOOSE x \in DOMAIN before : Cardinality(before[x]) = n - 1]

Cut(lines, n) == SubSeq(lines, 1, IF Len(lines) < n THEN Len(lines) ELSE n)
Sorted(lines) ==
    LET before(i) == {k \in DOMAIN lines : \/ LineBefore(lines[k], lines[i])
                                           \/ ~LineBefore(lines[i], lines[k]) /\ k < i}
        order == InOrder([i \in DOMAIN lines |-> before(i)])
    IN [n \in DOMAIN lines |-> lines[order[n]]]

\* push_comparison_row: twice as many are kept as are shown.
Push(lines, line) ==
    LET all == Append(lines, line)
    IN IF Len(all) = 2 * MaxRows THEN Cut(Sorted(all), MaxRows) ELSE all

\* comparison_metric_deltas: the views whose sizes are compared.
DeltaViews == {View("broken", "-"), View("missing", "title"), View("duplicate", "title"),
               View("missing", "meta"), View("duplicate", "meta"), View("missing", "h1"),
               View("near duplicate", "-")}

Records(rows) == [i \in DOMAIN rows |-> rows[i].record]

\* The line of an identity that one of the maps holds.
LineOf(before, after, id) ==
    IF id \notin DOMAIN before THEN Line(id[1], id[2], "added", {})
    ELSE IF id \notin DOMAIN after THEN Line(id[1], id[2], "removed", {})
    ELSE LET fields == Changed(before[id], after[id])
         IN Line(id[1], id[2], IF fields = {"responseHash"} THEN "responseOnly" ELSE "changed", fields)

\* A map gives its identities by URL and then by occurrence.
IdentityOrder(ids) ==
    InOrder([x \in ids |-> {y \in ids : \/ UrlRank(y[1]) < UrlRank(x[1])
                                        \/ y[1] = x[1] /\ y[2] < x[2]}])
PushAll(lines, before, after, ids) ==
    FoldLeft(Push, lines, [n \in DOMAIN IdentityOrder(ids) |-> LineOf(before, after, IdentityOrder(ids)[n])])

\* compare_records
Compare(baseline, current, responses) ==
    LET before == ByIdentity(baseline)
        after  == ByIdentity(current)
        added   == DOMAIN after \ DOMAIN before
        removed == DOMAIN before \ DOMAIN after
        shared  == DOMAIN before \cap DOMAIN after
        fields(id) == Changed(before[id], after[id])
        changed == {id \in shared : fields(id) \ {"responseHash"} # {}}
        only    == {id \in shared : fields(id) = {"responseHash"}}
        lines == PushAll(PushAll(<<>>, before, after, added), before, after, removed \cup changed)
        late  == PushAll(<<>>, before, after, IF responses THEN only ELSE {})
        size(view, rows) ==
            LET all == Records(rows) IN Cardinality(Among(all, LAMBDA r : Counted(view, all, r)))
    IN [added |-> Cardinality(added), removed |-> Cardinality(removed), changed |-> Cardinality(changed),
        of |-> [f \in Fields \ {"responseHash"} |-> Cardinality({id \in changed : f \in fields(id)})],
        hashes |-> Cardinality({id \in shared : "responseHash" \in fields(id)}),
        responses |-> Cardinality(only),
        unavailable |-> Cardinality({id \in shared : ContentOf(before[id], after[id]) = "unavailable"}),
        lines |-> Cut(Sorted(lines \o late), MaxRows),
        deltas |-> [view \in DeltaViews |-> size(view, current) - size(view, baseline)]]
-----------------------------------------------------------------------------
(* compare_databases: one table of joined rows, classified and counted.    *)

\* A side that is NULL is the empty set.
Joined(x, was, is) == [url |-> x.url, occurrence |-> x.occurrence, was |-> was, is |-> is]

SqlJoined(baseline, current) ==
    LET previous == SqlIdentified(baseline)
        now == SqlIdentified(current)
        match(x, y) == x.url = y.url /\ x.occurrence = y.occurrence
    IN {Joined(x, {x.row}, {}) : x \in {x \in previous : \A y \in now : ~match(x, y)}}
       \cup {Joined(x[1], {x[1].row}, {x[2].row}) : x \in {x \in previous \X now : match(x[1], x[2])}}
       \cup {Joined(y, {}, {y.row}) : y \in {y \in now : \A x \in previous : ~match(x, y)}}

SqlLine(joined) ==
    LET fields == UNION {SqlChanged(x[1], x[2]) : x \in joined.was \X joined.is}
    IN Line(joined.url, joined.occurrence,
            IF joined.was = {} THEN "added" ELSE IF joined.is = {} THEN "removed"
            ELSE IF fields \ {"responseHash"} # {} THEN "changed"
            ELSE IF fields # {} THEN "responseOnly" ELSE "unchanged",
            fields)

\* comparison_summary
SqlSize(view, rows) ==
    LET listing == Records(rows)
        pages == SqlAmong(listing, SqlPage)
        group(column) == {i \in pages : Cardinality({k \in pages : column[k] = column[i]}) > 1}
        key == [i \in DOMAIN listing |-> Key(listing[i].text[view.of].value)]
        cluster == [i \in DOMAIN listing |-> listing[i].cluster]
    IN Cardinality(
         CASE view.kind = "broken"         -> SqlAmong(listing, SqlBroken)
           [] view.kind = "missing"        -> {i \in pages : key[i] = ""}
           [] view.kind = "duplicate"      -> {i \in group(key) : key[i] # ""}
           [] view.kind = "near duplicate" -> {i \in group(cluster) : cluster[i] # None})

SqlCompare(baseline, current, responses) ==
    LET joined == SqlJoined(baseline, current)
        of(change) == {j \in joined : SqlLine(j).change = change}
        differing(f) == {j \in joined : f \in SqlLine(j).fields}
        shown == {SqlLine(j) : j \in {j \in joined : SqlLine(j).change # "unchanged"
                                        /\ (responses \/ SqlLine(j).change # "responseOnly")}}
    IN [added |-> Cardinality(of("added")), removed |-> Cardinality(of("removed")),
        changed |-> Cardinality(of("changed")),
        of |-> [f \in Fields \ {"responseHash"} |-> Cardinality(differing(f))],
        hashes |-> Cardinality(differing("responseHash")),
        responses |-> Cardinality(of("responseOnly")),
        unavailable |-> Cardinality({j \in joined : \E x \in j.was \X j.is : ContentOf(x[1], x[2]) = "unavailable"}),
        lines |-> Cut(InOrder([x \in shown |-> {y \in shown : LineBefore(y, x)}]), MaxRows),
        deltas |-> [view \in DeltaViews |-> SqlSize(view, current) - SqlSize(view, baseline)]]

-----------------------------------------------------------------------------
(* Properties *)

\* The crawls that may have been saved earlier: another order, a page less, a
\* page twice in a list, a page that has changed in one way.
Listed(rs, places, duplicates) ==
    [i \in DOMAIN rs |-> Row(rs[i], places[i], duplicates[i], None)]
Plainly(rs, content) == [i \in DOMAIN rs |-> Row(rs[i], None, 0, content)]
Twice(rs) == <<rs[1], [rs[1] EXCEPT !.status = 404]>> \o Tail(rs)
Content(hash, context) == [hash |-> hash, context |-> context]

Crawls(rs) ==
    {Plainly(rs, Content("same", "plain")), Plainly(Reverse(rs), Content("new", "plain")), Plainly(Tail(rs), None),
     Plainly(rs, Content("same", "rendered")),
     Plainly([rs EXCEPT ![1].hash = "another"], Content("new", "plain")),
     Plainly([rs EXCEPT ![1].text["title"].count = None], Content("same", "plain"))}
    \cup {Listed(Twice(rs), <<2, 1, 3>>, duplicates) : duplicates \in {<<1, 2, 1>>, <<1, 1, 1>>, <<1, 0, 1>>}}
    \cup {Listed(Twice(rs), <<2, None, 3>>, duplicates) : duplicates \in {<<2, 1, 1>>, <<1, 0, 1>>}}

\* What one comparison and its reverse must say: every record of either crawl
\* has one line, a URL added in one is removed in the other, and a crawl
\* compared with itself shows nothing.
Balanced(baseline, current, said, reverse) ==
    /\ said.added + Len(baseline) = said.removed + Len(current)
    /\ said.added = reverse.removed /\ said.removed = reverse.added
    /\ said.changed = reverse.changed /\ said.of = reverse.of /\ said.responses = reverse.responses
    /\ said.changed + said.responses <= Len(baseline) - said.removed
    /\ baseline = current => said.lines = <<>> /\ said.hashes = 0

\* Both ways of comparing say the same of any two crawls, and what they say
\* adds up (compare_records, comparison_cte).  The crawl that is open holds two
\* pages, found in text order, as a Spider or a List crawl stores them.
Opened(rs) ==
    {<<Plainly(rs, Content("same", "plain")), TRUE>>,
     <<Listed(Twice(rs), <<2, 1, 3>>, <<2, 1, 1>>), FALSE>>,
     <<Listed(Twice(rs), <<None, 1, None>>, <<0, 1, 0>>), TRUE>>}

ComparisonsAgree ==
    site \in Compared /\ step = "idle" /\ ~cancelled /\ [i \in DOMAIN records |-> records[i].url] = SubSeq(UrlOrder, 1, 2) =>
        \A opened \in Opened(records), baseline \in Crawls(records) :
            LET current == opened[1]
                responses == opened[2]
                said == Compare(baseline, current, responses)
            IN /\ said = SqlCompare(baseline, current, responses)
               /\ Balanced(baseline, current, said, Compare(current, baseline, responses))

\* Whatever is answered in Rust and in SQL is answered alike: the views and
\* counters, the diagnostics of references, and the comparison of two crawls.
AuditsAgree == DiagnosticsAgree /\ ComparisonsAgree
=============================================================================
