------------------------------ MODULE IssueViews ------------------------------
(***************************************************************************)
(* The issue views of crates/storage over the records fetch_one returns.   *)
(*                                                                         *)
(* Which records belong to a view is written four times in the code: for   *)
(* the memory store (matches_view), as SQL text for the database store     *)
(* (query_filter_sql), as counters (summarize_without_canonicals) and as   *)
(* the issues of a report (analyze_records of crates/analysis).  The SQL   *)
(* form has NULL: None is NULL here, and a clause holds when it is TRUE.   *)
(*                                                                         *)
(* Views of one shape are one view: "evidence" stands for the fourteen     *)
(* views of a count or flag the parser fills, "thin" for the two limits    *)
(* on the text, "unsafe page" and "unsafe answer" for the five views of a  *)
(* missing header or viewport, a pixel width for the length it goes with.  *)
(***************************************************************************)
EXTENDS PageFetch

CONSTANTS MinSize, MaxSize, ThinWords     \* AuditThresholds

ElementViews == [kind : {"missing", "duplicate", "long"}, of : Elements]
                \cup [kind : {"multiple", "short"}, of : {"title", "meta"}]
PageViews == {"title is h1", "no canonical", "canonicals", "paginations", "amps", "evidence",
              "unsafe page", "no doctype", "near duplicate", "exact duplicate", "thin"}
RecordViews == {"internal", "2xx", "3xx", "4xx", "5xx", "no response", "broken", "noindex",
                "unsafe answer"}
Views == ElementViews \cup [kind : PageViews \cup RecordViews, of : {"-"}]

\* is_html_audit_view
OfPages(view) == view.kind \notin RecordViews

\* A text is blank, or one of two spellings of the same key.
Texts == {None, "blank", "Shoes", "shoes"}
Key(text) == CASE text \in {None, "blank"} -> "" [] OTHER -> "shoes"

\* What is read of a page is of its type, a blank text has no characters left to
\* count, and nothing else stands for an absent value.  An answer of 300 to 399 is
\* a redirect of the site, with or without a target (is_redirection).
Phrases == {"", "No response", "Blocked by robots.txt", "HTTP", "Indexable", "Non-indexable",
            "Unknown", "Canonicalized", "X-Robots-Tag noindex", "Meta robots noindex",
            "Response body incomplete", "cut", "refused", "JavaScript rendering failed",
            "Redirect loop detected", "Redirect limit exceeded", "html", "shoes"}
PageAssumption(page) ==
    /\ page.text \in [Elements -> [value : Texts, count : Nat \cup {None}, size : Nat]]
    /\ \A e \in Elements : Key(page.text[e].value) = "" => page.text[e].size = 0
    /\ {page.evidence, page.words} \subseteq Nat
    /\ page.doctype \in BOOLEAN \cup {None}
ASSUME ViewAssumption ==
    /\ None \notin BOOLEAN \cup Nat \cup Phrases
    /\ {MinSize, MaxSize, ThinWords} \subseteq Nat
    /\ \A s \in Sites : \A u \in Urls : s[u].kind = "answer" =>
          /\ s[u].status \in Nat \ (300..399) /\ s[u].secure \in BOOLEAN
          /\ PageAssumption(s[u].page)

Among(rows, Test(_)) == {i \in DOMAIN rows : Test(rows[i])}

-----------------------------------------------------------------------------
(* MemoryStore *)

IsBlocked(r) ==
    r.status = None /\ (r.reason = "Blocked by robots.txt" \/ r.error = "Blocked by robots.txt")
IsSuccess(r) == r.status # None /\ r.status \in 200..299
IsNoResponse(r) == r.status = None /\ r.error # None /\ ~IsBlocked(r)
IsRedirect(r) == r.status # None /\ r.status \in 300..399
IsBroken(r) ==
    \/ IsNoResponse(r)
    \/ r.status # None /\ r.status >= 400
    \/ IsRedirect(r) /\ r.error # None
IsPage(r) == IsSuccess(r) /\ r.indexStatus # "Response body incomplete" /\ r.type = "html"

\* duplicate_counts and cluster_counts, over the complete pages only
SameKey(rows, e, key) == Among(rows, LAMBDA r : IsPage(r) /\ Key(r.text[e].value) = key)
SameCluster(rows, c) == Among(rows, LAMBDA r : IsPage(r) /\ r.cluster = c)

Duplicated(rows, r, e) ==
    /\ Key(r.text[e].value) # ""
    /\ Cardinality(SameKey(rows, e, Key(r.text[e].value))) > 1
InCluster(rows, r) == r.cluster # None /\ Cardinality(SameCluster(rows, r.cluster)) > 1

\* exact_duplicate_hashes: a hash must be seen on two final URLs.
ExactHashes(rows) ==
    {rows[i].hash : i \in {i \in DOMAIN rows :
        /\ IsPage(rows[i]) /\ rows[i].hash # None
        /\ \E k \in DOMAIN rows : /\ IsPage(rows[k]) /\ rows[k].hash = rows[i].hash
                                  /\ rows[k].final # rows[i].final}}

InMemory(view, rows, r) ==
    LET text == r.text[view.of]
    IN /\ OfPages(view) => IsPage(r)
       /\ CASE view.kind = "missing"   -> Key(text.value) = ""
            [] view.kind = "duplicate" -> Duplicated(rows, r, view.of)
            [] view.kind = "multiple"  -> text.count # None /\ text.count > 1
            [] view.kind = "short"     -> Key(text.value) # "" /\ text.size < MinSize
            [] view.kind = "long"      -> text.size > MaxSize
            [] view.kind = "title is h1" ->
                  /\ Key(r.text["title"].value) # ""
                  /\ Key(r.text["title"].value) = Key(r.text["h1"].value)
            [] view.kind = "no canonical"    -> r.canonical = None
            [] view.kind = "canonicals"      -> r.canonicals > 1
            [] view.kind = "paginations"     -> Cardinality(r.next) > 1 \/ Cardinality(r.prev) > 1
            [] view.kind = "amps"            -> Cardinality(r.amp) > 1
            [] view.kind = "evidence"        -> r.evidence > 0
            [] view.kind = "unsafe page"     -> ~r.secure
            [] view.kind = "no doctype"      -> r.doctype = FALSE
            [] view.kind = "near duplicate"  -> InCluster(rows, r)
            [] view.kind = "exact duplicate" -> r.hash \in ExactHashes(rows)
            [] view.kind = "thin"            -> r.words < ThinWords
            [] view.kind = "internal"    -> r.internal
            [] view.kind = "2xx"         -> IsSuccess(r)
            [] view.kind = "3xx"         -> r.chain # <<>> \/ IsRedirect(r)
            [] view.kind = "4xx"         -> r.status # None /\ r.status \in 400..499
            [] view.kind = "5xx"         -> r.status # None /\ r.status >= 500
            [] view.kind = "no response" -> IsNoResponse(r)
            [] view.kind = "broken"      -> IsBroken(r)
            [] view.kind = "noindex"     ->
                  r.indexStatus \in {"X-Robots-Tag noindex", "Meta robots noindex"}
            [] view.kind = "unsafe answer" -> IsSuccess(r) /\ ~r.secure
-----------------------------------------------------------------------------
(* SqliteStore: a condition is TRUE, FALSE or None.                        *)

\* Whatever compares NULL is NULL.
Test(column, P(_)) == IF column = None THEN None ELSE P(column)
Less(column, n) == Test(column, LAMBDA v : v < n)
More(column, n) == Test(column, LAMBDA v : v > n)
Same(column, c) == Test(column, LAMBDA v : v = c)
Differs(column, c) == Test(column, LAMBDA v : v # c)
Within(column, S) == Test(column, LAMBDA v : v \in S)
AllOf(conditions) ==
    IF FALSE \in conditions THEN FALSE ELSE IF None \in conditions THEN None ELSE TRUE
AnyOf(conditions) ==
    IF TRUE \in conditions THEN TRUE ELSE IF None \in conditions THEN None ELSE FALSE
Holds(condition) == condition = TRUE

\* SUCCESS_HTML_SQL, NO_RESPONSE_SQL, broken_record_sql
SqlSuccess(r) == Within(r.status, 200..299)
SqlHtml(r) == Same(r.type, "html")
\* A body that broke off makes a complete page.
SqlPageFault(r) == AllOf({SqlSuccess(r), SqlHtml(r)})
SqlPage(r) ==
    AllOf({SqlSuccess(r), SqlHtml(r), Differs(r.indexStatus, "Response body incomplete")})
SqlNoResponse(r) ==
    AllOf({r.status = None, r.error # None,
           Differs(r.reason, "Blocked by robots.txt"), Differs(r.error, "Blocked by robots.txt")})
SqlRedirect(r) == Within(r.status, 300..399)
SqlBroken(r) ==
    AnyOf({More(r.status, 399), AllOf({SqlRedirect(r), r.error # None}), SqlNoResponse(r)})

SqlAmong(rows, Where(_)) == {i \in DOMAIN rows : Holds(Where(rows[i]))}

\* The rows a group of more than one complete page has in common.
Groups(rows, column) ==
    LET pages == SqlAmong(rows, SqlPage)
    IN {v \in {column[i] : i \in pages} : Cardinality({i \in pages : Holds(Same(column[i], v))}) > 1}

\* ensure_exact_duplicates
SqlExact(rows) ==
    LET Hash(v) == SqlAmong(rows, LAMBDA r : AllOf({SqlPage(r), Same(r.hash, v)}))
    IN {i \in SqlAmong(rows, SqlPage) :
           Cardinality({rows[k].final : k \in Hash(rows[i].hash)}) > 1}

\* query_filter_sql: the clauses of a view, joined by AND.
InDatabase(view, rows, r) ==
    LET text == r.text[view.of]
        page == IF OfPages(view) THEN SqlPage(r) ELSE TRUE
        clause ==
          CASE view.kind = "missing"   -> AnyOf({text.value = None, Key(text.value) = ""})
            [] view.kind = "duplicate" ->
                  Key(text.value) \in Groups(rows, [i \in DOMAIN rows |-> Key(rows[i].text[view.of].value)]) \ {""}
            [] view.kind = "multiple"  -> More(text.count, 1)
            [] view.kind = "short"     ->
                  AllOf({text.value # None, Key(text.value) # "", Less(text.size, MinSize)})
            [] view.kind = "long"      -> More(text.size, MaxSize)
            [] view.kind = "title is h1" ->
                  AllOf({r.text["title"].value # None, r.text["h1"].value # None,
                         Key(r.text["title"].value) # "",
                         Key(r.text["title"].value) = Key(r.text["h1"].value)})
            [] view.kind = "no canonical"    -> r.canonical = None
            [] view.kind = "canonicals"      -> More(r.canonicals, 1)
            [] view.kind = "paginations"     ->
                  AnyOf({Cardinality(r.next) > 1, Cardinality(r.prev) > 1})
            [] view.kind = "amps"            -> Cardinality(r.amp) > 1
            [] view.kind = "evidence"        -> More(r.evidence, 0)
            [] view.kind = "unsafe page"     -> AllOf({SqlSuccess(r), SqlHtml(r), ~r.secure})
            [] view.kind = "no doctype"      -> Same(r.doctype, FALSE)
            [] view.kind = "near duplicate"  ->
                  AllOf({r.cluster # None,
                         r.cluster \in Groups(rows, [i \in DOMAIN rows |-> rows[i].cluster]) \ {None}})
            [] view.kind = "exact duplicate" -> \E i \in SqlExact(rows) : rows[i].url = r.url
            [] view.kind = "thin"            -> Less(r.words, ThinWords)
            [] view.kind = "internal"    -> r.internal
            [] view.kind = "2xx"         -> AllOf({More(r.status, 199), Less(r.status, 300)})
            [] view.kind = "3xx"         -> AnyOf({SqlRedirect(r), r.chain # <<>>})
            [] view.kind = "4xx"         -> AllOf({More(r.status, 399), Less(r.status, 500)})
            [] view.kind = "5xx"         -> More(r.status, 499)
            [] view.kind = "no response" -> SqlNoResponse(r)
            [] view.kind = "broken"      -> SqlBroken(r)
            [] view.kind = "noindex"     ->
                  Within(r.indexStatus, {"X-Robots-Tag noindex", "Meta robots noindex"})
            [] view.kind = "unsafe answer" -> AllOf({SqlSuccess(r), ~r.secure})
    IN Holds(AllOf({page, clause}))

-----------------------------------------------------------------------------
(* The counters of the memory store's summary; the others it has not.      *)

\* summarize_without_canonicals: a missing text is never a duplicate one.
Counters ==
    {v \in Views : v.kind \notin {"short", "long", "title is h1", "exact duplicate", "thin"}}

Counted(view, rows, r) ==
    LET text == r.text[view.of]
    IN /\ OfPages(view) => IsPage(r)
       /\ CASE view.kind = "missing"   -> Key(text.value) = ""
            [] view.kind = "duplicate" -> Key(text.value) # "" /\ Duplicated(rows, r, view.of)
            [] view.kind = "2xx"       -> r.status # None /\ r.status \in 200..299
            [] view.kind = "unsafe page" -> ~r.secure
            [] OTHER -> InMemory(view, rows, r)

-----------------------------------------------------------------------------
(* analyze_records: the views of the issues that a report says of a record.  *)

View(kind, e) == [kind |-> kind, of |-> e]
Issue(kind, holds) == IF holds THEN {View(kind, "-")} ELSE {}
TextIssue(kind, e, holds) == IF holds THEN {View(kind, e)} ELSE {}

\* title_issues, meta_issues, h1_issues, h2_issues: a blank text is missing and
\* nothing else, but there may be several of it.
TextIssues(rows, r, e) ==
    LET text == r.text[e]
        limited == e \in {"title", "meta"}
    IN TextIssue("multiple", e, limited /\ text.count # None /\ text.count > 1)
       \cup IF Key(text.value) = "" THEN {View("missing", e)}
            ELSE TextIssue("duplicate", e, Cardinality(SameKey(rows, e, Key(text.value))) > 1)
                 \cup TextIssue("short", e, limited /\ text.size < MinSize)
                 \cup TextIssue("long", e, text.size > MaxSize)

\* One issue for each response, and none for what robots.txt forbids.
ResponseIssues(r) ==
    IF r.status = None THEN Issue("no response", IsNoResponse(r))
    ELSE Issue("broken", r.status >= 400 \/ (r.status \in 300..399 /\ r.error # None))

DirectiveIssues(r) ==
    Issue("noindex", r.indexStatus \in {"X-Robots-Tag noindex", "Meta robots noindex"})

SecurityIssues(r) ==
    Issue("unsafe answer", IsSuccess(r) /\ ~r.secure)
    \cup Issue("unsafe page", IsPage(r) /\ ~r.secure)
    \cup Issue("evidence", IsPage(r) /\ r.evidence > 0)

CanonicalIssues(r) ==
    Issue("no canonical", r.canonical = None) \cup Issue("canonicals", r.canonicals > 1)

ContentIssues(r) == Issue("thin", r.words < ThinWords)

\* hreflang, structured data, the HTML itself and what rendering changed in it.
MarkupIssues(r) == Issue("evidence", r.evidence > 0) \cup Issue("no doctype", r.doctype = FALSE)

NearDuplicateIssues(rows, r) ==
    Issue("near duplicate", r.cluster # None /\ Cardinality(SameCluster(rows, r.cluster)) > 1)

ElementIssues(rows, r) == UNION {TextIssues(rows, r, e) : e \in Elements}

\* What only a complete page is told.
PageIssues(rows, r) ==
    ElementIssues(rows, r)
    \cup Issue("title is h1", LET title == Key(r.text["title"].value)
                             IN title # "" /\ title = Key(r.text["h1"].value))
    \cup CanonicalIssues(r) \cup ContentIssues(r) \cup MarkupIssues(r)
    \cup Issue("paginations", Cardinality(r.next) > 1 \/ Cardinality(r.prev) > 1)
    \cup Issue("amps", Cardinality(r.amp) > 1)
    \cup NearDuplicateIssues(rows, r)
    \cup Issue("exact duplicate", r.hash \in ExactHashes(rows))

Reported(rows, r) ==
    ResponseIssues(r) \cup DirectiveIssues(r) \cup SecurityIssues(r)
    \cup IF IsPage(r) THEN PageIssues(rows, r) ELSE {}

\* These views only sort responses; one without an answer is an issue of its own.
NotIssues == {View(kind, "-") : kind \in {"internal", "2xx", "3xx", "4xx", "5xx"}}
InReport(view, reported) ==
    \/ view \in reported
    \/ view.kind = "broken" /\ View("no response", "-") \in reported

-----------------------------------------------------------------------------
(* The validation of what the sitemaps list (sitemap_validation_issues and  *)
(* SITEMAP_ISSUE_SQL).  How many links a URL has is ResultStore's count.    *)

Findings == {"blocked", "no response", "redirecting", "4xx", "5xx", "not indexable",
             "canonical elsewhere", "redirect target", "external", "orphan", "fetch error"}
Rank(finding) == IF finding \in {"no response", "4xx", "5xx", "fetch error"} THEN 2 ELSE 1

SitemapFindings(r, inlinks) ==
    {f \in Findings :
        CASE f = "blocked"      -> IsBlocked(r)
          [] f = "no response"  -> IsNoResponse(r)
          [] f = "redirecting"  -> IsRedirect(r)
          [] f = "4xx"          -> r.status # None /\ r.status \in 400..499
          [] f = "5xx"          -> r.status # None /\ r.status \in 500..599
          [] f = "not indexable" -> r.indexability # "Indexable" \/ r.indexStatus # "Indexable"
          [] f = "canonical elsewhere" -> r.canonical \notin {None, r.final}
          [] f = "redirect target" -> r.target # None
          [] f = "external"     -> ~r.internal
          [] f = "orphan"       -> inlinks = 0 /\ r.internal
          [] f = "fetch error"  -> ~IsBlocked(r) /\ r.error # None}

\* push_sitemap_issue: the gravest finding; a row without one counts "OK".
SitemapRow(r, inlinks) ==
    LET found == SitemapFindings(r, inlinks)
    IN [findings |-> found,
        severity |-> Max({0} \cup {Rank(f) : f \in found}),
        count    |-> IF found = {} THEN 1 ELSE Cardinality(found)]

SqlBlocked(r) ==
    AllOf({r.status = None, AnyOf({Same(r.reason, "Blocked by robots.txt"),
                                   Same(r.error, "Blocked by robots.txt")})})
\* NOT of NULL is NULL.
Negated(condition) == IF condition = None THEN None ELSE ~condition

SqlFindings(r, inlinks) ==
    {f \in Findings : Holds(
        CASE f = "blocked"      -> SqlBlocked(r)
          [] f = "no response"  -> SqlNoResponse(r)
          [] f = "redirecting"  -> SqlRedirect(r)
          [] f = "4xx"          -> Within(r.status, 400..499)
          [] f = "5xx"          -> Within(r.status, 500..599)
          [] f = "not indexable" ->
                AnyOf({Differs(r.indexability, "Indexable"), Differs(r.indexStatus, "Indexable")})
          [] f = "canonical elsewhere" -> Differs(r.canonical, r.final)
          [] f = "redirect target" -> Test(r.target, LAMBDA t : TRUE)
          [] f = "external"     -> ~r.internal
          [] f = "orphan"       -> inlinks = 0 /\ r.internal
          [] f = "fetch error"  ->
                AllOf({Negated(SqlBlocked(r)), Test(r.error, LAMBDA e : TRUE)}))}

\* sitemap_validation_cte: the flags are summed, and weighed by their rank.
SqlSitemapRow(r, inlinks) ==
    LET found == SqlFindings(r, inlinks)
        sum == Cardinality(found)
    IN [findings |-> found,
        severity |-> IF \E f \in found : Rank(f) = 2 THEN 2 ELSE IF sum > 0 THEN 1 ELSE 0,
        count    |-> IF sum > 1 THEN sum ELSE 1]

-----------------------------------------------------------------------------
(* Properties *)

\* The two stores put the same records into every view and find the same wrong
\* with a sitemap's URL, linked or not; a counter of the summary is the size of
\* its view, and a report lists an issue for a record exactly when the view of
\* that issue shows it (matches_view, query_filter_sql, sitemap_validation_row,
\* sitemap_validation_cte, summarize_without_canonicals, analyze_records).  It is
\* enough to ask this of the last record, which any record is in some order.
ViewsAgree ==
    step = "idle" /\ ~cancelled /\ records # <<>> =>
        LET r == Last(records)
            reported == Reported(records, r)
        IN /\ \A inlinks \in 0..1 : SitemapRow(r, inlinks) = SqlSitemapRow(r, inlinks)
           /\ \A view \in Views :
               LET shown == InMemory(view, records, r)
               IN /\ shown = InDatabase(view, records, r)
                  /\ view \in Counters => (Counted(view, records, r) = shown)
                  /\ view \notin NotIssues => (InReport(view, reported) = shown)
=============================================================================
