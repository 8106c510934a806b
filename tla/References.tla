------------------------------ MODULE References ------------------------------
(***************************************************************************)
(* What the audits of crates/storage say of the references between pages:  *)
(* canonicals, pagination, AMP and hreflang (reference_diagnostics and the *)
(* hreflang audit), computed from nothing but the records, and set against *)
(* the site that the records came from.                                    *)
(*                                                                         *)
(* Every URL is its own alias here; aliases are ResultStore's subject.     *)
(***************************************************************************)
EXTENDS IssueViews

\* What a page links to in a sequence is read from its text.
ASSUME ReferenceAssumption ==
    \A s \in Sites : \A u \in Urls : s[u].kind = "answer" =>
        IsFiniteSet(s[u].page.next) /\ IsFiniteSet(s[u].page.prev)

-----------------------------------------------------------------------------
(* Audit records, as either store makes them                               *)

Hops(r) == {r.chain[i].url : i \in DOMAIN r.chain}

MemoryAudit(r) ==
    [url |-> r.url, final |-> r.final, hops |-> Hops(r),
     page |-> IsPage(r), fetched |-> r.status # None \/ r.error # None \/ IsBlocked(r),
     broken |-> IsBroken(r), redirect |-> IsRedirect(r),
     closed |-> \/ IsBlocked(r)
                \/ r.indexability = "Non-indexable" /\ ~IsBroken(r) /\ ~IsRedirect(r),
     observed |-> r.status # None \/ IsNoResponse(r),
     failed |-> \/ IsNoResponse(r)
                \/ IsRedirect(r) /\ r.error # None
                \/ r.status # None /\ r.status \in 400..599,
     finalObserved |-> r.error # "Redirect limit exceeded"]

\* ensure_reference_diagnostics: COALESCE turns NULL into a value.
Coalesce(condition, default) == IF condition = None THEN default ELSE condition
DatabaseAudit(r) ==
    [url |-> r.url, final |-> r.final, hops |-> Hops(r),
     page |-> Coalesce(SqlPage(r), FALSE),
     fetched |-> AnyOf({r.status # None, r.error # None, Same(r.reason, "Blocked by robots.txt")}),
     broken |-> Coalesce(SqlBroken(r), FALSE), redirect |-> Coalesce(SqlRedirect(r), FALSE),
     closed |-> Coalesce(AnyOf({
         AllOf({r.status = None, AnyOf({Same(r.reason, "Blocked by robots.txt"),
                                        Same(r.error, "Blocked by robots.txt")})}),
         AllOf({Same(r.indexability, "Non-indexable"), ~Coalesce(SqlBroken(r), FALSE),
                ~Coalesce(SqlRedirect(r), FALSE)})}), FALSE),
     observed |-> Coalesce(AnyOf({r.status # None, SqlNoResponse(r)}), FALSE),
     failed |-> Coalesce(AnyOf({Within(r.status, 400..599), SqlNoResponse(r),
                                AllOf({SqlRedirect(r), r.error # None})}), FALSE),
     finalObserved |-> Coalesce(Differs(r.error, "Redirect limit exceeded"), TRUE)]

Audit == [i \in DOMAIN records |-> MemoryAudit(records[i])]

-----------------------------------------------------------------------------
(* Which record speaks for a URL                                           *)

\* A record speaks for the URL it was asked for (0), for its redirects (1) and
\* for where it ended (2).
Speaks(u) ==
    LET audit == Audit
        Claim(i, priority, redirect) ==
            [pending |-> ~audit[i].fetched, priority |-> priority, at |-> i, redirect |-> redirect]
    IN {Claim(i, 0, audit[i].redirect \/ audit[i].hops # {}) : i \in {i \in DOMAIN audit : audit[i].url = u}}
       \cup {Claim(i, 1, TRUE) : i \in {i \in DOMAIN audit : u \in audit[i].hops}}
       \cup {Claim(i, 2, audit[i].redirect) : i \in {i \in DOMAIN audit : audit[i].final = u}}

\* Fetched before pending, then the priority, then the earlier record.
Outranks(c, d) ==
    \/ ~c.pending /\ d.pending
    \/ /\ c.pending = d.pending
       /\ c.priority < d.priority \/ (c.priority = d.priority /\ c.at < d.at)
First(claims) == CHOOSE c \in claims : \A d \in claims : ~Outranks(d, c)

Observed(u) ==
    {c \in Speaks(u) : Audit[c.at].observed /\ (c.priority # 2 \/ Audit[c.at].finalObserved)}

\* The record of an observed target: the source itself when it names itself.
Own(i) == {Audit[i].url, Audit[i].final} \cup Audit[i].hops
TargetOf(i, u) ==
    IF u \notin Urls THEN 0
    ELSE IF u \in Own(i) THEN i
    ELSE IF Observed(u) = {} THEN 0 ELSE First(Observed(u)).at
TargetsOf(i, declared) == {TargetOf(i, u) : u \in declared} \ {0}

-----------------------------------------------------------------------------
(* Cycles                                                                  *)

\* The nodes from i on that were not seen before, and where the walk ends: at a
\* node of the path or of an earlier walk, or at 0.
Walk(next, seen, i) ==
    LET after[n \in 0..Len(next)] ==
            IF n = 0 THEN [path |-> {}, end |-> i]
            ELSE LET walk == after[n - 1]
                 IN IF walk.end = 0 \/ walk.end \in seen \cup walk.path THEN walk
                    ELSE [path |-> walk.path \cup {walk.end}, end |-> next[walk.end]]
    IN after[Len(next)]

\* A walk that ends in an older one is never taken into its cycle.
AfterWalkFault(cycles, walk) == IF walk.end \in walk.path THEN cycles \cup walk.path ELSE cycles
AfterWalk(cycles, walk) ==
    IF walk.end \in walk.path \cup cycles THEN cycles \cup walk.path ELSE cycles

\* paths_entering_cycles
EnterCycles(next) ==
    LET Start(done, i) ==
            IF i \in done.seen THEN done
            ELSE LET walk == Walk(next, done.seen, i)
                 IN [seen |-> done.seen \cup walk.path, cycles |-> AfterWalk(done.cycles, walk)]
    IN FoldLeft(Start, [seen |-> {}, cycles |-> {}], [i \in DOMAIN next |-> i]).cycles

\* Where the walk over single edges ends, for one that ends.
EndOf(single, i) ==
    LET at[n \in 0..Len(single)] ==
            IF n = 0 THEN i ELSE LET k == at[n - 1] IN IF single[k] = 0 THEN k ELSE single[k]
    IN at[Len(single)]

\* pagination_paths_entering_cycles: a page that branches proves nothing about
\* the paths through it, only about those that start at it.
EnterSequences(edges, branching) ==
    LET single == [i \in DOMAIN edges |->
                    IF Cardinality(edges[i]) = 1 /\ ~branching[i]
                    THEN CHOOSE t \in edges[i] : TRUE ELSE 0]
        proven == EnterCycles(single)
    IN {i \in DOMAIN edges :
          i \in proven \/ \E t \in edges[i] : t = i \/ t \in proven \/ EndOf(single, t) = i}

-----------------------------------------------------------------------------
(* build_canonical_diagnostics                                             *)

PointsAway(i) ==
    /\ Audit[i].page
    /\ records[i].canonical \in Urls \ {Audit[i].url, Audit[i].final}

\* A source's own answer outranks every other record of the URL.
CanonicalClaims(i) ==
    IF PointsAway(i) THEN Speaks(records[i].canonical)
    ELSE {[pending |-> FALSE, priority |-> 0, at |-> i,
           redirect |-> Audit[i].redirect \/ records[i].canonical \in Audit[i].hops]}

CanonicalNext ==
    [i \in DOMAIN records |->
      IF ~PointsAway(i) \/ CanonicalClaims(i) = {} THEN 0
      ELSE LET t == First(CanonicalClaims(i)).at
           IN IF Audit[t].fetched /\ Audit[t].page /\ Audit[t].final # Audit[i].final THEN t ELSE 0]

CanonicalFlags(i) ==
    LET claims == CanonicalClaims(i)
        best == First(claims)
        target == Audit[best.at]
        next == CanonicalNext
    IN IF ~Audit[i].page \/ records[i].canonical \notin Urls THEN {}
       ELSE IF claims = {} \/ ~target.fetched
       THEN IF records[i].internal /\ {Audit[i].final, records[i].canonical} \subseteq Internal
            THEN {"uncrawled"} ELSE {}
       ELSE (IF best.redirect THEN {"redirect"} ELSE {})
            \cup (IF target.broken THEN {"error"} ELSE {})
            \cup (IF target.closed THEN {"non-indexable"} ELSE {})
            \cup (IF next[i] # 0 /\ PointsAway(next[i]) THEN {"chain"} ELSE {})
            \cup (IF i \in EnterCycles(next) THEN {"loop"} ELSE {})
-----------------------------------------------------------------------------
(* build_reference_diagnostics                                             *)

Relations == {"next", "prev"}
Back(rel) == IF rel = "next" THEN "prev" ELSE "next"
Declared(i, rel) == IF rel = "next" THEN records[i].next ELSE records[i].prev

\* The complete pages a relation leads to; another route to the source's own
\* page is the source itself.
Edges(rel) ==
    [i \in DOMAIN records |->
      IF ~Audit[i].page THEN {}
      ELSE {IF Audit[t].final = Audit[i].final THEN i ELSE t :
               t \in {t \in TargetsOf(i, Declared(i, rel)) : Audit[t].page}}]
Branching(rel) ==
    [i \in DOMAIN records |-> Audit[i].page /\ Cardinality(Declared(i, rel)) > 1]

\* Where a link back from page t leads: to a final URL, or None when unknown.
ReturnsTo(t, u) ==
    IF u \notin Urls THEN None
    ELSE IF u \in Own(t) THEN Audit[t].final
    ELSE LET first == First(Observed(u))
         IN IF Observed(u) = {} \/ ~Audit[first.at].page THEN None ELSE Audit[first.at].final

NonReciprocal(i, rel) ==
    \E t \in Edges(rel)[i] \ {i} :
        LET back == Declared(t, Back(rel))
        IN /\ \A u \in back : u \notin Own(i) /\ ReturnsTo(t, u) # Audit[i].final
           /\ \A u \in back : ReturnsTo(t, u) # None

\* An AMP page that was read, of another source, names its source as canonical.
AmpNonReciprocal(i) ==
    \E t \in {t \in TargetsOf(i, records[i].amp) : Audit[t].page} :
        LET canonical == records[t].canonical
            pages == {x \in Observed(canonical) : Audit[x.at].page}
        IN \/ canonical = None
           \/ /\ canonical \in Urls \ Own(i)
              /\ pages # {}
              /\ Audit[First(pages).at].final # Audit[i].final

SequenceFlags(i) ==
    LET linked == TargetsOf(i, records[i].next \cup records[i].prev)
        canonical == TargetOf(i, records[i].canonical)
        amps == TargetsOf(i, records[i].amp)
        Flag(name, holds) == IF holds THEN {name} ELSE {}
    IN IF ~Audit[i].page THEN {}
       ELSE (UNION {[kind : {rel}, flag :
                       Flag("error", \E t \in TargetsOf(i, Declared(i, rel)) : Audit[t].failed)
                       \cup Flag("loop", i \in EnterSequences(Edges(rel), Branching(rel)))
                       \cup Flag("no return", NonReciprocal(i, rel))] : rel \in Relations})
            \cup [kind : {"canonical"}, flag :
                   Flag("linked page", /\ canonical # 0 /\ Audit[canonical].page
                                       /\ Audit[canonical].final # Audit[i].final
                                       /\ \E t \in linked : /\ Audit[t].page
                                            /\ Audit[t].final = Audit[canonical].final)]
            \cup [kind : {"amp"}, flag :
                   Flag("error", \E t \in amps : Audit[t].failed)
                   \cup Flag("no return", AmpNonReciprocal(i))
                   \cup Flag("no marker",
                        \E t \in amps : Audit[t].page /\ records[t].ampDocument = FALSE)]

\* canonical_issues and reference_target_issues of crates/analysis: a report
\* lists what is flagged of a complete page.
CanonicalReport(i) == IF IsPage(records[i]) THEN CanonicalFlags(i) ELSE {}
TargetReport(i) == IF IsPage(records[i]) THEN SequenceFlags(i) ELSE {}

-----------------------------------------------------------------------------
(* hreflang: HreflangAuditIndex, and the joins the database does           *)

Names(i) == {records[i].url, records[i].final}
Links(i) == records[i].hreflang \cap Urls

\* The first record that has the URL as one of its names.
Named(u) == {i \in DOMAIN records : u \in Names(i)}
Earliest(S) == CHOOSE i \in S : \A k \in S : i <= k

MissingReturn(i) ==
    IsPage(records[i]) /\ \E u \in Links(i) \ Names(i) :
        Named(u) # {} /\ Links(Earliest(Named(u))) \cap Names(i) = {}
NonCanonicalTarget(i) ==
    IsPage(records[i]) /\ \E u \in Links(i) :
        LET t == Earliest(Named(u))
        IN Named(u) # {} /\ records[t].canonical # None /\ records[t].canonical \notin Names(t)

\* ff_hreflang_targets: a link, its first target, and whether it is its source.
SqlLinks ==
    LET found == {l \in (DOMAIN records) \X Urls : l[2] \in Links(l[1]) /\ Named(l[2]) # {}}
    IN {[source |-> l[1], target |-> Earliest(Named(l[2])), own |-> l[2] \in Names(l[1])] : l \in found}
SqlMissingReturn(i) ==
    Holds(SqlPage(records[i])) /\ \E l \in SqlLinks :
        l.source = i /\ ~l.own /\ ~\E u \in Links(l.target) : u \in Names(l.source)
SqlNonCanonicalTarget(i) ==
    Holds(SqlPage(records[i])) /\ \E l \in SqlLinks :
        /\ l.source = i
        /\ records[l.target].canonical # None
        /\ records[l.target].canonical \notin Names(l.target)
-----------------------------------------------------------------------------
(* The site itself: the reference for the audits                           *)

IsSitePage(answer) ==
    answer.kind = "answer" /\ Success(answer.status) /\ ~answer.cut /\ answer.type = "html"

SitePages == {u \in Urls : IsSitePage(site[u])}

\* The complete page a URL leads to, or None.
Settles(u) ==
    LET pages == {k \in 0..MaxRedirects : Trail(site, u)[k] \in SitePages}
    IN IF pages = {} THEN None ELSE Trail(site, u)[CHOOSE k \in pages : TRUE]

\* A URL fails unless its redirects end, soon enough, at robots.txt's refusal or
\* at an answer that is none of these errors.  A canonical fails with any status
\* from 400 on (is_broken_record), a link of a sequence with those up to 599
\* (From<&CrawlRecord> for ReferenceAuditRecord).
BrokenStatuses == Nat \ (0..399)
FailedStatuses == 400..599
Fails(u, errors) ==
    \A k \in 0..MaxRedirects : Trail(site, u)[k] \in Urls =>
        LET answer == site[Trail(site, u)[k]]
        IN answer.kind # "blocked" /\ (answer.kind = "answer" => answer.status \in errors)

\* robots.txt refuses where the redirects of u end, but another URL met the limit
\* on its way there, and its record speaks for u.
SpokenForByLimit(u) ==
    /\ \E k \in 0..MaxRedirects : Trail(site, u)[k] \in Urls /\ site[Trail(site, u)[k]].kind = "blocked"
    /\ \E v \in Urls : /\ Trail(site, v)[MaxRedirects + 1] \in Urls
                      /\ \E k \in 1..MaxRedirects : Trail(site, v)[k] = u

CanonicalOf(p) ==
    IF site[p].page.canonical = None THEN site[p].header.canonical ELSE site[p].page.canonical
SiteLinks(p, rel) == IF rel = "next" THEN site[p].page.next ELSE site[p].page.prev
SiteEdges(p, rel) == {Settles(u) : u \in SiteLinks(p, rel)} \ {None}

\* The canonicals from p on never come to an end.
CanonicalsCycle(p) ==
    \E S \in SUBSET SitePages : p \in S /\ \A x \in S :
        /\ CanonicalOf(x) # None
        /\ Settles(CanonicalOf(x)) \in S \ {x}

\* After one step from p, and then along links that are the only one of their
\* page, p is met again or the walk never ends.
SequenceCycles(p, rel) ==
    \E t \in SiteEdges(p, rel), S \in SUBSET SitePages : t \in S /\ \A x \in S :
        \/ x = p
        \/ Cardinality(SiteLinks(x, rel)) = 1 /\ SiteEdges(x, rel) \subseteq S
           /\ SiteEdges(x, rel) # {}

\* Some page the relation leads to is read in full and links elsewhere, or nowhere.
NeverReturns(p, rel) ==
    \E t \in SiteEdges(p, rel) \ {p} : \A u \in SiteLinks(t, Back(rel)) :
        Settles(u) \notin {None, p}

-----------------------------------------------------------------------------
(* Properties *)

Complete == step = "idle" /\ Done = Urls
PageRecords == {i \in DOMAIN records : IsPage(records[i])}

\* The two stores put the same records into every view, make the same audit
\* record of every row and find the same rows for the two hreflang views
\* (matches_view and query_filter_sql, From<&CrawlRecord> and
\* ensure_reference_diagnostics, HreflangAuditIndex and HREFLANG_AUDIT_CTES).
DiagnosticsAgree ==
    /\ ViewsAgree
    /\ step = "idle" /\ ~cancelled => \A i \in DOMAIN records :
        /\ MemoryAudit(records[i]) = DatabaseAudit(records[i])
        /\ MissingReturn(i) = SqlMissingReturn(i)
        /\ NonCanonicalTarget(i) = SqlNonCanonicalTarget(i)

\* A reported canonical loop is one of the site however little was fetched; when
\* everything was fetched each loop is reported, and a canonical to a redirect
\* or to an error is reported exactly when the site has it.
CanonicalsTellTheSite ==
    step = "idle" /\ ~cancelled => \A i \in PageRecords :
        LET flags == CanonicalReport(i)
            p == records[i].final
            target == CanonicalOf(p)
        IN /\ "loop" \in flags => CanonicalsCycle(p)
           /\ Complete =>
                /\ CanonicalsCycle(p) => "loop" \in flags
                /\ "uncrawled" \notin flags
                /\ ("redirect" \in flags) <=>
                      (target \in Urls /\ site[target].kind = "redirect" /\ site[target].to # Junk)
                /\ ("error" \in flags) <=> (target \in Urls /\ Fails(target, BrokenStatuses))

\* When everything was fetched, what is reported of a page's pagination is what
\* the site has: a target that fails, a sequence that returns, a target that
\* does not link back.  The loop of a page that branches may be reported in one
\* record of the page only, the one that the way back leads to.
PaginationTellsTheSite ==
    Complete => \A i \in PageRecords :
        LET p == records[i].final
            Flag(rel, flag) == [kind |-> rel, flag |-> flag]
            flags == TargetReport(i)
        IN \A rel \in Relations :
             /\ Flag(rel, "error") \in flags <=>
                  \E u \in SiteLinks(p, rel) \cap Urls :
                     Fails(u, FailedStatuses) \/ SpokenForByLimit(u)
             /\ Flag(rel, "loop") \in flags => SequenceCycles(p, rel)
             /\ SequenceCycles(p, rel) =>
                  \/ Flag(rel, "loop") \in flags
                  \/ /\ Cardinality(SiteLinks(p, rel)) > 1
                     /\ \E k \in PageRecords :
                          records[k].final = p /\ Flag(rel, "loop") \in TargetReport(k)
             /\ Flag(rel, "no return") \in flags <=> NeverReturns(p, rel)

\* Both reference audits tell what the site is.
ReferencesTellTheSite == CanonicalsTellTheSite /\ PaginationTellsTheSite
=============================================================================
