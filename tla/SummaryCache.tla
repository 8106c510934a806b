---------------------------- MODULE SummaryCache ----------------------------
(***************************************************************************)
(* The counts SqliteStore answers with while a crawl goes on, and the      *)
(* tables it derives for its views.                                        *)
(*                                                                         *)
(* A persistent trigger bumps crawl_audit_revision on every change of a    *)
(* record, whoever makes it.  A TEMP trigger of this connection also       *)
(* remembers which records this connection changed (dirty) and bumps a     *)
(* revision of its own.  While the two revisions agree nobody else wrote,  *)
(* and the cached summary is repaired from the dirty records alone; when   *)
(* they differ it is rebuilt.  The other derived tables are rebuilt        *)
(* whenever their revision is not the current one.                         *)
(*                                                                         *)
(* Calls of one store exclude each other (the mutex of its connection);    *)
(* another connection may commit between any two statements of a call.     *)
(***************************************************************************)
EXTENDS Naturals, FiniteSets, Sequences, FiniteSetsExt

CONSTANTS
    Ids,            \* ids of rows of crawl_records
    Keys,           \* values two records may share: a title, a hash, a cluster
    Contents,       \* what a row may hold
    Derived,        \* the derived tables in use, of references, duplicates and aliases
    Null,           \* no row, no cache, no answer
    MaxRevision     \* bound: changes of records in one behaviour

Steps == Derived \cup {"progress", "total", "rows"}
TableViews == {"all", "flagged", "shared"} \cup Derived

ASSUME CacheAssumption ==
    /\ Null \notin Contents /\ Null \notin Nat /\ Null \notin Keys
    /\ Null \notin [flag : BOOLEAN, key : Keys \cup {Null}]
    /\ Null \notin [total : Nat, flagged : Nat, shared : Nat]
    /\ IsFiniteSet(Ids)
    /\ Derived \subseteq {"references", "duplicates", "aliases"}
    /\ Contents \subseteq [flag : BOOLEAN, key : Keys \cup {Null}, to : Ids]
    /\ MaxRevision \in Nat

VARIABLES
    rows,           \* crawl_records: a row of Contents, or Null, per id
    revision,       \* crawl_audit_revision
    localRevision,  \* ff_progress_revision
    dirty,          \* ff_progress_dirty
    cache,          \* summary_cache
    cachedAt,       \* reference_cache, exact_duplicate_cache, image_alias_revision
    derived,        \* ff_reference_diagnostics, ff_exact_duplicate_records, ff_image_record_aliases
    todo,           \* what the call at work still has to do
    view,           \* the view it asks for, chosen where it first matters
    read,           \* the revision read before a derived table is rebuilt
    fresh,          \* what that table is to hold
    answer,         \* what the call has found
    versions        \* the tables since the call began: history

store == <<rows, revision>>
connection == <<localRevision, dirty>>
caches == <<cache, cachedAt, derived>>
call == <<todo, view, read, fresh, answer, versions>>
cacheVars == <<store, connection, caches, call>>

Tables == [Ids -> Contents \cup {Null}]
Stored(table) == {i \in Ids : table[i] # Null}

-----------------------------------------------------------------------------
(* What the views hold *)

\* Records of which a filter is true; one stands for the thirty-six of progress_fields.
Flagged(table) == {i \in Stored(table) : table[i].flag}

\* Records that share a title, description, heading or cluster with another.
Shared(table) == {i \in Stored(table) : table[i].key # Null /\
                    \E j \in Stored(table) \ {i} : table[j].key = table[i].key}

\* What a derived table holds of the records as they are: diagnoses of a
\* record from the record it points to, records of one content at several
\* URLs, records of images.
Derive(d, table) ==
    CASE d = "references" -> {i \in Stored(table) : table[i].to \in Flagged(table) \ {i}}
      [] d = "duplicates" -> Shared(table) \cap Flagged(table)
      [] d = "aliases"    -> Stored(table) \ Flagged(table)

InView(v, table, tables) ==
    CASE v = "all"     -> Stored(table)
      [] v = "flagged" -> Flagged(table)
      [] v = "shared"  -> Shared(table)
      [] v \in Derived -> Stored(table) \cap tables[v]

\* What try_progress_summary promises.
Progress(table) == [total   |-> Cardinality(Stored(table)),
                    flagged |-> Cardinality(Flagged(table)),
                    shared  |-> Cardinality(Shared(table))]

-----------------------------------------------------------------------------
(* The progress summary *)

\* CachedSummary; records keeps what each record added (Null: nothing).
EmptySummary ==
    [records |-> [i \in Ids |-> Null],
     groups  |-> [k \in Keys |-> 0],
     counts  |-> [total |-> 0, flagged |-> 0, shared |-> 0]]

Contribution(row) == IF row = Null THEN Null ELSE [flag |-> row.flag, key |-> row.key]

Large(n) == IF n > 1 THEN n ELSE 0

\* update_group: a group counts once it has two members.
InGroup(summary, key, insert) ==
    LET before == summary.groups[key]
        after  == IF insert THEN before + 1 ELSE before - 1
    IN [summary EXCEPT !.groups[key] = after,
                       !.counts.shared = (@ - Large(before)) + Large(after)]

Apply(summary, contribution, insert) ==
    LET Step(n) == IF insert THEN n + 1 ELSE n - 1
        counted == [summary EXCEPT !.counts.total = Step(@),
                                   !.counts.flagged = IF contribution.flag THEN Step(@) ELSE @]
    IN IF contribution.key = Null THEN counted
       ELSE InGroup(counted, contribution.key, insert)

\* Some contributions one by one, in whatever order the records are met.
ApplyAll(summary, contributions, ids, insert) ==
    LET Step(i, s) == Apply(s, contributions[i], insert) IN FoldSet(Step, summary, ids)

\* The first loop of progress_summary_with_connection: what these records added goes.
Subtract(summary, ids) ==
    LET gone == {i \in ids : summary.records[i] # Null}
        less == ApplyAll(summary, summary.records, gone, FALSE)
    IN [records |-> [i \in Ids |-> IF i \in gone THEN Null ELSE summary.records[i]],
        groups |-> less.groups, counts |-> less.counts]

\* The second loop: what the rows of these records add comes.
Add(summary, ids) ==
    LET present == {i \in ids : rows[i] # Null}
        now == [i \in Ids |-> Contribution(rows[i])]
        more == ApplyAll(summary, now, present, TRUE)
    IN [records |-> [i \in Ids |-> IF i \in present THEN now[i] ELSE summary.records[i]],
        groups |-> more.groups, counts |-> more.counts]

\* A repair that trusts the dirty records alone.
RefreshedFault ==
    IF cache = Null
    THEN Add(EmptySummary, Ids)
    ELSE Add(Subtract(cache.summary, dirty), dirty)

Refreshed ==
    IF cache = Null \/ localRevision # revision
    THEN Add(EmptySummary, Ids)
    ELSE Add(Subtract(cache.summary, dirty), dirty)

-----------------------------------------------------------------------------
(* Writes *)

\* What outlives a call.
TypeOK ==
    /\ rows \in Tables
    /\ revision \in Nat /\ localRevision \in Nat
    /\ dirty \in SUBSET Ids
    /\ cache # Null => cache.revision \in Nat
    /\ cachedAt \in [Derived -> Nat \cup {Null}]
    /\ derived \in [Derived -> SUBSET Ids]

\* A store just opened, on a new database or on one that holds a crawl.
CacheInit ==
    /\ rows \in Tables
    /\ revision = 0
    /\ localRevision = 0
    /\ dirty = {}
    /\ cache = Null
    /\ cachedAt = [d \in Derived |-> Null]
    /\ derived = [d \in Derived |-> {}]
    /\ todo = <<>>
    /\ view = "all"
    /\ read = Null
    /\ fresh = Null
    /\ answer = [s \in Steps |-> Null]
    /\ versions = {}

Idle == todo = <<>> /\ versions = {}

\* The persistent triggers: one step of the revision per changed record.
Change(ids, change) ==
    /\ ids # {}
    /\ revision + Cardinality(ids) <= MaxRevision
    /\ \A i \in ids : change[i] # Null \/ rows[i] # Null
    /\ rows' = [i \in Ids |-> IF i \in ids THEN change[i] ELSE rows[i]]
    /\ revision' = revision + Cardinality(ids)

\* The TEMP triggers of this connection.
Touch(ids) ==
    /\ dirty' = dirty \cup ids
    /\ localRevision' = localRevision + Cardinality(ids)

\* A statement or a transaction of this store that inserts, updates or deletes
\* records.  One that rolls back leaves nothing, its TEMP changes included.
Write(ids, change) ==
    /\ Idle
    /\ Change(ids, change)
    /\ Touch(ids)
    /\ UNCHANGED <<caches, call>>

\* Another connection commits, also between two statements of a call.
ExternalWrite(ids, change) ==
    /\ Change(ids, change)
    /\ versions' = IF Idle THEN versions ELSE versions \cup {rows'}
    /\ UNCHANGED <<connection, caches, todo, view, read, fresh, answer>>

\* Close the store, or lose the process, and open it again: what is TEMP or in
\* memory is gone and initialize seeds the local revision.
Reopen ==
    /\ Idle
    /\ localRevision' = revision
    /\ dirty' = {}
    /\ cache' = Null
    /\ cachedAt' = [d \in Derived |-> Null]
    /\ derived' = [d \in Derived |-> {}]
    /\ UNCHANGED <<store, call>>

-----------------------------------------------------------------------------
(* Calls *)

\* A grid that takes the summary of the crawl's progress: nothing diagnoses its records.
StepsOfFault(kind) ==
    LET Use(d) == IF d \in Derived THEN <<d>> ELSE <<>>
    IN CASE kind = "progress" -> <<"progress">>
         [] kind = "summary"  -> <<"progress">> \o Use("references") \o Use("duplicates")
         [] kind = "grid"     -> <<"progress", "total", "rows">>
         [] kind = "images"   -> <<"aliases", "total", "rows">>

\* try_progress_summary, try_summary, try_query and try_image_assets (oversized).
StepsOf(kind) ==
    LET Use(d) == IF d \in Derived THEN <<d>> ELSE <<>>
    IN CASE kind = "progress" -> <<"progress">>
         [] kind = "summary"  -> <<"progress">> \o Use("references") \o Use("duplicates")
         [] kind = "grid"     -> <<"progress">> \o Use("references") \o Use("duplicates")
                                   \o <<"total", "rows">>
         [] kind = "images"   -> <<"aliases", "total", "rows">>

Kinds == {"progress", "summary", "grid"} \cup IF "aliases" \in Derived THEN {"images"} ELSE {}

BeginCall(kind) ==
    /\ Idle
    /\ todo' = StepsOf(kind)
    /\ versions' = {rows}
    /\ UNCHANGED <<store, connection, caches, view, read, fresh, answer>>

Answer(step, value) ==
    /\ answer' = [answer EXCEPT ![step] = value]
    /\ todo' = Tail(todo)

At(step) == todo # <<>> /\ Head(todo) = step

Current == cache # Null /\ cache.revision = revision

\* progress_summary_with_connection: one transaction, so one snapshot.
ProgressSummary ==
    /\ At("progress")
    /\ IF Current
       THEN UNCHANGED <<connection, cache>> /\ Answer("progress", cache.summary.counts)
       ELSE /\ cache' = [revision |-> revision, summary |-> Refreshed]
            /\ dirty' = {}
            /\ localRevision' = revision
            /\ Answer("progress", cache'.summary.counts)
    /\ UNCHANGED <<store, cachedAt, derived, view, read, fresh, versions>>

\* A call ends.
Leave ==
    /\ todo' = <<>>
    /\ view' = "all"
    /\ read' = Null
    /\ fresh' = Null
    /\ answer' = [s \in Steps |-> Null]
    /\ versions' = {}

\* An error after the cache was taken: the transaction rolls back, with it what
\* the TEMP tables were about to lose, and the cache is gone.
ProgressFails ==
    /\ At("progress")
    /\ ~Current
    /\ cache' = Null
    /\ Leave
    /\ UNCHANGED <<store, connection, cachedAt, derived>>

\* ensure_reference_diagnostics, ensure_exact_duplicates, ensure_image_record_aliases:
\* the revision is read before the transaction begins.
EnsureReads(d) ==
    /\ At(d) /\ read = Null
    /\ IF cachedAt[d] = revision
       THEN Answer(d, Cardinality(derived[d])) /\ UNCHANGED read
       ELSE read' = revision /\ UNCHANGED <<todo, answer>>
    /\ UNCHANGED <<store, connection, caches, view, fresh, versions>>

Snapshot(d) ==
    /\ At(d) /\ read # Null /\ fresh = Null
    /\ fresh' = Derive(d, rows)
    /\ UNCHANGED <<store, connection, caches, todo, view, read, answer, versions>>

\* The table is committed and the revision read before it is kept.
KeepRevision(d) ==
    /\ At(d) /\ fresh # Null
    /\ derived' = [derived EXCEPT ![d] = fresh]
    /\ cachedAt' = [cachedAt EXCEPT ![d] = read]
    /\ Answer(d, Cardinality(fresh))
    /\ read' = Null
    /\ fresh' = Null
    /\ UNCHANGED <<store, connection, cache, view, versions>>

\* An error rolls the table back; the cache keeps its revision.
EnsureFails(d) ==
    /\ At(d) /\ read # Null
    /\ Leave
    /\ UNCHANGED <<store, connection, caches>>

\* The two statements of try_query and try_image_assets after the caches.
CountAndPage ==
    /\ \/ /\ At("total")
          /\ view' \in IF answer["progress"] = Null THEN {"aliases"} ELSE TableViews \ {"aliases"}
          /\ Answer("total", Cardinality(InView(view', rows, derived)))
       \/ /\ At("rows")
          /\ Answer("rows", InView(view, rows, derived))
          /\ UNCHANGED view
    /\ UNCHANGED <<store, connection, caches, read, fresh, versions>>

ReturnCall ==
    /\ todo = <<>> /\ versions # {}
    /\ Leave
    /\ UNCHANGED <<store, connection, caches>>

CacheNext ==
    \/ \E ids \in SUBSET Ids : \E change \in [ids -> Contents \cup {Null}] :
            Write(ids, change) \/ ExternalWrite(ids, change)
    \/ Reopen
    \/ \E kind \in Kinds : BeginCall(kind)
    \/ ProgressSummary \/ ProgressFails
    \/ \E d \in Derived : EnsureReads(d) \/ Snapshot(d) \/ KeepRevision(d) \/ EnsureFails(d)
    \/ CountAndPage
    \/ ReturnCall

CacheSpec == CacheInit /\ [][CacheNext]_cacheVars

-----------------------------------------------------------------------------
(* Properties *)

\* A cached summary of the current revision was built from exactly the records
\* there are, whichever of them were repaired and however many calls failed
\* (progress_summary_with_connection, the TEMP and the persistent triggers).
ContributionsAreExact ==
    Current => \A i \in Ids : cache.summary.records[i] = Contribution(rows[i])

\* Every number a call returns is the number of some table there was while the
\* call was at work: never an older one, although other connections commit
\* between its statements (CachedSummary::apply, CachedReferences, CachedExactDuplicates).
AnswersAreFresh ==
    /\ answer["progress"] # Null =>
          answer["progress"] \in {Progress(t) : t \in versions}
    /\ \A d \in Derived : answer[d] # Null =>
          answer[d] \in {Cardinality(Derive(d, t)) : t \in versions}

\* When nobody else wrote during a call, its summary, total and page agree: the
\* grid shows as many rows as its badge says.
AnswersAgree ==
    Cardinality(versions) = 1 /\ answer["rows"] # Null =>
        /\ answer["total"] = Cardinality(answer["rows"])
        /\ view \in Derived => answer["rows"] = Derive(view, rows)
        /\ view \in Derived /\ answer[view] # Null => answer["total"] = answer[view]
        /\ view = "flagged" => answer["total"] = answer["progress"].flagged
        /\ view = "shared" => answer["total"] = answer["progress"].shared
        /\ view = "all" => answer["total"] = answer["progress"].total

\* Both: what the interface shows is of one table, an up to date one.
AnswersTellTheTable == AnswersAreFresh /\ AnswersAgree
=============================================================================
