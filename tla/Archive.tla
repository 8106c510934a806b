------------------------------ MODULE Archive ------------------------------
(* The crawl archive: an idle store is written out as one document          *)
(* (main.rs, write_crawl_archive_stream), and the document is staged in a   *)
(* fresh database (archive_import.rs, archive_staging.rs), which becomes    *)
(* the store of a new session.  Records go through the upsert of the        *)
(* crawler, which numbers them anew, and get their numbers back at the end; *)
(* everything else is inserted as it was written.                           *)
EXTENDS ResultStore

(* The document.  A record stands without its first source, which is        *)
(* derived from the edges again.                                            *)
Document(records, store, frontier) ==
  [records |-> records, edges |-> store.edges, images |-> store.images,
   references |-> store.references, captures |-> store.captures, frontier |-> frontier]

MemArchive(m) == Document(m.records, m, m.frontier)
SqlArchive(s) == Document(Sorted([x \in s.records |-> {y \in s.records : Before(y, x)}]), s, SqlLoadFrontier(s))

(* What the import refuses: two records with one number or one key, two     *)
(* captures of one record, a capture without a record.                      *)
Importable(archive) ==
  /\ \A i, k \in DOMAIN archive.records :
       i # k => /\ archive.records[i].id # archive.records[k].id
                /\ archive.records[i].key # archive.records[k].key
  /\ \A x, y \in archive.captures : x.key = y.key => x = y
  /\ \A x \in archive.captures : \E i \in DOMAIN archive.records : archive.records[i].key = x.key

(* RecordStage: every record is upserted under a number of its own, and the *)
(* saved numbers are restored when all of them are in.                      *)
Staged(archive) == FoldLeft(SqlUpsert, EmptyTables, archive.records)

RenumberedFault(s, records) == s
Renumbered(s, records) ==
  LET saved(r) == CHOOSE x \in ToSet(records) : x.key = r.key
  IN [s EXCEPT !.records = {[r EXCEPT !.id = saved(r).id] : r \in @},
               !.lastId = Max({r.id : r \in ToSet(records)} \cup {0})]

(* The queue takes its positions from the document.  Without a frontier the *)
(* tables stay empty.                                                       *)
Queued(s, frontier) == IF frontier = None THEN s ELSE SqlSaveFrontier(s, frontier)

Restored(archive) ==
  Queued([Renumbered(Staged(archive), archive.records) EXCEPT
           !.edges = archive.edges, !.images = archive.images,
           !.references = archive.references, !.captures = archive.captures],
         archive.frontier)

-----------------------------------------------------------------------------
(* What a store tells its readers, but for the counts it keeps of links to  *)
(* pages that have no record yet: those are not in the document.            *)
Told(s) ==
  [records |-> SqlRecords(s), next |-> s.lastId + 1, edges |-> s.edges,
   images |-> s.images, references |-> s.references, captures |-> s.captures,
   frontier |-> SqlLoadFrontier(s)]

(* Whenever the crawl is idle (an archive is written between two pages at   *)
(* the earliest), the archive of either store is one the import accepts,    *)
(* and the database made of it tells the same as the one that was archived: *)
(* the same records under the same numbers with the same counts, enrichment *)
(* and first source, the same edges with the evidence they had, the same    *)
(* queue in the same order.                                                 *)
ArchivesKeepTheCrawl ==
  calls = <<>> =>
    \A archive \in {MemArchive(mem), SqlArchive(sql)} :
      Importable(archive) /\ Told(Restored(archive)) = Told(sql)
=============================================================================
