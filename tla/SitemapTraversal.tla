-------------------------- MODULE SitemapTraversal --------------------------
(***************************************************************************)
(* How crawler-core reads sitemaps (fetch_spider_sitemap_urls,             *)
(* fetch_list_sitemap_seed_urls, fetch_sitemap_locations and               *)
(* fetch_sitemap_document).  Sources are read one after the other; an      *)
(* index is walked breadth first; documents, entries, depth and redirects  *)
(* are bounded and shared by all sources of a crawl, those that pages link *)
(* to included.                                                            *)
(*                                                                         *)
(* What the servers answer is fixed when the traversal begins: a document  *)
(* redirects or lists sitemaps and pages.  Any request may fail, which     *)
(* stands for a refusal by robots.txt, an error of the network or of HTTP, *)
(* and a body that is no sitemap.  The order within a document is open.    *)
(***************************************************************************)
EXTENDS Naturals, Sequences, FiniteSets, SequencesExt

CONSTANTS
  Docs,          \* URLs of documents
  Pages,         \* URLs of pages
  Entries,       \* Entries[d]: admitted pages the document d lists
  Configs,       \* sources and bounds a crawl may have
  MaxDepth       \* MAX_SITEMAP_DEPTH

NoDoc == "no document"

(* explicit: sources whose failure is an error of the crawl; others: from  *)
(* robots.txt, /sitemap.xml and links of pages; list: List mode, in which  *)
(* an entry seen before counts again.                                      *)
Config == [explicit : Seq(Docs), others : Seq(Docs), list : BOOLEAN,
           maxDocuments : Nat, maxRedirects : Nat, maxUrls : Nat]

ASSUME TraversalAssumption ==
  /\ IsFiniteSet(Docs) /\ NoDoc \notin Docs /\ IsFiniteSet(Pages)
  /\ Entries \in [Docs -> SUBSET Pages]
  /\ MaxDepth \in Nat
  /\ \A c \in Configs : c \in Config

VARIABLES
  config,                  \* the configuration of this crawl
  redirect, children,      \* what the servers answer
  cancelled,               \* control.is_cancelled()
  pc,                      \* "sources", "walk", "hop", "response", "done", "error"
  sources,                 \* number of sources finished
  \* SitemapTraversal
  documents, sitemaps, urls, urlCount,
  \* fetch_sitemap_locations
  pending, queued,
  \* fetch_sitemap_document
  current, depth, redirects,
  \* history
  requests,                \* how often each document was asked for
  cut,                     \* a bound has cut something off
  failed                   \* a document could not be read

site      == <<config, redirect, children>>
traversal == <<documents, sitemaps, urls, urlCount>>
walk      == <<pending, queued>>
fetch     == <<current, depth, redirects>>
history   == <<requests, cut, failed>>
vars == <<site, cancelled, pc, sources, traversal, walk, fetch, history>>

-----------------------------------------------------------------------------
AllSources == config.explicit \o config.others

(* A document either redirects or is a sitemap with children.              *)
Init ==
  /\ config \in Configs
  /\ redirect \in [Docs -> Docs \cup {NoDoc}]
  /\ children \in [Docs -> SUBSET Docs]
  /\ \A d \in Docs : redirect[d] # NoDoc => children[d] = {}
  /\ cancelled = FALSE /\ pc = "sources" /\ sources = 0
  /\ documents = {} /\ sitemaps = {} /\ urls = {} /\ urlCount = 0
  /\ pending = <<>> /\ queued = {}
  /\ current = NoDoc /\ depth = 0 /\ redirects = {}
  /\ requests = [d \in Docs |-> 0] /\ cut = FALSE /\ failed = FALSE

Stop ==
  /\ pc \notin {"done", "error"}
  /\ cancelled' = TRUE
  /\ UNCHANGED <<site, pc, sources, traversal, walk, fetch, history>>

(* The next source; when the crawl was stopped in the last one, none.      *)
BeginSource ==
  /\ pc = "sources" /\ sources < Len(AllSources)
  /\ LET source == AllSources[sources + 1] IN
       /\ pending' = <<[doc |-> source, depth |-> 0]>>
       /\ queued' = {source}
  /\ pc' = "walk"
  /\ UNCHANGED <<site, cancelled, sources, traversal, fetch, history>>

SourcesDone ==
  /\ pc = "sources" /\ sources = Len(AllSources)
  /\ pc' = "done"
  /\ UNCHANGED <<site, cancelled, sources, traversal, walk, fetch, history>>

-----------------------------------------------------------------------------
(* fetch_sitemap_locations: the walk of one source.                        *)

Full == Cardinality(documents) >= config.maxDocuments \/ urlCount >= config.maxUrls

(* Fault: the first document is looked at but not taken out.               *)
TakeFault ==
  /\ pc = "walk" /\ pending # <<>> /\ ~Full
  /\ current' = Head(pending).doc /\ depth' = Head(pending).depth
  /\ redirects' = {}
  /\ pc' = "hop"
  /\ UNCHANGED <<site, cancelled, sources, traversal, walk, history>>

Take ==
  /\ pc = "walk" /\ pending # <<>> /\ ~Full
  /\ pending' = Tail(pending)
  /\ current' = Head(pending).doc /\ depth' = Head(pending).depth
  /\ redirects' = {}
  /\ pc' = "hop"
  /\ UNCHANGED <<site, cancelled, sources, traversal, queued, history>>

WalkEnds ==
  /\ pc = "walk" /\ (pending = <<>> \/ Full)
  /\ cut' = (cut \/ pending # <<>>)
  /\ pending' = <<>> /\ queued' = {}
  /\ sources' = sources + 1 /\ pc' = "sources"
  /\ UNCHANGED <<site, cancelled, traversal, fetch, requests, failed>>

-----------------------------------------------------------------------------
(* fetch_sitemap_document: the redirects of one document.                  *)

(* An error ends the source when it is about the source itself or the      *)
(* crawl is being stopped; an explicit source then ends everything.        *)
Fail ==
  /\ failed' = TRUE
  /\ IF depth > 0 /\ ~cancelled
     THEN pc' = "walk" /\ UNCHANGED <<sources, walk>>
     ELSE /\ pending' = <<>> /\ queued' = {}
          /\ sources' = sources + 1
          /\ pc' = CASE cancelled                -> "done"
                     [] sources < Len(config.explicit)  -> "error"
                     [] OTHER                    -> "sources"
  /\ UNCHANGED <<site, cancelled, traversal, fetch, requests, cut>>

RedirectLoop == pc = "hop" /\ current \in redirects /\ Fail

(* Another way has led to this sitemap: the redirects to it are known, too.*)
(* Fault: they are not.                                                    *)
KnownSitemapFault ==
  /\ pc = "hop" /\ current \notin redirects /\ current \in sitemaps
  /\ pc' = "walk"
  /\ UNCHANGED <<site, cancelled, sources, traversal, walk, fetch, history>>

KnownSitemap ==
  /\ pc = "hop" /\ current \notin redirects /\ current \in sitemaps
  /\ sitemaps' = sitemaps \cup redirects \cup {current}
  /\ pc' = "walk"
  /\ UNCHANGED <<site, cancelled, sources, documents, urls, urlCount, walk,
                 fetch, history>>

Askable == Cardinality(documents) < config.maxDocuments /\ current \notin documents

(* The documents are used up, or this one could not be read before.        *)
Unreadable ==
  /\ pc = "hop" /\ current \notin redirects \cup sitemaps /\ ~Askable
  /\ cut' = (cut \/ current \notin documents)
  /\ pc' = "walk"
  /\ UNCHANGED <<site, cancelled, sources, traversal, walk, fetch, requests,
                 failed>>

(* Fault: what is asked for counts as a sitemap before it is read.         *)
AskFault ==
  /\ pc = "hop" /\ current \notin redirects \cup sitemaps /\ Askable
  /\ redirects' = redirects \cup {current}
  /\ documents' = documents \cup {current}
  /\ sitemaps' = sitemaps \cup {current}
  /\ requests' = [requests EXCEPT ![current] = @ + 1]
  /\ pc' = "response"
  /\ UNCHANGED <<site, cancelled, sources, urls, urlCount, walk, current,
                 depth, cut, failed>>

Ask ==
  /\ pc = "hop" /\ current \notin redirects \cup sitemaps /\ Askable
  /\ redirects' = redirects \cup {current}
  /\ documents' = documents \cup {current}
  /\ requests' = [requests EXCEPT ![current] = @ + 1]
  /\ pc' = "response"
  /\ UNCHANGED <<site, cancelled, sources, sitemaps, urls, urlCount, walk,
                 current, depth, cut, failed>>

Refused == pc = "response" /\ Fail

Redirected ==
  /\ pc = "response" /\ ~cancelled /\ redirect[current] # NoDoc
  /\ \/ /\ Cardinality(redirects) <= config.maxRedirects
        /\ current' = redirect[current] /\ pc' = "hop"
        /\ UNCHANGED <<site, cancelled, sources, traversal, walk, depth,
                       redirects, history>>
     \/ Cardinality(redirects) > config.maxRedirects /\ Fail

-----------------------------------------------------------------------------
(* As many members of s as a limit leaves room for after used ones.        *)
Within(s, limit, used) ==
  LET room == IF used >= limit THEN 0 ELSE limit - used
  IN  {t \in SUBSET s :
         Cardinality(t) = IF Cardinality(s) <= room THEN Cardinality(s) ELSE room}

(* Listed sitemaps that are still to be read and do not lie too deep.      *)
NewChildren(listed) ==
  IF depth >= MaxDepth THEN {} ELSE listed \ (documents \cup queued)

(* In List mode an entry counts again, in Spider mode only a new one.      *)
NewEntries(listed) == IF config.list THEN listed ELSE listed \ urls

QueueChildren(listed) ==
  \E more \in Within(NewChildren(listed), config.maxDocuments,
                     Len(pending) + Cardinality(documents)) :
    /\ \E order \in SetToSeqs(more) :
         pending' = pending \o
           [i \in 1..Len(order) |-> [doc |-> order[i], depth |-> depth + 1]]
    /\ queued' = queued \cup more

TakeEntries(listed) ==
  \E taken \in Within(NewEntries(listed), config.maxUrls, urlCount) :
    /\ urls' = IF config.list THEN urls ELSE urls \cup taken
    /\ urlCount' = urlCount + Cardinality(taken)

(* The document is a sitemap.  Its parser bounds what it lists, before     *)
(* what is known already is taken away.                                    *)
Read ==
  /\ pc = "response" /\ ~cancelled /\ redirect[current] = NoDoc
  /\ sitemaps' = sitemaps \cup redirects
  /\ \E entries \in Within(Entries[current], config.maxUrls, 0),
        listed \in Within(children[current], config.maxDocuments, 0) :
       /\ QueueChildren(listed) /\ TakeEntries(entries)
       /\ cut' = \/ cut
                 \/ ~(children[current] \subseteq documents \cup queued')
                 \/ ~config.list /\ ~(Entries[current] \subseteq urls')
                 \/ config.list /\ urlCount' < urlCount + Cardinality(Entries[current])
  /\ pc' = "walk"
  /\ UNCHANGED <<site, cancelled, sources, documents, fetch, requests, failed>>

-----------------------------------------------------------------------------
Step ==
  \/ BeginSource \/ SourcesDone \/ Take \/ WalkEnds
  \/ RedirectLoop \/ KnownSitemap \/ Unreadable \/ Ask
  \/ Refused \/ Redirected \/ Read

Next == Step \/ Stop

Spec == Init /\ [][Next]_vars

(* The traversal goes on: every request ends (FetchesEnd of RequestPolicy).*)
FairSpec == Spec /\ WF_vars(Step)

-----------------------------------------------------------------------------
(* Properties.                                                             *)

(* The values the variables take; nothing deeper than MaxDepth is queued.  *)
TypeOK ==
  /\ config \in Configs
  /\ redirect \in [Docs -> Docs \cup {NoDoc}]
  /\ children \in [Docs -> SUBSET Docs]
  /\ cancelled \in BOOLEAN /\ cut \in BOOLEAN /\ failed \in BOOLEAN
  /\ pc \in {"sources", "walk", "hop", "response", "done", "error"}
  /\ sources \in 0..Len(AllSources)
  /\ {documents, sitemaps, queued, redirects} \subseteq SUBSET Docs
  /\ urls \subseteq Pages /\ urlCount \in Nat
  /\ pending \in Seq([doc : Docs, depth : 0..MaxDepth])
  /\ current \in Docs \cup {NoDoc} /\ depth \in 0..MaxDepth
  /\ requests \in [Docs -> Nat]

(* Whatever the sources, indexes and redirects share: no document is asked *)
(* for twice, not even one that failed, and all sources together stay      *)
(* within the bounds on documents and on entries.                          *)
WithinBudget ==
  /\ \A d \in Docs : requests[d] <= 1
  /\ Cardinality({d \in Docs : requests[d] > 0}) <= config.maxDocuments
  /\ urlCount <= config.maxUrls /\ (~config.list => urlCount = Cardinality(urls))

(* Only what was read as a sitemap, or redirects to it, counts as one: the *)
(* crawl does not fetch a link to such a URL as a page.                    *)
SitemapsAreRead ==
  \A d \in sitemaps :
    /\ requests[d] = 1 /\ (pc = "response" => d # current)
    /\ redirect[d] # NoDoc => redirect[d] \in sitemaps

(* A traversal that met no bound, no failure and no Stop has read every    *)
(* sitemap the sources lead to, through redirects and indexes, cyclic ones *)
(* included, has taken every entry and knows every redirect on the way.    *)
NothingSkipped ==
  pc = "done" /\ ~cut /\ ~failed /\ ~cancelled =>
    /\ ToSet(AllSources) \subseteq sitemaps
    /\ \A d \in sitemaps :
         IF redirect[d] = NoDoc
         THEN /\ children[d] \subseteq sitemaps
              /\ config.list \/ Entries[d] \subseteq urls
         ELSE redirect[d] \in sitemaps

(* All that the bounds allow is read, no more, and nothing else counts as  *)
(* a sitemap.                                                              *)
ReadsWithinBudget == WithinBudget /\ NothingSkipped /\ SitemapsAreRead

(* "Invalid or unreadable explicit sources show an error" (README.md): a   *)
(* traversal that ends without an error has read every explicit source it  *)
(* asked for.  The code does not keep this promise.                        *)
ExplicitErrorsShown ==
  pc = "done" /\ ~cut /\ ~cancelled =>
    \A d \in ToSet(config.explicit) : requests[d] > 0 => d \in sitemaps

(* A traversal ends, whatever cycles the site has.                         *)
TraversalEnds == <>(pc \in {"done", "error"})
=============================================================================
