----------------------------- MODULE CrawlPath -----------------------------
(* The path from a start of the crawl to a page, along stored links         *)
(* (build_crawl_path in crates/storage/src/lib.rs).  A breadth-first search *)
(* that compares URLs by their aliases: a link leaves every page that has   *)
(* an alias of its source, and a page is visited once under all its texts.  *)
EXTENDS ResultStore

(* No link is what stands for its absence.                                  *)
ASSUME PathAssumption == None \notin [page : Texts, link : Nat]

(* The links in the order they were found, at most max of them.             *)
Explored(max) == SubSeq(sql.edges, 1, Min({max, Len(sql.edges)}))

(* The sources of depth 0, or else of the least depth, in text order.       *)
Starts(edges) ==
  LET depths == {e.from.depth : e \in ToSet(edges)}
      starts == {e.source : e \in {x \in ToSet(edges) : x.from.depth = Min(depths)}}
  IN Sorted([x \in starts |-> {y \in starts : Rank[y] < Rank[x]}])

(* The links that leave a page, under any of its texts, as indexes.         *)
Outgoing(edges, url) ==
  Kept([i \in DOMAIN edges |-> i],
       {i \in DOMAIN edges : Overlap(Aliases[edges[i].source], Aliases[url])})

(* mark_aliases_visited: a page met before, under any of its texts, is not  *)
(* queued again.  A search is the queue, the texts visited, the link each   *)
(* page was first reached by, and the page found.                           *)
VisitFault(search, url, via) ==
  IF Overlap(Aliases[url], search.visited) THEN search
  ELSE [search EXCEPT !.queue = <<url>> \o @, !.visited = @ \cup Aliases[url],
                      !.via = IF via = None THEN @ ELSE Put(@, url, via)]
Visit(search, url, via) ==
  IF Overlap(Aliases[url], search.visited) THEN search
  ELSE [search EXCEPT !.queue = Append(@, url), !.visited = @ \cup Aliases[url],
                      !.via = IF via = None THEN @ ELSE Put(@, url, via)]

(* The links of a page in turn, until one leads to the target.              *)
Expand(search, edges, url, target) ==
  LET follow(acc, i) ==
        IF acc.found # None THEN acc
        ELSE IF Overlap(Aliases[edges[i].target], Aliases[target])
        THEN [acc EXCEPT !.found = edges[i].target,
                         !.via = Put(@, edges[i].target, [page |-> url, link |-> i])]
        ELSE Visit(acc, edges[i].target, [page |-> url, link |-> i])
  IN FoldLeft(follow, [search EXCEPT !.queue = Tail(@)], Outgoing(edges, url))

(* The search ends with the queue empty or the target found; every text is  *)
(* queued at most once.                                                     *)
Search(edges, target) ==
  LET begin == FoldLeft(LAMBDA acc, t : Visit(acc, t, None),
                        [queue |-> <<>>, visited |-> {}, via |-> [t \in {} |-> None], found |-> None],
                        Starts(edges))
      next(acc) == IF acc.queue = <<>> \/ acc.found # None THEN acc
                   ELSE Expand(acc, edges, Head(acc.queue), target)
  IN FoldLeft(LAMBDA acc, n : next(acc), begin, [n \in 1..Cardinality(Texts) |-> n])

(* From the page found back to a start, link by link.                       *)
PathSteps(search, max) ==
  LET back(acc, n) ==
        IF acc.at \in DOMAIN search.via
        THEN [at |-> search.via[acc.at].page, links |-> <<search.via[acc.at].link>> \o acc.links]
        ELSE acc
  IN FoldLeft(back, [at |-> search.found, links |-> <<>>], [n \in 1..(max + 1) |-> n]).links

(* A start is its own path, of no steps.                                    *)
PathTo(target, max) ==
  LET edges == Explored(max)
      search == Search(edges, target)
  IN IF edges = <<>> THEN [found |-> FALSE, links |-> <<>>]
     ELSE IF \E t \in ToSet(Starts(edges)) : Overlap(Aliases[t], Aliases[target])
     THEN [found |-> TRUE, links |-> <<>>]
     ELSE [found |-> search.found # None,
           links |-> IF search.found = None THEN <<>> ELSE PathSteps(search, max)]

-----------------------------------------------------------------------------
(* The texts within n links of a start.                                     *)
Within(edges, n) ==
  LET step(texts, k) ==
        texts \cup AliasesOf({e.target : e \in {x \in ToSet(edges) : Overlap(Aliases[x.source], texts)}})
  IN FoldLeft(step, AliasesOf(ToSet(Starts(edges))), [k \in 1..n |-> k])

Reaches(edges, n, target) == Overlap(Within(edges, n), Aliases[target])

(* A path is found exactly when links lead from a start to the page, under  *)
(* whatever text they name it; its links follow one another from a start to *)
(* the page, and no shorter sequence of links gets there.                   *)
PathIsShortest(edges, target, path) ==
  /\ path.found <=> edges # <<>> /\ Reaches(edges, Len(edges), target)
  /\ path.found =>
       LET n == Len(path.links)
           link(i) == edges[path.links[i]]
       IN /\ n > 0 => /\ ~Reaches(edges, n - 1, target)
                      /\ \E t \in ToSet(Starts(edges)) : Overlap(Aliases[t], Aliases[link(1).source])
                      /\ Overlap(Aliases[link(n).target], Aliases[target])
          /\ \A i \in 1..(n - 1) : Overlap(Aliases[link(i).target], Aliases[link(i + 1).source])

(* Whatever the crawl has stored so far, for every page its links name, and *)
(* whether all of them are read or only the first two.                      *)
CrawlPathsAreShortest ==
  calls = <<>> =>
    \A target \in UNION {{e.source, e.target} : e \in ToSet(sql.edges)} :
    \A max \in {2, Len(sql.edges) + 1} :
      PathIsShortest(Explored(max), target, PathTo(target, max))
=============================================================================
