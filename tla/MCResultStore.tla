--------------------------- MODULE MCResultStore ---------------------------
(* A site of three pages: the root, which links to a and b, a page a that   *)
(* redirects to b, and b, which links back or redirects to the root.  A     *)
(* Spider crawl starts at the root, a List crawl holds b twice.  A second   *)
(* site has two ways of different length from its home to the page far.     *)
EXTENDS Archive, CrawlPath

CONSTANTS root, host, a, b, mark, item, again, home, east, west, outer, far

(* host is the root without its path, mark is b with a fragment, item and   *)
(* again are the storage keys of the List items.                            *)
SiteTexts == {root, host, a, b, mark, item, again, home, east, west, outer, far}
SiteAliases ==
  [t \in SiteTexts |-> CASE t = root -> {root, host} [] t = host -> {host, root}
                         [] t = mark -> {mark, b} [] OTHER -> {t}]
SiteOrder == [t \in SiteTexts |-> CASE t = host -> 1 [] t = root -> 2 [] t = a -> 3
                                     [] t = b -> 4 [] t = mark -> 5 [] t = item -> 6 [] t = again -> 7
                                     [] t = home -> 8 [] t = east -> 9 [] t = west -> 10
                                     [] t = outer -> 11 [] t = far -> 12]
Seed(key, url, position) ==
  [key |-> key, url |-> url, depth |-> 0, position |-> position, sitemap |-> FALSE]
SiteSeeds == {<<Seed(root, root, None)>>, <<Seed(item, b, 1), Seed(again, b, 2)>>,
              <<Seed(home, home, None)>>}

Page(final, links, pics, urls) ==
  [final |-> final, status |-> 200, links |-> links, references |-> ToSet(links),
   pics |-> pics, listed |-> urls, body |-> "html"]
Missing(final) ==
  [final |-> final, status |-> 404, links |-> <<>>, references |-> {}, pics |-> {},
   listed |-> <<>>, body |-> None]

PlainAnswers ==
  [t \in SiteTexts |->
    CASE t = root -> {Page(root, <<a, b>>, {"logo"}, <<>>), Page(root, <<b, a, root>>, {}, <<b>>)}
      [] t = a -> {Page(b, <<root>>, {"logo"}, <<>>)}
      [] t = b -> {Page(b, <<a>>, {"photo"}, <<a>>), Missing(root)}
      [] t = home -> {Page(home, <<east, west>>, {}, <<>>)}
      [] t = east -> {Page(east, <<far>>, {}, <<>>)}
      [] t = west -> {Page(west, <<outer>>, {}, <<>>)}
      [] t = outer -> {Page(outer, <<far>>, {}, <<>>)}
      [] t = far -> {Page(far, <<home>>, {}, <<>>), Missing(far)}
      [] t \in {item, again} -> {Page(b, <<a>>, {"photo"}, <<>>), Missing(b)}
      [] OTHER -> {}]
ASSUME PlainTexts == Answers = PlainAnswers => OneTextPerPage /\ BatchesAreOrdered

(* The redirect of a names a fragment of b.                                 *)
MarkedAnswers == [PlainAnswers EXCEPT ![a] = {Page(mark, <<root>>, {"logo"}, <<>>)}]

OneByOne == {<<host>>, <<a>>, <<b, root>>}
=============================================================================
