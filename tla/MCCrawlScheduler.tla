-------------------------- MODULE MCCrawlScheduler --------------------------
(* A small site: the root links to a and b, a to b and perhaps to c; c and  *)
(* a are listed by a sitemap that the page of b links to.                   *)
EXTENDS CrawlScheduler

CONSTANTS root, a, b, c, m

SmallUrls == {root, a, b, c}
SmallLinks == (root :> {a, b}) @@ (a :> {b, c}) @@ (b :> {root}) @@ (c :> {a})
\* Nothing but the linked sitemap leads to c.
FewLinks == (a :> {b}) @@ SmallLinks
SmallSitemaps == {m}
SmallLinkedSitemaps == (b :> {m}) @@ [u \in SmallUrls |-> {}]
SmallListed == m :> {c, a}
OneScope == {SmallUrls}
TwoScopes == {SmallUrls, {root, a, c}}
OnlyB == {b}
ThreeSeeds == {root, a, c}
=============================================================================
