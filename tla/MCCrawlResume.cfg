CONSTANTS
  root = root  a = a  b = b  c = c  m = m
  Urls <- SmallUrls
  Root = root
  Modes = {"spider"}
  ListSeeds <- ThreeSeeds
  SitemapSeeds <- OnlyB
  Links <- FewLinks
  Sitemaps <- SmallSitemaps
  LinkedSitemaps <- SmallLinkedSitemaps
  Listed <- SmallListed
  Scopes <- OneScope
  Concurrency = 2
  MaxUrls = 5
  MaxDepth = 2
  MaxLinksPerPage = 0
  MaxRuns = 3
  MaxCrashes = 1
SPECIFICATION Spec
CHECK_DEADLOCK FALSE
INVARIANTS CrawledIsExact ResumeIsExact FinishedIsComplete LinksFollowed
PROPERTIES NeverRefetched
