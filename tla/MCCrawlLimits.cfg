CONSTANTS
  root = root  a = a  b = b  c = c  m = m
  Urls <- SmallUrls
  Root = root
  Modes = {"spider", "list"}
  ListSeeds <- ThreeSeeds
  SitemapSeeds <- OnlyB
  Links <- SmallLinks
  Sitemaps <- SmallSitemaps
  LinkedSitemaps <- SmallLinkedSitemaps
  Listed <- SmallListed
  Scopes <- TwoScopes
  Concurrency = 2
  MaxUrls = 2
  MaxDepth = 2
  MaxLinksPerPage = 1
  MaxRuns = 2
  MaxCrashes = 1
SPECIFICATION FairSpec
CHECK_DEADLOCK FALSE
INVARIANTS LimitsHold NoUrlLost
PROPERTIES LedgerSpec StopEnds RunEnds
