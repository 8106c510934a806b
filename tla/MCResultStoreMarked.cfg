CONSTANTS
  root = root  host = host  a = a  b = b  mark = mark  item = item  again = again
  home = home  east = east  west = west  outer = outer  far = far  None = None
  Texts <- SiteTexts
  Aliases <- SiteAliases
  Rank <- SiteOrder
  Seeds <- SiteSeeds
  Answers <- MarkedAnswers
  Batches <- OneByOne
  MaxPages = 6
  MaxCrawls = 2
  MaxTools = 1
SPECIFICATION Spec
CHECK_DEADLOCK FALSE
INVARIANTS InlinksAddUp
