CONSTANTS
  c1 = c1  c2 = c2
  Crawls <- TwoCrawls
  MaxFailures = 2
  MaxCrashes = 1
SPECIFICATION FairSpec
INVARIANTS OneCrawl HistorySettles FailureShown CardHasData
PROPERTIES DataOutlivesCard StopsReturn
