CONSTANTS
  Docs <- ThreeDocs  Pages <- ThreePages  Entries <- Overlapping
  Configs <- WideTightAndList
  MaxDepth = 1
SPECIFICATION FairSpec
CHECK_DEADLOCK FALSE
INVARIANTS ReadsWithinBudget
PROPERTIES TraversalEnds
