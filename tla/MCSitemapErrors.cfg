CONSTANTS
  Docs <- ThreeDocs  Pages <- ThreePages  Entries <- Overlapping
  Configs <- ExplicitOnly
  MaxDepth = 1
SPECIFICATION Spec
CHECK_DEADLOCK FALSE
INVARIANTS ExplicitErrorsShown
