CONSTANTS
    Measurements = {"m1", "m2"}
    PreCancelLimit = 1
    BulkLimit = 2
    Comparisons = {"x"}
    MaxComparisons = 2
    Loads <- Kinds
    Findings <- TwoFindings
    Versions = {"one", "two"}
    FirstVersion = "one"
    Size <- Sizes
    Budgets <- TightAndWide
    MaxRetries = 1
    MaxGenerating = 2
    MaxDeaths = 1
SPECIFICATION AiSpec
INVARIANTS CancelIsKept ComparisonIsCurrent GenerationsTellTheTruth
PROPERTIES ReportOfOneState QuitEnds RequestsAreMeant CompleteStaysExported
CHECK_DEADLOCK FALSE
