SPECIFICATION CacheSpec
CONSTANTS
    Ids = {1, 2}
    Keys = {"k"}
    Contents <- MCContents
    Derived = {"references"}
    Null = Null
    MaxRevision = 3
INVARIANTS ContributionsAreExact AnswersTellTheTable
CHECK_DEADLOCK FALSE
