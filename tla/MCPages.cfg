CONSTANTS
    a = a
    b = b
    c = c
    Urls = {a, b, c}
    Internal = {a, b}
    Sites <- AllSites
    MaxRedirects = 1
    Junk = Junk
    None = None
    MinSize = 1
    MaxSize = 1
    ThinWords = 5
    UrlOrder <- TextOrder
    MaxRows = 1
    Compared <- ComparedSites
SPECIFICATION Spec
INVARIANTS RecordsTellTheSite AuditsAgree ReferencesTellTheSite
CHECK_DEADLOCK FALSE
