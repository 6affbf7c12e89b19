SPECIFICATION ArchiveSpec
CONSTANTS
    None = None
    Garbage = Garbage
    All = All
    Instances = {1, 2, 3}
    Workers = {w1, w2}
    Replies <- MCReplies
    MaxRetries = 1
    FailureLimit = 2
    Limits <- MCLimits
    Gos = {1, 3}
    Chars = {c1, c2}
    PageCount = 1
    Target = 2
CHECK_DEADLOCK FALSE
INVARIANTS Reconciles RunAccounts PassCovers
PROPERTIES Drains
