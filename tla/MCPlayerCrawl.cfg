\* Two raids, two characters, two pages.
CONSTANTS
    a = a
    b = b
    c1 = c1
    c2 = c2
    Raids <- MCRaids
    Chars <- MCChars
    PageSize = 1
    MaxPages = 2
    Buffer = 1
    MaxBackfill = 2
    BackoffBase = 3
    BackoffCap = 3
    PrivacyBackoff = 3
    MaxFailures = 2
    Lag = 0
    CrawlTime = 1
    MaxTime = 4
SPECIFICATION PlayerSpec
SYMMETRY MCSymmetry
CONSTRAINT MCBound
PROPERTIES LossesAreNamed
