\* A budget of three: one place for each bucket.
CONSTANTS
    a = a
    b = b
    c = c
    Players <- MCPlayers
    Seeded <- MCSeeded
    Viewed <- MCViewed
    Concurrency = 2
    Total = 3
    HotPct = 34
    WarmPct = 34
    QueueMax = 1
    MaxFailures = 1
    MaxTroubles = 1
SPECIFICATION Spec
CHECK_DEADLOCK FALSE
INVARIANTS OneCrawlAtATime BudgetIsUsed
PROPERTIES RowsAreServed EveryoneIsCrawled
