\* Two waves, two workers, one trouble.
CONSTANTS
    a = a
    b = b
    c = c
    d = d
    r1 = r1
    r2 = r2
    r3 = r3
    w1 = w1
    w2 = w2
    Players <- MCPlayers
    Raids <- MCRaids
    Reports <- MCReports
    Invalid <- MCInvalid
    Seeded <- MCSeeds
    Seeds <- MCSeeds
    History <- MCHistory
    Workers <- MCWorkers
    Skew = 1
    MaxAge = 2
    BatchSize = 1
    FirstTime = 3
    MaxTime = 4
    MaxDepth = 2
    MaxFound = 4
    MaxTroubles = 1
SPECIFICATION Spec
CHECK_DEADLOCK FALSE
INVARIANTS MembersAreKnown SeenIsCurrent ClaimedOnce DiscoveryIsComplete
