\* Three requests for two keys, one of which fits.
CONSTANTS
    k1 = k1
    k2 = k2
    r1 = r1
    r2 = r2
    r3 = r3
    Keys <- MCKeys
    Requests <- MCRequests
    FreshMs = 1
    StaleMs = 2
    NegativeMs = 1
    MaxEntries = 1
    MaxTime = 5
SPECIFICATION FairSpec
CHECK_DEADLOCK FALSE
INVARIANTS InflightIsLive SingleFlight
PROPERTIES EveryRequestIsAnswered
