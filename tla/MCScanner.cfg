\* The scan and its stop: batches of two ids out of three, two workers, two keys
\* that can both be lost, a missed set of one id.
CONSTANTS
    k1 = k1
    k2 = k2
    Keys <- MCKeys
    LastId = 3
    Raids = {1, 2}
    SharedRaids = {2}
    ProbedPositions = {1}
    NumWorkers = 2
    BatchSize = 2
    MaxMissedIds = 1
    RetryThreshold = 1
    MaxConsecutiveMisses = 1
SPECIFICATION FairSpec
INVARIANTS PassPartition CheckpointBacked
PROPERTIES LossesAreNamed StopIsHonoured
