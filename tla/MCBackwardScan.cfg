\* The script, the scanner and their races, killed anywhere.
CONSTANTS
    LastId = 7
    Raids = {3, 5}
    FirstPosition = 2
    BatchSize = 2
    FirstJump = 2
    Resolution = 1
    MaxProbes = 2
    MaxHalvings = 2
    MaxBackward = 4
    MaxMisses = 2
    MayKill = TRUE
SPECIFICATION BackSpec
INVARIANTS OnlyJumpsSkip 
