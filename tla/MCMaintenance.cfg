\* One worker and the script; any order of their file accesses, and kills.
CONSTANTS
    worker = worker
    manual = manual
    Workers <- MCWorkers
    Scripts <- MCScripts
    Pause = 2
    Delay = 1
    Cooldown = 2
    MaxTime = 5
SPECIFICATION FairSpec
INVARIANTS OneCleaner QuiesceIsOwned GateCoversVacuum
PROPERTIES WaitEnds
