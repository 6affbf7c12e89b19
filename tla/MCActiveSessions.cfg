\* Two players, at most one orphaned poll.
CONSTANTS
    p1 = p1
    p2 = p2
    NoPlayer = NoPlayer
    Players <- MCPlayers
    Activities = {"raid"}
    Typed <- MCTyped
    Tracked <- MCTracked
    MaxPolls = 2
    Concurrency = 1
    Probes = 2
    Stale = 0
    MaxAge = 1
    Interval = 1
    Watchdog = 1
    OfflineBase = 2
    OfflineCap = 2
    PrivacyBackoff = 2
    MaxShift = 0
    MaxEvents = 1
    MaxTime = 3
CHECK_DEADLOCK FALSE
SPECIFICATION Spec
PROPERTIES DeletedOnSignal WrittenOnSignal LiveRaiderNotBenched EndedRaidIsQueued
