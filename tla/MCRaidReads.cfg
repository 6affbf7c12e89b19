\* Tables of up to three raids, a limit that cuts.
CONSTANTS
    People <- MCPeople
    MembershipTypes <- MCTypes
    RaidKeys <- MCRaidKeys
    PageLimit = 2
    CachedLimit = 2
    InstanceIds <- MCInstances
    Reports <- MCReports
    Cutoffs <- MCCutoffs
SPECIFICATION TableSpec
INVARIANTS QueriesAgree PercentilesAreNearestRank CacheIsTransparent
