SPECIFICATION FairSpec
CONSTANTS
    Members = {1, 2, 3}
    Sites = {"a", "b"}
    SiteOf <- TwoSites
    Upgrades = {1, 2}
    Target <- SameImage
    None = None
    MaxDisturbances = 1
INVARIANTS
    VerifiedRunsTarget
    OneAtATime
    LeaderIsNotRolled
PROPERTIES
    CompletedRunsTarget
    UpgradeEnds
CHECK_DEADLOCK FALSE
