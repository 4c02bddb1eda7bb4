SPECIFICATION FairSpec
CONSTANTS
    Restores = {"r1", "r2"}
    Sites = {"a", "b"}
    SeedSite = "a"
    Policies = {"Retain", "Delete"}
    None = None
    MaxTargets = 2
    MaxDisturbances = 2
INVARIANTS
    NothingIsEmpty
    GoneIsDeleted
PROPERTIES
    ServedIsRecovered
    CompletedIsAccepted
    CancelEnds
    RestoreEnds
CHECK_DEADLOCK FALSE
