SPECIFICATION ApplyFairSpec
CONSTANTS
    MaxReplicas = 2
    MaxRevision = 2
    MaxBreaks = 2
    MaxDrifts = 1
    MaxFailures = 1
INVARIANTS
    CachedBeforeApplied
PROPERTIES
    ReportedPassMatches
    DisconnectedCreatesNothing
    Settles
