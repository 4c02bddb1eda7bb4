SPECIFICATION Spec
CONSTANTS
    N = 2
    DataSites = {1}
    Namesakes = {1, 2}
    Contents = {c1, c2}
    NoContent = none
    MaxChanges = 1
    MaxAborts = 1
    MaxBreaks = 1
    MaxQueue = 1
SYMMETRY ContentSymmetry
INVARIANTS
    TypeOK
    HonestUntilAbort
    HubCanSupersede
    AppliedWasCompleted
PROPERTY
    CacheMonotone
