SPECIFICATION FairSpec
CONSTANTS
    s1 = s1
    s2 = s2
    Sites <- MCSites
    Ops <- MCOps
    MaxFaults = 1
    MaxGeneration = 2
    Policies <- RetainUser
    MaxChanges = 1
    RoleGeneration = 1
INVARIANTS
    DeletedWasDropped
    UserAfterRole
PROPERTIES
    ImplementsLedger
    DeletionEnds
CHECK_DEADLOCK FALSE
