SPECIFICATION FairSpec
CONSTANTS
    s1 = s1
    s2 = s2
    Sites <- TwoSites
    Ops <- BackupOps
    MaxFaults = 1
    MaxTime = 1
    maxPostUpgradeBackupAttempts = 1
INVARIANTS
    UpgradeNeedsFreshBackup
    CompletionHasBackup
    IssuedBeforeRecorded
PROPERTIES
    FinalizingEnds
CHECK_DEADLOCK FALSE
