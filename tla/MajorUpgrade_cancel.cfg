SPECIFICATION Spec
CONSTANTS
    Sites = {s1, s2}
    Primary = s1
    MaxEdits = 1
    MaxDeletes = 1
    MaxForced = 1
    MaxFailures = 1
CHECK_DEADLOCK FALSE
INVARIANTS WritesNeedStandbys
PROPERTIES NoRollbackAfterWrites
