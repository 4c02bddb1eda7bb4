SPECIFICATION Spec
CONSTANTS
    Sites = {s1, s2}
    Primary = s1
    MaxEdits = 0
    MaxDeletes = 1
    MaxForced = 0
    MaxFailures = 0
CHECK_DEADLOCK FALSE
INVARIANT DatabaseSurvives
