SPECIFICATION FairSpec
CONSTANTS
    Sites = {s1, s2, s3}
    Primary = s1
    MaxEdits = 0
    MaxDeletes = 0
    MaxForced = 0
    MaxFailures = 2
CHECK_DEADLOCK FALSE
INVARIANTS ArtifactsAreCold ConversionIsRecoverable DatabaseSurvives RolledBackToSource
PROPERTIES EndsOrIsHeld
