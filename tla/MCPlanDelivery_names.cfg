SPECIFICATION FairSpec
CONSTANTS
    N = 1
    DataSites = {1}
    Namesakes = {}
    Contents = {c1, c2}
    NoContent = none
    MaxChanges = 0
    MaxAborts = 0
    MaxBreaks = 0
    MaxQueue = 2
PROPERTY
    BecomesReady
