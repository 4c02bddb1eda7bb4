SPECIFICATION FairSpec
CONSTANTS
    N = 1
    DataSites = {1}
    Namesakes = {1}
    Contents = {c1, c2}
    NoContent = none
    MaxChanges = 2
    MaxAborts = 0
    MaxBreaks = 1
    MaxQueue = 2
PROPERTY
    Converges
