SPECIFICATION FairSpec
CONSTANTS
    Ids = {1, 2, 3}
    NoId = 0
    BatchMax = 2
    MaxDepth = 0
    MaxEvents = 0
    NDrivers = 2
    Essential = {1}
    WorkBatch = 2
    MaxStays = 1
    MaxPeeks = 1
    Crashes = 0
PROPERTIES
    ExitEnds
CHECK_DEADLOCK FALSE
