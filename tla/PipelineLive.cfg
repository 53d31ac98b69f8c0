SPECIFICATION FairSpec
CONSTANTS
    Ids = {1, 2, 3}
    NoId = 0
    BatchMax = 2
    MaxDepth = 0
    MaxEvents = 0
    NDrivers = 2
    Essential = {1}
    WorkBatch = 2
    MaxStays = 2
    MaxPeeks = 1
    Crashes = 1
PROPERTIES
    OvumSettles
    BootSettles
CHECK_DEADLOCK FALSE
