SPECIFICATION PipelineSpec
CONSTANTS
    Ids = {1, 2, 3, 4}
    NoId = 0
    BatchMax = 2
    MaxDepth = 0
    MaxEvents = 0
    NDrivers = 2
    Essential = {1}
    WorkBatch = 3
    MaxStays = 2
    MaxPeeks = 1
    Crashes = 1
INVARIANTS
    EffectsDurable
    SnapshotBehindLog
    AnswersMatch
    EveCounts
    OrderKept
    OvumInOnePlace
    BacklogBounded
PROPERTIES
    CleanExit
    ImplementsEventLog
CHECK_DEADLOCK FALSE
