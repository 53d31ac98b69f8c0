SPECIFICATION FairSpec
CONSTANTS
    NoDuct = NoDuct
    Ducts = {d1, d2}
    Rids = {r1}
    ClogThreshold = 1
    MaxEvents = 3
    MaxPuts = 3
    MaxStreams = 2
    Restarts = 1
INVARIANTS
    StreamWhole
    ListenerSound
    UnackedCounts
    NoOrphanSubs
PROPERTIES
    Heard
    Reaped
CHECK_DEADLOCK FALSE
