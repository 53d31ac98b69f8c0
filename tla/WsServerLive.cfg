SPECIFICATION FairSpec
CONSTANTS
    PlainReqs = {c3}
    WsReqs = {c1}
    WidMod = 3
    MaxQueue = 1
    MaxOva = 3
    Restarts = 1
    Rules = 0
INVARIANT KnownIsCurrent
PROPERTIES
    ReportedEndsForget
    PlainEndsForget
    HandshakeSettled
CHECK_DEADLOCK FALSE
