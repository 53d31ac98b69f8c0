SPECIFICATION FairSpec
CONSTANTS
    PlainReqs = {r1, r2}
    WsReqs = {w1}
    duct <- ducts
    MaxId = 1
    MaxQueue = 1
    Cancels = 0
    Restarts = 1
INVARIANT NoGhostRequests
PROPERTIES
    HandshakeAnswered
    RequestAnswered
CHECK_DEADLOCK FALSE
