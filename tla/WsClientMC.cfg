SPECIFICATION Spec
CONSTANTS
    PlainReqs = {r1, r2}
    WsReqs = {w1, w2}
    duct <- ducts
    MaxId = 1
    MaxQueue = 2
    Cancels = 1
    Restarts = 0
INVARIANTS
    CallbackHasRequest
    RoutedToRequester
    NoGhostSockets
    OpenIsKnown
CHECK_DEADLOCK FALSE
