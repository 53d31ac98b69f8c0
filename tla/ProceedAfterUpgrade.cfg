SPECIFICATION Spec
CONSTANTS
    PlainReqs = {}
    WsReqs = {c1}
    WidMod = 2
    MaxQueue = 2
    MaxOva = 4
    Restarts = 0
    Rules = 0
INVARIANT ProceedAfterUpgrade
CHECK_DEADLOCK FALSE
