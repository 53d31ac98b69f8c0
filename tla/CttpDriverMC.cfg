SPECIFICATION Spec
CONSTANTS
    PlainReqs = {r1}
    WsReqs = {w1, w2}
    MaxId = 1
SYMMETRY WsSymmetry
INVARIANTS
    LinksSound
    AnsweredOrCancelled
PROPERTIES
    ImplementsSession
CHECK_DEADLOCK FALSE
