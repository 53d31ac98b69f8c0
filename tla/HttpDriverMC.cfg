SPECIFICATION Spec
CONSTANTS
    Reqs = {c1, c2}
    WidMod = 3
SYMMETRY ReqsSymmetry
INVARIANTS
    TypeOK
    LinksSound
PROPERTIES
    FinalIsFinal
    ImplementsSession
CHECK_DEADLOCK FALSE
