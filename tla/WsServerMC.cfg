SPECIFICATION FairSpec
CONSTANTS
    PlainReqs = {}
    WsReqs = {c1, c2}
    WidMod = 4
    MaxQueue = 2
    MaxOva = 6
    Restarts = 0
    Rules = 1
INVARIANTS
    RoutedToOwner
    OpenIsKnown
    PokesAccepted
CHECK_DEADLOCK FALSE
