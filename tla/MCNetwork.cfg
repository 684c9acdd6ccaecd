SPECIFICATION FairSpec
CONSTANTS
    c1 = c1  r1 = r1  r2 = r2  w1 = w1  w2 = w2  a1 = a1  a2 = a2
    NoRoot = NoRoot
    Connections = {c1}
    Requests = {r1, r2, w1, w2}
    Roots = {a1, a2}
    On <- MCOn
    Kind <- MCKind
    Size <- MCSize
    Root <- MCRoot
    Arriving <- MCArriving
    Programs <- MCPrograms
    Room = 1
INVARIANTS
    DirectionHeld
    StreamsExact
PROPERTIES
    Served
CHECK_DEADLOCK FALSE
