SPECIFICATION FairSpec
CONSTANTS
    p1 = p1  g1 = g1  g2 = g2  g3 = g3
    rd = rd  wr = wr  x1 = x1  x2 = x2
    Foreign = Foreign
    Nobody = Nobody
    Children = {p1, g1, g2, g3}
    Requests = {rd, wr, x1, x2}
    Pids = {1, 2, 3}
    On <- MCOn
    Kind <- MCKind
    Programs <- MCPrograms
    Size = 2
    Output = 1
    Room = 1
INVARIANTS
    ChildOwned
    ExitTruthful
PROPERTIES
    ExitObserved
CHECK_DEADLOCK FALSE
