CONSTANTS
    NoFrame = NoFrame
    Frames = {r1, r2, c1, c2}
    Roots = {r1, r2}
    Operations = {"scope", "call", "select", "observe", "close", "cancel", "stop"}
    MaxTime = 0
SPECIFICATION Spec
CHECK_DEADLOCK FALSE
SYMMETRY HostSymmetry
INVARIANTS
    ChildrenInScope
    NeverStranded
    WakesExact
    StopPrevails
