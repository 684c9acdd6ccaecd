CONSTANTS
    NoFrame = NoFrame
    Frames = {r1, c1, c2}
    Roots = {r1}
    Operations = {"scope", "select", "cancel", "sleep", "yield"}
    MaxTime = 1
SPECIFICATION FairSpec
CHECK_DEADLOCK FALSE
INVARIANTS
    NoLostCancellation
PROPERTIES
    CancellationBeatsExpiry
    QueuedRuns
