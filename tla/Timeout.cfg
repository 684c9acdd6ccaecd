CONSTANTS
    Count = 2
    Policies = {"ForwardFirst"}
    MaxInstant = 4
    Durations = {0, 1, 2, 4}
SPECIFICATION TimeoutFairSpec
INVARIANTS
    DeadlineExact
PROPERTIES
    TimeoutDelivers
CHECK_DEADLOCK FALSE
