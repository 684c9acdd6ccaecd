CONSTANTS
    Tasks = {t1, t2}
    Subscriptions = {s1}
    Programs = {p1, p2}
    MailboxLimit = 2
    Quantum = 1
    None = None
SPECIFICATION ClosingSpec
INVARIANTS
    EveryTaskHeld
    ProgramsRetained
PROPERTIES
    TurnsShared
    CloseReturns
    StoppedDrains
CHECK_DEADLOCK FALSE
