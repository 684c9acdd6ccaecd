SPECIFICATION SpreadSpec
CONSTANTS
    s1 = s1  s2 = s2  r1 = r1  r2 = r2  t1 = t1  A = A  B = B
    Requests = {s1, s2, r1, r2}
    Senders = {s1, s2}
    Tries = {t1}
    Capacity = 2
    Roots = {A, B}
    NoRoot = NoRoot
    MaxCancels = 2
INVARIANTS
    DriverServes
PROPERTIES
    Linearizable
    NeverIgnored
CHECK_DEADLOCK FALSE
