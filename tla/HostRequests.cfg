CONSTANTS
    Requests = {r1, r2, r3}
    Hooked = {r1, r2}
    Answers = {a1, a2}
    Nothing = Nothing
SPECIFICATION RequestsSpec
INVARIANTS
    ProviderContract
CHECK_DEADLOCK FALSE
