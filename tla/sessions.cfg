SPECIFICATION Spec
CONSTANTS
    Keys = {login, link1}
    LoginKey = login
    Tokens = {k1, k2, k3}
    Requests = {q1, q2, q3}
    Limit = 2
    MaxCount = 3
    None = None
INVARIANTS CounterHasDeadline ResetIsSingleUse
SYMMETRY Interchangeable
CHECK_DEADLOCK FALSE
