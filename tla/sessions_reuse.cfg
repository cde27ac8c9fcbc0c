SPECIFICATION Spec
CONSTANTS
    Keys = {login}
    LoginKey = login
    Tokens = {k1, k2}
    Requests = {q1, q2}
    Limit = 2
    MaxCount = 3
    None = None
INVARIANTS ClosedStaysClosed
CHECK_DEADLOCK FALSE
