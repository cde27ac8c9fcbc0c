SPECIFICATION Spec
CONSTANTS
    Jobs = {s1, s2}
    Requests = {r1, r2}
    Workers = {w1, w2}
    MaxReceive = 1
    MaxConcurrent = 1
    Quota = 1
    MaxPatched = 0
    OnPrem = FALSE
    NoScan = NoScan
SYMMETRY Interchangeable
INVARIANTS
    JobHasRow
    LimitOvershootIsBounded
    QuotaOvershootIsBounded
    BilledScansWereSent
CHECK_DEADLOCK FALSE
