SPECIFICATION FairSpec
CONSTANTS
    Jobs = {s1}
    Requests = {r1}
    Workers = {w1, w2}
    MaxReceive = 2
    MaxConcurrent = 1
    Quota = 1
    MaxPatched = 1
    OnPrem = TRUE
    NoScan = NoScan
INVARIANTS
    TypeOK
    AckedScanIsFinished
    SnapshotsAreDeliveries
PROPERTIES
    KeepsContract
    JobsSettle
    RunningEnds
CHECK_DEADLOCK FALSE
