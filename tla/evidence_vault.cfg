SPECIFICATION FairSpec
CONSTANTS
    Jobs = {r1, r2}
    Workers = {w1, w2}
    MaxReceive = 3
    Configured = TRUE
    NoRecord = NoRecord
INVARIANTS RowNamesItsObject ObjectsAreDeliveries
PROPERTIES KeysMoveForward EvidenceIsStored
CHECK_DEADLOCK FALSE
