SPECIFICATION Spec
CONSTANTS
    Calls = {c1, c2, c3}
    MaxAttempts = 2
    Keys = {k1}
    NoKey = NoKey
    Genesis = Genesis
    MaxTime = 2
    MaxLost = 2
SYMMETRY Interchangeable
INVARIANTS
    PositionsAreDense
    OneEntryPerCall
    ExhaustedMeansContention
    UndamagedLedgerVerifies
    InnerLossShows
PROPERTIES
    KeepsLog
CHECK_DEADLOCK FALSE
