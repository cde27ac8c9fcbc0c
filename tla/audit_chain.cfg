SPECIFICATION Spec
CONSTANTS
    Calls = {c1, c2, c3}
    Genesis = Genesis
    MaxTime = 2
SYMMETRY Interchangeable
INVARIANTS
    ChainIsLinear
    OneEntryPerCall
    PunctualChainVerifies
PROPERTIES
    KeepsLog
CHECK_DEADLOCK FALSE
