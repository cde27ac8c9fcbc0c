SPECIFICATION Spec
CONSTANTS
    Calls = {c1, c2, c3}
    Genesis = Genesis
    MaxTime = 2
SYMMETRY Interchangeable
INVARIANT
    UntouchedChainVerifies
CHECK_DEADLOCK FALSE
