SPECIFICATION Spec
CONSTANTS
    Keys = {e1, e2}
    Plans = {comply, defend}
    Free = comply
    Handlers = {h1, h2}
    MaxDeliveries = 2
    None = None
INVARIANTS LostOnlyIfInterrupted PlanIsPaid
PROPERTIES KeepsEventContract
SYMMETRY Interchangeable
CHECK_DEADLOCK FALSE
