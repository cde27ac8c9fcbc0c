SPECIFICATION Spec
CONSTANTS
    Remediations = {m1, m2}
    Requests = {q1, q2, q3}
    Nothing = Nothing
SYMMETRY Interchangeable
INVARIANTS
    ApprovalGate
    OutcomeFollowsExecution
    ReopeningIsBounded
CHECK_DEADLOCK FALSE
