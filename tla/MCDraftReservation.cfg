SPECIFICATION Spec
CONSTANTS
    Jobs = {j1, j2}
    Executions = {e1, e2, e3}
    Keys = {generated, placeholder}
    None = None
    MaxRemovals = 1
SYMMETRY Symmetry
INVARIANTS
    TypeOK
    RecordedDraftIsReal
    OneLeasedDraftOfKey
    ExclusiveReservation
CHECK_DEADLOCK FALSE
