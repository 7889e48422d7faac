SPECIFICATION Spec
CONSTANTS
    Jobs = {j1}
    Executions = {e1, e2}
    Keys = {generated}
    None = None
    MaxRemovals = 0
SYMMETRY Symmetry
INVARIANT
    OneDraft
CHECK_DEADLOCK FALSE
