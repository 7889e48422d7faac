SPECIFICATION Spec
CONSTANTS
    Jobs = {j1}
    Executions = {e1, e2}
    Keys = {generated, placeholder}
    None = None
    MaxRemovals = 0
SYMMETRY Symmetry
INVARIANT
    OneLeasedDraft
CHECK_DEADLOCK FALSE
