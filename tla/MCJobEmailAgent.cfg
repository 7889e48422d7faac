SPECIFICATION Spec
CONSTANTS
    None = None
    Jobs = {j1, j2}
    Executions = {e1, e2}
    Followed = {e1}
    Analyses <- MCAnalyses
    Replies <- MCReplies
    SettingsRows <- MCSettingsRows
    MaxChanges = 1
SYMMETRY Symmetry
INVARIANTS
    TypeOK
    RecordedEventIsReal
    WritesAfterChecks
    TraceTellsOutcome
    ChangesAreReal
CHECK_DEADLOCK FALSE
