SPECIFICATION LeaseSpec
CONSTANTS
    NumJobs = 1
    Workers = {w1, w2}
    NoWorker = NoWorker
    Runs = {r1, r2, r3}
    MaxAttempts = 2
    Concurrency = 1
SYMMETRY Symmetry
INVARIANTS
    TypeOK
    RunsPaidFor
    AtMostMaxAttemptsRuns
    CleanExitLeavesNoLock
PROPERTIES
    ImplementsService
    OnlyHolderFinalizes
    ImplementsLease
CHECK_DEADLOCK FALSE
