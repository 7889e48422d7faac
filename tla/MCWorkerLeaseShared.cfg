SPECIFICATION LeaseSpec
CONSTANTS
    NumJobs = 1
    Workers = {w1}
    NoWorker = NoWorker
    Runs = {r1, r2}
    MaxAttempts = 2
    Concurrency = 2
SYMMETRY RunSymmetry
PROPERTY
    OnlyHolderFinalizes
CHECK_DEADLOCK FALSE
