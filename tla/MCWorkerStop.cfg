SPECIFICATION FairSpec
CONSTANTS
    NumJobs = 1
    Workers = {w1}
    NoWorker = NoWorker
    Runs = {r1, r2}
    MaxAttempts = 2
    Concurrency = 2
INVARIANTS
    CompletedJobHasCompletedRun
PROPERTIES
    EveryJobEnds
    StopTerminates
CHECK_DEADLOCK FALSE
