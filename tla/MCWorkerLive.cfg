SPECIFICATION FairSpec
CONSTANTS
    NumJobs = 1
    Workers = {w1, w2}
    NoWorker = NoWorker
    Runs = {r1}
    MaxAttempts = 1
    Concurrency = 1
PROPERTY
    EveryJobEnds
CHECK_DEADLOCK FALSE
