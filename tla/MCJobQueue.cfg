SPECIFICATION QueueSpec
CONSTANTS
    NumJobs = 2
    Workers = {w1, w2}
    NoWorker = NoWorker
    Runs = {r1, r2}
    MaxAttempts = 2
SYMMETRY Symmetry
INVARIANTS
    QueueTypeOK
    AttemptsBounded
PROPERTY
    OutcomeIsFinal
