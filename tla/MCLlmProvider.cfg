SPECIFICATION FairSpec
CONSTANTS
    thread = thread
    agent = agent
    Tools = {thread, agent}
    None = None
    CallIds = {i1, i2, i3}
    Requests <- TheRequests
    MaxBatch = 2
INVARIANTS
    TypeOK
    WithinLimits
    ModelEndsLeaveNothingRunning
    AnswerIsAccountedFor
    ChoiceCanBeHonoured
PROPERTY
    CallAnswers
CHECK_DEADLOCK FALSE
