SPECIFICATION FairSpec
CONSTANTS
    Accounts = {a1, a2}
    Pollers = {p1}
    Polls = {q1, q2}
    Requests = {r1}
    Resets = {}
    Schedule = Schedule
    None = None
    PageSize = 1
    MaxPages = 2
    MaxMessages = 2
    MaxArrivals = 2
    MaxMishaps = 1
INVARIANTS
    TypeOK
    OneJobPerMessage
    OnePollPerPoller
    PollMissesNothing
PROPERTY
    NoMessageWaitsForEver
CHECK_DEADLOCK FALSE
