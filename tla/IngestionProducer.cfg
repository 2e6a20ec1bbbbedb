SPECIFICATION FairSpec
CONSTANTS
    Workers = {w1, w2}
    Events = {e1, e2}
    w1 = w1
    w2 = w2
    e1 = e1
    e2 = e2
    QueueMax = 1
    MaxAttempts = 3
    MaxResends = 1
    MaxRuns = 2
INVARIANTS
    TypeOK
    AcceptedAccounted
    RefusedIsNotSent
    SentOnce
PROPERTIES
    RequestsAnswered
CHECK_DEADLOCK FALSE
