SPECIFICATION Spec
CONSTANTS
    Topics = {t1}
    t1 = t1
    BatchSize = 1
    MaxConcurrent = 1
    MaxAttempts = 1
    MaxLost = 0
    MaxLog = 2
    MaxRuns = 1
INVARIANT
    CommittedIsInserted
CHECK_DEADLOCK FALSE
