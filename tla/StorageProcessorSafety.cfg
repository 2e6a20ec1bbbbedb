SPECIFICATION Spec
CONSTANTS
    Topics = {t1}
    t1 = t1
    BatchSize = 2
    MaxConcurrent = 1
    MaxAttempts = 3
    MaxLost = 2
    MaxLog = 3
    MaxRuns = 2
INVARIANTS
    TypeOK
    StoredOrForsaken
    CopiesBounded
PROPERTY
    CommitMonotone
CHECK_DEADLOCK FALSE
