SPECIFICATION FairSpec
CONSTANTS
    Topics = {t1, t2}
    t1 = t1
    t2 = t2
    BatchSize = 2
    MaxConcurrent = 1
    MaxAttempts = 2
    MaxLost = 1
    MaxLog = 1
    MaxRuns = 2
INVARIANTS
    StoredOrForsaken
    CopiesBounded
PROPERTIES
    DrainTerminates
    EventuallyHandled
CHECK_DEADLOCK FALSE
