SPECIFICATION FairSpec
CONSTANTS
    Partitions = {p1}
    p1 = p1
    QueueMax = 1
    BatchSize = 2
    ConsumeFrom = "latest"
    MaxLog = 3
    MaxRuns = 1
PROPERTIES
    ShutdownTerminates
    EventuallyStored
CHECK_DEADLOCK FALSE
