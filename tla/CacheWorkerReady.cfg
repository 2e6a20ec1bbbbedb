SPECIFICATION Spec
CONSTANTS
    Partitions = {p1}
    p1 = p1
    QueueMax = 1
    BatchSize = 1
    ConsumeFrom = "latest"
    MaxLog = 3
    MaxRuns = 2
INVARIANT
    ReadyMeansConsuming
CHECK_DEADLOCK FALSE
