SPECIFICATION Spec
CONSTANTS
    Partitions = {p1, p2}
    p1 = p1
    p2 = p2
    QueueMax = 1
    BatchSize = 2
    ConsumeFrom = "latest"
    MaxLog = 2
    MaxRuns = 2
SYMMETRY PartitionSymmetry
INVARIANTS
    TypeOK
    NoSilentLoss
    DrainedAtFinalCommit
    CommitSlack
    PartitionOrder
PROPERTIES
    CommitMonotone
    StreamSpec
CHECK_DEADLOCK FALSE
