SPECIFICATION Spec
CONSTANTS
    Types = {"event", "perf"}
    Fields = {f1}
    f1 = f1
    Retention = 1
    Limits = {0, 1}
    MaxWindow = 2
    MaxOps = 3
    MaxCrashes = 0
PROPERTIES
    LatestMonotone
    TrimKeepsNewest
CHECK_DEADLOCK FALSE
