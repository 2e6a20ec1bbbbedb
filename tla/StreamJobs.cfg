SPECIFICATION Spec
CONSTANTS
    v1 = v1
    v2 = v2
    p1 = p1
    p2 = p2
    Visitors <- MCVisitors
    Home <- MCHome
    Shapes <- MCShapes
    Size = 1
    LongSize = 2
    Gap = 2
    Delay = 1
    MaxTime = 3
    MaxEvents = 3
    MaxFailures = 1
INVARIANTS
    TypeOK
    EventsAccounted
    LateOnlyIfBehind
    NotReopened
CHECK_DEADLOCK FALSE
