SPECIFICATION Spec
CONSTANTS
    Types = {"perf"}
    Fields = {f1, f2}
    f1 = f1
    f2 = f2
    Retention = 1
    Limits = {}
    MaxWindow = 2
    MaxOps = 4
    MaxCrashes = 1
SYMMETRY FieldSymmetry
INVARIANTS
    TypeOK
    FieldIsLatest
    IndexedIsReadable
    TtlRenewed
PROPERTY
    RetentionEnforced
CHECK_DEADLOCK FALSE
