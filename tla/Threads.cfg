CONSTANTS
    MaxThreads = 3
    Kinds = {"BP", "WP"}
    NumRegs = 1
    MaxPoints = 2
    Sizes <- MCSizes
SPECIFICATION Spec
INVARIANTS
    ThreadListOK
    PointsFollowThreads
    AllThreadsArmed
    RebuildLosesNothing
PROPERTIES
    PointsSettle
CHECK_DEADLOCK FALSE
