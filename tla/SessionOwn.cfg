CONSTANTS
    Procs = {1, 2}
    MaxSessions = 2
SPECIFICATION Spec
INVARIANT
    OwnSessionOnly
CHECK_DEADLOCK FALSE
