CONSTANTS
    Procs = {1, 2}
    MaxSessions = 2
SPECIFICATION Spec
INVARIANTS
    SessionOK
    QueueOfSession
CHECK_DEADLOCK FALSE
