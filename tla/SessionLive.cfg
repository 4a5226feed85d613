CONSTANTS
    Procs = {1}
    MaxSessions = 1
SPECIFICATION Spec
PROPERTIES
    ServersStop
    DeathIsNoticed
    DetachEnds
CHECK_DEADLOCK FALSE
