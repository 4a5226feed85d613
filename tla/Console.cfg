CONSTANTS
    Capacity = 3
    MaxLen = 2
    MaxMsgs = 1
    MaxLines = 1
    MaxSignals = 1
    Commands = {"print", "watchpoint delete", "trace", "continue", "detach", "quit"}
SPECIFICATION Spec
INVARIANTS
    PipeOK
PROPERTIES
    WholeInOrder
    HangsStay
    MessagesShown
    ListLocksGranted
    TraceStops
CHECK_DEADLOCK FALSE
