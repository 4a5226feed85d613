SPECIFICATION Spec
CONSTANTS
    t1 = t1
    t2 = t2
    Threads <- MCThreads
    Patient = 1
    MaxRaises = 5
INVARIANTS
    RepliedOnce
    NoLostRequest
    NoUseAfterFree
    StopMeansStopped
    RunningIsAnswered
PROPERTIES
    AnsweredOrStopped
