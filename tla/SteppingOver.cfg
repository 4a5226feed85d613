CONSTANTS
    t1 = t1
    t2 = t2
    NOP = nop
    BL = bl
    B = b
    RET = ret
    BRK = brk
    Locations <- MCLocations
    Instrs <- MCInstrs
    Code <- MCCode
    Target <- MCTarget
    Entry <- MCTogether
    BP_ALL_THREADS = all
    Off = off
    Threads <- MCOne
    NumHW = 1
    MaxAllocs = 3
    UserLocations = {1, 2, 3}
    UserThreads <- MCAll
    Commands = {"continue", "step_inst_into", "step_inst_over", "breakpoint_set", "breakpoint_delete"}
SPECIFICATION SteppingSpec
PROPERTIES
    StepsAreExact
    StepEnds
