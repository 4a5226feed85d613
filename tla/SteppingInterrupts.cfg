CONSTANTS
    t1 = t1
    t2 = t2
    NOP = nop
    BL = bl
    B = b
    RET = ret
    BRK = brk
    Locations <- MCLocations
    Instrs <- MCInstrs
    Code <- MCCode
    Target <- MCTarget
    Entry <- MCTogether
    BP_ALL_THREADS = all
    Off = off
    Threads <- MCOne
    NumHW = 1
    MaxAllocs = 2
    UserLocations = {1, 2}
    UserThreads <- MCUser
    Commands = {"continue", "step_inst_into", "step_inst_over", "breakpoint_set", "breakpoint_delete", "interrupt", "Ctrl_C"}
SPECIFICATION SteppingSpec
INVARIANTS
    HandlersKeepTables
    StepIsExpected
