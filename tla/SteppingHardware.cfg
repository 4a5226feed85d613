CONSTANTS
    t1 = t1
    t2 = t2
    NOP = nop
    BL = bl
    B = b
    RET = ret
    BRK = brk
    Locations <- MCLocations
    Instrs <- MCInstrs
    Code <- MCCode
    Target <- MCTarget
    Entry <- MCTogether
    BP_ALL_THREADS = all
    Off = off
    Threads <- MCTwo
    NumHW = 2
    MaxAllocs = 2
    UserLocations = {4}
    UserThreads <- MCAll
    Commands = {"continue", "step_inst_into", "thread_select", "breakpoint_set", "breakpoint_delete"}
SPECIFICATION SteppingSpec
INVARIANTS
    NoRepeatedStop
    ArmedWhenFree
PROPERTIES
    ThreadsGoOn
