CONSTANTS
    l1 = l1
    l2 = l2
    t1 = t1
    t2 = t2
    mov = mov
    add = add
    brk = brk
    Locations <- MCLocations
    Instrs <- MCInstrs
    BRK = brk
    Code <- MCCode
    Threads <- MCThreads
    BP_ALL_THREADS = all
    NumHW = 2
    Off = off
    MaxAllocs = 4
SYMMETRY Symmetry
SPECIFICATION Spec
INVARIANTS
    HWRegsDistinct
    CodeIntact
    RegistersMatchTable
