---------------------------- MODULE Breakpoints ----------------------------
(***************************************************************************)
(* The breakpoint table of iosdbg (source/breakpoint.c), together with the *)
(* two things it programs in the debuggee: the BRK #0 words written over   *)
(* its code, and the breakpoint registers of every thread.                 *)
(*                                                                         *)
(* Every operation of breakpoint.h is one action, in any order: the module *)
(* is the table under its most general client.  The module Stepping drives *)
(* the same operators in the order the exception server and the step       *)
(* commands call them.                                                     *)
(*                                                                         *)
(* debuggee->breakpoints, a linked list that is only ever appended to and  *)
(* unlinked from, is a function from node numbers to breakpoints: nodes    *)
(* are numbered in the order they are appended, so list order is the order *)
(* of the numbers.  hit_count and the thread name are only printed and are *)
(* left out; DBGBCR and DBGBVR are one value, Off when DBGBCR is 0.        *)
(***************************************************************************)
EXTENDS Integers, FiniteSets, FiniteSetsExt

CONSTANTS
    Locations,       \* word-aligned code addresses of the debuggee
    Instrs,          \* instruction words
    BRK,             \* the instruction BRK #0
    Code,            \* the debuggee's own code, before any breakpoint
    Threads,         \* debuggee->threads, fixed in this module
    BP_ALL_THREADS,  \* the thread argument that means every thread
    NumHW,           \* debuggee->num_hw_bps
    Off,             \* a breakpoint register with DBGBCR = 0
    MaxAllocs        \* bound: how many breakpoints are ever created

ASSUME InstrAssumption  == BRK \in Instrs /\ Code \in [Locations -> Instrs]
ASSUME ThreadAssumption == BP_ALL_THREADS \notin Threads
ASSUME RegAssumption    == NumHW \in Nat /\ Off \notin Locations
ASSUME AllocAssumption  == MaxAllocs \in Nat

VARIABLES
    bps,                    \* the list: node number -> struct breakpoint
    num_breakpoints,        \* debuggee->num_breakpoints
    current_breakpoint_id,  \* the id the next breakpoint gets
    mem,                    \* the debuggee's code as it is in memory
    regs,                   \* regs[t][r]: breakpoint register r of thread t
    allocs                  \* nodes appended so far

vars == <<bps, num_breakpoints, current_breakpoint_id, mem, regs, allocs>>

Regs == 0 .. NumHW - 1

BP_ENABLED  == 0
BP_DISABLED == 1

Breakpoint == [id : Nat, location : Locations, old_instruction : Instrs,
               disabled : {BP_ENABLED, BP_DISABLED}, temporary : BOOLEAN, for_stepping : BOOLEAN,
               hw : BOOLEAN, hw_bp_reg : Regs \cup {-1},
               thread : Threads \cup {BP_ALL_THREADS}]

Live == DOMAIN bps

----------------------------------------------------------------------------
(* Lookups.  0 is the NULL node.                                           *)

NULL == 0

First(S) == IF S = {} THEN NULL ELSE Min(S)

find_bp_with_address(b, addr) == First({k \in DOMAIN b : b[k].location = addr})

\* The breakpoints an operation with a BP_COND_ argument is about.
Matching(b, way) ==
    {k \in DOMAIN b :
        \/ way = "BP_COND_NORMAL" /\ ~b[k].temporary /\ ~b[k].for_stepping
        \/ way = "BP_COND_STEPPING" /\ b[k].for_stepping}

find_bp_with_cond(b, addr, way) ==
    First({k \in Matching(b, way) : b[k].location = addr})

find_bp_with_id(b, id) == First({k \in DOMAIN b : b[k].id = id})

UsedRegs(b) == {b[k].hw_bp_reg : k \in {j \in DOMAIN b : b[j].hw}}

\* Mutant: a disabled breakpoint is taken to have given its register back.
find_ready_bp_reg_SkipsDisabled(b) ==
    LET used == {b[k].hw_bp_reg : k \in {j \in DOMAIN b : b[j].hw /\ b[j].disabled = BP_ENABLED}}
    IN  IF Regs \subseteq used THEN -1 ELSE Min(Regs \ used)

\* The first free breakpoint register, -1 when every one is in use.
find_ready_bp_reg(b) ==
    IF Regs \subseteq UsedRegs(b) THEN -1 ELSE Min(Regs \ UsedRegs(b))

----------------------------------------------------------------------------
(* bp_set_state_internal, applied in list order to every breakpoint of S:  *)
(* what it does to the table, the code and the registers.  Later writes to *)
(* the same word or register win.                                          *)

Targets(bp) == IF bp.thread = BP_ALL_THREADS THEN Threads ELSE {bp.thread}

SoftwareAt(b, S, l) == {k \in S : ~b[k].hw /\ b[k].location = l}

\* Mutant: the register is programmed on every thread.
HardwareOn_IgnoresThread(b, S, t, r) == {k \in S : b[k].hw /\ b[k].hw_bp_reg = r}

HardwareOn(b, S, t, r) ==
    {k \in S : b[k].hw /\ b[k].hw_bp_reg = r /\ t \in Targets(b[k])}

TableAfter(b, S, disabled) ==
    [k \in DOMAIN b |->
        IF k \in S THEN [b[k] EXCEPT !.disabled = disabled] ELSE b[k]]

MemAfter(b, S, disabled, m) ==
    [l \in Locations |->
        IF SoftwareAt(b, S, l) = {} THEN m[l]
        ELSE IF disabled = BP_DISABLED THEN b[Max(SoftwareAt(b, S, l))].old_instruction
        ELSE BRK]

RegsAfter(b, S, disabled, g) ==
    [t \in Threads |-> [r \in Regs |->
        IF HardwareOn(b, S, t, r) = {} THEN g[t][r]
        ELSE IF disabled = BP_DISABLED THEN Off
        ELSE b[Max(HardwareOn(b, S, t, r))].location]]

\* bp_delete_internal unlinks the nodes of S after disabling them.
Unlink(b, S) == [k \in DOMAIN b \ S |-> b[k]]

----------------------------------------------------------------------------
(* Creating breakpoints.                                                   *)

\* breakpoint_new: take a hardware register if one is free.  The original
\* instruction is read from memory, unless a breakpoint is already set at
\* this address: memory may hold its BRK.
breakpoint_new(b, m, addr, temporary, stepping, thread) ==
    LET reg == find_ready_bp_reg(b)
        dup == find_bp_with_address(b, addr)
    IN  [id              |-> current_breakpoint_id,
         location        |-> addr,
         old_instruction |-> IF dup = NULL THEN m[addr] ELSE b[dup].old_instruction,
         disabled        |-> BP_ENABLED,
         temporary       |-> temporary,
         for_stepping    |-> stepping,
         hw              |-> reg # -1,
         hw_bp_reg       |-> reg,
         thread          |-> thread]

Append(b, bp) ==
    [k \in DOMAIN b \cup {allocs + 1} |-> IF k = allocs + 1 THEN bp ELSE b[k]]

\* The new breakpoint is armed: breakpoint_new has programmed its register,
\* or the caller writes BRK #0 once the node is in the list.
Create(bp) ==
    /\ allocs < MaxAllocs
    /\ allocs' = allocs + 1
    /\ bps' = Append(bps, bp)
    /\ mem' = MemAfter(bps', {allocs'}, BP_ENABLED, mem)
    /\ regs' = RegsAfter(bps', {allocs'}, BP_ENABLED, regs)
    /\ num_breakpoints' = num_breakpoints + 1
    /\ current_breakpoint_id' =
            current_breakpoint_id + (IF bp.temporary THEN 0 ELSE 1)

breakpoint_at_address(addr, thread) ==
    Create(breakpoint_new(bps, mem, addr, FALSE, FALSE, thread))

set_stepping_breakpoint(addr, thread) ==
    Create(breakpoint_new(bps, mem, addr, TRUE, TRUE, thread))

----------------------------------------------------------------------------
(* Deleting, disabling and enabling.                                       *)

\* Mutant: the node is freed without restoring the code.
Delete_LeavesBRK(S) ==
    /\ bps' = Unlink(bps, S)
    /\ regs' = RegsAfter(bps, S, BP_DISABLED, regs)
    /\ num_breakpoints' = num_breakpoints - Cardinality(S)
    /\ UNCHANGED <<mem, current_breakpoint_id, allocs>>

Delete(S) ==
    /\ bps' = Unlink(bps, S)
    /\ mem' = MemAfter(bps, S, BP_DISABLED, mem)
    /\ regs' = RegsAfter(bps, S, BP_DISABLED, regs)
    /\ num_breakpoints' = num_breakpoints - Cardinality(S)
    /\ UNCHANGED <<current_breakpoint_id, allocs>>

SetState(S, disabled) ==
    /\ bps' = TableAfter(bps, S, disabled)
    /\ mem' = MemAfter(bps, S, disabled, mem)
    /\ regs' = RegsAfter(bps, S, disabled, regs)
    /\ UNCHANGED <<num_breakpoints, current_breakpoint_id, allocs>>

\* Only the hit count of a breakpoint that is not temporary changes.
breakpoint_hit(k) ==
    /\ bps[k].temporary
    /\ Delete({k})

breakpoint_delete(id) ==
    /\ find_bp_with_id(bps, id) # NULL
    /\ Delete({find_bp_with_id(bps, id)})

\* Called when the thread of a thread-specific hardware breakpoint is gone.
breakpoint_delete_specific(k) ==
    /\ bps[k].hw
    /\ bps[k].thread # BP_ALL_THREADS
    /\ Delete({k})

breakpoint_delete_all == Delete(Live)

breakpoint_delete_all_specific(way) == Delete(Matching(bps, way))

breakpoint_disable(id) ==
    /\ find_bp_with_id(bps, id) # NULL
    /\ SetState({find_bp_with_id(bps, id)}, BP_DISABLED)

breakpoint_enable(id) ==
    /\ find_bp_with_id(bps, id) # NULL
    /\ SetState({find_bp_with_id(bps, id)}, BP_ENABLED)

breakpoint_disable_all_except(except) ==
    SetState({k \in Live : \/ except = "BP_COND_NORMAL"
                           \/ except = "BP_COND_STEPPING" /\ ~bps[k].for_stepping},
             BP_DISABLED)

breakpoint_enable_all_specific(way) == SetState(Matching(bps, way), BP_ENABLED)

----------------------------------------------------------------------------
Init ==
    /\ bps = [k \in {} |-> NULL]
    /\ num_breakpoints = 0
    /\ current_breakpoint_id = 1
    /\ mem = Code
    /\ regs = [t \in Threads |-> [r \in Regs |-> Off]]
    /\ allocs = 0

Ids == {bps[k].id : k \in Live}

Next ==
    \/ \E addr \in Locations, thread \in Threads \cup {BP_ALL_THREADS} :
            breakpoint_at_address(addr, thread)
    \/ \E addr \in Locations, thread \in Threads : set_stepping_breakpoint(addr, thread)
    \/ \E k \in Live : breakpoint_hit(k)
    \/ \E id \in Ids : breakpoint_delete(id)
    \/ \E k \in Live : breakpoint_delete_specific(k)
    \/ \E id \in Ids : breakpoint_disable(id)
    \/ \E id \in Ids : breakpoint_enable(id)
    \/ breakpoint_delete_all
    \/ breakpoint_delete_all_specific("BP_COND_STEPPING")
    \/ breakpoint_disable_all_except("BP_COND_STEPPING")
    \/ breakpoint_enable_all_specific("BP_COND_NORMAL")

Spec == Init /\ [][Next]_vars

----------------------------------------------------------------------------
(* Properties.                                                             *)

\* The type invariant.
TypeOK ==
    /\ allocs \in Nat
    /\ Live \subseteq 1 .. allocs
    /\ bps \in [Live -> Breakpoint]
    /\ num_breakpoints \in Int
    /\ current_breakpoint_id \in Nat
    /\ mem \in [Locations -> Instrs]
    /\ regs \in [Threads -> [Regs -> Locations \cup {Off}]]

\* find_ready_bp_reg never hands out a register twice: the registers of the
\* hardware breakpoints in the list are valid and pairwise different, through
\* any sequence of creations and deletions.
HWRegsDistinct ==
    \A k \in Live : bps[k].hw =>
        /\ bps[k].hw_bp_reg \in Regs
        /\ \A j \in Live : bps[j].hw /\ bps[j].hw_bp_reg = bps[k].hw_bp_reg => j = k

\* breakpoint_new records the debuggee's own instruction, never another
\* breakpoint's BRK #0, whatever was set, disabled or deleted at that address.
OldInstructionIsOriginal ==
    \A k \in Live : bps[k].old_instruction = Code[bps[k].location]

\* No stray BRK #0: a word of the debuggee's code differs from the original
\* only while an enabled software breakpoint at that address is in the list.
CodeIntact ==
    \A l \in Locations :
        mem[l] # Code[l] =>
            /\ mem[l] = BRK
            /\ \E k \in Live : ~bps[k].hw /\ bps[k].disabled = BP_ENABLED /\ bps[k].location = l

\* No ghost and no lost hardware breakpoint: register r of thread t matches
\* on address l exactly when the list has an enabled hardware breakpoint for
\* that register, that address and that thread.
RegistersMatchTable ==
    \A t \in Threads, r \in Regs, l \in Locations :
        (regs[t][r] = l) <=>
            \E k \in Live : /\ bps[k].hw
                            /\ bps[k].disabled = BP_ENABLED
                            /\ bps[k].hw_bp_reg = r
                            /\ bps[k].location = l
                            /\ t \in Targets(bps[k])

\* The ids shown to the user name one breakpoint each: breakpoints that are
\* not temporary never share an id, and a new one gets an id not in use.
UserIdsDistinct ==
    \A k \in Live : ~bps[k].temporary =>
        /\ bps[k].id < current_breakpoint_id
        /\ \A j \in Live : ~bps[j].temporary /\ bps[j].id = bps[k].id => j = k

\* num_breakpoints, which `breakpoint list` and `breakpoint delete` consult
\* instead of the list, is the length of the list.
CountMatchesList == num_breakpoints = Cardinality(Live)

\* Once the last breakpoint is deleted (breakpoint_delete_all in ops_detach),
\* the debuggee is as it was: its own code, and every register off.
CleanWhenEmpty ==
    Live = {} => /\ mem = Code
                 /\ regs = [t \in Threads |-> [r \in Regs |-> Off]]

\* A software breakpoint that is enabled is armed: BRK #0 is in memory.
\* Deleting or disabling another software breakpoint at the same address
\* restores the original instruction under it.
EnabledSoftwareArmed ==
    \A k \in Live : ~bps[k].hw /\ bps[k].disabled = BP_ENABLED => mem[bps[k].location] = BRK
============================================================================
