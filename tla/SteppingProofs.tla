--------------------------- MODULE SteppingProofs ---------------------------
(***************************************************************************)
(* Proofs about Stepping, for every program, every set of threads, every   *)
(* number of breakpoint registers and every choice of commands.            *)
(*                                                                         *)
(* The handlers change the table of Breakpoints several times in one step; *)
(* the lemmas of BreakpointsProofs about one change are chained.           *)
(***************************************************************************)
EXTENDS Stepping, BreakpointsProofs

----------------------------------------------------------------------------
(* Operations on a state of the table.                                     *)

\* s is a state of the table, sound for nodes up to n.
SoundTables(s, n) ==
    /\ s = [b |-> s.b, m |-> s.m, g |-> s.g, n |-> s.n]
    /\ Sound(s.b, s.m, s.g, n)
    /\ s.n \in Int

\* The table of a state that satisfies the invariant of Breakpoints is sound.
LEMMA TablesSound ==
    ASSUME IInv
    PROVE  SoundTables(Tables, allocs) /\ Tables.b = bps /\ Tables.m = mem
BY InvariantIsSoundness DEF SoundTables, Tables

\* A step that makes the table sound keeps the invariant of Breakpoints.
LEMMA BecomeSound ==
    ASSUME NEW s, SoundTables(s, allocs'), Become(s), current_breakpoint_id' \in Nat
    PROVE  IInv'
BY InvariantIsSoundnessAfter DEF SoundTables, Become

\* bp_set_state_internal keeps a state of the table sound.
LEMMA WithStateSound ==
    ASSUME NEW s, NEW n, SoundTables(s, n), NEW S \in SUBSET DOMAIN s.b,
           NEW d \in {BP_ENABLED, BP_DISABLED}
    PROVE  SoundTables(WithState(s, S, d), n)
<1> DEFINE b2 == TableAfter(s.b, S, d)
           m2 == MemAfter(s.b, S, d, s.m)
           g2 == RegsAfter(s.b, S, d, s.g)
<1>1. Sound(b2, m2, g2, n)
    BY SetStateKeeps DEF SoundTables
<1>2. WithState(s, S, d) = [b |-> b2, m |-> m2, g |-> g2, n |-> s.n]
    <2> HIDE DEF b2, m2, g2
    <2>1. WithState(s, S, d) = [s EXCEPT !.b = b2, !.m = m2, !.g = g2]
        BY DEF WithState, b2, m2, g2
    <2> QED
        BY <2>1 DEF SoundTables
<1> HIDE DEF b2, m2, g2
<1> QED
    BY <1>1, <1>2 DEF SoundTables

\* Deleting breakpoints keeps a state of the table sound.
LEMMA WithoutSound ==
    ASSUME NEW s, NEW n, SoundTables(s, n), NEW S \in SUBSET DOMAIN s.b
    PROVE  SoundTables(Without(s, S), n)
<1> DEFINE b2 == Unlink(s.b, S)
           m2 == MemAfter(s.b, S, BP_DISABLED, s.m)
           g2 == RegsAfter(s.b, S, BP_DISABLED, s.g)
<1>1. Sound(b2, m2, g2, n)
    BY DeleteKeeps DEF SoundTables
<1>2. s.n - Cardinality(S) \in Int
    <2>1. n \in Nat /\ S \in SUBSET (1 .. n)
        BY DEF SoundTables, Sound, Table
    <2>2. IsFiniteSet(S)
        BY <2>1, NodesFinite
    <2>3. Cardinality(S) \in Nat
        BY <2>2, FS_CardinalityType
    <2> QED
        BY <2>3 DEF SoundTables
<1>3. Without(s, S) = [b |-> b2, m |-> m2, g |-> g2, n |-> s.n - Cardinality(S)]
    BY DEF Without
<1> HIDE DEF b2, m2, g2
<1> QED
    BY <1>1, <1>2, <1>3 DEF SoundTables

\* A new stepping breakpoint keeps a state of the table sound.
LEMMA WithSound ==
    ASSUME NEW s, SoundTables(s, allocs), current_breakpoint_id \in Nat,
           NEW l \in Locations, NEW t \in Threads
    PROVE  SoundTables(With(s, breakpoint_new(s.b, s.m, l, TRUE, TRUE, t)), allocs + 1)
<1> DEFINE bp == breakpoint_new(s.b, s.m, l, TRUE, TRUE, t)
           b2 == Append(s.b, bp)
           m2 == MemAfter(b2, {allocs + 1}, BP_ENABLED, s.m)
           g2 == RegsAfter(b2, {allocs + 1}, BP_ENABLED, s.g)
<1>1. Sound(s.b, s.m, s.g, allocs)
    BY DEF SoundTables
<1>2. TRUE \in BOOLEAN /\ t \in Threads \cup {BP_ALL_THREADS}
    OBVIOUS
<1>3. /\ bp \in Breakpoint
      /\ bp.hw => bp.hw_bp_reg \in Regs /\ bp.hw_bp_reg \notin UsedRegs(s.b)
      /\ bp.old_instruction = Code[bp.location]
      /\ bp.disabled = BP_ENABLED
    <2>1. ASSUME NEW x \in BOOLEAN, NEW c, c = breakpoint_new(s.b, s.m, l, x, x, t)
          PROVE  /\ c \in Breakpoint
                 /\ c.hw => c.hw_bp_reg \in Regs /\ c.hw_bp_reg \notin UsedRegs(s.b)
                 /\ c.old_instruction = Code[c.location]
                 /\ c.disabled = BP_ENABLED
        BY <1>1, <1>2, <2>1, NewBreakpoint
    <2> QED
        BY <1>2, <2>1
<1>4. With(s, bp) = [b |-> b2, m |-> m2, g |-> g2, n |-> s.n + 1]
    BY DEF With
<1>5. Sound(b2, m2, g2, allocs + 1)
    <2> HIDE DEF bp
    <2> QED
        BY <1>1, <1>3, CreateKeeps
<1>6. s.n + 1 \in Int
    BY DEF SoundTables
<1> HIDE DEF b2, m2, g2, bp
<1>7. SoundTables(With(s, bp), allocs + 1)
    BY <1>4, <1>5, <1>6 DEF SoundTables
<1> QED
    BY <1>7 DEF bp

\* Looking an id up and setting the state of what was found does, too.
LEMMA WithIdSound ==
    ASSUME NEW s, NEW n, SoundTables(s, n), NEW id, NEW d \in {BP_ENABLED, BP_DISABLED}
    PROVE  SoundTables(WithId(s, id, d), n)
<1> DEFINE D == {k \in DOMAIN s.b : s.b[k].id = id}
           S == {First(D)} \ {NULL}
<1>1. n \in Nat /\ D \in SUBSET (1 .. n) /\ D \in SUBSET DOMAIN s.b
    BY DEF SoundTables, Sound, Table
<1>2. S \in SUBSET DOMAIN s.b
    <2> HIDE DEF D
    <2> QED
        BY <1>1, FirstIsMember
<1>3. WithId(s, id, d) = WithState(s, S, d)
    BY DEF WithId, find_bp_with_id
<1> HIDE DEF S
<1> QED
    BY <1>2, <1>3, WithStateSound

\* A lookup by address and kind returns a breakpoint of that kind there, or NULL.
LEMMA FindByCond ==
    ASSUME TypeOK, NEW l, NEW way
    PROVE  \/ find_bp_with_cond(bps, l, way) = NULL
           \/ /\ find_bp_with_cond(bps, l, way) \in Matching(bps, way)
              /\ find_bp_with_cond(bps, l, way) \in Live
              /\ bps[find_bp_with_cond(bps, l, way)].location = l
<1> DEFINE D == {k \in Matching(bps, way) : bps[k].location = l}
<1>1. allocs \in Nat /\ D \in SUBSET (1 .. allocs) /\ D \in SUBSET Live
    BY DEF TypeOK, Matching, Live
<1>2. find_bp_with_cond(bps, l, way) = First(D)
    BY DEF find_bp_with_cond
<1>3. First(D) = NULL \/ First(D) \in D
    <2> HIDE DEF D
    <2> QED
        BY <1>1, FirstIsMember
<1> QED
    BY <1>1, <1>2, <1>3

----------------------------------------------------------------------------
(* The inductive invariant of Stepping.                                    *)

\* The program counters and link registers stay in the program.
MachineOK == addr \in [Threads -> Locations] /\ lr \in [Threads -> Locations]

ThreadState ==
    [just_hit_breakpoint : {0, 1}, just_hit_sw_breakpoint : {0, 1},
     last_hit_bkpt_ID : Nat, is_stepping : {0, 1},
     step_kind : {STEP_NONE, INST_STEP_INTO, INST_STEP_OVER},
     set_temp_ss_breakpoint : {0, 1}]

ThreadsOK ==
    /\ run \in {"stopped", "running", "handling"} /\ verdict \in {0, 1} /\ sigstop \in {0, 1}
    /\ exc \in [Threads -> {"none", "breakpoint", "step", "signal", "handled"}]
    /\ ss \in [Threads -> {0, 1}]
    /\ th \in [Threads -> ThreadState]
    /\ focused \in Threads
    /\ steps \in 0 .. 2 /\ stuck \in [Threads -> Nat]

\* A single step that trapped has cleared its bit, which is set again only
\* after the trap is handled: commands come when every exception is.
AnsweredInOrder ==
    /\ \A t \in Threads : exc[t] = "step" => ss[t] = 0
    /\ run = "stopped" => \A t \in Threads : exc[t] \in {"none", "handled"}

SteppingInv == IInv /\ MachineOK /\ ThreadsOK /\ AnsweredInOrder /\ StepIsExpected

\* What the step commands do to the table first, breakpoint_disable_all_except.
LEMMA QuietSound ==
    ASSUME IInv
    PROVE  SoundTables(Quiet, allocs)
<1>1. Live \ Matching(bps, "BP_COND_STEPPING") \in SUBSET DOMAIN Tables.b
    BY TablesSound DEF Live
<1>2. BP_DISABLED \in {BP_ENABLED, BP_DISABLED}
    OBVIOUS
<1> QED
    BY <1>1, <1>2, TablesSound, WithStateSound DEF Quiet

\* A call is stepped over only where there is an instruction to return to.
LEMMA CallReturns ==
    ASSUME IInv, MachineOK, focused \in Threads, opcode = BL
    PROVE  addr[focused] + 1 \in Locations
<1> DEFINE l == addr[focused]
           b == find_bp_with_cond(bps, l, "BP_COND_NORMAL")
<1>1. l \in Locations
    BY DEF MachineOK
<1>2. Code[l] = BL
    <2>1. CASE b = NULL
        <3>1. Quiet.m[l] = BL
            BY <2>1 DEF opcode
        <3>2. Intact(Quiet.b, Quiet.m)
            BY QuietSound DEF SoundTables, Sound
        <3> HIDE DEF l
        <3> QED
            BY <1>1, <3>1, <3>2, ProgramAssumption DEF Intact
    <2>2. CASE b # NULL
        <3>1. bps[b].old_instruction = BL
            BY <2>2 DEF opcode
        <3>2. b \in Live /\ bps[b].location = l
            BY <2>2, FindByCond DEF IInv
        <3> QED
            BY <3>1, <3>2 DEF IInv, OldInstructionIsOriginal
    <2> QED
        BY <2>1, <2>2
<1> QED
    BY <1>1, <1>2, ProgramAssumption

\* Every handler and every command keeps the table, the code and the
\* registers in agreement.
LEMMA TablesStep ==
    ASSUME IInv, MachineOK, focused \in Threads, SteppingNext
    PROVE  IInv'
<1> USE DEF Server, User
<1>0. /\ SoundTables(Tables, allocs) /\ Tables.b = bps
      /\ current_breakpoint_id \in Nat
      /\ BP_DISABLED \in {BP_ENABLED, BP_DISABLED}
      /\ BP_ENABLED \in {BP_ENABLED, BP_DISABLED}
    BY TablesSound DEF IInv, TypeOK
<1>1. CASE UNCHANGED vars
    BY <1>1, IInvStep
<1>2. ASSUME NEW t \in Threads, handle_single_step(t)
      PROVE  IInv'
    <2> DEFINE enabled == WithState(Tables, Matching(bps, "BP_COND_NORMAL"), BP_ENABLED)
               s == IF th[t].just_hit_breakpoint = 1 /\ th[t].just_hit_sw_breakpoint = 1
                    THEN WithId(enabled, th[t].last_hit_bkpt_ID, BP_ENABLED)
                    ELSE enabled
    <2>1. Matching(bps, "BP_COND_NORMAL") \in SUBSET DOMAIN Tables.b
        BY <1>0 DEF Matching
    <2>2. SoundTables(enabled, allocs)
        BY <1>0, <2>1, WithStateSound
    <2>3. SoundTables(s, allocs)
        <3> HIDE DEF enabled
        <3> QED
            BY <1>0, <2>2, WithIdSound
    <2>4. /\ Become(s) /\ allocs' = allocs
          /\ current_breakpoint_id' = current_breakpoint_id
        BY <1>2 DEF handle_single_step
    <2> HIDE DEF s
    <2> QED
        BY <1>0, <2>3, <2>4, BecomeSound
<1>3. ASSUME NEW t \in Threads, handle_hit_breakpoint(t)
      PROVE  IInv'
    <2> DEFINE step == find_bp_with_cond(bps, addr[t], "BP_COND_STEPPING")
               stepped == Without(Tables, {step} \ {NULL})
    <2>1. {step} \ {NULL} \in SUBSET DOMAIN Tables.b
        BY <1>0, FindByCond DEF IInv, Live
    <2>2. SoundTables(stepped, allocs)
        <3> HIDE DEF step
        <3> QED
            BY <1>0, <2>1, WithoutSound
    <2>3. PICK s, id : /\ Become(s) /\ allocs' = allocs
                       /\ current_breakpoint_id' = current_breakpoint_id
                       /\ s = stepped \/ s = WithId(stepped, id, BP_DISABLED)
        BY <1>3 DEF handle_hit_breakpoint
    <2> HIDE DEF stepped
    <2>4. SoundTables(s, allocs)
        BY <1>0, <2>2, <2>3, WithIdSound
    <2> QED
        BY <1>0, <2>3, <2>4, BecomeSound
<1>4. CASE cmdfunc_continue
    BY <1>4, IInvStep DEF cmdfunc_continue, Next
<1>5. ASSUME NEW kind, SingleStep(kind)
      PROVE  IInv'
    BY <1>0, <1>5, QuietSound, BecomeSound DEF SingleStep
<1>6. CASE opcode = BL /\ StepOverCall
    <2>1. CASE Become(Quiet) /\ UNCHANGED <<current_breakpoint_id, allocs>>
        BY <1>0, <2>1, QuietSound, BecomeSound
    <2>2. CASE ~(Become(Quiet) /\ UNCHANGED <<current_breakpoint_id, allocs>>)
        <3> DEFINE bp == breakpoint_new(Quiet.b, Quiet.m, addr[focused] + 1, TRUE, TRUE, focused)
        <3>1. /\ Become(With(Quiet, bp))
              /\ allocs' = allocs + 1
              /\ current_breakpoint_id' = current_breakpoint_id
            BY <1>6, <2>2 DEF StepOverCall
        <3>2. addr[focused] + 1 \in Locations
            BY <1>6, CallReturns
        <3>3. SoundTables(With(Quiet, bp), allocs + 1)
            BY <1>0, <3>2, QuietSound, WithSound
        <3> HIDE DEF bp
        <3> QED
            BY <1>0, <3>1, <3>3, BecomeSound
    <2> QED
        BY <2>1, <2>2
<1>7. ASSUME NEW l \in UserLocations, NEW t \in UserThreads, cmdfunc_breakpoint_set(l, t)
      PROVE  IInv'
    <2>1. l \in Locations /\ t \in Threads \cup {BP_ALL_THREADS}
        BY UserAssumption
    <2>2. breakpoint_at_address(l, t)
        BY <1>7 DEF cmdfunc_breakpoint_set
    <2>3. Next
        BY <2>1, <2>2 DEF Next
    <2> QED
        BY <2>3, IInvStep
<1>8. ASSUME NEW id \in Ids, cmdfunc_breakpoint_delete(id)
      PROVE  IInv'
    BY <1>8, IInvStep DEF cmdfunc_breakpoint_delete, Next
<1>9. CASE \/ \E t \in Threads : \/ hit(t) \/ execute(t) \/ deliver_sigstop(t)
                                 \/ handle_soft_signal(t) \/ cmdfunc_thread_select(t)
           \/ batch \/ auto_resume \/ stop \/ cmdfunc_interrupt \/ interrupt
    BY <1>1, <1>9 DEF hit, execute, deliver_sigstop, handle_soft_signal, batch,
        auto_resume, stop, cmdfunc_thread_select, cmdfunc_interrupt, interrupt
<1>10. CASE cmdfunc_step_inst_into \/ cmdfunc_step_inst_over
    BY <1>5, <1>6, <1>10 DEF cmdfunc_step_inst_into, cmdfunc_step_inst_over
<1> QED
    BY <1>2, <1>3, <1>4, <1>7, <1>8, <1>9, <1>10 DEF SteppingNext

\* A thread that does not trap executes the debuggee's own instruction, and
\* stays in the program.
LEMMA MachineStep ==
    ASSUME IInv, MachineOK, SteppingNext
    PROVE  MachineOK'
<1>1. ASSUME NEW t \in Threads, execute(t)
      PROVE  MachineOK'
    <2> DEFINE l == addr[t]
    <2>1. l \in Locations /\ lr[t] \in Locations
        BY DEF MachineOK
    <2>2. mem[l] = Code[l] /\ mem[l] # BRK
        BY <1>1, <2>1 DEF execute, Traps, IInv, CodeIntact
    <2>3. /\ addr' = [addr EXCEPT ![t] = After(t)]
          /\ lr' = IF mem[l] = BL THEN [lr EXCEPT ![t] = l + 1] ELSE lr
        BY <1>1 DEF execute
    <2>4. After(t) = CASE mem[l] = BL  -> Target[l]
                       [] mem[l] = B   -> Target[l]
                       [] mem[l] = RET -> lr[t]
                       [] OTHER        -> l + 1
        BY DEF After
    <2> HIDE DEF l
    <2>5. /\ mem[l] \in {BL, B} => Target[l] \in Locations
          /\ mem[l] = BL \/ mem[l] \notin {B, RET, BRK} => l + 1 \in Locations
        BY <2>1, <2>2, ProgramAssumption
    <2>6. After(t) \in Locations
        <3>1. CASE mem[l] = BL \/ mem[l] = B
            BY <2>4, <2>5, <3>1, ProgramAssumption
        <3>2. CASE mem[l] # BL /\ mem[l] # B
            BY <2>1, <2>2, <2>4, <2>5, <3>2
        <3> QED
            BY <3>1, <3>2
    <2> QED
        BY <2>3, <2>5, <2>6 DEF MachineOK
<1>2. CASE UNCHANGED <<addr, lr>>
    BY <1>2 DEF MachineOK
<1>3. CASE \/ \E t \in Threads : \/ hit(t) \/ deliver_sigstop(t) \/ cmdfunc_thread_select(t)
           \/ batch \/ auto_resume \/ stop \/ cmdfunc_interrupt \/ interrupt
           \/ \E l \in UserLocations, t \in UserThreads : cmdfunc_breakpoint_set(l, t)
           \/ \E id \in Ids : cmdfunc_breakpoint_delete(id)
    BY <1>2, <1>3 DEF hit, deliver_sigstop, cmdfunc_thread_select, batch, auto_resume, stop,
        cmdfunc_interrupt, interrupt, cmdfunc_breakpoint_set, cmdfunc_breakpoint_delete, threadvars
<1>4. CASE \E t \in Threads : \/ handle_soft_signal(t) \/ handle_single_step(t)
                              \/ handle_hit_breakpoint(t)
    BY <1>2, <1>4 DEF handle_soft_signal, handle_single_step, handle_hit_breakpoint, Handled
<1>5. CASE cmdfunc_continue \/ cmdfunc_step_inst_into \/ cmdfunc_step_inst_over
    BY <1>2, <1>5 DEF cmdfunc_continue, cmdfunc_step_inst_into, cmdfunc_step_inst_over, Resumed
<1> QED
    BY <1>1, <1>3, <1>4, <1>5 DEF SteppingNext, Server, User

\* What handle_exception leaves of the state of the threads is well formed.
LEMMA HandledTypes ==
    ASSUME ThreadsOK, NEW t \in Threads, NEW P, Handled(t, P),
           ss' \in [Threads -> {0, 1}], th' \in [Threads -> ThreadState],
           stuck' \in [Threads -> Nat]
    PROVE  ThreadsOK'
<1>1. exc' \in [Threads -> {"none", "breakpoint", "step", "signal", "handled"}]
    BY DEF Handled, ThreadsOK
<1>2. verdict' \in {0, 1}
    BY DEF Handled, ThreadsOK
<1> QED
    BY <1>1, <1>2 DEF Handled, ThreadsOK

\* Neither is what a command that resumes the debuggee leaves.
LEMMA ResumedTypes ==
    ASSUME ThreadsOK, NEW c, NEW l, Resumed(c, l),
           ss' \in [Threads -> {0, 1}], th' \in [Threads -> ThreadState]
    PROVE  ThreadsOK'
<1>1. exc' \in [Threads -> {"none", "breakpoint", "step", "signal", "handled"}]
    BY DEF Resumed, ops_resume
<1>2. steps' \in 0 .. 2 /\ run' \in {"stopped", "running", "handling"}
    BY DEF Resumed, ops_resume
<1> QED
    BY <1>1, <1>2 DEF Resumed, ThreadsOK

\* The state of the threads keeps its type.
LEMMA ThreadsStep ==
    ASSUME IInv, ThreadsOK, SteppingNext
    PROVE  ThreadsOK'
<1>1. CASE \/ \E t \in Threads : hit(t) \/ deliver_sigstop(t) \/ cmdfunc_thread_select(t)
           \/ batch \/ stop \/ interrupt
           \/ \E l \in UserLocations, t \in UserThreads : cmdfunc_breakpoint_set(l, t)
           \/ \E id \in Ids : cmdfunc_breakpoint_delete(id)
    BY <1>1 DEF hit, deliver_sigstop, cmdfunc_thread_select, batch, stop, interrupt,
        cmdfunc_breakpoint_set, cmdfunc_breakpoint_delete, threadvars, history, ThreadsOK
<1>2. CASE auto_resume \/ cmdfunc_interrupt
    BY <1>2 DEF auto_resume, ops_resume, cmdfunc_interrupt, history, ThreadsOK
<1>3. ASSUME NEW t \in Threads, execute(t)
      PROVE  ThreadsOK'
    <2>1. steps' \in 0 .. 2
        BY <1>3 DEF execute, ThreadsOK
    <2>2. exc' \in [Threads -> {"none", "breakpoint", "step", "signal", "handled"}]
        BY <1>3 DEF execute, ThreadsOK
    <2>3. ss' \in [Threads -> {0, 1}] /\ stuck' \in [Threads -> Nat]
        BY <1>3 DEF execute, ThreadsOK
    <2> QED
        BY <1>3, <2>1, <2>2, <2>3 DEF execute, ThreadsOK
<1>4. ASSUME NEW t \in Threads, handle_soft_signal(t)
      PROVE  ThreadsOK'
    BY <1>4, HandledTypes DEF handle_soft_signal, ThreadsOK
<1>5. ASSUME NEW t \in Threads, handle_single_step(t)
      PROVE  ThreadsOK'
    <2>1. th' \in [Threads -> ThreadState]
        <3> DEFINE sw == IF th[t].just_hit_breakpoint = 1 THEN 0 ELSE th[t].just_hit_sw_breakpoint
                   r == [th[t] EXCEPT !.just_hit_breakpoint = 0, !.just_hit_sw_breakpoint = sw,
                                      !.is_stepping = 0, !.step_kind = STEP_NONE]
        <3>1. th \in [Threads -> ThreadState] /\ sw \in {0, 1}
            BY DEF ThreadsOK, ThreadState
        <3>2. th' = [th EXCEPT ![t] = r]
            BY <1>5, <3>1 DEF handle_single_step, StepDone, ThreadState
        <3> HIDE DEF sw
        <3>3. r \in ThreadState
            BY <3>1 DEF ThreadState
        <3> HIDE DEF r
        <3> QED
            BY <3>1, <3>2, <3>3
    <2>2. Handled(t, StepStops(t)) /\ ss' = ss /\ stuck' = stuck
        BY <1>5 DEF handle_single_step
    <2>3. ss' \in [Threads -> {0, 1}] /\ stuck' \in [Threads -> Nat]
        BY <2>2 DEF ThreadsOK
    <2> QED
        BY <2>1, <2>2, <2>3, HandledTypes
<1>6. ASSUME NEW t \in Threads, handle_hit_breakpoint(t)
      PROVE  ThreadsOK'
    <2> DEFINE h == find_bp_with_cond(bps, addr[t], "BP_COND_NORMAL")
    <2>1. PICK stepping, software, recorded, reported :
              /\ Handled(t, reported)
              /\ recorded => h # NULL
              /\ th' = [th EXCEPT ![t].just_hit_breakpoint = 1,
                                  ![t].set_temp_ss_breakpoint = IF stepping THEN 0 ELSE @,
                                  ![t].just_hit_sw_breakpoint = IF software THEN 1 ELSE @,
                                  ![t].last_hit_bkpt_ID = IF recorded THEN bps[h].id ELSE @]
              /\ ss' = [ss EXCEPT ![t] = 1]
              /\ stuck' = [stuck EXCEPT ![t] = IF reported /\ @ < 2 THEN @ + 1 ELSE @]
        BY <1>6, Zenon DEF handle_hit_breakpoint
    <2>2. h # NULL => bps[h].id \in Nat
        BY FindByCond DEF IInv, TypeOK, Breakpoint
    <2> HIDE DEF h
    <2>3. th' \in [Threads -> ThreadState]
        <3> DEFINE ts == IF stepping THEN 0 ELSE th[t].set_temp_ss_breakpoint
                   sw == IF software THEN 1 ELSE th[t].just_hit_sw_breakpoint
                   id == IF recorded THEN bps[h].id ELSE th[t].last_hit_bkpt_ID
                   r == [th[t] EXCEPT !.just_hit_breakpoint = 1, !.set_temp_ss_breakpoint = ts,
                                      !.just_hit_sw_breakpoint = sw, !.last_hit_bkpt_ID = id]
        <3>1. th \in [Threads -> ThreadState] /\ ts \in {0, 1} /\ sw \in {0, 1} /\ id \in Nat
            BY <2>1, <2>2 DEF ThreadsOK, ThreadState
        <3>2. th' = [th EXCEPT ![t] = r]
            BY <2>1, <3>1 DEF ThreadState
        <3> HIDE DEF ts, sw, id
        <3>3. r \in ThreadState
            BY <3>1 DEF ThreadState
        <3> HIDE DEF r
        <3> QED
            BY <3>1, <3>2, <3>3
    <2>4. ss' \in [Threads -> {0, 1}] /\ stuck' \in [Threads -> Nat]
        BY <2>1 DEF ThreadsOK
    <2> QED
        BY <2>1, <2>3, <2>4, HandledTypes
<1>7. CASE cmdfunc_continue
    BY <1>7, ResumedTypes DEF cmdfunc_continue, ThreadsOK
<1>8. ASSUME NEW kind \in {INST_STEP_INTO, INST_STEP_OVER}, SingleStep(kind)
      PROVE  ss' \in [Threads -> {0, 1}] /\ th' \in [Threads -> ThreadState]
    BY <1>8, ZenonT(60) DEF SingleStep, ThreadsOK, ThreadState
<1>9. CASE cmdfunc_step_inst_into
    BY <1>8, <1>9, ResumedTypes DEF cmdfunc_step_inst_into
<1>10. CASE cmdfunc_step_inst_over
    <2>1. ss' \in [Threads -> {0, 1}] /\ th' \in [Threads -> ThreadState]
        <3>1. CASE StepOverCall
            BY <3>1, ZenonT(60) DEF StepOverCall, ThreadsOK, ThreadState
        <3> QED
            BY <1>8, <1>10, <3>1 DEF cmdfunc_step_inst_over
    <2> QED
        BY <1>10, <2>1, ResumedTypes DEF cmdfunc_step_inst_over
<1> QED
    BY <1>1, <1>2, <1>3, <1>4, <1>5, <1>6, <1>7, <1>9, <1>10 DEF SteppingNext, Server, User

\* Where the single step bit may change, who has asked for a step is known.
LEMMA ExpectedStep ==
    ASSUME ThreadsOK, AnsweredInOrder, StepIsExpected, SteppingNext
    PROVE  AnsweredInOrder' /\ StepIsExpected'
<1> USE DEF AnsweredInOrder, StepIsExpected
<1>1. CASE \/ \E t \in Threads : hit(t) \/ deliver_sigstop(t)
           \/ interrupt \/ batch
    BY <1>1 DEF hit, deliver_sigstop, interrupt, batch, threadvars, ThreadsOK
<1>2. CASE \/ \E t \in Threads : cmdfunc_thread_select(t)
           \/ \E l \in UserLocations, t \in UserThreads : cmdfunc_breakpoint_set(l, t)
           \/ \E id \in Ids : cmdfunc_breakpoint_delete(id)
    BY <1>2 DEF cmdfunc_thread_select, cmdfunc_breakpoint_set, cmdfunc_breakpoint_delete, threadvars
<1>3. CASE stop
    BY <1>3 DEF stop, AllHandled, threadvars
<1>4. CASE auto_resume
    BY <1>4 DEF auto_resume, ops_resume
<1>5. CASE cmdfunc_interrupt
    BY <1>5 DEF cmdfunc_interrupt, ThreadsOK
<1>6. ASSUME NEW t \in Threads, execute(t)
      PROVE  AnsweredInOrder' /\ StepIsExpected'
    BY <1>6 DEF execute, ThreadsOK
<1>7. ASSUME NEW t \in Threads, NEW P, Handled(t, P), run = "handling"
      PROVE  /\ run' # "stopped" /\ exc'[t] = "handled"
             /\ \A u \in Threads \ {t} : exc'[u] = exc[u]
    BY <1>7 DEF Handled, ThreadsOK
<1>8. ASSUME NEW t \in Threads, handle_soft_signal(t)
      PROVE  AnsweredInOrder' /\ StepIsExpected'
    <2>1. /\ run' # "stopped" /\ exc'[t] = "handled"
          /\ \A u \in Threads \ {t} : exc'[u] = exc[u]
        BY <1>7, <1>8 DEF handle_soft_signal, Due
    <2>2. ss' = ss /\ th' = th
        BY <1>8 DEF handle_soft_signal
    <2> QED
        BY <2>1, <2>2
<1>9. ASSUME NEW t \in Threads, handle_single_step(t)
      PROVE  AnsweredInOrder' /\ StepIsExpected'
    <2>1. /\ run' # "stopped" /\ exc'[t] = "handled"
          /\ \A u \in Threads \ {t} : exc'[u] = exc[u]
        BY <1>7, <1>9 DEF handle_single_step, Due
    <2>2. ss' = ss /\ ss[t] = 0
        BY <1>9 DEF handle_single_step, Due
    <2>3. \A u \in Threads \ {t} : th'[u] = th[u]
        BY <1>9 DEF handle_single_step, StepDone, ThreadsOK
    <2> QED
        BY <2>1, <2>2, <2>3
<1>10. ASSUME NEW t \in Threads, handle_hit_breakpoint(t)
       PROVE  AnsweredInOrder' /\ StepIsExpected'
    <2>1. /\ run' # "stopped" /\ exc'[t] = "handled"
          /\ \A u \in Threads \ {t} : exc'[u] = exc[u]
        BY <1>7, <1>10 DEF handle_hit_breakpoint, Due
    <2>2. ss' = [ss EXCEPT ![t] = 1]
        BY <1>10 DEF handle_hit_breakpoint
    <2>3. th'[t].just_hit_breakpoint = 1 /\ \A u \in Threads \ {t} : th'[u] = th[u]
        <3>1. PICK x, y, z : th' = [th EXCEPT ![t].just_hit_breakpoint = 1,
                                              ![t].set_temp_ss_breakpoint = x,
                                              ![t].just_hit_sw_breakpoint = y,
                                              ![t].last_hit_bkpt_ID = z]
            BY <1>10 DEF handle_hit_breakpoint
        <3> QED
            BY <3>1 DEF ThreadsOK, ThreadState
    <2> QED
        BY <2>1, <2>2, <2>3 DEF ThreadsOK
<1>11. ASSUME NEW c, NEW l, Resumed(c, l)
       PROVE  AnsweredInOrder' /\ \A u \in Threads : exc'[u] = "none"
    BY <1>11 DEF Resumed, ops_resume
<1>12. CASE cmdfunc_continue
    BY <1>11, <1>12 DEF cmdfunc_continue
<1>13. ASSUME NEW kind, SingleStep(kind)
       PROVE  \A u \in Threads : ss'[u] = 1 => \/ th'[u].just_hit_breakpoint = 1
                                               \/ th'[u].is_stepping = 1
    <2>1. ss' = [ss EXCEPT ![focused] = 1]
        BY <1>13 DEF SingleStep
    <2>2. /\ th'[focused].is_stepping = 1
          /\ \A u \in Threads \ {focused} : th'[u] = th[u]
        BY <1>13 DEF SingleStep, ThreadsOK, ThreadState
    <2> QED
        BY <2>1, <2>2 DEF ThreadsOK
<1>14. ASSUME StepOverCall
       PROVE  \A u \in Threads : ss'[u] = 1 => \/ th'[u].just_hit_breakpoint = 1
                                               \/ th'[u].is_stepping = 1
    <2>1. ss' = ss
        BY <1>14 DEF StepOverCall
    <2>2. \A u \in Threads : /\ th'[u].is_stepping = th[u].is_stepping
                             /\ th'[u].just_hit_breakpoint = th[u].just_hit_breakpoint
        BY <1>14 DEF StepOverCall, ThreadsOK, ThreadState
    <2> QED
        BY <2>1, <2>2
<1>15. CASE cmdfunc_step_inst_into
    BY <1>11, <1>13, <1>15 DEF cmdfunc_step_inst_into
<1>16. CASE cmdfunc_step_inst_over
    BY <1>11, <1>13, <1>14, <1>16 DEF cmdfunc_step_inst_over
<1> QED
    BY <1>1, <1>2, <1>3, <1>4, <1>5, <1>6, <1>8, <1>9, <1>10, <1>12, <1>15, <1>16
    DEF SteppingNext, Server, User

\* The debugger attaches to a stopped debuggee and has set nothing.
LEMMA SteppingInvInit == SteppingInit => SteppingInv
<1> SUFFICES ASSUME SteppingInit PROVE SteppingInv
    OBVIOUS
<1>1. IInv
    BY IInvInit DEF SteppingInit
<1>2. MachineOK
    BY EntryAssumption DEF SteppingInit, MachineOK
<1>3. NewThread \in ThreadState
    BY DEF NewThread, ThreadState
<1>4. ThreadsOK
    BY <1>3 DEF SteppingInit, ThreadsOK
<1>5. AnsweredInOrder /\ StepIsExpected
    BY DEF SteppingInit, AnsweredInOrder, StepIsExpected
<1> QED
    BY <1>1, <1>2, <1>4, <1>5 DEF SteppingInv

\* The invariant is inductive.
LEMMA SteppingInvStep ==
    ASSUME SteppingInv, [SteppingNext]_allvars
    PROVE  SteppingInv'
<1> USE DEF SteppingInv
<1>1. CASE SteppingNext
    <2>1. IInv'
        BY <1>1, TablesStep DEF ThreadsOK
    <2> QED
        BY <1>1, <2>1, MachineStep, ThreadsStep, ExpectedStep
<1>2. CASE UNCHANGED allvars
    <2>1. IInv'
        BY <1>2, IInvStep DEF allvars
    <2>2. MachineOK' /\ ThreadsOK' /\ AnsweredInOrder'
        BY <1>2 DEF allvars, threadvars, history, MachineOK, ThreadsOK, AnsweredInOrder
    <2>3. StepIsExpected'
        BY <1>2 DEF allvars, threadvars, StepIsExpected
    <2> QED
        BY <2>1, <2>2, <2>3
<1> QED
    BY <1>1, <1>2

\* The inductive invariant holds in every reachable state.
THEOREM SteppingInductive == SteppingSpec => []SteppingInv
<1>1. SteppingInv /\ [SteppingNext]_allvars => SteppingInv'
    BY SteppingInvStep
<1> QED
    BY SteppingInvInit, <1>1, PTL DEF SteppingSpec

\* Handlers that change several breakpoints in one go, in any order the
\* debuggee's threads, the server and the user make them run, keep the code,
\* the registers and the table in agreement.
THEOREM HandlersAreSound == SteppingSpec => []HandlersKeepTables
<1>1. SteppingInv => HandlersKeepTables
    BY DEF SteppingInv, HandlersKeepTables, SteppingTypeOK, MachineOK, ThreadsOK, ThreadState, IInv
<1> QED
    BY <1>1, SteppingInductive, PTL

\* No thread ends a single step that nobody asked for.
THEOREM StepsAreExpected == SteppingSpec => []StepIsExpected
BY SteppingInductive, PTL DEF SteppingInv

----------------------------------------------------------------------------
(* Breakpoints come back, as long as nothing but a single step has         *)
(* switched them off: a call that is stepped over switches them off        *)
(* without a single step, and the interrupt command calls one off.         *)

AllEnabled(b) == \A k \in Matching(b, "BP_COND_NORMAL") : b[k].disabled = BP_ENABLED

\* While a normal breakpoint is disabled, a single step is under way or has
\* trapped and is still to be handled: handle_single_step enables it again.
StepPending == AllEnabled(bps) \/ \E t \in Threads : ss[t] = 1 \/ exc[t] = "step"

OnlySingleSteps == Commands \cap {"interrupt", "step_inst_over"} = {}

\* Enabling breakpoints disables none, and enabling the normal ones leaves
\* none of them disabled.
LEMMA EnablingEnables ==
    ASSUME NEW b, NEW n, Table(b, n), NEW S,
           AllEnabled(b) \/ Matching(b, "BP_COND_NORMAL") \subseteq S
    PROVE  AllEnabled(TableAfter(b, S, BP_ENABLED))
<1> DEFINE b2 == TableAfter(b, S, BP_ENABLED)
<1>1. /\ DOMAIN b2 = DOMAIN b
      /\ \A k \in DOMAIN b : /\ b2[k].temporary = b[k].temporary
                             /\ b2[k].for_stepping = b[k].for_stepping
                             /\ b2[k].disabled = IF k \in S THEN BP_ENABLED ELSE b[k].disabled
    BY DEF TableAfter, Table, Breakpoint
<1> HIDE DEF b2
<1>2. Matching(b2, "BP_COND_NORMAL") = Matching(b, "BP_COND_NORMAL")
    BY <1>1 DEF Matching
<1>3. Matching(b, "BP_COND_NORMAL") \subseteq DOMAIN b
    BY DEF Matching
<1>4. AllEnabled(b2)
    BY <1>1, <1>2, <1>3 DEF AllEnabled
<1> QED
    BY <1>4 DEF b2

\* Neither a deletion nor a new breakpoint disables one.
LEMMA DeletingDisablesNone ==
    ASSUME NEW b, NEW S, AllEnabled(b)
    PROVE  AllEnabled(Unlink(b, S))
BY DEF AllEnabled, Unlink, Matching

\* A new breakpoint is enabled.
LEMMA CreatingDisablesNone ==
    ASSUME AllEnabled(bps), NEW bp, bp.disabled = BP_ENABLED
    PROVE  AllEnabled(Append(bps, bp))
BY DEF AllEnabled, Append, Matching

\* Every step keeps it.
LEMMA StepPendingStep ==
    ASSUME OnlySingleSteps, SteppingInv, StepPending, [SteppingNext]_allvars
    PROVE  StepPending'
<1> USE DEF StepPending
<1>1. ThreadsOK /\ Table(bps, allocs) /\ IInv
    BY InvariantIsSoundness DEF SteppingInv, Sound
<1>2. CASE \/ UNCHANGED allvars
           \/ \E t \in Threads : hit(t) \/ deliver_sigstop(t) \/ cmdfunc_thread_select(t)
           \/ interrupt \/ batch \/ stop
    BY <1>1, <1>2 DEF hit, deliver_sigstop, cmdfunc_thread_select, interrupt, batch, stop,
        allvars, vars, threadvars, ThreadsOK
<1>3. ASSUME NEW t \in Threads, execute(t)
      PROVE  StepPending'
    <2>1. bps' = bps
        BY <1>3 DEF execute, vars
    <2>2. CASE AllEnabled(bps)
        BY <2>1, <2>2
    <2>3. CASE \E u \in Threads : ss[u] = 1 \/ exc[u] = "step"
        BY <1>1, <1>3, <2>3 DEF execute, ThreadsOK
    <2> QED
        BY <2>2, <2>3
<1>4. ASSUME NEW t \in Threads, handle_soft_signal(t)
      PROVE  StepPending'
    BY <1>1, <1>4 DEF handle_soft_signal, Due, Handled, vars, ThreadsOK
<1>5. ASSUME NEW t \in Threads, handle_single_step(t)
      PROVE  StepPending'
    <2> DEFINE N == Matching(bps, "BP_COND_NORMAL")
               enabled == WithState(Tables, N, BP_ENABLED)
               b1 == TableAfter(bps, N, BP_ENABLED)
               again == WithId(enabled, th[t].last_hit_bkpt_ID, BP_ENABLED)
    <2>1. Tables = [b |-> bps, m |-> mem, g |-> regs, n |-> num_breakpoints]
        BY DEF Tables
    <2>2. N \in SUBSET DOMAIN Tables.b /\ BP_ENABLED \in {BP_ENABLED, BP_DISABLED}
        BY <2>1 DEF Matching
    <2>3. SoundTables(enabled, allocs)
        BY <1>1, <2>2, TablesSound, WithStateSound
    <2>4. enabled.b = b1
        BY <2>1 DEF WithState
    <2>5. AllEnabled(b1)
        BY <1>1, EnablingEnables
    <2>6. bps' = b1 \/ \E S : bps' = TableAfter(b1, S, BP_ENABLED)
        <3>1. bps' = enabled.b \/ bps' = again.b
            BY <1>5 DEF handle_single_step, Become
        <3>2. \E S : again = WithState(enabled, S, BP_ENABLED)
            BY DEF WithId
        <3> HIDE DEF enabled, b1, again
        <3>3. \A S : WithState(enabled, S, BP_ENABLED).b = TableAfter(b1, S, BP_ENABLED)
            BY <2>3, <2>4 DEF WithState, SoundTables
        <3> QED
            BY <2>4, <3>1, <3>2, <3>3
    <2>7. Table(b1, allocs)
        BY <2>3, <2>4 DEF SoundTables, Sound
    <2> HIDE DEF b1
    <2> QED
        BY <2>5, <2>6, <2>7, EnablingEnables
<1>6. ASSUME NEW t \in Threads, handle_hit_breakpoint(t)
      PROVE  StepPending'
    <2>1. ss' = [ss EXCEPT ![t] = 1]
        BY <1>6 DEF handle_hit_breakpoint
    <2> QED
        BY <1>1, <2>1 DEF ThreadsOK
<1>7. CASE auto_resume
    BY <1>1, <1>7 DEF auto_resume, AllHandled, vars
<1>8. CASE cmdfunc_continue
    <2>1. bps' = Unlink(bps, Matching(bps, "BP_COND_STEPPING")) /\ ss' = ss
        BY <1>8 DEF cmdfunc_continue, breakpoint_delete_all_specific, Delete
    <2>2. \A t \in Threads : exc[t] # "step"
        BY <1>8 DEF cmdfunc_continue, Types, SteppingInv, AnsweredInOrder
    <2> QED
        BY <2>1, <2>2, DeletingDisablesNone
<1>9. CASE cmdfunc_step_inst_into
    <2>1. ss' = [ss EXCEPT ![focused] = 1] /\ focused \in Threads
        BY <1>1, <1>9 DEF cmdfunc_step_inst_into, SingleStep, ThreadsOK
    <2> QED
        BY <1>1, <2>1 DEF ThreadsOK
<1>10. CASE cmdfunc_step_inst_over \/ cmdfunc_interrupt
    BY <1>10 DEF OnlySingleSteps, cmdfunc_step_inst_over, cmdfunc_interrupt, Types
<1>11. ASSUME NEW l \in UserLocations, NEW t \in UserThreads, cmdfunc_breakpoint_set(l, t)
       PROVE  StepPending'
    <2> DEFINE bp == breakpoint_new(bps, mem, l, FALSE, FALSE, t)
    <2>1. bps' = Append(bps, bp) /\ ss' = ss /\ exc' = exc
        BY <1>11 DEF cmdfunc_breakpoint_set, breakpoint_at_address, Create, threadvars
    <2>2. bp.disabled = BP_ENABLED
        BY DEF breakpoint_new
    <2> HIDE DEF bp
    <2> QED
        BY <2>1, <2>2, CreatingDisablesNone
<1>12. ASSUME NEW id \in Ids, cmdfunc_breakpoint_delete(id)
       PROVE  StepPending'
    <2>1. bps' = Unlink(bps, {find_bp_with_id(bps, id)}) /\ ss' = ss /\ exc' = exc
        BY <1>12 DEF cmdfunc_breakpoint_delete, breakpoint_delete, Delete, threadvars
    <2> QED
        BY <2>1, DeletingDisablesNone
<1> QED
    BY <1>2, <1>3, <1>4, <1>5, <1>6, <1>7, <1>8, <1>9, <1>10, <1>11, <1>12
    DEF SteppingNext, Server, User

\* Breakpoints that single steps and hits have switched off come back, for
\* any number of threads that step and hit at the same time.
THEOREM BreakpointsComeBack ==
    ASSUME OnlySingleSteps
    PROVE  SteppingSpec => []ArmedWhenFree
<1>1. SteppingInit => StepPending
    BY DEF SteppingInit, Init, StepPending, AllEnabled, Matching
<1>2. SteppingInv /\ StepPending /\ [SteppingNext]_allvars => StepPending'
    BY StepPendingStep
<1>3. StepPending => ArmedWhenFree
    BY DEF StepPending, ArmedWhenFree, AllEnabled
<1> QED
    BY <1>1, <1>2, <1>3, SteppingInductive, PTL DEF SteppingSpec

----------------------------------------------------------------------------
(* A breakpoint that has a register is got past.                           *)

\* The debuggee has no BRK of its own, there is a register for every
\* breakpoint, and the interrupt command, which turns single steps off, is
\* not used.
Undisturbed ==
    /\ \A l \in Locations : Code[l] # BRK
    /\ MaxAllocs <= NumHW
    /\ "interrupt" \notin Commands

OnlyHardware(b) == \A k \in DOMAIN b : b[k].hw

AllHardware == allocs <= MaxAllocs /\ OnlyHardware(bps)

\* A thread reported at a breakpoint is about to single step past it.
GetsPast ==
    \A t \in Threads : /\ stuck[t] <= 1
                       /\ stuck[t] = 1 => ss[t] = 1 /\ exc[t] # "breakpoint"

\* While fewer breakpoints were made than there are registers, one is free.
LEMMA RegisterLeft ==
    ASSUME NEW b, NEW n, Table(b, n), n < NumHW
    PROVE  find_ready_bp_reg(b) # -1
<1> DEFINE f == [r \in Regs |-> CHOOSE k \in DOMAIN b : b[k].hw_bp_reg = r]
<1>1. NumHW \in Nat /\ n \in Nat
    BY RegAssumption DEF Table
<1>2. Cardinality(Regs) = NumHW /\ IsFiniteSet(Regs) /\ Regs \in SUBSET Int
    <2>1. 0 \in Int /\ NumHW - 1 \in Int
        BY <1>1
    <2>2. /\ IsFiniteSet(0 .. NumHW - 1)
          /\ Cardinality(0 .. NumHW - 1) = IF 0 > NumHW - 1 THEN 0 ELSE NumHW - 1 - 0 + 1
        BY ONLY <2>1, FS_Interval
    <2> QED
        BY <1>1, <2>2 DEF Regs
<1>3. Cardinality(1 .. n) = n /\ IsFiniteSet(1 .. n)
    <2>1. 1 \in Int /\ n \in Int
        BY <1>1
    <2>2. /\ IsFiniteSet(1 .. n)
          /\ Cardinality(1 .. n) = IF 1 > n THEN 0 ELSE n - 1 + 1
        BY ONLY <2>1, FS_Interval
    <2> QED
        BY <1>1, <2>2
<1>4. ASSUME Regs \subseteq UsedRegs(b)
      PROVE  FALSE
    <2>1. \A r \in Regs : \E k \in DOMAIN b : b[k].hw_bp_reg = r
        BY <1>4 DEF UsedRegs
    <2>2. \A r \in Regs : f[r] \in DOMAIN b /\ b[f[r]].hw_bp_reg = r
        BY <2>1
    <2> HIDE DEF f
    <2>3. f \in Injection(Regs, 1 .. n)
        <3>1. f \in [Regs -> 1 .. n]
            BY <2>2 DEF f, Table
        <3> QED
            BY <2>2, <3>1 DEF Injection, IsInjective
    <2>4. Cardinality(Regs) <= Cardinality(1 .. n)
        BY <1>3, <2>3, FS_Injection
    <2> QED
        BY <1>1, <1>2, <1>3, <2>4
<1>5. Regs \ UsedRegs(b) # {}
    BY <1>4
<1>6. Min(Regs \ UsedRegs(b)) \in Regs
    <2>1. Regs \ UsedRegs(b) \in SUBSET Int /\ IsFiniteSet(Regs \ UsedRegs(b))
        BY <1>2, FS_Subset
    <2> QED
        BY <1>5, <2>1, MinIsMember
<1>7. -1 \notin Regs
    BY DEF Regs
<1> QED
    BY <1>5, <1>6, <1>7 DEF find_ready_bp_reg

\* Enabling, disabling and deleting breakpoints makes no software breakpoint.
LEMMA HardwareStays ==
    ASSUME NEW b, NEW n, Table(b, n), OnlyHardware(b), NEW S, NEW d
    PROVE  OnlyHardware(TableAfter(b, S, d)) /\ OnlyHardware(Unlink(b, S))
BY DEF OnlyHardware, TableAfter, Unlink, Table, Breakpoint

\* A new breakpoint takes a register when one is left.
LEMMA HardwareNew ==
    ASSUME NEW b, Table(b, allocs), OnlyHardware(b), allocs < NumHW,
           NEW m, NEW l, NEW x, NEW y, NEW t
    PROVE  OnlyHardware(Append(b, breakpoint_new(b, m, l, x, y, t)))
<1> DEFINE bp == breakpoint_new(b, m, l, x, y, t)
<1>1. bp.hw
    <2>1. bp.hw = (find_ready_bp_reg(b) # -1)
        BY DEF breakpoint_new
    <2> QED
        BY <2>1, RegisterLeft
<1> HIDE DEF bp
<1>2. OnlyHardware(Append(b, bp))
    BY <1>1 DEF OnlyHardware, Append
<1> QED
    BY <1>2 DEF bp

\* Every breakpoint of the table keeps its register, whatever is done.
LEMMA AllHardwareStep ==
    ASSUME Undisturbed, SteppingInv, AllHardware, [SteppingNext]_allvars
    PROVE  AllHardware'
<1> USE DEF AllHardware
<1>1. IInv /\ Table(bps, allocs) /\ MaxAllocs <= NumHW /\ allocs \in Nat
    BY InvariantIsSoundness DEF SteppingInv, Sound, Undisturbed, Table
<1>2. CASE \/ UNCHANGED allvars
           \/ \E t \in Threads : \/ hit(t) \/ execute(t) \/ deliver_sigstop(t)
                                 \/ handle_soft_signal(t) \/ cmdfunc_thread_select(t)
           \/ batch \/ auto_resume \/ stop \/ cmdfunc_interrupt \/ interrupt
    BY <1>2 DEF hit, execute, deliver_sigstop, handle_soft_signal, batch, auto_resume, stop,
        cmdfunc_thread_select, cmdfunc_interrupt, interrupt, allvars, vars
<1>3. Tables = [b |-> bps, m |-> mem, g |-> regs, n |-> num_breakpoints]
    BY DEF Tables
<1>4. ASSUME NEW s, SoundTables(s, allocs), OnlyHardware(s.b), NEW id,
             NEW d \in {BP_ENABLED, BP_DISABLED}
      PROVE  OnlyHardware(WithId(s, id, d).b)
    <2>1. PICK S : WithId(s, id, d) = WithState(s, S, d)
        BY DEF WithId
    <2>2. WithState(s, S, d).b = TableAfter(s.b, S, d)
        BY <1>4 DEF WithState, SoundTables
    <2> QED
        BY <1>4, <2>1, <2>2, HardwareStays DEF SoundTables, Sound
<1>5. ASSUME NEW t \in Threads, handle_single_step(t)
      PROVE  AllHardware'
    <2> DEFINE N == Matching(bps, "BP_COND_NORMAL")
               enabled == WithState(Tables, N, BP_ENABLED)
               again == WithId(enabled, th[t].last_hit_bkpt_ID, BP_ENABLED)
    <2>1. N \in SUBSET DOMAIN Tables.b /\ BP_ENABLED \in {BP_ENABLED, BP_DISABLED}
        BY <1>3 DEF Matching
    <2>2. SoundTables(enabled, allocs)
        BY <1>1, <2>1, TablesSound, WithStateSound
    <2>3. enabled.b = TableAfter(bps, N, BP_ENABLED)
        BY <1>3 DEF WithState
    <2>4. (bps' = enabled.b \/ bps' = again.b) /\ allocs' = allocs
        BY <1>5 DEF handle_single_step, Become
    <2> HIDE DEF enabled
    <2> QED
        BY <1>1, <1>4, <2>1, <2>2, <2>3, <2>4, HardwareStays
<1>6. ASSUME NEW t \in Threads, handle_hit_breakpoint(t)
      PROVE  AllHardware'
    <2> DEFINE step == find_bp_with_cond(bps, addr[t], "BP_COND_STEPPING")
               stepped == Without(Tables, {step} \ {NULL})
    <2>1. {step} \ {NULL} \in SUBSET DOMAIN Tables.b
        BY <1>1, <1>3, FindByCond DEF IInv, Live
    <2>2. SoundTables(stepped, allocs)
        <3> HIDE DEF step
        <3> QED
            BY <1>1, <2>1, TablesSound, WithoutSound
    <2>3. stepped.b = Unlink(bps, {step} \ {NULL})
        BY <1>3 DEF Without
    <2>4. PICK id : (bps' = stepped.b \/ bps' = WithId(stepped, id, BP_DISABLED).b) /\ allocs' = allocs
        BY <1>6 DEF handle_hit_breakpoint, Become
    <2> HIDE DEF stepped
    <2> QED
        BY <1>1, <1>4, <2>2, <2>3, <2>4, HardwareStays
<1>7. CASE cmdfunc_continue
    BY <1>1, <1>7, HardwareStays DEF cmdfunc_continue, breakpoint_delete_all_specific, Delete
<1>8. /\ Quiet.b = TableAfter(bps, Live \ Matching(bps, "BP_COND_STEPPING"), BP_DISABLED)
      /\ OnlyHardware(Quiet.b) /\ Table(Quiet.b, allocs)
    <2>1. Quiet.b = TableAfter(bps, Live \ Matching(bps, "BP_COND_STEPPING"), BP_DISABLED)
        BY <1>3 DEF Quiet, WithState
    <2> QED
        BY <1>1, <2>1, QuietSound, HardwareStays DEF SoundTables, Sound
<1>9. CASE \E kind : SingleStep(kind)
    BY <1>8, <1>9 DEF SingleStep, Become
<1>10. CASE StepOverCall
    <2>1. \/ bps' = Quiet.b /\ allocs' = allocs
          \/ /\ allocs < MaxAllocs /\ allocs' = allocs + 1
             /\ bps' = With(Quiet, breakpoint_new(Quiet.b, Quiet.m, addr[focused] + 1,
                                                  TRUE, TRUE, focused)).b
        BY <1>10 DEF StepOverCall, Become
    <2>2. \A bp : With(Quiet, bp).b = Append(Quiet.b, bp)
        BY DEF With
    <2>3. allocs < MaxAllocs => allocs < NumHW /\ allocs + 1 <= MaxAllocs
        BY <1>1, RegAssumption, AllocAssumption
    <2>4. allocs < MaxAllocs =>
            OnlyHardware(Append(Quiet.b, breakpoint_new(Quiet.b, Quiet.m, addr[focused] + 1,
                                                        TRUE, TRUE, focused)))
        BY <1>8, <2>3, HardwareNew
    <2> QED
        BY <1>8, <2>1, <2>2, <2>3, <2>4
<1>11. CASE cmdfunc_step_inst_into \/ cmdfunc_step_inst_over
    BY <1>9, <1>10, <1>11 DEF cmdfunc_step_inst_into, cmdfunc_step_inst_over
<1>12. ASSUME NEW l \in UserLocations, NEW t \in UserThreads, cmdfunc_breakpoint_set(l, t)
       PROVE  AllHardware'
    <2>1. /\ bps' = Append(bps, breakpoint_new(bps, mem, l, FALSE, FALSE, t))
          /\ allocs < MaxAllocs /\ allocs' = allocs + 1
        BY <1>12 DEF cmdfunc_breakpoint_set, breakpoint_at_address, Create
    <2>2. allocs < NumHW /\ allocs + 1 <= MaxAllocs
        BY <1>1, <2>1, RegAssumption, AllocAssumption
    <2>3. OnlyHardware(Append(bps, breakpoint_new(bps, mem, l, FALSE, FALSE, t)))
        BY <1>1, <2>2, HardwareNew
    <2> QED
        BY <2>1, <2>2, <2>3
<1>13. ASSUME NEW id \in Ids, cmdfunc_breakpoint_delete(id)
       PROVE  AllHardware'
    BY <1>1, <1>13, HardwareStays DEF cmdfunc_breakpoint_delete, breakpoint_delete, Delete
<1> QED
    BY <1>2, <1>5, <1>6, <1>7, <1>11, <1>12, <1>13 DEF SteppingNext, Server, User

\* With hardware breakpoints only, a thread that is single stepping does not
\* trap before its instruction.
LEMMA GetsPastStep ==
    ASSUME Undisturbed, SteppingInv, AllHardware, GetsPast, [SteppingNext]_allvars
    PROVE  GetsPast'
<1> USE DEF GetsPast
<1>1. ThreadsOK
    BY DEF SteppingInv
<1>2. \A l \in Locations : mem[l] # BRK
    BY DEF Undisturbed, SteppingInv, IInv, CodeIntact, AllHardware, OnlyHardware, Live
<1>3. ASSUME NEW t \in Threads, hit(t)
      PROVE  GetsPast'
    <2>1. ss[t] = 0
        BY <1>2, <1>3 DEF hit, Traps, SteppingInv, MachineOK
    <2> QED
        BY <1>1, <1>3, <2>1 DEF hit, history, ThreadsOK
<1>4. ASSUME NEW t \in Threads, execute(t)
      PROVE  GetsPast'
    BY <1>1, <1>4 DEF execute, ThreadsOK
<1>5. CASE \/ UNCHANGED allvars
           \/ \E t \in Threads : deliver_sigstop(t) \/ cmdfunc_thread_select(t)
           \/ batch \/ stop \/ interrupt
           \/ \E l \in UserLocations, t \in UserThreads : cmdfunc_breakpoint_set(l, t)
           \/ \E id \in Ids : cmdfunc_breakpoint_delete(id)
    BY <1>1, <1>5 DEF deliver_sigstop, cmdfunc_thread_select, batch, stop, interrupt,
        cmdfunc_breakpoint_set, cmdfunc_breakpoint_delete, allvars, threadvars, history, ThreadsOK
<1>6. CASE cmdfunc_interrupt
    BY <1>6 DEF cmdfunc_interrupt, Undisturbed
<1>7. CASE auto_resume
    BY <1>1, <1>7 DEF auto_resume, ops_resume, history, ThreadsOK
<1>8. CASE \E t \in Threads : handle_soft_signal(t) \/ handle_single_step(t)
    BY <1>1, <1>8 DEF handle_soft_signal, handle_single_step, Handled, ThreadsOK
<1>9. ASSUME NEW t \in Threads, handle_hit_breakpoint(t)
      PROVE  GetsPast'
    <2>1. exc[t] = "breakpoint" /\ stuck[t] = 0
        <3>1. exc[t] = "breakpoint"
            BY <1>9 DEF handle_hit_breakpoint, Due
        <3>2. stuck[t] \in Nat /\ stuck[t] <= 1 /\ stuck[t] # 1
            BY <1>1, <3>1 DEF ThreadsOK
        <3> QED
            BY <3>1, <3>2
    <2>2. PICK P : /\ ss' = [ss EXCEPT ![t] = 1]
                   /\ stuck' = [stuck EXCEPT ![t] = IF P /\ @ < 2 THEN @ + 1 ELSE @]
                   /\ exc' = [exc EXCEPT ![t] = "handled"]
        BY <1>9, Zenon DEF handle_hit_breakpoint, Handled
    <2> QED
        BY <1>1, <2>1, <2>2 DEF ThreadsOK
<1>10. ASSUME NEW c, NEW l, Resumed(c, l)
       PROVE  stuck' = stuck /\ \A t \in Threads : exc'[t] = "none"
    BY <1>10 DEF Resumed, ops_resume
<1>11. CASE cmdfunc_continue
    BY <1>10, <1>11 DEF cmdfunc_continue
<1>12. CASE cmdfunc_step_inst_into \/ cmdfunc_step_inst_over
    <2>1. ss' = ss \/ ss' = [ss EXCEPT ![focused] = 1]
        BY <1>12 DEF cmdfunc_step_inst_into, cmdfunc_step_inst_over, SingleStep, StepOverCall
    <2>2. stuck' = stuck /\ \A t \in Threads : exc'[t] = "none"
        BY <1>10, <1>12 DEF cmdfunc_step_inst_into, cmdfunc_step_inst_over
    <2> QED
        BY <1>1, <2>1, <2>2 DEF ThreadsOK
<1> QED
    BY <1>3, <1>4, <1>5, <1>6, <1>7, <1>8, <1>9, <1>11, <1>12 DEF SteppingNext, Server, User

\* With a register for every breakpoint, no thread is reported at one
\* breakpoint twice in a row, for any number of threads, whatever is set,
\* deleted, stepped into or over, selected and stopped with Ctrl+C.
THEOREM HardwareHitsOnce ==
    ASSUME Undisturbed
    PROVE  SteppingSpec => []NoRepeatedStop
<1>1. SteppingInit => AllHardware /\ GetsPast
    <2> SUFFICES ASSUME SteppingInit PROVE AllHardware /\ GetsPast
        OBVIOUS
    <2>1. DOMAIN bps = {} /\ allocs = 0
        BY DEF SteppingInit, Init
    <2> QED
        BY <2>1, AllocAssumption DEF SteppingInit, AllHardware, OnlyHardware, GetsPast
<1>2. SteppingInv /\ AllHardware /\ GetsPast /\ [SteppingNext]_allvars
        => AllHardware' /\ GetsPast'
    BY AllHardwareStep, GetsPastStep
<1>3. GetsPast => NoRepeatedStop
    BY DEF GetsPast, NoRepeatedStop
<1> QED
    BY <1>1, <1>2, <1>3, SteppingInductive, PTL DEF SteppingSpec

----------------------------------------------------------------------------
(* A step command executes what was asked for and no more.                 *)

\* The interrupt command, which turns single steps off, is not used, and no
\* breakpoint is for one thread only: another thread that hits such a BRK is
\* not reported, and the stepping breakpoint at that address is lost.
StepsUndisturbed == "interrupt" \notin Commands /\ UserThreads \subseteq {BP_ALL_THREADS}

\* What the user has to see to: step inst-over is not typed for a thread that
\* stopped inside a call it was stepping over.  set_temp_ss_breakpoint is then
\* still set, and handle_single_step and the command rely on it.
FromRest == cmdfunc_step_inst_over => th[focused].set_temp_ss_breakpoint = 0

StepsFromRest == [][FromRest]_allvars

\* The debuggee runs under the last command, or is about to go on under it.
Underway == run = "running" \/ (run = "handling" /\ verdict = 1)

\* A single step under way has executed nothing, and its bit is set, or it has
\* trapped; handle_single_step will stop for it.
SingleInv ==
    resumed_by.cmd \in {"step_inst_into", "step_inst_over"} /\ resumed_by.until = 0 =>
        /\ steps <= 1
        /\ Underway =>
            /\ th[resumed_by.thread].is_stepping = 1
            /\ \/ th[resumed_by.thread].step_kind # INST_STEP_OVER
               \/ th[resumed_by.thread].set_temp_ss_breakpoint = 0
            /\ exc[resumed_by.thread] # "step" => steps = 0 /\ ss[resumed_by.thread] = 1

\* Breakpoint k waits for thread t at l, and is armed.
Waits(b, m, k, l, t) ==
    /\ k \in DOMAIN b /\ b[k].for_stepping /\ b[k].location = l /\ b[k].thread = t
    /\ b[k].disabled = BP_ENABLED
    /\ ~b[k].hw => m[l] = BRK

\* While a call is stepped over, a stepping breakpoint waits at its return
\* address, and the thread is not single stepping when it gets there.
CallInv ==
    resumed_by.cmd = "step_inst_over" /\ resumed_by.until # 0 /\ Underway =>
        /\ \E k : Waits(bps, mem, k, resumed_by.until, resumed_by.thread)
        /\ addr[resumed_by.thread] = resumed_by.until => ss[resumed_by.thread] = 0

ForEveryThread(b) == \A k \in Matching(b, "BP_COND_NORMAL") : b[k].thread = BP_ALL_THREADS

ExactInv ==
    /\ resumed_by.thread \in Threads
    /\ resumed_by.cmd = "step_inst_over" /\ resumed_by.until # 0 => resumed_by.until \in Locations
    /\ ForEveryThread(bps) /\ SingleInv /\ CallInv

\* Enabling, disabling and deleting makes no breakpoint one thread's.
LEMMA EveryThreadStays ==
    ASSUME NEW b, NEW n, Table(b, n), ForEveryThread(b), NEW S, NEW d
    PROVE  ForEveryThread(TableAfter(b, S, d)) /\ ForEveryThread(Unlink(b, S))
<1>1. ForEveryThread(Unlink(b, S))
    BY DEF ForEveryThread, Unlink, Matching
<1> DEFINE b2 == TableAfter(b, S, d)
<1>2. /\ DOMAIN b2 = DOMAIN b
      /\ \A k \in DOMAIN b : /\ b2[k].temporary = b[k].temporary
                             /\ b2[k].for_stepping = b[k].for_stepping
                             /\ b2[k].thread = b[k].thread
    BY DEF TableAfter, Table, Breakpoint
<1> HIDE DEF b2
<1>3. ForEveryThread(b2)
    BY <1>2 DEF ForEveryThread, Matching
<1> QED
    BY <1>1, <1>3 DEF b2

\* Nor does a new one, when it is for every thread or a stepping breakpoint.
LEMMA EveryThreadNew ==
    ASSUME NEW b, ForEveryThread(b), NEW bp, bp.thread = BP_ALL_THREADS \/ bp.for_stepping
    PROVE  ForEveryThread(Append(b, bp))
BY DEF ForEveryThread, Append, Matching

\* Enabling other breakpoints leaves one that waits armed.
LEMMA WaitsStays ==
    ASSUME NEW b, NEW n, Table(b, n), NEW m, NEW S, NEW k, NEW l \in Locations, NEW t,
           Waits(b, m, k, l, t)
    PROVE  Waits(TableAfter(b, S, BP_ENABLED), MemAfter(b, S, BP_ENABLED, m), k, l, t)
<1> DEFINE b2 == TableAfter(b, S, BP_ENABLED)
           m2 == MemAfter(b, S, BP_ENABLED, m)
<1>1. /\ k \in DOMAIN b2 /\ b2[k].for_stepping = b[k].for_stepping
      /\ b2[k].location = b[k].location /\ b2[k].thread = b[k].thread /\ b2[k].hw = b[k].hw
      /\ b2[k].disabled = BP_ENABLED
    BY DEF TableAfter, Table, Breakpoint, Waits
<1>2. m2[l] = m[l] \/ m2[l] = BRK
    BY DEF MemAfter, BP_ENABLED, BP_DISABLED
<1> HIDE DEF b2, m2
<1>3. Waits(b2, m2, k, l, t)
    BY <1>1, <1>2 DEF Waits
<1> QED
    BY <1>3 DEF b2, m2

\* The stepping breakpoint that step inst-over sets waits.
LEMMA WaitsNew ==
    ASSUME NEW s, NEW l \in Locations, NEW t
    PROVE  LET w == With(s, breakpoint_new(s.b, s.m, l, TRUE, TRUE, t))
           IN  \E k : Waits(w.b, w.m, k, l, t)
<1> DEFINE bp == breakpoint_new(s.b, s.m, l, TRUE, TRUE, t)
           w == With(s, bp)
<1>1. /\ bp.for_stepping = TRUE /\ bp.location = l /\ bp.thread = t /\ bp.disabled = BP_ENABLED
    BY DEF breakpoint_new
<1> HIDE DEF bp
<1>2. w.b = Append(s.b, bp) /\ w.m = MemAfter(Append(s.b, bp), {allocs + 1}, BP_ENABLED, s.m)
    BY DEF With
<1>3. allocs + 1 \in DOMAIN w.b /\ w.b[allocs + 1] = bp
    BY <1>2 DEF Append
<1>4. ~bp.hw => w.m[l] = BRK
    <2>1. ~bp.hw => allocs + 1 \in SoftwareAt(Append(s.b, bp), {allocs + 1}, l)
        BY <1>1, <1>2, <1>3 DEF SoftwareAt
    <2> QED
        BY <1>2, <2>1 DEF MemAfter, BP_ENABLED, BP_DISABLED
<1> HIDE DEF w
<1>5. Waits(w.b, w.m, allocs + 1, l, t)
    BY <1>1, <1>3, <1>4 DEF Waits
<1> QED
    BY <1>5 DEF w, bp

\* With no breakpoint for one thread only, a hit that is not reported found
\* no breakpoint, and leaves the table and the code as they are.
LEMMA UnreportedHit ==
    ASSUME SteppingInv, ForEveryThread(bps), NEW t \in Threads, handle_hit_breakpoint(t),
           verdict' # 0
    PROVE  /\ bps' = bps /\ mem' = mem /\ verdict' = verdict
           /\ \A k \in DOMAIN bps : bps[k].for_stepping => bps[k].location # addr[t]
<1> DEFINE h == find_bp_with_cond(bps, addr[t], "BP_COND_NORMAL")
           step == find_bp_with_cond(bps, addr[t], "BP_COND_STEPPING")
           foreign == h # NULL /\ ~bps[h].hw /\ t \notin Targets(bps[h])
           D == {k \in Matching(bps, "BP_COND_STEPPING") : bps[k].location = addr[t]}
<1>1. TypeOK /\ mem \in [Locations -> Instrs] /\ bps = [k \in DOMAIN bps |-> bps[k]]
    BY DEF SteppingInv, IInv, TypeOK, Live
<1>2. ~({h, step} # {NULL} /\ ~foreign) /\ verdict' = verdict
    <2>1. Handled(t, {h, step} # {NULL} /\ ~foreign)
        BY Zenon DEF handle_hit_breakpoint
    <2> QED
        BY <2>1 DEF Handled
<1>3. h # NULL => ~foreign
    BY <1>1, FindByCond DEF ForEveryThread, Targets
<1> HIDE DEF h, step, foreign
<1>4. h = NULL /\ step = NULL
    BY <1>2, <1>3 DEF foreign
<1>5. Become(Without(Tables, {step} \ {NULL}))
    BY <1>4 DEF handle_hit_breakpoint, h, step
<1>6. bps' = Unlink(bps, {}) /\ mem' = MemAfter(bps, {}, BP_DISABLED, mem)
    BY <1>4, <1>5 DEF Become, Without, Tables
<1>7. bps' = bps
    BY <1>1, <1>6 DEF Unlink
<1>8. mem' = mem
    BY <1>1, <1>6 DEF MemAfter, SoftwareAt
<1>9. D = {}
    <2>1. allocs \in Nat /\ D \in SUBSET (1 .. allocs) /\ step = First(D)
        BY <1>1 DEF TypeOK, Matching, Live, step, find_bp_with_cond
    <2> HIDE DEF D
    <2> QED
        BY <1>4, <2>1, FirstIsMember
<1> QED
    BY <1>2, <1>7, <1>8, <1>9 DEF Matching

\* What a hit and the end of a single step do to the fields that stepping
\* goes by.
LEMMA HitFields ==
    ASSUME ThreadsOK, NEW t \in Threads, handle_hit_breakpoint(t)
    PROVE  /\ run = "handling" /\ run' = run /\ exc[t] = "breakpoint"
           /\ exc' = [exc EXCEPT ![t] = "handled"] /\ ss' = [ss EXCEPT ![t] = 1]
           /\ addr' = addr /\ resumed_by' = resumed_by /\ steps' = steps
           /\ verdict' = verdict \/ verdict' = 0
           /\ \A u \in Threads :
                /\ th'[u].is_stepping = th[u].is_stepping /\ th'[u].step_kind = th[u].step_kind
                /\ \/ th'[u].set_temp_ss_breakpoint = th[u].set_temp_ss_breakpoint
                   \/ th'[u].set_temp_ss_breakpoint = 0
<1>1. /\ run = "handling" /\ run' = run /\ exc[t] = "breakpoint"
      /\ exc' = [exc EXCEPT ![t] = "handled"] /\ ss' = [ss EXCEPT ![t] = 1]
      /\ addr' = addr /\ resumed_by' = resumed_by /\ steps' = steps
      /\ verdict' = verdict \/ verdict' = 0
    <2>1. PICK P : Handled(t, P)
        BY Zenon DEF handle_hit_breakpoint
    <2>2. Due(t, "breakpoint") /\ ss' = [ss EXCEPT ![t] = 1]
        BY Zenon DEF handle_hit_breakpoint
    <2> QED
        BY <2>1, <2>2 DEF Due, Handled
<1>3. PICK P, y, z : th' = [th EXCEPT ![t].just_hit_breakpoint = 1,
                                      ![t].set_temp_ss_breakpoint = IF P THEN 0 ELSE @,
                                      ![t].just_hit_sw_breakpoint = y,
                                      ![t].last_hit_bkpt_ID = z]
    BY Zenon DEF handle_hit_breakpoint
<1>4. th \in [Threads -> ThreadState]
    BY DEF ThreadsOK
<1> QED
    BY <1>1, <1>3, <1>4 DEF ThreadState

\* A single step goes on until it has trapped, and handle_single_step stops
\* for it.
LEMMA SingleKeeps ==
    ASSUME StepsUndisturbed, SteppingInv, ExactInv, [SteppingNext]_allvars,
           [FromRest]_allvars
    PROVE  SingleInv'
<1> DEFINE r == resumed_by.thread
<1>1. ThreadsOK /\ r \in Threads /\ SingleInv /\ ForEveryThread(bps) /\ AnsweredInOrder
    BY DEF SteppingInv, ExactInv
<1>2. CASE \/ UNCHANGED allvars \/ \E t \in Threads : cmdfunc_thread_select(t)
           \/ \E l \in UserLocations, t \in UserThreads : cmdfunc_breakpoint_set(l, t)
           \/ \E id \in Ids : cmdfunc_breakpoint_delete(id)
           \/ interrupt \/ stop \/ batch
    <2>1. /\ resumed_by' = resumed_by /\ steps' = steps /\ th' = th /\ exc' = exc /\ ss' = ss
          /\ Underway' => Underway
        BY <1>2 DEF allvars, threadvars, history, cmdfunc_thread_select, cmdfunc_breakpoint_set,
            cmdfunc_breakpoint_delete, interrupt, stop, batch, Types, Underway
    <2> QED
        BY <1>1, <2>1 DEF SingleInv
<1>3. ASSUME NEW t \in Threads, hit(t) \/ deliver_sigstop(t)
      PROVE  SingleInv'
    <2>1. /\ resumed_by' = resumed_by /\ steps' = steps /\ th' = th /\ ss' = ss
          /\ Underway' => Underway
          /\ \A u \in Threads : exc'[u] = exc[u] \/ exc[u] = "none"
        BY <1>1, <1>3 DEF history, hit, deliver_sigstop, Underway, ThreadsOK
    <2>2. exc[r] = "step" => exc'[r] = "step"
        BY <1>1, <2>1
    <2> QED
        BY <1>1, <2>1, <2>2 DEF SingleInv
<1>4. ASSUME NEW t \in Threads, execute(t)
      PROVE  SingleInv'
    <2>1. /\ resumed_by' = resumed_by /\ th' = th /\ Underway /\ exc[t] = "none"
          /\ exc' = IF ss[t] = 1 THEN [exc EXCEPT ![t] = "step"] ELSE exc
          /\ ss' = [ss EXCEPT ![t] = 0]
          /\ steps' = IF t = r /\ steps < 2 THEN steps + 1 ELSE steps
        BY <1>4 DEF execute, Underway
    <2> HIDE DEF r
    <2>2. CASE t = r
        <3>1. exc[r] # "step" /\ (ss[r] = 1 => exc'[r] = "step") /\ (steps = 0 => steps' = 1)
            BY <1>1, <2>1, <2>2 DEF ThreadsOK
        <3> QED
            BY <1>1, <2>1, <2>2, <3>1 DEF SingleInv, r
    <2>3. CASE t # r
        <3>1. exc'[r] = exc[r] /\ ss'[r] = ss[r] /\ steps' = steps
            BY <1>1, <2>1, <2>3 DEF ThreadsOK
        <3> QED
            BY <1>1, <2>1, <3>1 DEF SingleInv, r
    <2> QED
        BY <2>2, <2>3
<1>5. ASSUME NEW t \in Threads, handle_soft_signal(t)
      PROVE  SingleInv'
    <2>1. resumed_by' = resumed_by /\ steps' = steps /\ ~Underway'
        BY <1>5 DEF handle_soft_signal, Due, Handled, Underway
    <2> QED
        BY <1>1, <2>1 DEF SingleInv
<1>6. ASSUME NEW t \in Threads, handle_single_step(t)
      PROVE  SingleInv'
    <2>1. /\ resumed_by' = resumed_by /\ steps' = steps /\ ss' = ss /\ exc[t] = "step"
          /\ exc' = [exc EXCEPT ![t] = "handled"]
          /\ run = "handling" /\ run' = "handling"
          /\ verdict' = IF StepStops(t) THEN 0 ELSE verdict
        BY <1>6 DEF handle_single_step, Due, Handled
    <2>2. \A u \in Threads \ {t} : th'[u] = th[u]
        BY <1>1, <1>6 DEF handle_single_step, StepDone, ThreadsOK
    <2> HIDE DEF r
    <2>3. CASE t = r
        <3>1. SingleInv => \/ ~(/\ resumed_by.cmd \in {"step_inst_into", "step_inst_over"}
                                /\ resumed_by.until = 0)
                           \/ steps <= 1 /\ ~Underway'
            BY <2>1, <2>3 DEF SingleInv, Underway, StepStops, r
        <3> QED
            BY <1>1, <2>1, <3>1 DEF SingleInv
    <2>4. CASE t # r
        <3>1. th'[r] = th[r] /\ exc'[r] = exc[r] /\ (Underway' => Underway)
            BY <1>1, <2>1, <2>2, <2>4 DEF ThreadsOK, Underway
        <3> QED
            BY <1>1, <2>1, <3>1 DEF SingleInv, r
    <2> QED
        BY <2>3, <2>4
<1>7. ASSUME NEW t \in Threads, handle_hit_breakpoint(t)
      PROVE  SingleInv'
    <2>1. /\ resumed_by' = resumed_by /\ steps' = steps /\ exc[t] = "breakpoint"
          /\ exc' = [exc EXCEPT ![t] = "handled"] /\ ss' = [ss EXCEPT ![t] = 1]
          /\ Underway' => Underway
        BY <1>1, <1>7, HitFields DEF Underway
    <2>2. /\ th'[r].is_stepping = th[r].is_stepping /\ th'[r].step_kind = th[r].step_kind
          /\ \/ th'[r].set_temp_ss_breakpoint = th[r].set_temp_ss_breakpoint
             \/ th'[r].set_temp_ss_breakpoint = 0
        BY <1>1, <1>7, HitFields
    <2> HIDE DEF r
    <2>3. (exc[r] = "step" => exc'[r] = "step") /\ (ss[r] = 1 => ss'[r] = 1)
        BY <1>1, <2>1 DEF ThreadsOK
    <2> QED
        BY <1>1, <2>1, <2>2, <2>3 DEF SingleInv, r
<1>8. CASE auto_resume
    <2>1. /\ resumed_by' = resumed_by /\ steps' = steps /\ th' = th /\ ss' = ss
          /\ Underway /\ exc[r] # "step"
        BY <1>1, <1>8 DEF auto_resume, AllHandled, history, Underway
    <2> QED
        BY <1>1, <2>1 DEF SingleInv
<1>9. CASE cmdfunc_continue
    BY <1>9 DEF cmdfunc_continue, Resumed, SingleInv
<1>10. ASSUME NEW kind, SingleStep(kind), NEW c, Resumed(c, 0),
              kind = INST_STEP_OVER => th[focused].set_temp_ss_breakpoint = 0
       PROVE  SingleInv'
    <2>1. /\ resumed_by'.thread = focused /\ steps' = 0 /\ exc'[focused] = "none"
          /\ ss'[focused] = 1 /\ focused \in Threads
        BY <1>1, <1>10 DEF Resumed, ops_resume, SingleStep, ThreadsOK
    <2>2. /\ th'[focused].is_stepping = 1 /\ th'[focused].step_kind = kind
          /\ th'[focused].set_temp_ss_breakpoint = th[focused].set_temp_ss_breakpoint
        BY <1>1, <1>10 DEF SingleStep, ThreadsOK, ThreadState
    <2> QED
        BY <1>10, <2>1, <2>2 DEF SingleInv
<1>11. CASE cmdfunc_step_inst_into
    BY <1>10, <1>11 DEF cmdfunc_step_inst_into, INST_STEP_INTO, INST_STEP_OVER
<1>12. CASE cmdfunc_step_inst_over
    <2>1. CASE UNCHANGED allvars
        BY <1>2, <2>1
    <2>2. CASE th[focused].set_temp_ss_breakpoint = 0
        <3>1. CASE SingleStep(INST_STEP_OVER) /\ Resumed("step_inst_over", 0)
            BY <1>10, <2>2, <3>1
        <3>2. CASE opcode = BL /\ Resumed("step_inst_over", addr[focused] + 1)
            <4>1. addr[focused] + 1 \in Locations
                BY <1>1, <3>2, CallReturns DEF SteppingInv, ThreadsOK
            <4>2. resumed_by'.until # 0
                BY <3>2, <4>1, LocationsAreWords DEF Resumed
            <4> QED
                BY <4>2 DEF SingleInv
        <3> QED
            BY <1>12, <3>1, <3>2 DEF cmdfunc_step_inst_over
    <2> QED
        BY <1>12, <2>1, <2>2 DEF FromRest
<1>13. CASE cmdfunc_interrupt
    BY <1>13 DEF cmdfunc_interrupt, StepsUndisturbed
<1> QED
    BY <1>2, <1>3, <1>4, <1>5, <1>6, <1>7, <1>8, <1>9, <1>11, <1>12, <1>13
    DEF SteppingNext, Server, User

\* A stepping breakpoint waits at the return address until a handler stops
\* the debuggee.
LEMMA CallKeeps ==
    ASSUME StepsUndisturbed, SteppingInv, ExactInv, [SteppingNext]_allvars, [FromRest]_allvars
    PROVE  CallInv'
<1> DEFINE r == resumed_by.thread
           l == resumed_by.until
           Over == resumed_by.cmd = "step_inst_over" /\ l # 0
<1>1. /\ ThreadsOK /\ MachineOK /\ IInv /\ Table(bps, allocs)
      /\ r \in Threads /\ (Over => l \in Locations) /\ CallInv /\ ForEveryThread(bps)
    BY InvariantIsSoundness DEF SteppingInv, ExactInv, Sound
<1>2. ASSUME resumed_by' = resumed_by, Underway' => Underway,
             Underway' /\ Over => /\ \A k : Waits(bps, mem, k, l, r) =>
                                            Waits(bps', mem', k, l, r)
                                  /\ addr'[r] = l => ss'[r] = 0 \/ (addr[r] = l /\ ss'[r] = ss[r])
      PROVE  CallInv'
    BY <1>1, <1>2 DEF CallInv
<1>3. CASE \/ UNCHANGED allvars \/ interrupt \/ stop \/ batch
           \/ \E t \in Threads : cmdfunc_thread_select(t)
    <2>1. /\ resumed_by' = resumed_by /\ bps' = bps /\ mem' = mem /\ addr' = addr /\ ss' = ss
          /\ Underway' => Underway
        BY <1>3 DEF allvars, vars, threadvars, history, cmdfunc_thread_select, interrupt, stop,
            batch, Types, Underway
    <2> QED
        BY <1>2, <2>1
<1>4. CASE \/ \E x \in UserLocations, t \in UserThreads : cmdfunc_breakpoint_set(x, t)
           \/ \E id \in Ids : cmdfunc_breakpoint_delete(id)
    <2>1. resumed_by' = resumed_by /\ ~Underway'
        BY <1>4 DEF history, cmdfunc_breakpoint_set, cmdfunc_breakpoint_delete, Types, Underway
    <2> QED
        BY <1>2, <2>1
<1>5. ASSUME NEW t \in Threads, hit(t) \/ deliver_sigstop(t)
      PROVE  CallInv'
    <2>1. /\ resumed_by' = resumed_by /\ bps' = bps /\ mem' = mem /\ addr' = addr /\ ss' = ss
          /\ Underway' => Underway
        BY <1>5 DEF vars, history, hit, deliver_sigstop, Underway
    <2> QED
        BY <1>2, <2>1
<1>6. ASSUME NEW t \in Threads, execute(t)
      PROVE  CallInv'
    <2>1. /\ resumed_by' = resumed_by /\ bps' = bps /\ mem' = mem
          /\ Underway' => Underway
          /\ addr' = [addr EXCEPT ![t] = After(t)] /\ ss' = [ss EXCEPT ![t] = 0]
        BY <1>6 DEF vars, execute, Underway
    <2> HIDE DEF r, l
    <2>2. ss'[r] = 0 \/ (addr'[r] = addr[r] /\ ss'[r] = ss[r])
        BY <1>1, <2>1 DEF ThreadsOK, MachineOK
    <2> QED
        BY <1>2, <2>1, <2>2
<1>7. ASSUME NEW t \in Threads, handle_soft_signal(t)
      PROVE  CallInv'
    <2>1. resumed_by' = resumed_by /\ ~Underway'
        BY <1>7 DEF handle_soft_signal, Due, Handled, Underway
    <2> QED
        BY <1>2, <2>1
<1>8. ASSUME NEW t \in Threads, handle_single_step(t)
      PROVE  CallInv'
    <2> DEFINE N == Matching(bps, "BP_COND_NORMAL")
               enabled == WithState(Tables, N, BP_ENABLED)
               again == WithId(enabled, th[t].last_hit_bkpt_ID, BP_ENABLED)
    <2>1. Tables = [b |-> bps, m |-> mem, g |-> regs, n |-> num_breakpoints]
        BY DEF Tables
    <2>2. N \in SUBSET DOMAIN Tables.b /\ BP_ENABLED \in {BP_ENABLED, BP_DISABLED}
        BY <2>1 DEF Matching
    <2>3. SoundTables(enabled, allocs)
        BY <1>1, <2>2, TablesSound, WithStateSound
    <2>4. enabled.b = TableAfter(bps, N, BP_ENABLED) /\ enabled.m = MemAfter(bps, N, BP_ENABLED, mem)
        BY <2>1 DEF WithState
    <2>5. ASSUME Over, NEW k, Waits(bps, mem, k, l, r)
          PROVE  Waits(enabled.b, enabled.m, k, l, r)
        <3> HIDE DEF enabled, l, r
        <3> QED
            BY <1>1, <2>4, <2>5, WaitsStays
    <2>6. ASSUME Over, NEW k, Waits(enabled.b, enabled.m, k, l, r)
          PROVE  Waits(again.b, again.m, k, l, r)
        <3>1. PICK S : again = WithState(enabled, S, BP_ENABLED)
            BY DEF WithId
        <3> HIDE DEF enabled, again, l, r
        <3>2. /\ again.b = TableAfter(enabled.b, S, BP_ENABLED)
              /\ again.m = MemAfter(enabled.b, S, BP_ENABLED, enabled.m)
            BY <2>3, <3>1 DEF WithState, SoundTables
        <3>3. Table(enabled.b, allocs)
            BY <2>3 DEF SoundTables, Sound
        <3> QED
            BY <1>1, <2>6, <3>2, <3>3, WaitsStays
    <2>7. \/ bps' = enabled.b /\ mem' = enabled.m
          \/ bps' = again.b /\ mem' = again.m
        BY <1>8 DEF handle_single_step, Become
    <2>8. /\ resumed_by' = resumed_by /\ addr' = addr /\ ss' = ss
          /\ Underway' => Underway
        BY <1>8 DEF handle_single_step, Due, Handled, Underway
    <2> HIDE DEF enabled, again, l, r
    <2> QED
        BY <1>2, <2>5, <2>6, <2>7, <2>8
<1>9. ASSUME NEW t \in Threads, handle_hit_breakpoint(t)
      PROVE  CallInv'
    <2>1. /\ resumed_by' = resumed_by /\ addr' = addr /\ ss' = [ss EXCEPT ![t] = 1]
          /\ Underway' => Underway
        BY <1>1, <1>9, HitFields DEF Underway
    <2>2. CASE verdict' = 0
        <3>1. ~Underway'
            BY <1>1, <1>9, <2>2, HitFields DEF Underway
        <3> QED
            BY <1>2, <2>1, <3>1
    <2>3. CASE verdict' # 0
        <3>1. /\ bps' = bps /\ mem' = mem
              /\ \A k \in DOMAIN bps : bps[k].for_stepping => bps[k].location # addr[t]
            BY <1>1, <1>9, <2>3, UnreportedHit
        <3>2. ASSUME Underway', Over, addr[r] = l
              PROVE  ss'[r] = ss[r]
            <4>1. \E k : Waits(bps, mem, k, l, r)
                BY <1>1, <2>1, <3>2 DEF CallInv
            <4>2. r # t
                BY <3>1, <3>2, <4>1 DEF Waits
            <4> HIDE DEF r
            <4> QED
                BY <1>1, <2>1, <4>2 DEF ThreadsOK
        <3> HIDE DEF r, l
        <3> QED
            BY <1>2, <2>1, <3>1, <3>2
    <2> QED
        BY <2>2, <2>3
<1>10. CASE auto_resume
    <2>1. /\ resumed_by' = resumed_by /\ bps' = bps /\ mem' = mem /\ addr' = addr /\ ss' = ss
          /\ Underway
        BY <1>10 DEF auto_resume, AllHandled, vars, history, Underway
    <2> QED
        BY <1>2, <2>1
<1>11. CASE cmdfunc_continue \/ cmdfunc_step_inst_into
    BY <1>11 DEF cmdfunc_continue, cmdfunc_step_inst_into, Resumed, CallInv
<1>12. CASE cmdfunc_step_inst_over
    <2>1. CASE UNCHANGED allvars
        BY <1>3, <2>1
    <2>2. CASE Resumed("step_inst_over", 0)
        BY <2>2 DEF Resumed, CallInv
    <2>3. CASE /\ opcode = BL /\ StepOverCall /\ Resumed("step_inst_over", addr[focused] + 1)
               /\ th[focused].set_temp_ss_breakpoint = 0
        <3> DEFINE x == addr[focused] + 1
                   w == With(Quiet, breakpoint_new(Quiet.b, Quiet.m, x, TRUE, TRUE, focused))
        <3>1. focused \in Threads /\ addr[focused] \in Locations /\ x \in Locations
            BY <1>1, <2>3, CallReturns DEF ThreadsOK, MachineOK
        <3>2. \E k : Waits(w.b, w.m, k, x, focused)
            <4> HIDE DEF x
            <4> QED
                BY <3>1, WaitsNew
        <3>3. bps' = w.b /\ mem' = w.m
            <4>0. th[focused].set_temp_ss_breakpoint # 1
                BY <2>3
            <4>1. Become(w)
                BY <2>3, <4>0, Zenon DEF StepOverCall
            <4> HIDE DEF w
            <4> QED
                BY <4>1 DEF Become
        <3>4. resumed_by'.thread = focused /\ resumed_by'.until = x /\ addr' = addr
            BY <2>3 DEF Resumed
        <3>5. addr'[focused] # x
            <4>1. addr[focused] \in Nat
                BY <3>1, LocationsAreWords
            <4>2. addr[focused] + 1 # addr[focused]
                BY ONLY <4>1
            <4> QED
                BY <3>4, <4>2
        <3> HIDE DEF x, w
        <3> QED
            BY <3>2, <3>3, <3>4, <3>5 DEF CallInv
    <2> QED
        BY <1>12, <2>1, <2>2, <2>3 DEF cmdfunc_step_inst_over, FromRest
<1>13. CASE cmdfunc_interrupt
    BY <1>13 DEF cmdfunc_interrupt, StepsUndisturbed
<1> QED
    BY <1>3, <1>4, <1>5, <1>6, <1>7, <1>8, <1>9, <1>10, <1>11, <1>12, <1>13
    DEF SteppingNext, Server, User

\* Every breakpoint of the user is for every thread, whatever is done.
LEMMA EveryThreadKeeps ==
    ASSUME StepsUndisturbed, SteppingInv, ForEveryThread(bps), [SteppingNext]_allvars
    PROVE  ForEveryThread(bps')
<1>1. IInv /\ Table(bps, allocs)
    BY InvariantIsSoundness DEF SteppingInv, Sound
<1>2. CASE \/ UNCHANGED allvars
           \/ \E t \in Threads : \/ hit(t) \/ execute(t) \/ deliver_sigstop(t)
                                 \/ handle_soft_signal(t) \/ cmdfunc_thread_select(t)
           \/ batch \/ auto_resume \/ stop \/ cmdfunc_interrupt \/ interrupt
    <2>1. bps' = bps
        BY <1>2 DEF hit, execute, deliver_sigstop, handle_soft_signal, batch, auto_resume, stop,
            cmdfunc_thread_select, cmdfunc_interrupt, interrupt, allvars, vars
    <2> QED
        BY <2>1
<1>3. Tables = [b |-> bps, m |-> mem, g |-> regs, n |-> num_breakpoints]
    BY DEF Tables
<1>4. ASSUME NEW s, SoundTables(s, allocs), ForEveryThread(s.b), NEW id,
             NEW d \in {BP_ENABLED, BP_DISABLED}
      PROVE  ForEveryThread(WithId(s, id, d).b)
    <2>1. PICK S : WithId(s, id, d) = WithState(s, S, d)
        BY DEF WithId
    <2>2. WithState(s, S, d).b = TableAfter(s.b, S, d)
        BY <1>4 DEF WithState, SoundTables
    <2> QED
        BY <1>4, <2>1, <2>2, EveryThreadStays DEF SoundTables, Sound
<1>5. ASSUME NEW t \in Threads, handle_single_step(t)
      PROVE  ForEveryThread(bps')
    <2> DEFINE N == Matching(bps, "BP_COND_NORMAL")
               enabled == WithState(Tables, N, BP_ENABLED)
               again == WithId(enabled, th[t].last_hit_bkpt_ID, BP_ENABLED)
    <2>1. N \in SUBSET DOMAIN Tables.b /\ BP_ENABLED \in {BP_ENABLED, BP_DISABLED}
        BY <1>3 DEF Matching
    <2>2. SoundTables(enabled, allocs)
        BY <1>1, <2>1, TablesSound, WithStateSound
    <2>3. enabled.b = TableAfter(bps, N, BP_ENABLED)
        BY <1>3 DEF WithState
    <2>4. bps' = enabled.b \/ bps' = again.b
        BY <1>5 DEF handle_single_step, Become
    <2> HIDE DEF enabled
    <2>5. ForEveryThread(enabled.b)
        BY <1>1, <2>3, EveryThreadStays
    <2>6. ForEveryThread(again.b)
        BY <1>4, <2>1, <2>2, <2>5
    <2> HIDE DEF again
    <2> QED
        BY <2>4, <2>5, <2>6
<1>6. ASSUME NEW t \in Threads, handle_hit_breakpoint(t)
      PROVE  ForEveryThread(bps')
    <2> DEFINE step == find_bp_with_cond(bps, addr[t], "BP_COND_STEPPING")
               stepped == Without(Tables, {step} \ {NULL})
    <2>1. {step} \ {NULL} \in SUBSET DOMAIN Tables.b
        BY <1>1, <1>3, FindByCond DEF IInv, Live
    <2>2. SoundTables(stepped, allocs)
        <3> HIDE DEF step
        <3> QED
            BY <1>1, <2>1, TablesSound, WithoutSound
    <2>3. stepped.b = Unlink(bps, {step} \ {NULL})
        BY <1>3 DEF Without
    <2>4. PICK id : bps' = stepped.b \/ bps' = WithId(stepped, id, BP_DISABLED).b
        <3>1. \E id : Become(stepped) \/ Become(WithId(stepped, id, BP_DISABLED))
            BY <1>6, Zenon DEF handle_hit_breakpoint
        <3> QED
            BY <3>1 DEF Become
    <2> HIDE DEF stepped, step
    <2>5. ForEveryThread(stepped.b)
        BY <1>1, <2>3, EveryThreadStays
    <2>6. ForEveryThread(WithId(stepped, id, BP_DISABLED).b)
        BY <1>4, <2>2, <2>5
    <2> QED
        BY <2>4, <2>5, <2>6
<1>7. CASE cmdfunc_continue
    BY <1>1, <1>7, EveryThreadStays DEF cmdfunc_continue, breakpoint_delete_all_specific, Delete
<1>8. ForEveryThread(Quiet.b)
    <2>1. Quiet.b = TableAfter(bps, Live \ Matching(bps, "BP_COND_STEPPING"), BP_DISABLED)
        BY <1>3 DEF Quiet, WithState
    <2> QED
        BY <1>1, <2>1, EveryThreadStays
<1>9. CASE \E kind : SingleStep(kind)
    <2>1. bps' = Quiet.b
        BY <1>9 DEF SingleStep, Become
    <2> QED
        BY <1>8, <2>1
<1>10. CASE StepOverCall
    <2> DEFINE bp == breakpoint_new(Quiet.b, Quiet.m, addr[focused] + 1, TRUE, TRUE, focused)
    <2>1. bps' = Quiet.b \/ bps' = With(Quiet, bp).b
        BY <1>10 DEF StepOverCall, Become
    <2>2. bp.for_stepping
        BY DEF breakpoint_new
    <2> HIDE DEF bp
    <2>3. With(Quiet, bp).b = Append(Quiet.b, bp)
        BY DEF With
    <2>4. ForEveryThread(Append(Quiet.b, bp))
        BY <1>8, <2>2, EveryThreadNew
    <2> QED
        BY <1>8, <2>1, <2>3, <2>4
<1>11. CASE cmdfunc_step_inst_into \/ cmdfunc_step_inst_over
    BY <1>9, <1>10, <1>11 DEF cmdfunc_step_inst_into, cmdfunc_step_inst_over
<1>12. ASSUME NEW l \in UserLocations, NEW t \in UserThreads, cmdfunc_breakpoint_set(l, t)
       PROVE  ForEveryThread(bps')
    <2> DEFINE bp == breakpoint_new(bps, mem, l, FALSE, FALSE, t)
    <2>1. bps' = Append(bps, bp)
        BY <1>12 DEF cmdfunc_breakpoint_set, breakpoint_at_address, Create
    <2>2. bp.thread = BP_ALL_THREADS
        BY DEF breakpoint_new, StepsUndisturbed
    <2> HIDE DEF bp
    <2>3. ForEveryThread(Append(bps, bp))
        BY <2>2, EveryThreadNew
    <2> QED
        BY <2>1, <2>3
<1>13. ASSUME NEW id \in Ids, cmdfunc_breakpoint_delete(id)
       PROVE  ForEveryThread(bps')
    BY <1>1, <1>13, EveryThreadStays DEF cmdfunc_breakpoint_delete, breakpoint_delete, Delete
<1> QED
    BY <1>2, <1>5, <1>6, <1>7, <1>11, <1>12, <1>13 DEF SteppingNext, Server, User

\* Only a command that resumes the debuggee changes what it runs under.
LEMMA UnderKeeps ==
    ASSUME SteppingInv, ExactInv, [SteppingNext]_allvars
    PROVE  /\ resumed_by'.thread \in Threads
           /\ resumed_by'.cmd = "step_inst_over" /\ resumed_by'.until # 0
                => resumed_by'.until \in Locations
<1>1. focused \in Threads /\ IInv /\ MachineOK
    BY DEF SteppingInv, ThreadsOK
<1>2. CASE resumed_by' = resumed_by
    BY <1>2 DEF ExactInv
<1>3. ASSUME NEW c, NEW l, Resumed(c, l), c = "step_inst_over" /\ l # 0 => l \in Locations
      PROVE  /\ resumed_by'.thread \in Threads
             /\ resumed_by'.cmd = "step_inst_over" /\ resumed_by'.until # 0
                  => resumed_by'.until \in Locations
    BY <1>1, <1>3 DEF Resumed
<1>4. CASE cmdfunc_continue \/ cmdfunc_step_inst_into
    BY <1>3, <1>4 DEF cmdfunc_continue, cmdfunc_step_inst_into
<1>5. CASE cmdfunc_step_inst_over
    <2>1. opcode = BL => addr[focused] + 1 \in Locations
        BY <1>1, CallReturns
    <2> QED
        BY <1>3, <1>5, <2>1 DEF cmdfunc_step_inst_over
<1>6. CASE \/ UNCHANGED allvars
           \/ \E t \in Threads : \/ hit(t) \/ execute(t) \/ deliver_sigstop(t)
                                 \/ handle_soft_signal(t) \/ handle_single_step(t)
                                 \/ cmdfunc_thread_select(t)
           \/ batch \/ auto_resume \/ stop \/ cmdfunc_interrupt \/ interrupt
           \/ \E l \in UserLocations, t \in UserThreads : cmdfunc_breakpoint_set(l, t)
           \/ \E id \in Ids : cmdfunc_breakpoint_delete(id)
    BY <1>2, <1>6 DEF hit, execute, deliver_sigstop, handle_soft_signal, handle_single_step,
        Handled, cmdfunc_thread_select, batch, auto_resume, stop, cmdfunc_interrupt, interrupt,
        cmdfunc_breakpoint_set, cmdfunc_breakpoint_delete, allvars, history
<1>7. ASSUME NEW t \in Threads, handle_hit_breakpoint(t)
      PROVE  resumed_by' = resumed_by
    BY <1>7, HitFields DEF SteppingInv
<1> QED
    BY <1>2, <1>4, <1>5, <1>6, <1>7 DEF SteppingNext, Server, User

\* The thread does not get past the breakpoint that waits for it.
LEMMA StopsAtReturn ==
    ASSUME SteppingInv, ExactInv, NEW t \in Threads, resumed_by.cmd = "step_inst_over",
           resumed_by.thread = t, addr[t] = resumed_by.until, run = "running"
    PROVE  Traps(t)
<1>1. IInv /\ addr[t] \in Locations /\ addr[t] # 0
    BY LocationsAreWords DEF SteppingInv, MachineOK
<1>2. PICK k : Waits(bps, mem, k, addr[t], t)
    BY <1>1 DEF ExactInv, CallInv, Underway
<1>3. ss[t] = 0
    BY <1>1 DEF ExactInv, CallInv, Underway
<1>4. CASE bps[k].hw
    <2>1. bps[k].hw_bp_reg \in Regs
        BY <1>1, <1>2, <1>4 DEF IInv, HWRegsDistinct, Waits, Live
    <2>2. t \in Targets(bps[k])
        BY <1>2, ThreadAssumption DEF Waits, Targets
    <2>3. regs[t][bps[k].hw_bp_reg] = addr[t]
        BY <1>1, <1>2, <1>4, <2>1, <2>2 DEF IInv, RegistersMatchTable, Waits, Live
    <2> QED
        BY <1>3, <2>1, <2>3 DEF Traps
<1>5. CASE ~bps[k].hw
    BY <1>2, <1>5 DEF Waits, Traps
<1> QED
    BY <1>4, <1>5

\* Only execute moves a program counter.
LEMMA OnlyExecuteMoves ==
    ASSUME SteppingInv, SteppingNext, NEW t \in Threads, addr'[t] # addr[t]
    PROVE  run = "running" /\ ~Traps(t)
<1>1. ASSUME NEW u \in Threads, handle_hit_breakpoint(u)
      PROVE  addr' = addr
    BY <1>1, HitFields DEF SteppingInv
<1>2. \/ addr' = addr \/ \E u \in Threads : execute(u)
    BY <1>1 DEF SteppingNext, Server, User, hit, deliver_sigstop, handle_soft_signal,
        handle_single_step, Handled, batch, auto_resume, stop, cmdfunc_thread_select,
        cmdfunc_interrupt, interrupt, cmdfunc_breakpoint_set, cmdfunc_breakpoint_delete,
        cmdfunc_continue, cmdfunc_step_inst_into, cmdfunc_step_inst_over, Resumed, threadvars
<1>3. PICK u \in Threads : execute(u)
    BY <1>2
<1>4. u = t
    BY <1>3 DEF execute, SteppingInv, MachineOK
<1> QED
    BY <1>3, <1>4 DEF execute

\* Under the commands that step, a thread executes one instruction, or one
\* whole call and nothing after it, for any program, any number of threads
\* that hit breakpoints and are stopped in between, and any breakpoints that
\* are for every thread.
THEOREM StepsExecuteExactly ==
    ASSUME StepsUndisturbed
    PROVE  SteppingSpec /\ StepsFromRest => StepsAreExact
<1> DEFINE Stops == \A t \in Threads :
               resumed_by.cmd = "step_inst_over" /\ resumed_by.thread = t
                 /\ addr[t] = resumed_by.until
                   => addr'[t] = addr[t] \/ run # "running"
<1>1. SteppingInit => ExactInv
    BY DEF SteppingInit, Init, ExactInv, ForEveryThread, Matching, SingleInv, CallInv
<1>2. SteppingInv /\ ExactInv /\ [SteppingNext]_allvars /\ [FromRest]_allvars => ExactInv'
    <2> SUFFICES ASSUME SteppingInv, ExactInv, [SteppingNext]_allvars, [FromRest]_allvars
                 PROVE  ExactInv'
        OBVIOUS
    <2>1. SingleInv' /\ CallInv'
        BY SingleKeeps, CallKeeps
    <2>2. ForEveryThread(bps')
        BY EveryThreadKeeps DEF ExactInv
    <2> QED
        BY <2>1, <2>2, UnderKeeps DEF ExactInv
<1>3. ExactInv => StepIsOne
    BY DEF ExactInv, SingleInv, StepIsOne
<1>4. SteppingInv /\ ExactInv /\ [SteppingNext]_allvars => [Stops]_allvars
    BY StopsAtReturn, OnlyExecuteMoves
<1>5. [][Stops]_allvars <=> StepOverStops
    BY DEF StepOverStops
<1> QED
    BY <1>1, <1>2, <1>3, <1>4, <1>5, SteppingInductive, PTL
    DEF SteppingSpec, StepsFromRest, StepsAreExact
=============================================================================
