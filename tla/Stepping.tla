------------------------------ MODULE Stepping ------------------------------
(***************************************************************************)
(* What happens when the debuggee runs into breakpoints and single steps:  *)
(* handle_exception (source/exception.c), the step commands                *)
(* (source/cmd/stepcmd.c), continue and interrupt (source/cmd/misccmd.c),  *)
(* over the breakpoint table of module Breakpoints and a debuggee whose    *)
(* threads execute instructions.                                           *)
(*                                                                         *)
(* The races of the exception server with the commands are the subject of  *)
(* ExceptionServer.  Here the user is patient: commands come while the     *)
(* debuggee is stopped, and only interrupts come while it runs.            *)
(*                                                                         *)
(* The processor and the kernel are modelled as far as this code relies on *)
(* them: BRK traps before it executes; a breakpoint register traps before  *)
(* the instruction executes unless the thread is single stepping; a single *)
(* step traps after one instruction, and clears the bit in MDSCR.          *)
(* Watchpoints, which share the single step, are left out.                 *)
(***************************************************************************)
EXTENDS Breakpoints

CONSTANTS
    BL, B, RET,    \* instructions: call, jump, return; any other one falls through
    Target,        \* Target[l]: where the call or the jump at l goes
    Entry,         \* Entry[t]: where thread t starts
    Commands,      \* the commands the user of this instance types,
    UserLocations, \* where this user sets breakpoints,
    UserThreads    \* and for which threads

\* Page zero is never mapped, so that 0 is not an address of code.
ASSUME LocationsAreWords == Locations \subseteq Nat \ {0}
ASSUME EntryAssumption == Entry \in [Threads -> Locations]
ASSUME UserAssumption ==
    UserLocations \subseteq Locations /\ UserThreads \subseteq Threads \cup {BP_ALL_THREADS}

\* The debuggee does not run out of its code: a call or a jump has a target,
\* and after any other instruction, and after a call, there is a next one.
ASSUME ProgramAssumption ==
    /\ BRK \notin {BL, B, RET} /\ BL # B /\ BL # RET /\ B # RET
    /\ \A l \in Locations :
        /\ Code[l] \in {BL, B} => Target[l] \in Locations
        /\ Code[l] = BL \/ Code[l] \notin {B, RET, BRK} => l + 1 \in Locations

VARIABLES
    run,       \* "stopped", "running", or "handling" a batch of exceptions
    verdict,   \* will_auto_resume of the batch being handled
    exc,       \* exc[t]: "none", the exception t raised, or "handled"
    addr,      \* addr[t]: the program counter
    lr,        \* lr[t]: the link register
    ss,        \* ss[t]: the single step bit of MDSCR
    th,        \* th[t]: the fields of struct machthread that stepping uses
    focused,   \* the thread that has focus
    sigstop,   \* 1 while a SIGSTOP is pending
    resumed_by, \* the command that last resumed the debuggee, for which thread, and the
               \* return address when it steps over a call (0 otherwise)
    steps,     \* instructions that thread executed since, counted up to 2
    stuck      \* stuck[t]: breakpoint hits reported for t since it last executed

threadvars == <<exc, addr, lr, ss, th, focused>>
history == <<resumed_by, steps, stuck>>
allvars == <<vars, run, verdict, threadvars, sigstop, history>>

STEP_NONE      == "STEP_NONE"
INST_STEP_INTO == "INST_STEP_INTO"
INST_STEP_OVER == "INST_STEP_OVER"

NewThread ==
    [just_hit_breakpoint |-> 0, just_hit_sw_breakpoint |-> 0, last_hit_bkpt_ID |-> 0,
     is_stepping |-> 0, step_kind |-> STEP_NONE, set_temp_ss_breakpoint |-> 0]

----------------------------------------------------------------------------
(* Several operations on the breakpoint table in one handler: a state of   *)
(* the table, and what each operation makes of it.                         *)

Tables == [b |-> bps, m |-> mem, g |-> regs, n |-> num_breakpoints]

WithState(s, S, disabled) ==
    [s EXCEPT !.b = TableAfter(s.b, S, disabled),
              !.m = MemAfter(s.b, S, disabled, s.m),
              !.g = RegsAfter(s.b, S, disabled, s.g)]

\* Mutant: a hit stepping breakpoint stays in memory.
Without_LeavesBRK(s, S) ==
    [b |-> Unlink(s.b, S), m |-> s.m,
     g |-> RegsAfter(s.b, S, BP_DISABLED, s.g), n |-> s.n - Cardinality(S)]

Without(s, S) ==
    [b |-> Unlink(s.b, S),
     m |-> MemAfter(s.b, S, BP_DISABLED, s.m),
     g |-> RegsAfter(s.b, S, BP_DISABLED, s.g),
     n |-> s.n - Cardinality(S)]

With(s, bp) ==
    LET b2 == Append(s.b, bp)
    IN  [b |-> b2,
         m |-> MemAfter(b2, {allocs + 1}, BP_ENABLED, s.m),
         g |-> RegsAfter(b2, {allocs + 1}, BP_ENABLED, s.g),
         n |-> s.n + 1]

Become(s) ==
    /\ bps' = s.b
    /\ mem' = s.m
    /\ regs' = s.g
    /\ num_breakpoints' = s.n

\* breakpoint_disable and breakpoint_enable look the id up, and fail silently.
WithId(s, id, disabled) == WithState(s, {find_bp_with_id(s.b, id)} \ {NULL}, disabled)

----------------------------------------------------------------------------
(* The debuggee.                                                           *)

After(t) ==
    CASE mem[addr[t]] = BL  -> Target[addr[t]]
      [] mem[addr[t]] = B   -> Target[addr[t]]
      [] mem[addr[t]] = RET -> lr[t]
      [] OTHER              -> addr[t] + 1

Traps(t) ==
    \/ mem[addr[t]] = BRK
    \/ ss[t] = 0 /\ \E r \in Regs : regs[t][r] = addr[t]

\* The thread traps on the instruction it was about to execute ...
hit(t) ==
    /\ run = "running" /\ exc[t] = "none" /\ Traps(t)
    /\ exc' = [exc EXCEPT ![t] = "breakpoint"]
    /\ UNCHANGED <<vars, run, verdict, addr, lr, ss, th, focused, sigstop, history>>

\* ... or executes it, and traps after it when it is single stepping.
execute(t) ==
    /\ run = "running" /\ exc[t] = "none" /\ ~Traps(t)
    /\ addr' = [addr EXCEPT ![t] = After(t)]
    /\ lr' = IF mem[addr[t]] = BL THEN [lr EXCEPT ![t] = addr[t] + 1] ELSE lr
    /\ exc' = IF ss[t] = 1 THEN [exc EXCEPT ![t] = "step"] ELSE exc
    /\ ss' = [ss EXCEPT ![t] = 0]
    /\ steps' = IF t = resumed_by.thread /\ steps < 2 THEN steps + 1 ELSE steps
    /\ stuck' = [stuck EXCEPT ![t] = 0]
    /\ UNCHANGED <<vars, run, verdict, th, focused, sigstop, resumed_by>>

\* A pending SIGSTOP is delivered to some thread.
deliver_sigstop(t) ==
    /\ run = "running" /\ exc[t] = "none" /\ sigstop = 1
    /\ exc' = [exc EXCEPT ![t] = "signal"]
    /\ sigstop' = 0
    /\ UNCHANGED <<vars, run, verdict, addr, lr, ss, th, focused, history>>

----------------------------------------------------------------------------
(* The exception server: a batch of exceptions, then the verdict.          *)

batch ==
    /\ run = "running" /\ \E t \in Threads : exc[t] # "none"
    /\ run' = "handling"
    /\ verdict' = 1
    /\ UNCHANGED <<vars, threadvars, sigstop, history>>

\* What handle_exception does for every exception: the thread gets focus, and
\* the batch stops the debuggee once one exception asks for it.
Handled(t, stop) ==
    /\ exc' = [exc EXCEPT ![t] = "handled"]
    /\ focused' = t
    /\ verdict' = IF stop THEN 0 ELSE verdict
    /\ UNCHANGED <<run, addr, lr, sigstop, resumed_by, steps>>

Due(t, kind) == run = "handling" /\ exc[t] = kind

\* By its default settings a SIGSTOP is reported and stops the debuggee.
handle_soft_signal(t) ==
    /\ Due(t, "signal")
    /\ Handled(t, TRUE)
    /\ UNCHANGED <<vars, ss, th, stuck>>

\* Whether the end of a single step stops the debuggee: not when the step only
\* served to get past a breakpoint, nor inside a call that is stepped over.
StepStops(t) ==
    IF th[t].just_hit_breakpoint = 1
    THEN th[t].is_stepping = 1
    ELSE th[t].step_kind = INST_STEP_OVER => th[t].set_temp_ss_breakpoint = 0

StepDone(t) ==
    th' = [th EXCEPT ![t].just_hit_breakpoint = 0,
                     ![t].just_hit_sw_breakpoint =
                         IF th[t].just_hit_breakpoint = 1 THEN 0 ELSE @,
                     ![t].is_stepping = 0,
                     ![t].step_kind = STEP_NONE]

\* Mutant: only the breakpoint just hit is enabled again.
handle_single_step_EnablesOne(t) ==
    /\ Due(t, "step")
    /\ Become(WithId(Tables, th[t].last_hit_bkpt_ID, BP_ENABLED))
    /\ Handled(t, StepStops(t))
    /\ StepDone(t)
    /\ UNCHANGED <<ss, stuck, current_breakpoint_id, allocs>>

\* A single step ends, and every normal breakpoint is enabled again.
handle_single_step(t) ==
    /\ Due(t, "step")
    /\ LET enabled == WithState(Tables, Matching(bps, "BP_COND_NORMAL"), BP_ENABLED)
       IN  Become(IF th[t].just_hit_breakpoint = 1 /\ th[t].just_hit_sw_breakpoint = 1
                  THEN WithId(enabled, th[t].last_hit_bkpt_ID, BP_ENABLED)
                  ELSE enabled)
    /\ Handled(t, StepStops(t))
    /\ StepDone(t)
    /\ UNCHANGED <<ss, stuck, current_breakpoint_id, allocs>>

\* Mutant: the thread is not made to single step past the breakpoint.
handle_hit_breakpoint_NoSingleStep(t) ==
    LET h == find_bp_with_cond(bps, addr[t], "BP_COND_NORMAL")
        step == find_bp_with_cond(bps, addr[t], "BP_COND_STEPPING")
    IN  /\ Due(t, "breakpoint")
        /\ Become(Without(Tables, {step} \ {NULL}))
        /\ Handled(t, {h, step} # {NULL})
        /\ th' = [th EXCEPT ![t].just_hit_breakpoint = 1]
        /\ stuck' = [stuck EXCEPT ![t] = IF {h, step} # {NULL} /\ @ < 2 THEN @ + 1 ELSE @]
        /\ UNCHANGED <<ss, current_breakpoint_id, allocs>>

\* A breakpoint is hit.  A stepping breakpoint is deleted; a normal one stops
\* the debuggee, and is disabled when it is a BRK, which the single step set up
\* here would trap on again.  A BRK meant for another thread is left alone.
handle_hit_breakpoint(t) ==
    LET h         == find_bp_with_cond(bps, addr[t], "BP_COND_NORMAL")
        step      == find_bp_with_cond(bps, addr[t], "BP_COND_STEPPING")
        stepped   == Without(Tables, {step} \ {NULL})
        foreign   == h # NULL /\ ~bps[h].hw /\ t \notin Targets(bps[h])
        reported  == {h, step} # {NULL} /\ ~foreign
        recorded  == reported /\ h # NULL
        software  == recorded /\ ~bps[h].hw
    IN  /\ Due(t, "breakpoint")
        /\ Become(IF software THEN WithId(stepped, bps[h].id, BP_DISABLED) ELSE stepped)
        /\ Handled(t, reported)
        /\ th' = [th EXCEPT ![t].just_hit_breakpoint = 1,
                            ![t].set_temp_ss_breakpoint = IF step # NULL THEN 0 ELSE @,
                            ![t].just_hit_sw_breakpoint = IF software THEN 1 ELSE @,
                            ![t].last_hit_bkpt_ID = IF recorded THEN bps[h].id ELSE @]
        /\ ss' = [ss EXCEPT ![t] = 1]
        /\ stuck' = [stuck EXCEPT ![t] = IF reported /\ @ < 2 THEN @ + 1 ELSE @]
        /\ UNCHANGED <<current_breakpoint_id, allocs>>

\* ops_resume answers every exception and lets the debuggee run.
ops_resume ==
    /\ run' = "running"
    /\ exc' = [t \in Threads |-> "none"]

AllHandled == run = "handling" /\ \A t \in Threads : exc[t] \in {"none", "handled"}

\* Mutant: the server resumes the task and leaves its requests unanswered.
auto_resume_NoReply ==
    /\ AllHandled /\ verdict = 1
    /\ run' = "running"
    /\ UNCHANGED <<vars, verdict, threadvars, sigstop, history>>

auto_resume ==
    /\ AllHandled /\ verdict = 1
    /\ ops_resume
    /\ UNCHANGED <<vars, verdict, addr, lr, ss, th, focused, sigstop, history>>

stop ==
    /\ AllHandled /\ verdict = 0
    /\ run' = "stopped"
    /\ UNCHANGED <<vars, verdict, threadvars, sigstop, history>>

----------------------------------------------------------------------------
(* The commands.                                                           *)

Types(c) == c \in Commands /\ run = "stopped"

Resumed(c, until) ==
    /\ ops_resume
    /\ resumed_by' = [cmd |-> c, thread |-> focused, until |-> until]
    /\ steps' = 0
    /\ UNCHANGED <<verdict, addr, lr, focused, sigstop, stuck>>

cmdfunc_continue ==
    /\ Types("continue")
    /\ breakpoint_delete_all_specific("BP_COND_STEPPING")
    /\ Resumed("continue", 0)
    /\ UNCHANGED <<ss, th>>

Quiet == WithState(Tables, Live \ Matching(bps, "BP_COND_STEPPING"), BP_DISABLED)

\* Mutant: the step is not recorded.
SingleStep_NotRecorded(kind) ==
    /\ Become(Quiet)
    /\ UNCHANGED <<current_breakpoint_id, allocs>>
    /\ ss' = [ss EXCEPT ![focused] = 1]
    /\ th' = [th EXCEPT ![focused].step_kind = kind]

SingleStep(kind) ==
    /\ Become(Quiet)
    /\ UNCHANGED <<current_breakpoint_id, allocs>>
    /\ ss' = [ss EXCEPT ![focused] = 1]
    /\ th' = [th EXCEPT ![focused].step_kind = kind, ![focused].is_stepping = 1]

cmdfunc_step_inst_into ==
    /\ Types("step_inst_into")
    /\ SingleStep(INST_STEP_INTO)
    /\ Resumed("step_inst_into", 0)

\* The instruction at the focused thread's pc, seen through a normal breakpoint.
opcode ==
    LET b == find_bp_with_cond(bps, addr[focused], "BP_COND_NORMAL")
    IN  IF b # NULL THEN bps[b].old_instruction ELSE Quiet.m[addr[focused]]

\* Mutant: a call is stepped over without a stepping breakpoint.
StepOverCall_NoBreakpoint ==
    /\ Become(Quiet)
    /\ UNCHANGED <<current_breakpoint_id, allocs, ss>>
    /\ th' = [th EXCEPT ![focused].step_kind = INST_STEP_OVER]

\* A call is not single stepped: a stepping breakpoint waits for it to return,
\* unless one that was set earlier is thought to be pending.
StepOverCall ==
    /\ IF th[focused].set_temp_ss_breakpoint = 1
       THEN Become(Quiet) /\ UNCHANGED <<current_breakpoint_id, allocs>>
       ELSE /\ allocs < MaxAllocs
            /\ Become(With(Quiet, breakpoint_new(Quiet.b, Quiet.m, addr[focused] + 1,
                                                 TRUE, TRUE, focused)))
            /\ allocs' = allocs + 1
            /\ UNCHANGED current_breakpoint_id
    /\ th' = [th EXCEPT ![focused].step_kind = INST_STEP_OVER,
                        ![focused].set_temp_ss_breakpoint = 1]
    /\ UNCHANGED ss

cmdfunc_step_inst_over ==
    /\ Types("step_inst_over")
    /\ \/ /\ opcode = BL
          /\ StepOverCall
          /\ Resumed("step_inst_over", addr[focused] + 1)
       \/ /\ opcode # BL
          /\ SingleStep(INST_STEP_OVER)
          /\ Resumed("step_inst_over", 0)

cmdfunc_thread_select(t) ==
    /\ Types("thread_select")
    /\ t # focused
    /\ focused' = t
    /\ UNCHANGED <<vars, run, verdict, exc, addr, lr, ss, th, sigstop, history>>

cmdfunc_breakpoint_set(l, t) ==
    /\ Types("breakpoint_set")
    /\ breakpoint_at_address(l, t)
    /\ UNCHANGED <<run, verdict, threadvars, sigstop, history>>

cmdfunc_breakpoint_delete(id) ==
    /\ Types("breakpoint_delete")
    /\ breakpoint_delete(id)
    /\ UNCHANGED <<run, verdict, threadvars, sigstop, history>>

\* The interrupt command turns single stepping off; Ctrl+C only stops.
cmdfunc_interrupt ==
    /\ "interrupt" \in Commands
    /\ ss' = [t \in Threads |-> 0]
    /\ sigstop' = 1
    /\ UNCHANGED <<vars, run, verdict, exc, addr, lr, th, focused, history>>

interrupt ==
    /\ "Ctrl_C" \in Commands
    /\ sigstop' = 1
    /\ UNCHANGED <<vars, run, verdict, threadvars, history>>

----------------------------------------------------------------------------
SteppingInit ==
    /\ Init
    /\ run = "stopped"
    /\ verdict = 0
    /\ exc = [t \in Threads |-> "none"]
    /\ addr = Entry
    /\ lr = Entry
    /\ ss = [t \in Threads |-> 0]
    /\ th = [t \in Threads |-> NewThread]
    /\ focused \in Threads
    /\ sigstop = 0
    /\ resumed_by = [cmd |-> "none", thread |-> focused, until |-> 0]
    /\ steps = 0
    /\ stuck = [t \in Threads |-> 0]

Server ==
    \/ batch \/ auto_resume \/ stop
    \/ \E t \in Threads :
        handle_soft_signal(t) \/ handle_single_step(t) \/ handle_hit_breakpoint(t)

User ==
    \/ cmdfunc_continue \/ cmdfunc_step_inst_into \/ cmdfunc_step_inst_over
    \/ \E t \in Threads : cmdfunc_thread_select(t)
    \/ \E l \in UserLocations, t \in UserThreads : cmdfunc_breakpoint_set(l, t)
    \/ \E id \in Ids : cmdfunc_breakpoint_delete(id)
    \/ cmdfunc_interrupt \/ interrupt

SteppingNext ==
    \/ \E t \in Threads : hit(t) \/ execute(t) \/ deliver_sigstop(t)
    \/ Server
    \/ User

\* The kernel schedules every thread that can run, and the exception server is
\* a thread of iosdbg that never waits for the user.
SteppingSpec ==
    /\ SteppingInit
    /\ [][SteppingNext]_allvars
    /\ \A t \in Threads : SF_allvars(hit(t) \/ execute(t))
    /\ WF_allvars(Server)

----------------------------------------------------------------------------
(* Properties.                                                             *)

\* The type invariant.
SteppingTypeOK ==
    /\ TypeOK
    /\ run \in {"stopped", "running", "handling"} /\ verdict \in {0, 1} /\ sigstop \in {0, 1}
    /\ exc \in [Threads -> {"none", "breakpoint", "step", "signal", "handled"}]
    /\ addr \in [Threads -> Locations] /\ lr \in [Threads -> Locations]
    /\ ss \in [Threads -> {0, 1}]
    /\ th \in [Threads ->
            [just_hit_breakpoint : {0, 1}, just_hit_sw_breakpoint : {0, 1},
             last_hit_bkpt_ID : Nat, is_stepping : {0, 1},
             step_kind : {STEP_NONE, INST_STEP_INTO, INST_STEP_OVER},
             set_temp_ss_breakpoint : {0, 1}]]
    /\ focused \in Threads
    /\ steps \in 0 .. 2 /\ stuck \in [Threads -> Nat]

\* handle_hit_breakpoint gets the thread past the breakpoint it has reported:
\* no thread is reported at a breakpoint twice without having executed an
\* instruction in between, whatever is set, deleted, stepped and selected.
NoRepeatedStop == \A t \in Threads : stuck[t] <= 1

\* Breakpoints that stepping or a hit switched off come back: while the
\* debuggee runs, every normal breakpoint is enabled unless a single step or a
\* stepping breakpoint, which lead to handle_single_step, is still to come.
ArmedWhenFree ==
    /\ run = "running"
    /\ \A t \in Threads : ss[t] = 0 /\ exc[t] = "none"
    /\ Matching(bps, "BP_COND_STEPPING") = {}
    => \A k \in Matching(bps, "BP_COND_NORMAL") : bps[k].disabled = BP_ENABLED

\* The step commands execute one machine instruction of the focused thread
\* (cmd/stepcmd.h), unless it is a call that is stepped over: the thread does
\* not execute a second one before the next command.
StepIsOne ==
    resumed_by.cmd \in {"step_inst_into", "step_inst_over"} /\ resumed_by.until = 0
        => steps <= 1

\* Handlers and commands that change several breakpoints in one go, interrupted
\* at any moment, keep the state well formed, the code the debuggee's own but
\* for enabled breakpoints, and the registers those of the table.
HandlersKeepTables == SteppingTypeOK /\ CodeIntact /\ RegistersMatchTable

\* The end of a single step is always one somebody asked for: the thread got
\* past a breakpoint, or the user stepped.  Otherwise handle_single_step would
\* report a stop nobody expects.
StepIsExpected ==
    \A t \in Threads :
        ss[t] = 1 \/ exc[t] = "step" => th[t].just_hit_breakpoint = 1 \/ th[t].is_stepping = 1

\* step inst-over stops when the call returns: the thread never executes the
\* instruction at the return address under the command that stepped over it.
StepOverStops ==
    [][\A t \in Threads :
        resumed_by.cmd = "step_inst_over" /\ resumed_by.thread = t /\ addr[t] = resumed_by.until
            => addr'[t] = addr[t] \/ run # "running"]_allvars

\* A step command executes what was asked for and no more: one instruction, or
\* one whole call.
StepsAreExact == []StepIsOne /\ StepOverStops

\* Every step command ends with the debuggee stopped, even if it has to run a
\* whole call first.
StepEnds ==
    (run = "running" /\ resumed_by.cmd \in {"step_inst_into", "step_inst_over"})
        ~> (run = "stopped")

\* A thread that trapped, on a breakpoint or at the end of a single step, goes
\* on: the debuggee is stopped for the user, or resumed with an instruction
\* the thread can execute.
ThreadsGoOn ==
    \A t \in Threads :
        (exc[t] \in {"breakpoint", "step"})
            ~> \/ run = "stopped"
               \/ run = "running" /\ exc[t] = "none" /\ ~Traps(t)
=============================================================================
