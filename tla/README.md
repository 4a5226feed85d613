# iosdbg in TLA+

iosdbg is a debugger for arm64 iOS processes, written in C.  This directory
models the parts of it where several threads, the kernel and the user meet, and
the tables those parts keep; TLC checks the models on small instances, and TLAPS
proves the most important invariants for every instance.

Paths of source files are relative to `src/` or, without the directory, to `src/source/`.

## 1. The system

iosdbg runs as one process with these threads:

| thread | code | what it does |
| --- | --- | --- |
| main | `source/iosdbg.c` `inputloop`, `linecb` | reads a line, runs the command, flushes the output pipe; SIGINT runs `interrupt` |
| exception server | `source/servers.c` `exception_server` | receives the debuggee's exceptions, suspends it, decides what happened, resumes it or reports a stop |
| death server | `source/servers.c` `death_server` | waits for the debuggee's exit, then detaches |
| thread monitor | `source/servers.c` `thread_monitor_server` | refreshes the list of threads every second or when one dies |
| trace | `source/trace.c` `trace` | prints the kernel's trace records |

They share `debuggee` (tables of breakpoints, watchpoints and threads, the ports, the
pid), `EXCEPTION_QUEUE` with `NEED_REPLY`, and the output pipe, each under a mutex of its
own, and the debuggee itself: its suspend count, its code, its debug registers.

| component | state | operations | what is hard | what makes it correct |
| --- | --- | --- | --- | --- |
| breakpoints (`breakpoint.c`) | list, ids, counter; BRK words; debug registers | set, hit, delete, disable, enable, one or many | two breakpoints at one address, registers that run out, temporary breakpoints that share ids | code and registers hold exactly the enabled breakpoints; nothing is left behind |
| exception server (`servers.c`, `dbgops.c`, `handlers.c`) | port, two queues, `NEED_REPLY`, suspend count | receive, gather, handle, reply, suspend, resume | main replies, frees and resumes while the server works | a stop is a stop; every exception is answered once; no request is used after it is freed |
| exception handling and stepping (`exception.c`, `cmd/stepcmd.c`) | per-thread flags, MDSCR, temporary breakpoints | hit, single step, watchpoint hit, signal, step into, step over, continue | flags that survive an interrupted step | every step ends, every breakpoint is re-armed, no thread is stuck on a BRK |
| threads (`thread.c`, `dbgops.c`) | list of threads, focus, ids | refresh, focus, adjust breakpoints of dead threads | births and deaths between two refreshes | new threads get the breakpoints for all threads; breakpoints of dead threads go |
| locks (`breakpoint.h`, `watchpoint.h`, `thread.h`) | three mutexes | iteration macros | macros that do not lock, opposite orders | mutual exclusion, no deadlock |
| session (`cmd/misccmd.c`, `servers.c`, `dbgops.c`) | pid, ports, server threads | attach, detach, kill, quit, death | death against detach, attach soon after detach | one set of servers, one detach per attach |
| watchpoints (`watchpoint.c`) | list, registers, data | set, hit, delete | byte-address-select arithmetic | the watched bytes are the ones asked for |
| output (`dbgio.c`) | pipe, lock | append, flush | a full pipe | output is whole, and no deadlock |
| tracing (`trace.c`) | flags | start, stop, wait | busy waiting on a suspended debuggee | stop terminates |
| convenience variables (`convvar.c`), expressions (`expr.c`, `stack.c`) | list of variables; two stacks | set, unset, evaluate | failing updates, precedence, overflow, pops of nothing | agree with a grammar; a variable shows what it was set to |
| registers (`reg.c`, `cmd/regcmd.c`) | cached thread and NEON states | view, write, refresh | stale caches, partial views of one register | a write changes its register and no other |
| command parsing (`cmd/cmd.c`, `cmd/completer.c`, `cmd/argparse.c`, `cmd/audit.c`, `cmd/documentation.c`) | the current match, the last line | line, TAB, help, repeat | matches that TAB leaves behind, words that occur twice | the command that runs is the one typed, with its arguments |
| location expressions (`symbol/dexpr.c`) | a stack | one case per DWARF operation | operand order, signs, offsets | agree with the value they describe |
| symbols (rest of `symbol/`), memory commands, strings | parsed files | lookups, printing | data formats and libraries | not modelled |

The hazards of the code, each with the line where it bites and the properties that watch
it, are listed in `PROJECT.json`.

## 2. Modules

| module | models |
| --- | --- |
| `Breakpoints`, `BreakpointsProofs` | `breakpoint.c` with the debuggee's code and debug registers, and theorems about it |
| `ExceptionServer`, `ExceptionServerProofs` | `servers.c` `exception_server`, `dbgops.c` `ops_resume`, `ops_suspend`, the resuming commands, and theorems |
| `Stepping` (extends `Breakpoints`), `SteppingProofs` | `exception.c` `handle_exception`, `cmd/stepcmd.c`, continue, interrupt and Ctrl+C, and a debuggee that executes, and theorems |
| `Threads`, `ThreadsProofs` | `thread.c`, `dbgops.c` `ops_threadupdate`, with the breakpoints and watchpoints of threads that come and go, and theorems |
| `Session`, `SessionProofs` | attach, detach, kill, quit and death, and the three server threads of each session, and theorems |
| `Console` (implements `Output`), `ConsoleProofs` | `dbgio.c`, `inputloop`, `trace.c`, the list locks, and Ctrl+C, across four threads, and theorems, the refinement among them |
| `Output` | what the output pipe promises: messages whole, once and in order |
| `Commands`, `CommandsProofs` | `cmd/cmd.c`, `completer.c`, `argparse.c`, `audit.c`, `documentation.c` and `linecb`, and theorems |
| `Numbers`, `Expr`, `ConvVars`, `Registers`, `LocationExpr`, composed in `Evaluator` | `expr.c` and `stack.c`, `convvar.c`, `reg.c`, `symbol/dexpr.c`, and the commands that use them |
| `MCBreakpoints`, `MCExceptionServer`, `MCStepping`, `MCThreads`, `MCSession`, `MCConsole`, `MCCommands`, `MCEvaluator` | instances for TLC |

Operators whose name is that of another operator with a suffix, under the comment "Mutant",
are plausible mistakes in the code they stand for; each breaks the property `PROJECT.json`
pairs it with, and no specification uses them.

### Breakpoints

`debuggee->breakpoints` is a linked list to which nodes are appended and from which they
are unlinked.  It is modelled as a function `bps` from node numbers, given in order of
creation, to records with the fields of `struct breakpoint`; "the first node that ..." is
the least number that ....  `mem` is the debuggee's code, one word per address, and
`regs[t][r]` is breakpoint register `r` of thread `t` (`Off` when DBGBCR is 0, else the
address in DBGBVR).  Each function of `breakpoint.h` that has a caller is one action.
`bp_set_state_internal`, which all of them end in, is the three operators `TableAfter`,
`MemAfter` and `RegsAfter`, applied to the set of nodes the operation is about; where
several nodes write the same word, the last one in list order wins.

The module leaves the calls in any order: it is the table under its most general client.
Left out: `hit_count` and the thread name, which are only printed;
`breakpoint_disable_all` and `breakpoint_enable_all`, which nobody calls; births and deaths
of threads (`Threads` has them); misaligned addresses; failures of the Mach calls (`read_memory_at_location`
reports success whatever happened, so the error paths after it are dead code).

### ExceptionServer

`pc` says where main and the exception server are.  Debuggee threads raise exceptions
while the suspend count is 0; a raised exception is a message in the exception port, and its
thread is blocked until someone replies to that request.  Requests are numbered in the order
they are sent.  The server's loop is one action per step between which another thread can
act: receive, look at the suspend count, suspend, enqueue, gather, handle each request,
resume, report.  `ops_resume` is shared by both threads (`ops_resume(p)`): the replies go out
one by one with the mutex held, then the task is resumed without it.  What kind of exception
a request is, is not modelled here: `handle_next` takes either verdict.

`Patient` says what kind of user there is.  With `Patient = 1` the user types a resuming
command only when the debuggee is suspended and everything that happened has been reported,
and presses Ctrl+C only while the debuggee runs.  With `Patient = 0` commands and Ctrl+C come
at any time; this is what the code allows (`linecb` repeats the last command on an
empty line, and `step` never looks at the suspend count).

### Stepping

The debuggee's threads execute a small program in `mem`, BRK words included; `addr`, `lr` and
`ss` are a thread's program counter, link register and single step bit, and `th[t]` holds the
fields of `struct machthread` that stepping uses.  A thread traps (`hit`), executes (`execute`)
or is given a pending SIGSTOP (`deliver_sigstop`).  The server takes up whatever has been raised
as one `batch`, handles each exception by one action (`handle_hit_breakpoint`,
`handle_single_step`, `handle_soft_signal`), each the whole of what `handle_exception` does in
that case, and then stops or resumes.  The order within a batch is left open.  A handler or a command that changes several breakpoints
is one action over a record of the table's state (`Tables`, `WithState`, `With`, `Without`),
built from the operators of `Breakpoints`.

Assumed of the processor and the kernel, because the code relies on it: a breakpoint register
does not match while the thread single steps, BRK always traps, and the end of a single step
clears the bit.  Commands come while the debuggee is stopped (what happens otherwise is
`ExceptionServer`'s subject), interrupts at any time.  `thread select` selects another
thread than the focused one, and the thread monitor has refreshed its registers.
`is_branch` is taken to recognise a call.  `just_hit_ss_breakpoint` is written and never decides
anything, and is left out.  `resumed_by`, `steps` and `stuck` are history variables for the
properties.

### Threads

`alive` is what `task_threads` would return, `threads` is `debuggee->threads`, whose positions are
the numbers the user sees.  The thread monitor takes a snapshot of the ports (`get_threads`), rebuilds
the list from it (`update_thread_list`: structs are thrown away and made again, and what an exception
left in the old ones is carried over by port), repairs the focus (`check_focus`, `refocused`), and moves
breakpoints and watchpoints of a single thread to its new number or deletes them
(`adjust_breakpoints`, `adjust_watchpoints`).  Threads are born and die between any two of these steps.

The focus is changed by `thread select` in main, by the exception server and by the monitor, all through
`set_focused_thread`, which takes the lock for each of its two lookups and writes the two flags without it.  It is
four actions, `find_prevfocus`, `find_newfocus`, `give_focus` and `take_focus`, run by each of the three callers at its own
pace (`call`).  The structs it holds pointers to may be freed by a rebuild in between; the pointer dangles then, and a write
through it hits any struct of the new list or none.  The same holds for what an exception or a step command records in the
struct it works on (`Record`).  `thread select` and the step commands dereference the focused thread
without a test, and `up` says that it was not NULL so far.

Breakpoints and watchpoints are treated alike by the code that is modelled here, so they are one record `Point` with a
`kind`, and the two lists one set `points`, which the code searches by register, id and thread only; a point is in its registers
before it is in its list (`point_new`, `point_link`), as in `watchpoint_at_address`.  Points are hardware ones.  A step
command disables the breakpoints and a single step that arrives enables them again (`set_state_all`).

Four history variables serve the properties: `clash` says that two changes of the focus overlapped since the last rebuild, `recorded` what
was last recorded for a thread, `rearmed` that an update wrote a disabled breakpoint to a register, and `raced` that a command or
an exception changed the points while the monitor was at work on them.

### Session

`attach`, `ops_detach` (in four steps, which main and a death server run alike, `OpsDetach(c)`), `kill`
and `quit`; and for each session the three servers, each at the grain of what it waits for.  Ports are
named by the session that made them.  A server of an old session looks at the same globals as that of a
new one.  Main attaches in the order of the code: pid and task (`attach`), the lists (`attach_lists`), the servers
(`setup_servers`), `ptrace` (`attach_ptrace`).  Failures that the code handles are steps: an attach whose name lookup fails
(`attach_name_fails`, `misccmd.c:161`), which leaves pid and task set and the debuggee suspended and which `failed` remembers, an attach that returns before `ptrace` (`misccmd.c:238`), a `PT_DETACH` that fails
and is repeated (`dbgops.c:116`).  `raced` records that two threads tore a session down at once, or that the user
attached again before the servers had stopped.

### Console and Output

Main, the exception server, the thread monitor and the trace thread, each with its place in the code
(`pc`), three mutexes, the pipe as a sequence of pieces of text and end marks that holds `Capacity` of them, and
Ctrl+C, whose handler runs in main wherever main is and cuts a blocked read or write short because it is
installed without `SA_RESTART`.  A command is the messages it prints and the locks it takes.

`Output` is the abstract specification: a message is appended as a whole, messages are shown as a
whole in the order they were appended; when a signal cuts a message in two, the framing is lost for good
(`broken`).  `WholeInOrder` says that `Console` implements it; the mapping is the identity on `sent`, `shown` and
`broken`, and the pipe, the locks and the threads are hidden.

### Commands

The table of commands is that of `initialize_commands`, all of it.  Words are names, and what a word
abbreviates is the constant `Abbr`.  A line is resolved as `do_cmdline_command` does: aliases are expanded, each word
is padded so that it is unlike the others, and the completer is asked about each; `match` is
`CURRENT_MATCH_INFO`, which TAB fills as well.  `linecb` is the whole of a line, up to the audit and the
function that runs.  The words left over are the arguments.  A regular expression is modelled by its groups: the class of words
each takes, whether it is optional, and the option that has to stand before it, with the place a match may begin at; which words are in a
class is the constant `Class`.  `pcre2_match` finds the match that the library's search comes to first.  `parse_and_create_args` gives each
group its text, NULL for a group that took no part, wherever it stands, and goes on behind the last match for a last group
that repeats; `argdup` turns each queue round for the audit.  A class takes a word as a whole or not at all,
arguments are not quoted, and the type of a watchpoint keeps its dashes.  What an audit says about the values of arguments is a free choice
(`objection`); that it asks for a debuggee is not.

### Numbers, Expr, ConvVars, Registers, LocationExpr, Evaluator

`Numbers` has longs and their text.  `Expr` is the two-stack evaluator over tokens, `Reference` a grammar for the same language, which
also compiles an expression for the stack machine of `dexpr.c`.  `long` has `Bits` bits; overflow and the
clamping of `strtol` are kept.  `ConvVars` is the list of variables; a value that is set is one of the
classes of text that `determine_kind` and `strtol`/`strtod` tell apart, and a string that is used in an expression
puts its text there (`StringText`), as `convvar_strval` does.  `Registers` has one general register, `pc`,
`fpsr` and one vector register, with the names that are views of part of them, the thread's own
state, and iosdbg's cached one.  `LocationExpr` is the loop of `decode_location_description`.
`Evaluator` lets the user type expressions token by token, evaluate them, set variables and write
registers, while the debuggee runs and stops.

## 3. Runs

| run | question | result |
| --- | --- | --- |
| `breakpoints` | do table, code and registers agree after any sequence of calls? | holds |
| `exception_patient` | is exception handling right for a user who waits for a stop to be reported? | holds, liveness included |
| `stepping_hardware` | do two threads get past hardware breakpoints, whoever is handled first? | holds, and no thread is kept there |
| `stepping_over` | does step over end, and at the return address? | holds while nothing stops the callee |
| `stepping_interrupts` | do code, registers and table agree with every command and interrupt? | holds, and no single step comes unasked |
| `threads` | do focus, records, breakpoints and watchpoints stay with their threads while the list is rebuilt and three threads change the focus? | holds, the focus where no two changes of it overlap; what slips in during an update is put right by a later one |
| `session` | is a session whole or gone, its queue its own? | holds where no two threads tear it down at once, but for an attach that failed halfway |
| `session_live` | do the servers stop, is a death noticed, does detach return? | holds, but for the two loops in section 5 |
| `session_own` | does a death server leave other sessions alone? | no: one that wakes up late tears down the new session |
| `console` | is output whole and in order, are locks granted, does a trace stop? | holds, but for three hangs, which are named and shown to be permanent |
| `commands` | does the command that was typed run, with its arguments? | holds, whatever TAB left behind |
| `evaluator` | do expressions, variables, registers and locations mean what they say? | holds within the limits in section 5 |

A type invariant is part of the first invariant of the runs of the modules that came later (`ThreadListOK`,
`SessionOK`, `PipeOK`, `CommandsOK`, `VariablesOK`,
`EvaluationFollowsGrammar`, `HandlersKeepTables`).  For `Breakpoints` and `ExceptionServer`
it is proved for every instance, as are `OldInstructionIsOriginal`, `CleanWhenEmpty`, `UserIdsDistinct`,
`CountMatchesList` and `QueuedIsDue`, and no run repeats it.

What the passing runs assume of the user is in the constants of their configurations, or in the history
variables `raced` of the properties, and it is needed: section 5 has what happens otherwise.

Bounds.  `breakpoints`: two addresses, two threads, two registers and four creations, so that both
kinds of breakpoint, two breakpoints at one address, thread-specific and stepping breakpoints, and freed
registers that are taken again all occur.  `stepping_*`: a program with a call in a loop, one or two
threads, two to four breakpoints, enough for a user breakpoint and a stepping one, in hardware and in memory, to
meet at every address of the call.  `exception_patient`: two threads and up to five requests, enough for batches
of two and for two batches in a row, with Ctrl+C of both kinds.  `threads`: three threads (one dies, one
moves to its number, one is new), one register of each kind, two points, which may be of one kind so that the register is
freed and taken again.  Not all of it happens in one behaviour: `MCSizes` has two points with deaths and no change of focus, one
point with one or two changes of the focus or steps, and two such changes with births and with deaths, which is what it takes for
two callers to overlap with a rebuild in between.  `session`: two processes and two sessions, so that servers of the first meet the
second; `session_live` has one of each, and what it says is about one session.  `console`: a pipe of three
pieces and messages of up to two, so that one message fits and two jam it; one message of each thread
besides those of commands, one line of the user and one Ctrl+C, which reach each of the three hangs.  `commands`:
twenty-five words, unique, ambiguous, equal to an argument, aliases, options, numbers and nonsense, twenty-three lines, with optional
groups given and left out, options where they count and where they do not, and repeated groups, and twelve places for TAB, in any order and number.  `evaluator`: `long` has six bits, so that products and negations
overflow; expressions of seven tokens where variables are as at the start, of three after commands that
change them; every sequence of three tokens that the grammar refuses; four commands.

Fairness.  In `Stepping` the kernel schedules every runnable thread of the debuggee (`SF`, because
each batch of exceptions suspends them all for a while), and the server goes on (`WF`); nothing is assumed of
the user.  In `ExceptionServer`, `Threads` and `Session` the threads of iosdbg are fair (`WF`): servers loop and a
command, once started, goes on; nothing is assumed of the user or of the debuggee.  In `Console` main, the
exception server and the thread monitor have `SF`: a mutex that is free again and again is had in the end,
and a pipe that has room again and again takes the rest of the message; the trace thread, which takes no lock, has `WF`.

Deadlock is checked in the runs of `Breakpoints`, `ExceptionServer` and `Stepping`.  The others set
`CHECK_DEADLOCK FALSE` because the program ends: `quit`, a NULL that is dereferenced
(`Threads`), or a hang (`Console`); in `Evaluator` the number of commands is bounded.  What must not stop there is said
by the temporal properties.

## 4. Proofs

Eight modules hold theorems.  Each is about the specification that TLC runs (`ValuesProofs` about two
components of the one it runs), and for every value of
its constants that satisfies the `ASSUME`s of the module; TLC evaluates those on every run.  The inductive
invariants were checked by TLC on the runs' instances before they were proved.

| module | theorems (and the definition they establish) |
| --- | --- |
| `BreakpointsProofs` | `RegistersNeverShared` (`HWRegsDistinct`), `NoStrayBRK` (`CodeIntact`), `RegistersSayTable` (`RegistersMatchTable`), `OriginalInstructionKept`, `DetachLeavesNothing`, `IdsAndCount`, `TypeCorrect` |
| `ExceptionServerProofs` | `NeverRepliedTwice` (`RepliedOnce`), `NothingLost` (`NoLostRequest`), `NothingUsedAfterFree` (`NoUseAfterFree`), `StopsAreStops` (`StopMeansStopped`), `EverythingAnswered` (`RunningIsAnswered`, `QueuedIsDue`), `TypeCorrect` |
| `SteppingProofs` | `HandlersAreSound` (`HandlersKeepTables`), `StepsAreExpected` (`StepIsExpected`), `BreakpointsComeBack` (`ArmedWhenFree`), `HardwareHitsOnce` (`NoRepeatedStop`), `StepsExecuteExactly` (`StepsAreExact`) |
| `ThreadsProofs` | `OneThreadFocused` (`ThreadListOK`), `PointsAreFollowed` (`PointsFollowThreads`), `EveryThreadIsArmed` (`AllThreadsArmed`), `UpdateLosesNothing` (`RebuildLosesNothing`) |
| `SessionProofs` | `SessionIsWhole` (`SessionOK`), `QueueIsOwn` (`QueueOfSession`) |
| `ConsoleProofs` | `PipeIsRead` (`PipeOK`), `ConsoleImplementsOutput` (the refinement `WholeInOrder`), `HangsAreForGood` (the action property `HangsStay`) |
| `CommandsProofs` | `LinesDoWhatTheySay` (`CommandsOK`), `StaleMatchDoesNoHarm` (`StaleMatchHarmless`), `ArgumentsReachCommands` (`ArgumentsIntact`) |
| `ValuesProofs` | `WrittenIsShown` (`ViewShowsWritten`), `OthersAreKept` (the action property `WriteKeepsOthers`), `VariablesShown` (`VariablesOK`) |

`Breakpoints`: for every set of addresses, instructions and threads and every number of registers and of
breakpoints.  The inductive invariant `IInv` is type correctness with `HWRegsDistinct`,
`OldInstructionIsOriginal`, `CodeIntact` and `RegistersMatchTable`: the code is
restored right only if the recorded instructions are the originals, those are right only if
memory is the original where no breakpoint is set, and a register can be switched off only
if no other breakpoint owns it.  It is stated of values (`Sound(b, m, g, n)`), not of variables, so
that a handler of `Stepping` that changes the table several times in one step can be followed
change by change; every change is a creation, a deletion or a change of state, with one lemma each
(`CreateKeeps`, `DeleteKeeps`, `SetStateKeeps`).  Ids and the counter have an invariant of their own
(`Counted`).

`ExceptionServer`: for every set of threads and every number of exceptions.  `QInv` (for every user) says
where a request can be: in the port, in the server's hands, in `EXCEPTION_QUEUE` or freed, never
in two of these places and never twice in a queue; each action moves one request, and there is a
lemma for each move (`SendStep`, `ReceiveStep`, `EnqueueStep`, `ReplyStep`).  `PInv` (for a patient
user, a hypothesis of the three theorems that need it; section 5 has what happens otherwise) adds that
main and the server never work at the same time, that a batch being handled is still unanswered, and that
the debuggee is suspended from `ops_suspend` to the resume.

`Stepping`: for every program, set of threads, number of registers and choice of commands.
`ProgramAssumption` says that the debuggee does not run off the end of its code, `UserAssumption` that
breakpoints are set in it, `LocationsAreWords` that nothing is at address 0, which iosdbg uses for "no address" and
which is never mapped.  `SteppingInv` adds to the invariant of the table what the threads' flags are
and that a trap of a single step has cleared its bit (`AnsweredInOrder`), without which `StepIsExpected` is
not inductive.  Two theorems have a hypothesis, because the code breaks the property otherwise, as
section 5 describes.  `OnlySingleSteps` (no step over, no interrupt command) is for `ArmedWhenFree`: a step over that is
cut short leaves breakpoints disabled.  `Undisturbed` (no BRK in the debuggee's own code, a register for every
breakpoint, no interrupt command) is for `NoRepeatedStop`: a BRK that another thread's step enables again is
hit twice.  The runs that check the two properties are instances of these hypotheses.

`StepsExecuteExactly` follows a step from the command to its report.  `SingleInv` says of a single step that is
under way that its bit is set and nothing has been executed, or that it has trapped; `CallInv` says of a call
that is stepped over that an enabled stepping breakpoint waits at the return address, through every hit of another
thread that disables and enables breakpoints in between, and that the thread does not arrive there single stepping.
Three things break this in the code and are the hypotheses of the theorem.  `StepsUndisturbed`: the interrupt command
turns the single step off, and a thread that runs into a BRK set for another thread only is not
reported and takes the stepping breakpoint at that address with it.  `StepsFromRest`: the user does not type
`step inst-over` for a thread that stopped inside a call it was stepping over, whose `set_temp_ss_breakpoint` is still
set (section 5).  Ctrl+C is allowed.  The last is about what is typed, so it is a temporal hypothesis
beside the specification; every state of `stepping_over`'s instance satisfies it, and TLC checked the invariants with
two threads, Ctrl+C and `thread select` as well.

`Threads`: for every number of threads, registers and points.  A port is never used again and
threads keep their order, so that, as long as nobody has died, the n-th thread has port n (`AliveInv`, `SnapshotInv`,
`ListInv`); this is why the code's test for a new thread by the length of the list is right then and only
then (`ArmedInv`).  `FetchInv` relates the list to the snapshot it will be built from, and
`PlacedInv` with `NoStray` says where each point is while an update is half done: a point that the
update has not come to yet (`Unadjusted`) has its thread's old number and is still found by its tid.  All
of the parts about points are conditional on `~raced`, as the properties are.  `HeldInv` says which pointer a caller holds
at each step of `set_focused_thread` and whose struct it points to unless it dangles, and `HistoryInv` that without a clash only one caller is
changing the focus; from these `FocusInv` says, for each step that caller can be at, who has the focus:
nobody but `prevfocus` before the first write, it and `newfocus` between the two, `newfocus` alone after them.  `RecordInv` relates
`recorded` to the structs, and carries over a rebuild because the list has one struct of a port (`FromPort`).

`Session`: for every set of processes and number of sessions.  `Calm` says, of states without a race, that main
is alone while it is in a command, which parts of a session there are at each step of a teardown,
that only the session's own exception server is running, and that the queue is the one it made.  Its conjunct `Parts` also
says that after a failed attach there is nothing but pid and task, at every place main can be at until iosdbg crashes.

`Console`: for every capacity, sizes of messages and commands.  `LockInv` is mutual exclusion: a
lock's holder is the thread between taking and releasing it.  `OutputInv` describes the pipe by the places
`e[i]` of its end marks: between two of them are exactly the bytes of one message that was appended
and not shown, and behind the last one what the current writer has written so far.  From it every `io_append`
maps to a stutter but for the write of its end mark, which is `Append_message`, and the read of `io_flush`
maps to `Show_next`; a signal that cuts a call short maps to `Break`.

`Commands`: for every vocabulary, every set of lines and every text before a TAB.  `WordAssumption` says what
abbreviation is: names are those of the tree, a full name abbreviates itself, the empty text abbreviates everything, no word of
a line is empty.  The proof follows `do_cmdline_command`: the padding tells tokens apart (`PaddedFacts`), so the completer finds for the
ith word what the tree has at that level (`MatchIs`, `CompletionIs`); the loop stops at the first word without a match
(`LoopResult`) and so agrees with the reference `Meaning` (`LoopAgrees`); and from each of the four ways it
can end, `prepare_and_call_cmdfunc` does what the properties say, whatever the match that was left
before (`OutcomeHarmless`, `OutcomeFollows`).  For the arguments, a match puts its groups
behind one another (`MatchPlaced`, `TextIs`), the search has a first match if it has any (`SearchIs`), and the rounds of a group that
repeats begin where the one before ended (`LoopIs`, `RoundIs`).  So every value is a run of typed words at a place that rises with group and round
(`ParsedIs`, `ValuesInOrder`, `InOrder`); a word that fits the last group is a match by itself and cannot be passed over
(`WordMatches`, `AllTaken`), unless it belongs to an option; a match has all required groups (`RequiredParsed`) and an option in front is tried
first (`OptionFirst`).  `argdupKeeps` says that as many rounds as a queue has values turn it all the way round (`Turned`,
`TurnsByOne`).  The recursive functions are compared with what they should be at the least place where
they could differ (`NoneLeft`, `Recursion`).  That no expression repeats a group
it does not have (`CmdShaped`) is read off the table of `initialize_commands`.

`ConvVars` and `Registers` (in `ValuesProofs`), for every width of a long, every set of names and all texts
and values that are typed.  The theorems are about `RegistersSpec` and `ConvVarsSpec`; every step of
`Evaluator` is a step of `RegistersNext` or leaves the registers alone, and the same with `ConvVarsNext`.
`PowerAssumption` has the three facts about powers of two that the provers lack (a long is two ints wide and
even).  For the registers, `SetregStores` follows each conversion of `setreg` through the stored bits back to
what `regtol` prints (`LowHalf`, `VectorHolds`, `BytesStored`: the digits of a number in base `Half`), and
`CopyIsCurrent` says that the copy is the thread's state as long as a written value must still be shown;
without it, storing the whole copy back could undo a write.  For the variables, `VariablesShowWhatWasSet` is
inductive only with `NoTwins` (one entry of a name is not freed, so that the entry that is set is the one that
is shown) and `Listed` (a name that was ever set is in the list, so that `variable unset` finds it).  What
happens to a freed entry stays open (`held`), as in the code.

Only model-checked:

- liveness under fairness (`AnsweredOrStopped`, `StepEnds`, `ThreadsGoOn`, `PointsSettle`, `ServersStop`,
  `DeathIsNoticed`, `DetachEnds`, `MessagesShown`, `ListLocksGranted`, `TraceStops`), which is out of the prover's reach;
- what `Expr` and `LocationExpr` compute (`EvaluationFollowsGrammar`, `LocationsOK`): their evaluators and
  the grammar are `RECURSIVE` operators over data of any depth, which is out of the prover's reach too;
- `OwnSessionOnly`, which is false.

## 5. What the code does where the properties stop

These are behaviours of the code that the properties except by name or by the bounds of a run.  Each was
found with TLC; the way to see it again is in parentheses.

Breakpoints and stepping:

- Deleting or disabling one of two software breakpoints at one address restores the instruction under the
  other, which stays enabled and never fires, `breakpoint.c:266` (`EnabledSoftwareArmed` as an invariant of
  `Breakpoints.cfg`).
- A stepping breakpoint that is left pending has the id of the next user breakpoint and comes before it
  in the list; the comment at `breakpoint.c:152` knows of it.
- A breakpoint in the called function stops a step over; after `continue` the next step over sets no
  breakpoint, because `set_temp_ss_breakpoint` is stale, and runs past the return address, `stepcmd.c:44` (`UserLocations` of
  `SteppingOver.cfg` with 4).
- A hardware and a software breakpoint at one address: only the first is looked at, the BRK stays, and the
  thread is stopped there again and again; with two threads and no hardware registers the end of one thread's
  single step enables the BRK another has yet to step past (`NoRepeatedStop`, the latter with `NumHW = 0`).
- A thread that runs into a software breakpoint set for another thread traps on the BRK for ever,
  `exception.c:171` (`ThreadsGoOn` with `NumHW = 0`, `Entry <- MCApart` and `UserThreads` a single thread).
- An interrupted step over leaves the breakpoints that `prepare` disabled as they are (`ArmedWhenFree`
  with `"Ctrl_C"` in the commands).

A user who does not wait (`Patient = 0` in `ExceptionPatient.cfg`): `continue` while the server gathers or handles frees a request the
server is about to handle, `dbgops.c:70` (`NoUseAfterFree`); a request gathered after main cleared `NEED_REPLY`
is never answered, `servers.c:85` (`AnsweredOrStopped`); a command resumes between the server's look at the
suspend count and its report (`StopMeansStopped`).  `RepliedOnce` and `NoLostRequest` hold for such a user too, and are proved for every user.

Threads:

- `thread select` of the thread that has the focus gives it the focus and takes it away again, `thread.c:539`; no thread is focused and
  the command dereferences NULL, `cmd/tcmd.c:58` (`up` as an invariant of `Threads.cfg`).  A step command that finds no thread focused does the
  same, `cmd/stepcmd.c:22`.
- Two changes of the focus that overlap, by `thread select`, an exception and the monitor's choice of thread 1, leave two threads
  focused or none, until a rebuild keeps the last of them; a change that overlaps a rebuild writes to freed structs, `thread.c:530-539`
  (`OneFocused` without its premise `~clash`).  An exception may then be handled on another thread than its own, as may one of a
  thread the list does not have yet, `exception.c:264` (`FocusFollowsException`).
- A thread that comes in the place of one that died is not taken for new and misses the
  breakpoints for all threads, `thread.c:486` (`NewThreadsArmed`).
- A step disables the breakpoints, but their control words keep the enable bit: an update that meets a new thread, `thread.c:494`, or moves a
  breakpoint, `dbgops.c:242`, arms them all the same, and one that is deleted or enabled later is right again only on the threads that are
  listed (`DisabledAreOff`, or `PointsFollowThreads` without `rearmed`).  The same code indexes the registers with
  `hw_bp_reg`, which is -1 for a software breakpoint, without looking; points are hardware ones here.

Session: the finding of `session_own`.  An attach by number whose name cannot be found returns after pid and task were set and the debuggee was
suspended, `misccmd.c:161`.  There are no lists and no servers, the debuggee stays suspended, another attach asks whether to detach first, and `detach`, `kill`
and `quit` all delete the breakpoints of a list that is NULL and crash (`AttachedIsWhole` without `~failed`; `FailedAttachStays` says
that it stays, and `Running` is false after the crash).  An attach within the second in which the servers of the last session stop lets the old
exception server go on with the new port (`QueueOfSession` without `~raced`).  A process that dies before `setup_servers` has registered for its death is never
noticed, since the failure of that call is ignored, `servers.c:251` (the premise of `DeathIsNoticed`).  The gather loop ends only on a timeout, and spins when the port is gone,
`servers.c:71`.  Detach loops for ever for a process that has died or was never attached to with `ptrace`, `dbgops.c:116`.

Console: a thread that writes to a full pipe holds the lock that main, the only reader, needs, `dbgio.c:42`;
`watchpoint delete` and the thread monitor take two locks in opposite orders, `watchpoint.c:226` and `thread.c:500`;
`stop_trace` waits for a trace thread that waits for the debuggee to be resumed, or that was not made yet,
`trace.c:178`, `trace.c:300`.

Commands: an empty line before any other runs the command TAB last matched, `iosdbg.c:379`.  `linecb` takes the length of
NULL at the end of input, `iosdbg.c:377`.  Arguments: nothing says that an expression takes all that was typed.  `watchpoint delete 1 x 2` deletes 1
only, since an expression that requires nothing matches nothing behind its first match; for the same reason `variable print $a $b` shows `$a`
only.  `breakpoint set a --t 1 b` takes `--t` and `1` for locations or drops them, since options count in front only.  `watchpoint set --t 1 4` has no thread but
the type `t`.  `help step inst-over` looks for `step inst`, since a hyphen ends the name.

Evaluator: `LONG_MIN` and registers with the top bit set are clamped by `strtol` on their way through text; a hexadecimal
number that ends in a letter is not multiplied with the parenthesis behind it, `expr.c:221`; an unknown variable
is removed from the expression without a word; `$sum` is read as `s0`; with fewer than 16 bytes the
first byte given for a `q` register is repeated; a negative value written to a `w` register is
extended to the `x` register; a register write stores the general and the vector registers back, and after an exception, which fetches only
the general ones, it puts the vector registers back to what they were before the thread ran, `reg.c:455` and `exception.c:277` (`WriteKeepsOthers` without its premises
about `ran`); a failing update of a variable frees it in place, `convvar.c:184`, and what it shows
after that is undefined (`held` chooses).  In `dexpr.c` `deref` pushes without popping, `bra` does not pop its condition,
offsets of `skip` and `bra` count operations, 0 and -1 loop for ever, and the stack pointer is not checked against 0.

## 6. Plan

The modules and proofs of the first plan are written, and every safety property that the provers can reach is
a theorem.  What is left is watchpoint hits in `Stepping`, and the settings of signals other than SIGSTOP.

## 7. Not modelled

Symbols and DWARF apart from location expressions, disassembly, memory commands and formatting: they read
data and print it, through libraries (libdwarf, capstone-style tables), and keep no state a later step depends on.
PCRE and readline are modelled from how they are used: the first match of an expression whose groups take words as a whole, a completer that is
asked again at the second TAB; characters within a word, and quotes, are not.  Watchpoint hits, the byte address select bits, and the settings of
signals are tables and arithmetic without a step of anyone else in between.  The breakpoint list's traversal
without its lock (`breakpoint.h:8`) would need the list at the grain of nodes.  The kernel is modelled only as far as
iosdbg uses it: suspend counts, exception messages and their replies, debug registers, memory words, ports
and notifications, `ptrace`.
