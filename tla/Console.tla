------------------------------ MODULE Console ------------------------------
(***************************************************************************)
(* What the threads of iosdbg wait for while it runs: the input loop of    *)
(* main and its SIGINT handler (source/iosdbg.c), the pipe every message   *)
(* goes through and its lock (source/dbgio.c), the locks of the watchpoint *)
(* and thread lists, and the flags by which a kernel trace is started,     *)
(* stopped and waited for (source/trace.c).                                *)
(*                                                                         *)
(* Four threads: main, the exception server `es', the thread monitor `tm'  *)
(* and the trace thread.  A message is a number of units of its writer,    *)
(* followed by ETX; the pipe holds Capacity units and a write that finds   *)
(* it full waits.  The handler runs on main, wherever main is.             *)
(***************************************************************************)
EXTENDS Integers, Sequences

CONSTANTS
    Capacity,    \* how much the pipe holds
    MaxLen,      \* bound: the longest message
    MaxMsgs,     \* bound: the servers start no message after this many
    MaxLines,    \* bound: how many lines the user enters
    MaxSignals,  \* bound: how often the user hits Ctrl+C
    Commands     \* the commands the user enters

ASSUME SizeAssumption ==
    /\ Capacity \in Nat \ {0}
    /\ MaxLen \in Nat \ {0}
    /\ {MaxMsgs, MaxLines, MaxSignals} \subseteq Nat
ASSUME CommandAssumption ==
    Commands \subseteq {"print", "watchpoint delete", "trace", "continue", "detach", "quit"}

VARIABLES
    pc,         \* where main, es and tm are
    holder,     \* which of them holds IO_PIPE_LOCK, WATCHPOINT_LOCK, THREAD_LOCK
    pipe,       \* IOSDBG_IO_PIPE
    left,       \* how much of its message a thread still has to write
    plan,       \* the messages main's command still has to append
    ready,      \* select found the pipe readable
    text,       \* what io_flush has read of the message it shows
    ret,        \* where the handler, or detach, goes on after stop_trace
    attached,   \* debuggee->pid # -1
    suspended,  \* debuggee->suspended()
    tracing,    \* debuggee->currently_tracing
    stop, done, \* stop and done_processing of trace.c
    tr,         \* where the trace thread is
    quit,       \* QUIT: the loop ends after this round
    up,         \* iosdbg is running
    lines, signals,        \* how often the user did something
    sent, shown, broken    \* history: see Output

output == <<sent, shown, broken>>
io     == <<pipe, left, text>>
tracer == <<tracing, stop, done, tr, up>>
proc   == <<attached, suspended>>
loop   == <<plan, ready, ret, quit, lines, signals>>
vars   == <<pc, holder, output, io, tracer, proc, loop>>

Threads == {"main", "es", "tm"}
Locks   == {"IO", "WP", "TH"}
ETX     == "ETX"
None    == "none"
Sizes   == 1 .. MaxLen

\* iosdbg is attached or not; with a debuggee, a trace may have been started.
Init ==
    /\ pc = [t \in Threads |-> IF t = "main" THEN "select" ELSE "idle"]
    /\ holder = [l \in Locks |-> None]
    /\ pipe = <<>>
    /\ left = [t \in Threads |-> 0]
    /\ plan = <<>>
    /\ ready = FALSE
    /\ text = <<>>
    /\ ret = None
    /\ attached \in BOOLEAN
    /\ suspended = FALSE
    /\ tracing \in {FALSE, attached}
    /\ tr = IF tracing THEN "spin" ELSE None
    /\ stop = FALSE
    /\ done = FALSE
    /\ quit = FALSE
    /\ up = TRUE
    /\ lines = 0
    /\ signals = 0
    /\ sent = <<>>
    /\ shown = <<>>
    /\ broken = FALSE

Goes(t, where) == pc' = [pc EXCEPT ![t] = where]
Free(l)        == holder[l] = None
Locked(l, t)   == holder' = [holder EXCEPT ![l] = t]
Unlocked(ls)   == holder' = [l \in Locks |-> IF l \in ls THEN None ELSE holder[l]]

----------------------------------------------------------------------------
(* The pipe                                                                *)

Full     == Len(pipe) >= Capacity
Complete == \E i \in DOMAIN pipe : pipe[i] = ETX
Etx      == CHOOSE i \in DOMAIN pipe : pipe[i] = ETX /\ \A j \in 1 .. i - 1 : pipe[j] # ETX

\* What a thread does once its message is appended.
Next_message(t) ==
    IF t # "main" THEN "idle"
    ELSE IF Len(plan) > 1 THEN "append" ELSE "lock"

io_append_lock(t) ==
    /\ pc[t] = "append"
    /\ Free("IO")
    /\ Locked("IO", t)
    /\ Goes(t, "text")
    /\ UNCHANGED <<output, io, tracer, proc, loop>>

\* Mutant: the lock is given up between the text and the ETX.
io_append_text_Unlocks(t) ==
    /\ pc[t] = "text"
    /\ ~Full
    /\ pipe' = Append(pipe, t)
    /\ left' = [left EXCEPT ![t] = @ - 1]
    /\ Goes(t, IF left[t] = 1 THEN "etx" ELSE "text")
    /\ IF left[t] = 1 THEN Unlocked({"IO"}) ELSE UNCHANGED holder
    /\ UNCHANGED <<output, text, tracer, proc, loop>>

\* One unit of the text; the write waits while the pipe is full.
io_append_text(t) ==
    /\ pc[t] = "text"
    /\ ~Full
    /\ pipe' = Append(pipe, t)
    /\ left' = [left EXCEPT ![t] = @ - 1]
    /\ Goes(t, IF left[t] = 1 THEN "etx" ELSE "text")
    /\ UNCHANGED <<holder, output, text, tracer, proc, loop>>

\* How long the message was.
Size(t) == IF t = "main" THEN Head(plan) ELSE MaxLen

\* The ETX, and the lock is released.
io_append_etx(t) ==
    /\ pc[t] = "etx"
    /\ ~Full
    /\ pipe' = Append(pipe, ETX)
    /\ sent' = Append(sent, [i \in 1 .. Size(t) |-> t])
    /\ Unlocked({"IO"})
    /\ Goes(t, Next_message(t))
    /\ left' = [left EXCEPT ![t] = IF Next_message(t) = "append" THEN plan[2] ELSE 0]
    /\ plan' = IF t = "main" THEN Tail(plan) ELSE plan
    /\ UNCHANGED <<shown, broken, text, tracer, proc, ready, ret, quit, lines, signals>>

----------------------------------------------------------------------------
(* Main: inputloop and linecb                                              *)

\* Main has looked at its command's result: it appends what there is to show.
Shows(messages) ==
    /\ plan' = messages
    /\ left' = [left EXCEPT !["main"] = IF messages = <<>> THEN 0 ELSE messages[1]]
    /\ Goes("main", IF messages = <<>> THEN "lock" ELSE "append")

Said(message) == Shows(<<message>>)
Silent        == Shows(<<>>)

\* select returns because of a line; whether the pipe is readable is asked at
\* the same time.
Enters(cmd) ==
    /\ pc["main"] = "select"
    /\ cmd \in Commands
    /\ lines < MaxLines
    /\ lines' = lines + 1
    /\ ready' = (pipe # <<>>)

\* An outbuffer that is forced out, and then a short error; or one of the two.
cmdfunc_print ==
    /\ Enters("print")
    /\ \E a \in Sizes : \E m \in {<<>>, <<a>>, <<a, 1>>} : Shows(m)
    /\ UNCHANGED <<holder, output, pipe, text, tracer, proc, ret, quit, signals>>

cmdfunc_continue ==
    /\ Enters("continue")
    /\ suspended' = FALSE
    /\ IF suspended THEN Said(1) ELSE Silent
    /\ UNCHANGED <<holder, output, pipe, text, tracer, attached, ret, quit, signals>>

\* watchpoint_delete: THREAD_LOCK is taken with WATCHPOINT_LOCK held.
cmdfunc_watchpoint_delete ==
    /\ Enters("watchpoint delete")
    /\ Goes("main", "wp")
    /\ UNCHANGED <<holder, output, io, tracer, proc, plan, ret, quit, signals>>

watchpoint_delete_wp ==
    /\ pc["main"] = "wp"
    /\ Free("WP")
    /\ Locked("WP", "main")
    /\ Goes("main", "wp_th")
    /\ UNCHANGED <<output, io, tracer, proc, loop>>

\* Mutant: disable_wp drops the watchpoint lock before it waits.
watchpoint_delete_th_Drops ==
    /\ pc["main"] = "wp_th"
    /\ Unlocked({"WP"})
    /\ Goes("main", "lock")
    /\ UNCHANGED <<output, io, tracer, proc, loop>>

watchpoint_delete_th ==
    /\ pc["main"] = "wp_th"
    /\ Free("TH")
    /\ Unlocked({"WP"})
    /\ Goes("main", "lock")
    /\ UNCHANGED <<output, io, tracer, proc, loop>>

\* start_trace: the flag is set first and the thread created last.
cmdfunc_trace ==
    /\ Enters("trace")
    /\ IF tracing
       THEN Said(1) /\ UNCHANGED tracer
       ELSE /\ tracing' = TRUE
            /\ Goes("main", "start_trace")
            /\ UNCHANGED <<stop, done, tr, up, left, plan>>
    /\ UNCHANGED <<holder, output, pipe, text, proc, ret, quit, signals>>

start_trace ==
    /\ pc["main"] = "start_trace"
    /\ stop' = FALSE
    /\ tr' = "spin"
    /\ Goes("main", "lock")
    /\ UNCHANGED <<holder, output, io, tracing, done, up, proc, loop>>

\* Entered by the handler, by detach and by quit.
stop_trace(next) ==
    IF tracing
    THEN /\ stop' = TRUE
         /\ ret' = next
         /\ Goes("main", "stop_trace")
    ELSE /\ Goes("main", next)
         /\ UNCHANGED <<stop, ret>>

stop_trace_returns ==
    /\ pc["main"] = "stop_trace"
    /\ ~tracing
    /\ Goes("main", ret)
    /\ ret' = None
    /\ UNCHANGED <<holder, output, io, tracer, proc, plan, ready, quit, lines, signals>>

cmdfunc_detach ==
    /\ Enters("detach")
    /\ attached
    /\ stop_trace("detach")
    /\ UNCHANGED <<holder, output, io, tracing, done, tr, up, proc, plan, quit, signals>>

ops_detach ==
    /\ pc["main"] = "detach"
    /\ attached' = FALSE
    /\ suspended' = FALSE
    /\ Said(1)
    /\ UNCHANGED <<holder, output, pipe, text, tracer, ready, ret, quit, lines, signals>>

\* The debuggee is let go first, and the trace stopped then.
cmdfunc_quit ==
    /\ Enters("quit")
    /\ attached' = FALSE
    /\ suspended' = FALSE
    /\ stop_trace("quit")
    /\ UNCHANGED <<holder, output, io, tracing, done, tr, up, plan, quit, signals>>

\* What the detach had to say is appended, and QUIT is set.
linecb_quits ==
    /\ pc["main"] = "quit"
    /\ quit' = TRUE
    /\ Said(1) \/ Silent
    /\ UNCHANGED <<holder, output, pipe, text, tracer, proc, ready, ret, lines, signals>>

\* Mutant: only the terminal is in the set given to select.
select_pipe_Forgotten ==
    /\ pc["main"] = "select"
    /\ pipe # <<>>
    /\ FALSE
    /\ ready' = TRUE
    /\ Goes("main", "lock")
    /\ UNCHANGED <<holder, output, io, tracer, proc, plan, ret, quit, lines, signals>>

\* select returns because of the pipe alone.
select_pipe ==
    /\ pc["main"] = "select"
    /\ pipe # <<>>
    /\ ready' = TRUE
    /\ Goes("main", "lock")
    /\ UNCHANGED <<holder, output, io, tracer, proc, plan, ret, quit, lines, signals>>

\* The end of a round of the loop, with the lock released.
Round ==
    /\ Unlocked({"IO"})
    /\ Goes("main", "select")
    /\ up' = ~quit

\* Mutant: io_flush is called without the lock.
inputloop_lock_NoLock ==
    /\ pc["main"] = "lock"
    /\ IF ready
       THEN Goes("main", "read") /\ UNCHANGED <<holder, up>>
       ELSE Round
    /\ UNCHANGED <<output, io, tracing, stop, done, tr, proc, loop>>

\* The lock is taken whether there is something to show or not.
inputloop_lock ==
    /\ pc["main"] = "lock"
    /\ Free("IO")
    /\ IF ready
       THEN Locked("IO", "main") /\ Goes("main", "read") /\ UNCHANGED up
       ELSE Round
    /\ UNCHANGED <<output, io, tracing, stop, done, tr, proc, loop>>

\* io_flush reads up to the next ETX; without one it reads what there is and
\* waits for more.
io_flush ==
    /\ pc["main"] = "read"
    /\ pipe # <<>>
    /\ IF Complete
       THEN /\ shown' = Append(shown, text \o SubSeq(pipe, 1, Etx - 1))
            /\ pipe' = SubSeq(pipe, Etx + 1, Len(pipe))
            /\ text' = <<>>
            /\ Round
       ELSE /\ text' = text \o pipe
            /\ pipe' = <<>>
            /\ UNCHANGED <<shown, holder, pc, up>>
    /\ UNCHANGED <<sent, broken, left, tracing, stop, done, tr, proc, loop>>

----------------------------------------------------------------------------
(* SIGINT.  The handler is installed without SA_RESTART: the call main is  *)
(* blocked in returns early.                                               *)

\* Where main goes on, and what is lost.
Cut_text == pc["main"] = "text" /\ Full
Cut_etx  == pc["main"] = "etx" /\ Full
Cut_read == pc["main"] = "read" /\ pipe = <<>>

Resumed ==
    CASE Cut_text -> "etx"
      [] Cut_etx  -> Next_message("main")
      [] Cut_read -> "select"
      [] OTHER    -> pc["main"]

interrupt ==
    /\ pc["main"] \notin {"stop_trace", "quit"}
    /\ signals < MaxSignals
    /\ signals' = signals + 1
    /\ broken' = (broken \/ Cut_text \/ Cut_etx \/ Cut_read)
    /\ left' = [left EXCEPT !["main"] =
                    CASE Cut_text -> 0
                      [] Cut_etx /\ Len(plan) > 1 -> plan[2]
                      [] OTHER -> @]
    /\ plan' = IF Cut_etx THEN Tail(plan) ELSE plan
    /\ shown' = IF Cut_read THEN Append(shown, text) ELSE shown
    /\ text' = IF Cut_read THEN <<>> ELSE text
    /\ IF Cut_etx \/ Cut_read THEN Unlocked({"IO"}) ELSE UNCHANGED holder
    /\ up' = ~(Cut_read /\ quit)
    /\ stop_trace(Resumed)
    /\ UNCHANGED <<sent, pipe, tracing, done, tr, proc, ready, quit, lines>>

----------------------------------------------------------------------------
(* The servers                                                             *)

\* A message from a server is as long as messages get.
Appends(t) ==
    /\ Len(sent) < MaxMsgs
    /\ Goes(t, "append")
    /\ left' = [left EXCEPT ![t] = MaxLen]

\* An exception, a signal's included: the debuggee is suspended.
exception_server ==
    /\ pc["es"] = "idle"
    /\ attached
    /\ ~suspended
    /\ suspended' = TRUE
    /\ Goes("es", "wait_for_trace")
    /\ UNCHANGED <<holder, output, io, tracer, attached, loop>>

wait_for_trace ==
    /\ pc["es"] = "wait_for_trace"
    /\ ~attached \/ ~tracing \/ done
    /\ Goes("es", "focus")
    /\ UNCHANGED <<holder, output, io, tracer, proc, loop>>

\* handle_exception looks threads up; then the debuggee is resumed, or stays
\* stopped, and what happened is shown or is not.
handle_exception ==
    /\ pc["es"] = "focus"
    /\ Free("TH")
    /\ suspended' \in {suspended, FALSE}
    /\ Appends("es") \/ (Goes("es", "idle") /\ UNCHANGED left)
    /\ UNCHANGED <<holder, output, pipe, text, tracer, attached, loop>>

\* update_thread_list, which finds new threads or does not.
thread_monitor_server ==
    /\ pc["tm"] = "idle"
    /\ attached
    /\ Free("TH")
    /\ Locked("TH", "tm")
    /\ Goes("tm", "th") \/ Goes("tm", "th_wp")
    /\ UNCHANGED <<output, io, tracer, proc, loop>>

\* Mutant: a new thread's registers are set with the lock still held after.
update_thread_list_Keeps ==
    /\ pc["tm"] = "th_wp"
    /\ Free("WP")
    /\ Goes("tm", "wp")
    /\ UNCHANGED <<holder, output, io, tracer, proc, loop>>

\* The watchpoint list is gone through with
\* THREAD_LOCK held.
update_thread_list_new ==
    /\ pc["tm"] = "th_wp"
    /\ Free("WP")
    /\ Unlocked({"TH"})
    /\ Goes("tm", "wp")
    /\ UNCHANGED <<output, io, tracer, proc, loop>>

update_thread_list_same ==
    /\ pc["tm"] = "th"
    /\ Unlocked({"TH"})
    /\ Goes("tm", "wp")
    /\ UNCHANGED <<output, io, tracer, proc, loop>>

adjust_watchpoints_wp ==
    /\ pc["tm"] = "wp"
    /\ Free("WP")
    /\ Locked("WP", "tm")
    /\ Goes("tm", "wp_th")
    /\ UNCHANGED <<output, io, tracer, proc, loop>>

adjust_watchpoints_th ==
    /\ pc["tm"] = "wp_th"
    /\ Free("TH")
    /\ Unlocked({"WP"})
    /\ Appends("tm") \/ (Goes("tm", "idle") /\ UNCHANGED left)
    /\ UNCHANGED <<output, pipe, text, tracer, proc, loop>>

----------------------------------------------------------------------------
(* The trace thread                                                        *)

\* It waits for an attach, and clears done_processing once it has work.
trace_spin ==
    /\ tr = "spin"
    /\ IF attached \/ stop
       THEN tr' = "start" /\ done' = FALSE
       ELSE tr' = tr /\ done' = TRUE
    /\ UNCHANGED <<pc, holder, output, io, tracing, stop, up, proc, loop>>

\* Mutant: the flag stop_trace waits for is left set.
cleanup_Forgets ==
    /\ tr' = None
    /\ done' = TRUE
    /\ UNCHANGED <<pc, holder, output, io, tracing, stop, up, proc, loop>>

cleanup ==
    /\ tr' = None
    /\ tracing' = FALSE
    /\ done' = TRUE
    /\ UNCHANGED <<pc, holder, output, io, stop, up, proc, loop>>

At(where) ==
    /\ tr' = where
    /\ UNCHANGED <<pc, holder, output, io, tracing, stop, done, up, proc, loop>>

\* Told to stop, or the process cannot be traced because it is gone.
trace_start ==
    /\ tr = "start"
    /\ IF stop \/ ~attached THEN cleanup ELSE At("wait")

\* kdebug_wait returns when the debuggee, running, fills the buffer; its
\* timeout is an uninitialized variable, so it may return before that.
trace_wake ==
    /\ tr = "wait"
    /\ ~suspended
    /\ IF stop THEN cleanup ELSE At("event")

trace_timeout ==
    /\ tr = "wait"
    /\ suspended
    /\ IF stop THEN cleanup ELSE At("event")

\* An event is processed once the debuggee is not suspended; the names of the
\* system calls were never loaded, so one of those is a NULL dereference.
\* Others are skipped.
trace_event ==
    /\ tr = "event"
    /\ ~suspended
    /\ \/ up' = FALSE /\ UNCHANGED <<tr, done>>
       \/ done' = TRUE /\ tr' = "spin" /\ UNCHANGED up
    /\ UNCHANGED <<pc, holder, output, io, tracing, stop, proc, loop>>

----------------------------------------------------------------------------

io_append(t) == io_append_lock(t) \/ io_append_text(t) \/ io_append_etx(t)

\* What the user does.
User ==
    \/ cmdfunc_print
    \/ cmdfunc_continue
    \/ cmdfunc_watchpoint_delete
    \/ cmdfunc_trace
    \/ cmdfunc_detach
    \/ cmdfunc_quit
    \/ interrupt

Main ==
    \/ io_append("main")
    \/ watchpoint_delete_wp
    \/ watchpoint_delete_th
    \/ start_trace
    \/ stop_trace_returns
    \/ ops_detach
    \/ linecb_quits
    \/ select_pipe
    \/ inputloop_lock
    \/ io_flush

ExceptionServer ==
    \/ io_append("es")
    \/ wait_for_trace
    \/ handle_exception

ThreadMonitor ==
    \/ io_append("tm")
    \/ update_thread_list_new
    \/ update_thread_list_same
    \/ adjust_watchpoints_wp
    \/ adjust_watchpoints_th

Trace ==
    \/ trace_spin
    \/ trace_start
    \/ trace_wake
    \/ trace_event

Next ==
    /\ up
    /\ \/ User
       \/ Main
       \/ ExceptionServer
       \/ exception_server
       \/ ThreadMonitor
       \/ thread_monitor_server
       \/ Trace
       \/ trace_timeout

\* Every thread keeps running, and a mutex that is free again and again is
\* had in the end: the monitor sleeps between its rounds and the others wait
\* for events with no list's lock held.  The user, exceptions and the timeout
\* of kdebug_wait are under no obligation.
Fairness ==
    /\ SF_vars(up /\ Main)
    /\ SF_vars(up /\ ExceptionServer)
    /\ SF_vars(up /\ ThreadMonitor)
    /\ WF_vars(up /\ Trace)

Spec == Init /\ [][Next]_vars /\ Fairness

----------------------------------------------------------------------------
(* Properties                                                              *)

TypeOK ==
    /\ pc \in [Threads -> {"select", "append", "text", "etx", "lock", "read", "wp", "wp_th", "start_trace",
                           "stop_trace", "detach", "quit", "idle", "wait_for_trace", "focus", "th", "th_wp"}]
    /\ holder \in [Locks -> Threads \cup {None}]
    /\ pipe \in Seq(Threads \cup {ETX}) /\ Len(pipe) <= Capacity
    /\ left \in [Threads -> 0 .. MaxLen]
    /\ plan \in Seq(Sizes) /\ Len(plan) <= 2
    /\ text \in Seq(Threads)
    /\ ret \in {None, "select", "append", "text", "etx", "lock", "read", "wp", "wp_th", "start_trace", "detach", "quit"}
    /\ tr \in {None, "spin", "start", "wait", "event"}
    /\ {ready, attached, suspended, tracing, stop, done, quit, up, broken} \subseteq BOOLEAN
    /\ lines \in 0 .. MaxLines
    /\ signals \in 0 .. MaxSignals

\* io_append and io_flush implement Output: messages of different threads are
\* shown whole, unmixed and in order, as long as no signal cut a write short
\* (the lock is held across both writes, dbgio.c:35-51).
Messages == INSTANCE Output WITH sent <- sent, shown <- shown, broken <- broken
WholeInOrder == Messages!Spec

\* The reader never waits inside io_flush with IO_PIPE_LOCK held: what select
\* saw is a whole message by the time the lock is there (iosdbg.c:465-468).
FlushFindsMessage == pc["main"] = "read" /\ ~broken => Complete

\* The pipe never holds more than it can, and io_flush always finds its
\* message there.
PipeOK == TypeOK /\ FlushFindsMessage

\* The three ways to hang.  A thread writes to the full pipe with the lock its
\* only reader needs (dbgio.c:45) ...
Jam == \E t \in Threads : pc[t] \in {"text", "etx"} /\ Full

\* ... main has WATCHPOINT_LOCK and the thread monitor THREAD_LOCK, and each
\* waits for the other (watchpoint.c:226, thread.c:500) ...
LockCycle == pc["main"] = "wp_th" /\ pc["tm"] = "th_wp" /\ holder["WP"] = "main"

\* ... or stop_trace waits for a trace thread that was not created yet, or for
\* one that waits for main to resume the debuggee (trace.c:178, 300).
TraceHang ==
    /\ pc["main"] = "stop_trace"
    /\ \/ tr = None /\ tracing
       \/ tr = "event" /\ suspended /\ pc["es"] \in {"idle", "wait_for_trace"} /\ ~done

\* None of them ever ends by itself: only Ctrl+C, and only when main is the
\* thread in the way, gets iosdbg out of a jam or a lock cycle.
HangsStay ==
    [][/\ Jam /\ holder["IO"] # "main" => Jam'
       /\ LockCycle => LockCycle' \/ pc'["main"] = "stop_trace"
       /\ TraceHang => TraceHang']_vars

\* Nothing else keeps a message from being shown: what was appended is shown,
\* unless iosdbg ends or hangs, or a signal broke the pipe's framing.
MessagesShown ==
    \A n \in 1 .. MaxMsgs + 1 :
        Len(sent) >= n ~> (Len(shown) >= n \/ ~up \/ Jam \/ LockCycle \/ pc["main"] = "stop_trace" \/ broken)

\* Whoever waits for a list's lock gets it, unless the two threads are in a
\* cycle or the one that has it was interrupted and waits for a trace.
ListLocksGranted ==
    \A t \in {"main", "tm"} :
        pc[t] \in {"wp", "wp_th", "th_wp"}
            ~> (pc[t] \notin {"wp", "wp_th", "th_wp"} \/ ~up \/ LockCycle \/ pc["main"] = "stop_trace")

\* stop_trace returns, unless the debuggee is suspended or Ctrl+C came before
\* the trace thread was created (trace.c:300).
TraceStops ==
    pc["main"] = "stop_trace"
        ~> (pc["main"] # "stop_trace" \/ ~up \/ suspended \/ ret = "start_trace")
============================================================================
