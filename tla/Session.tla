------------------------------ MODULE Session ------------------------------
(***************************************************************************)
(* The life of a debugging session: the commands attach, detach, kill and  *)
(* quit (source/cmd/misccmd.c), ops_detach (source/dbgops.c), and the      *)
(* three server threads setup_servers starts for every attach              *)
(* (source/servers.c): the exception server, the thread monitor and the    *)
(* death server.                                                           *)
(*                                                                         *)
(* The servers of session n are separate threads that are told to stop by  *)
(* ports becoming MACH_PORT_NULL, which they look at once a second; the    *)
(* death server runs ops_detach too, so ops_detach is a step machine with  *)
(* several possible callers.  What the servers do with an exception or     *)
(* with a thread list is the subject of ExceptionServer and Threads.       *)
(* Processes die at any time.                                              *)
(***************************************************************************)
EXTENDS Integers, FiniteSets

CONSTANTS
    Procs,         \* the processes one can attach to: 1, 2, ...
    MaxSessions    \* bound: how many times the user attaches

ASSUME ProcAssumption    == Procs \subseteq Nat \ {0}
ASSUME SessionAssumption == MaxSessions \in Nat \ {0}

VARIABLES
    main,       \* where main is: at the prompt, or in a command
    session,    \* how many sessions there have been
    pid,        \* debuggee->pid, 0 for -1
    task,       \* debuggee->task, the process whose task port it is
    exc_port,   \* debuggee->exception_port, the session it was made for
    notify,     \* THREAD_DEATH_NOTIFY_PORT is valid
    lists,      \* debuggee->breakpoints, ->watchpoints and ->threads exist
    nosigs,     \* debuggee->nosigs
    queue,      \* EXCEPTION_QUEUE, the session whose server made it
    freed,      \* the queues that have been freed
    dead,       \* the processes that have exited
    traced,     \* debuggee->pid is attached to with ptrace
    sigkill,    \* the settings of SIGKILL: "user" or "quiet"
    es, tm, ds, \* the exception server, monitor and death server of a session
    watched,    \* the process a death server's kevent is about
    det,        \* where a thread is in ops_detach
    raced,      \* history: the threads got in each other's way (see Races)
    failed,     \* history: an attach failed with the debuggee recorded
    up          \* iosdbg has not crashed

vars == <<main, session, pid, task, exc_port, notify, lists, nosigs, queue, freed,
          dead, traced, sigkill, es, tm, ds, watched, det, raced, failed, up>>

Null     == 0
Sessions == 1 .. MaxSessions
MAIN     == 0
Callers  == {MAIN} \cup Sessions    \* main, and the death servers

ports   == <<task, exc_port, notify>>
servers == <<es, tm, ds, watched>>
procs   == <<dead, traced>>

----------------------------------------------------------------------------
(* attach                                                                  *)

\* Processes are numbered in the order they are first attached to.
Known     == {watched[n] : n \in Sessions} \cup {pid}
Target(p) == p \notin dead /\ p <= Cardinality(Known \ {Null}) + 1

\* Main and a death server are at work on a session at the same time, or an
\* attach finds a server of an older session that has not stopped yet.
Races(c) ==
    raced' = (\/ raced
              \/ c = MAIN /\ \E n \in Sessions : det[n] # "off"
              \/ c = MAIN /\ pid = Null /\ \E n \in Sessions : {es[n], tm[n]} \cap {"none", "done"} # {es[n], tm[n]}
              \/ c # MAIN /\ main # "prompt")

\* task_for_pid has succeeded; the debuggee is suspended and recorded.
attach(p) ==
    /\ main = "prompt"
    /\ pid = Null
    /\ Target(p)
    /\ session < MaxSessions
    /\ task' = p
    /\ pid' = p
    /\ main' = "attach_name"
    /\ Races(MAIN)
    /\ UNCHANGED <<session, exc_port, notify, lists, nosigs, queue, freed, procs, sigkill, servers, det, failed, up>>

\* Attached by number, and progname_from_pid fails: the command returns with
\* the debuggee recorded and nothing else done.
attach_name_fails ==
    /\ main = "attach_name"
    /\ main' = "prompt"
    /\ failed' = TRUE
    /\ UNCHANGED <<session, pid, ports, lists, nosigs, queue, freed, procs, sigkill, servers, det, raced, up>>

\* The lists are made, and machthread_new makes the notification port when
\* there is none.
attach_lists ==
    /\ main = "attach_name"
    /\ main' = "attach"
    /\ lists' = TRUE
    /\ notify' = TRUE
    /\ UNCHANGED <<session, pid, task, exc_port, nosigs, queue, freed, procs, sigkill, servers, det, raced, failed, up>>

\* The exit of a process that is already gone is not reported by a kevent
\* registered now.
setup_servers ==
    LET n == session + 1
    IN  /\ main = "attach"
        /\ main' = "attach_ptrace"
        /\ session' = n
        /\ exc_port' = n
        /\ es' = [es EXCEPT ![n] = "start"]
        /\ tm' = [tm EXCEPT ![n] = "wait"]
        /\ ds' = [ds EXCEPT ![n] = IF pid \in dead THEN "done" ELSE "kevent"]
        /\ watched' = [watched EXCEPT ![n] = pid]
        /\ UNCHANGED <<pid, task, notify, lists, nosigs, queue, freed, procs, sigkill, det, raced, failed, up>>

\* PT_ATTACHEXC; or --no-sigs; or neither, when the shared cache cannot be
\* opened and the command returns before it comes to that.
attach_ptrace ==
    /\ main = "attach_ptrace"
    /\ main' = "prompt"
    /\ \/ traced' = (pid # Null /\ pid \notin dead) /\ UNCHANGED nosigs
       \/ nosigs' = TRUE /\ UNCHANGED traced
       \/ UNCHANGED <<traced, nosigs>>
    /\ UNCHANGED <<session, pid, ports, lists, queue, freed, dead, sigkill, servers, det, raced, failed, up>>

----------------------------------------------------------------------------
(* ops_detach, by caller c                                                 *)

At(c, step)   == det[c] = step
Go(c, step)   == det' = [det EXCEPT ![c] = step]
Crash         == up' = FALSE

\* breakpoint_delete_all and its like run over the lists, which must exist.
detach_clear(c) ==
    /\ At(c, "clear")
    /\ Go(c, "ports")
    /\ IF lists THEN UNCHANGED up ELSE Crash
    /\ UNCHANGED <<main, session, pid, ports, lists, nosigs, queue, freed, procs, sigkill, servers, raced, failed>>

\* deallocate_ports
detach_ports(c) ==
    /\ At(c, "ports")
    /\ Go(c, "ptrace")
    /\ task' = Null
    /\ exc_port' = Null
    /\ notify' = FALSE
    /\ UNCHANGED <<main, session, pid, lists, nosigs, queue, freed, procs, sigkill, servers, raced, failed, up>>

\* Mutant: PT_DETACH also for a session without signals.
detach_ptrace_IgnoresNosigs(c) ==
    /\ At(c, "ptrace")
    /\ Go(c, "drop")
    /\ \/ c # MAIN /\ UNCHANGED traced
       \/ /\ c = MAIN
          /\ traced /\ pid \notin dead
          /\ traced' = FALSE
    /\ UNCHANGED <<main, session, pid, ports, lists, nosigs, queue, freed, dead, sigkill, servers, raced, failed, up>>

\* PT_DETACH is tried until it works, which it does for a traced process
\* that is there and has noticed its SIGSTOP.  Not for a death, nor with
\* nosigs.
detach_ptrace(c) ==
    /\ At(c, "ptrace")
    /\ Go(c, "drop")
    /\ \/ (c # MAIN \/ nosigs) /\ UNCHANGED traced
       \/ /\ ~(c # MAIN \/ nosigs)
          /\ traced /\ pid \notin dead
          /\ traced' = FALSE
    /\ UNCHANGED <<main, session, pid, ports, lists, nosigs, queue, freed, dead, sigkill, servers, raced, failed, up>>

\* queue_free: fatal for a queue that is freed already.
Free(q) ==
    IF q = Null THEN UNCHANGED <<freed, up>>
    ELSE IF q \in freed THEN Crash /\ UNCHANGED freed
    ELSE freed' = freed \cup {q} /\ UNCHANGED up

\* Mutant: the lists are left.
detach_drop_KeepsLists(c) ==
    /\ At(c, "drop")
    /\ Go(c, "off")
    /\ nosigs' = FALSE
    /\ queue' = Null
    /\ Free(queue)
    /\ pid' = Null
    /\ traced' = FALSE
    /\ main' = IF c # MAIN THEN main
               ELSE CASE main = "detach" -> "prompt" [] main = "kill" -> "killing" [] main = "quit" -> "gone"
    /\ ds' = IF c = MAIN THEN ds ELSE [ds EXCEPT ![c] = "done"]
    /\ UNCHANGED <<session, ports, lists, dead, sigkill, es, tm, watched, raced, failed>>

\* The queue and the lists are freed (fatal for lists that are NULL), the
\* symbols and the session's variables dropped, debuggee->pid set to -1;
\* ops_resume then finds no task.  The command goes on: kill still has to
\* send its signal.
detach_drop(c) ==
    /\ At(c, "drop")
    /\ Go(c, "off")
    /\ nosigs' = FALSE
    /\ queue' = Null
    /\ IF lists THEN Free(queue) ELSE Crash /\ UNCHANGED freed
    /\ lists' = FALSE
    /\ pid' = Null
    /\ traced' = FALSE
    /\ main' = IF c # MAIN THEN main
               ELSE CASE main = "detach" -> "prompt" [] main = "kill" -> "killing" [] main = "quit" -> "gone"
    /\ ds' = IF c = MAIN THEN ds ELSE [ds EXCEPT ![c] = "done"]
    /\ UNCHANGED <<session, ports, dead, sigkill, es, tm, watched, raced, failed>>

OpsDetach(c) == detach_clear(c) \/ detach_ports(c) \/ detach_ptrace(c) \/ detach_drop(c)

----------------------------------------------------------------------------
(* The other commands.  audit.c refuses detach and kill without a debuggee. *)

cmdfunc_detach ==
    /\ main = "prompt"
    /\ pid # Null
    /\ main' = "detach"
    /\ Go(MAIN, "clear")
    /\ Races(MAIN)
    /\ UNCHANGED <<session, pid, ports, lists, nosigs, queue, freed, procs, sigkill, servers, failed, up>>

\* The debuggee's SIGKILL is not to be reported while it is being killed.
cmdfunc_kill ==
    /\ main = "prompt"
    /\ pid # Null
    /\ main' = "kill"
    /\ sigkill' = "quiet"
    /\ Go(MAIN, "clear")
    /\ Races(MAIN)
    /\ UNCHANGED <<session, pid, ports, lists, nosigs, queue, freed, procs, servers, failed, up>>

\* kill and waitpid of the process the session was for.
kill_victim(p) ==
    /\ main = "killing"
    /\ main' = "prompt"
    /\ dead' = dead \cup {p}
    /\ sigkill' = "user"
    /\ UNCHANGED <<session, pid, ports, lists, nosigs, queue, freed, traced, servers, det, raced, failed, up>>

cmdfunc_quit ==
    /\ main = "prompt"
    /\ IF pid = Null THEN main' = "gone" /\ UNCHANGED det
                     ELSE main' = "quit" /\ Go(MAIN, "clear")
    /\ Races(MAIN)
    /\ UNCHANGED <<session, pid, ports, lists, nosigs, queue, freed, procs, sigkill, servers, failed, up>>

----------------------------------------------------------------------------
(* The servers of session n.                                               *)

ExceptionStep(n, from, to) == es[n] = from /\ es' = [es EXCEPT ![n] = to]

\* The test at the head of the server's loop.
LoopTest == IF exc_port # Null THEN "receive" ELSE "leave"

\* Mutant: a queue that is there already is used.
es_start_Reuses(n) ==
    /\ ExceptionStep(n, "start", LoopTest)
    /\ queue' = IF queue = Null THEN n ELSE queue
    /\ UNCHANGED <<main, session, pid, ports, lists, nosigs, freed, procs, sigkill, tm, ds, watched, det, raced, failed, up>>

es_start(n) ==
    /\ ExceptionStep(n, "start", LoopTest)
    /\ queue' = n
    /\ UNCHANGED <<main, session, pid, ports, lists, nosigs, freed, procs, sigkill, tm, ds, watched, det, raced, failed, up>>

\* A second passes; or an exception comes.  When the port has become NULL
\* between the loop's test and mach_msg, the call fails at once, and that is
\* taken for an exception.
es_receive(n) ==
    /\ ExceptionStep(n, "receive", LoopTest) \/ ExceptionStep(n, "receive", "gather")
    /\ UNCHANGED <<main, session, pid, ports, lists, nosigs, queue, freed, procs, sigkill, tm, ds, watched, det, raced, failed, up>>

\* The gathering ends with a receive that times out, which needs a port.
es_gathered(n) ==
    /\ exc_port # Null
    /\ ExceptionStep(n, "gather", "receive")
    /\ UNCHANGED <<main, session, pid, ports, lists, nosigs, queue, freed, procs, sigkill, tm, ds, watched, det, raced, failed, up>>

\* EXCEPTION_QUEUE, whichever it is by now, is freed and not set to NULL.
es_leave(n) ==
    /\ ExceptionStep(n, "leave", "done")
    /\ Free(queue)
    /\ UNCHANGED <<main, session, pid, ports, lists, nosigs, queue, procs, sigkill, tm, ds, watched, det, raced, failed>>

\* Mutant: the loop does not test the port (and the array is initialized).
ThreadMonitor_NoTest(n) ==
    /\ tm[n] = "wait"
    /\ UNCHANGED vars

\* After at most a second ops_threadupdate runs and the loop's test of the
\* port follows.  Without a task, get_threads leaves ops_threadupdate's array
\* uninitialized: it does nothing or reads through the pointer.
ThreadMonitor(n) ==
    /\ tm[n] = "wait"
    /\ tm' = [tm EXCEPT ![n] = IF notify THEN "wait" ELSE "done"]
    /\ up' \in IF task = Null THEN BOOLEAN ELSE {TRUE}
    /\ UNCHANGED <<main, session, pid, ports, lists, nosigs, queue, freed, procs, sigkill, es, ds, watched, det, raced, failed>>

\* The process has exited; a session that is over is not reported.
ds_event(n) ==
    /\ ds[n] = "kevent"
    /\ watched[n] \in dead
    /\ ds' = [ds EXCEPT ![n] = IF pid = Null THEN "done" ELSE "waitpid"]
    /\ UNCHANGED <<main, session, pid, ports, lists, nosigs, queue, freed, procs, sigkill, es, tm, watched, det, raced, failed, up>>

\* Mutant: the exit is waited for as that of a child.
ds_waited_ChildOnly(n) ==
    /\ ds[n] = "waitpid"
    /\ pid \in dead /\ traced
    /\ ds' = [ds EXCEPT ![n] = "detach"]
    /\ Go(n, "clear")
    /\ Races(n)
    /\ UNCHANGED <<main, session, pid, ports, lists, nosigs, queue, freed, procs, sigkill, es, tm, watched, failed, up>>

\* waitpid(debuggee->pid): returns when that process has exited or is no
\* child of iosdbg (only tracing makes it one).
ds_waited(n) ==
    /\ ds[n] = "waitpid"
    /\ pid \in dead \/ ~traced
    /\ ds' = [ds EXCEPT ![n] = "detach"]
    /\ Go(n, "clear")
    /\ Races(n)
    /\ UNCHANGED <<main, session, pid, ports, lists, nosigs, queue, freed, procs, sigkill, es, tm, watched, failed, up>>

----------------------------------------------------------------------------
\* A process that is being debugged dies (others matter to nobody).
exit(p) ==
    /\ p \in Known \ (dead \cup {Null})
    /\ dead' = dead \cup {p}
    /\ UNCHANGED <<main, session, pid, ports, lists, nosigs, queue, freed, traced, sigkill, servers, det, raced, failed, up>>

Init ==
    /\ main = "prompt" /\ session = 0 /\ pid = Null
    /\ task = Null /\ exc_port = Null /\ notify = FALSE
    /\ lists = FALSE /\ nosigs = FALSE
    /\ queue = Null /\ freed = {}
    /\ dead = {} /\ traced = FALSE /\ sigkill = "user"
    /\ es = [n \in Sessions |-> "none"] /\ tm = [n \in Sessions |-> "none"]
    /\ ds = [n \in Sessions |-> "none"] /\ watched = [n \in Sessions |-> Null]
    /\ det = [c \in Callers |-> "off"]
    /\ raced = FALSE /\ failed = FALSE /\ up = TRUE

ExceptionServer(n) == es_start(n) \/ es_receive(n) \/ es_gathered(n) \/ es_leave(n)
DeathServer(n)     == ds_event(n) \/ ds_waited(n) \/ OpsDetach(n)

\* Main once a command has begun.
MainGoesOn ==
    \/ attach_name_fails \/ attach_lists \/ setup_servers \/ attach_ptrace
    \/ \E p \in Procs : session > 0 /\ p = watched[session] /\ kill_victim(p)
    \/ OpsDetach(MAIN)

Commands == (\E p \in Procs : attach(p)) \/ cmdfunc_detach \/ cmdfunc_kill \/ cmdfunc_quit

Running == up /\ main # "gone"

Next == Running /\ \/ Commands \/ MainGoesOn
                   \/ \E n \in Sessions : ExceptionServer(n) \/ ThreadMonitor(n) \/ DeathServer(n)
                   \/ \E p \in Procs : exit(p)

\* Threads are scheduled, timeouts pass and a kevent is delivered; the user
\* and the debuggee owe nothing.
Fairness ==
    /\ WF_vars(Running /\ MainGoesOn)
    /\ \A n \in Sessions : /\ WF_vars(Running /\ ExceptionServer(n))
                           /\ WF_vars(Running /\ ThreadMonitor(n))
                           /\ WF_vars(Running /\ DeathServer(n))

Spec == Init /\ [][Next]_vars /\ Fairness

----------------------------------------------------------------------------
\* Shape of the state; a session has its servers from its attach on.
TypeOK ==
    /\ main \in {"prompt", "attach_name", "attach", "attach_ptrace", "detach", "kill", "killing", "quit", "gone"}
    /\ session \in 0 .. MaxSessions
    /\ {pid, task} \subseteq Procs \cup {Null}
    /\ {exc_port, queue} \subseteq 0 .. MaxSessions /\ freed \subseteq Sessions
    /\ {notify, lists, nosigs, traced, raced, failed, up} \subseteq BOOLEAN
    /\ dead \subseteq Procs /\ sigkill \in {"user", "quiet"}
    /\ es \in [Sessions -> {"none", "start", "receive", "gather", "leave", "done"}]
    /\ tm \in [Sessions -> {"none", "wait", "done"}]
    /\ ds \in [Sessions -> {"none", "kevent", "waitpid", "detach", "done"}]
    /\ watched \in [Sessions -> Procs \cup {Null}]
    /\ \A n \in Sessions : es[n] = "none" <=> n > session
    /\ det \in [Callers -> {"off", "clear", "ports", "ptrace", "drop"}]

AtRest == Running /\ main = "prompt" /\ \A c \in Callers : det[c] = "off"

\* ops_detach (dbgops.c:80): when nobody is detaching and nothing is
\* attached, whichever thread tore the session down, nothing of it is left,
\* as long as the threads did not race.
DetachedIsClean ==
    AtRest /\ ~raced /\ pid = Null => ~lists /\ ~notify /\ task = Null /\ exc_port = Null

\* cmdfunc_attach: a debuggee the user can work with has all of its parts:
\* its task, the lists, the notification port and the servers of its own
\* session, as long as the threads did not race and no attach failed.
AttachedIsWhole ==
    AtRest /\ ~raced /\ ~failed /\ pid # Null =>
        task = pid /\ lists /\ notify /\ exc_port = session

\* misccmd.c:161: an attach that failed for want of a name leaves half a
\* session, the debuggee recorded and suspended with neither lists nor
\* servers, and that is how it stays: detach, kill and quit, the only
\* commands that would end it, all crash on the lists that are not there.
FailedAttachStays ==
    Running /\ ~raced /\ failed =>
        pid # Null /\ task = pid /\ ~lists /\ ~notify /\ exc_port = Null

\* servers.c:128: no server frees the queue of a later session, as long as
\* the user gives the servers the second they need to stop, and no
\* death server and main worked at once.
QueueOfSession ==
    Running /\ ~raced =>
        \A n \in Sessions : exc_port = n /\ es[n] \notin {"none", "start"} => queue = n /\ n \notin freed

\* cmdfunc_kill: back at the prompt SIGKILL is handled as the user set it.
KillRestoresSettings == Running /\ main = "prompt" => sigkill = "user"

\* The state between commands is well formed: a session is there with all of
\* its parts or not at all, but for the attach that failed, whose remains no
\* command clears away; and the user's signal settings are the user's.
SessionOK == TypeOK /\ DetachedIsClean /\ AttachedIsWhole /\ FailedAttachStays /\ KillRestoresSettings

\* servers.c:144, "Don't report if we detached earlier": a death server
\* tears down only the session it was started for.
OwnSessionOnly == \A n \in Sessions : det[n] = "clear" /\ pid # Null => pid = watched[n]

\* ChangeLog:112, "shutdown threads upon detach": when the user has detached
\* for good every server thread ends, or spins gathering exceptions from a
\* port that is gone (servers.c:71).
ServersStop ==
    <>[](Running /\ exc_port = Null) =>
        <>[](Running => \A n \in Sessions :
                /\ es[n] \in {"none", "done", "gather"}
                /\ tm[n] \in {"none", "done"})

\* death_server: the death of a process that is watched ends its session.
DeathIsNoticed ==
    \A n \in Sessions :
        ds[n] = "kevent" /\ pid = watched[n] /\ pid \in dead ~> ~Running \/ pid # watched[n]

\* dbgops.c:116: main gets out of the loop around PT_DETACH, unless the
\* process died or was never attached to with ptrace.
DetachEnds ==
    det[MAIN] # "off" ~> \/ det[MAIN] = "off" \/ ~Running
                         \/ det[MAIN] = "ptrace" /\ ~nosigs /\ (~traced \/ pid \in dead)
============================================================================
