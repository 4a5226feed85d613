--------------------------- MODULE ExceptionServer ---------------------------
(***************************************************************************)
(* How iosdbg receives, handles and answers the exceptions of its debuggee *)
(* (exception_server in source/servers.c, ops_resume and ops_suspend in    *)
(* source/dbgops.c), against the thread that runs the user's commands.     *)
(*                                                                         *)
(* Two threads of iosdbg share EXCEPTION_QUEUE and NEED_REPLY, under       *)
(* EXCEPTION_QUEUE_MUTEX, and the debuggee's suspend count, under nothing: *)
(* "server" is the exception server, "main" runs the commands.  A debuggee *)
(* thread that raises an exception sends a request to the exception port   *)
(* and stays in the kernel until someone replies to that request.          *)
(*                                                                         *)
(* What an exception was is the business of handle_exception (module       *)
(* Stepping); here it decides, either way, whether the debuggee is to be   *)
(* resumed without asking the user.                                        *)
(***************************************************************************)
EXTENDS Integers, Sequences, Functions

CONSTANTS
    Threads,    \* the debuggee's threads
    Patient,    \* does the user wait for a stop to be reported before typing?
    MaxRaises   \* bound: how many requests are ever sent

ASSUME PatientAssumption == Patient \in {0, 1}
ASSUME RaisesAssumption  == MaxRaises \in Nat \ {0}

VARIABLES
    suspend_count,       \* the debuggee task's suspend count
    raised,              \* requests sent so far: request n is the n-th one
    blocked,             \* blocked[t]: the request t waits on, 0 when it runs
    port,                \* the messages in debuggee->exception_port
    req,                 \* the request exception_server has just received
    exc_queue_internal,  \* the requests it has yet to handle
    EXCEPTION_QUEUE,     \* the requests nobody has replied to yet
    NEED_REPLY,
    lock,                \* who holds EXCEPTION_QUEUE_MUTEX
    freed,               \* the requests that were replied to and freed
    will_auto_resume,
    pc,                  \* where main and the server are
    stop_decided         \* handle_exception decided on a stop, no command was typed since

vars == <<suspend_count, raised, blocked, port, req, exc_queue_internal,
          EXCEPTION_QUEUE, NEED_REPLY, lock, freed, will_auto_resume, pc,
          stop_decided>>

NONE == 0    \* no request

Procs == {"main", "server"}

\* The points of either thread between which the other one can act.
Labels == {"inputloop", "recv", "suspend", "task_suspend", "enqueue", "gather", "handle",
           "ops_resume", "replying", "task_resume", "report"}

Goto(p, l) == pc' = [pc EXCEPT ![p] = l]

----------------------------------------------------------------------------
(* The debuggee.  Send puts a request of thread t in the port.             *)

Send(t) ==
    /\ raised < MaxRaises
    /\ blocked[t] = NONE
    /\ raised' = raised + 1
    /\ blocked' = [blocked EXCEPT ![t] = raised']
    /\ port' = Append(port, raised')
    /\ UNCHANGED <<suspend_count, req, exc_queue_internal, EXCEPTION_QUEUE,
                   NEED_REPLY, lock, freed, will_auto_resume, pc, stop_decided>>

\* A thread hits a breakpoint or a watchpoint, completes a single step, or faults.
raise_exception(t) == suspend_count = 0 /\ Send(t)

\* Ctrl+C and the interrupt command: the SIGSTOP comes back as a request,
\* even of a debuggee that is already suspended.
interrupt(t) ==
    /\ Patient = 1 => suspend_count = 0
    /\ Send(t)

\* Ctrl+C for a debuggee attached with --ns: iosdbg itself sends the request.
fake_sigstop ==
    /\ raised < MaxRaises
    /\ Patient = 1 => suspend_count = 0
    /\ raised' = raised + 1
    /\ port' = Append(port, raised')
    /\ UNCHANGED <<suspend_count, blocked, req, exc_queue_internal, EXCEPTION_QUEUE,
                   NEED_REPLY, lock, freed, will_auto_resume, pc, stop_decided>>

----------------------------------------------------------------------------
(* exception_server.                                                       *)

exception_server_timeout ==
    /\ pc["server"] = "recv"
    /\ port = << >>
    /\ UNCHANGED vars

exception_server_recv ==
    /\ pc["server"] = "recv"
    /\ port # << >>
    /\ req' = Head(port)
    /\ port' = Tail(port)
    /\ Goto("server", "suspend")
    /\ UNCHANGED <<suspend_count, raised, blocked, exc_queue_internal, EXCEPTION_QUEUE,
                   NEED_REPLY, lock, freed, will_auto_resume, stop_decided>>

suspended == suspend_count = 1

\* ops_suspend looks at the suspend count first, and suspends only then.
suspend_check ==
    /\ pc["server"] = "suspend"
    /\ Goto("server", IF suspended THEN "enqueue" ELSE "task_suspend")
    /\ UNCHANGED <<suspend_count, raised, blocked, port, req, exc_queue_internal,
                   EXCEPTION_QUEUE, NEED_REPLY, lock, freed, will_auto_resume,
                   stop_decided>>

task_suspend ==
    /\ pc["server"] = "task_suspend"
    /\ suspend_count' = suspend_count + 1
    /\ Goto("server", "enqueue")
    /\ UNCHANGED <<raised, blocked, port, req, exc_queue_internal, EXCEPTION_QUEUE,
                   NEED_REPLY, lock, freed, will_auto_resume, stop_decided>>

enqueue_first ==
    /\ pc["server"] = "enqueue"
    /\ lock = "free"
    /\ exc_queue_internal' = Append(exc_queue_internal, req)
    /\ NEED_REPLY' = 1
    /\ EXCEPTION_QUEUE' = Append(EXCEPTION_QUEUE, req)
    /\ req' = NONE
    /\ Goto("server", "gather")
    /\ UNCHANGED <<suspend_count, raised, blocked, port, lock, freed,
                   will_auto_resume, stop_decided>>

\* "Gather up any more exceptions": receive without waiting ...
gather_recv ==
    /\ pc["server"] = "gather"
    /\ req = NONE
    /\ port # << >>
    /\ req' = Head(port)
    /\ port' = Tail(port)
    /\ UNCHANGED <<suspend_count, raised, blocked, exc_queue_internal, EXCEPTION_QUEUE,
                   NEED_REPLY, lock, freed, will_auto_resume, pc, stop_decided>>

\* Mutant: a gathered request is handled, and never answered.
gather_enqueue_InternalOnly ==
    /\ pc["server"] = "gather"
    /\ req # NONE
    /\ lock = "free"
    /\ exc_queue_internal' = Append(exc_queue_internal, req)
    /\ req' = NONE
    /\ UNCHANGED <<suspend_count, raised, blocked, port, EXCEPTION_QUEUE, NEED_REPLY,
                   lock, freed, will_auto_resume, pc, stop_decided>>

\* ... and enqueue.  NEED_REPLY is left as it is.
gather_enqueue ==
    /\ pc["server"] = "gather"
    /\ req # NONE
    /\ lock = "free"
    /\ exc_queue_internal' = Append(exc_queue_internal, req)
    /\ EXCEPTION_QUEUE' = Append(EXCEPTION_QUEUE, req)
    /\ req' = NONE
    /\ UNCHANGED <<suspend_count, raised, blocked, port, NEED_REPLY, lock, freed,
                   will_auto_resume, pc, stop_decided>>

gather_timeout ==
    /\ pc["server"] = "gather"
    /\ req = NONE
    /\ port = << >>
    /\ will_auto_resume' = 1
    /\ Goto("server", "handle")
    /\ UNCHANGED <<suspend_count, raised, blocked, port, req, exc_queue_internal,
                   EXCEPTION_QUEUE, NEED_REPLY, lock, freed, stop_decided>>

\* Mutant: one exception that resumes by itself outvotes the others.
handle_next_LastWins(should_auto_resume) ==
    /\ pc["server"] = "handle"
    /\ exc_queue_internal # << >>
    /\ exc_queue_internal' = Tail(exc_queue_internal)
    /\ will_auto_resume' = should_auto_resume
    /\ stop_decided' = IF should_auto_resume = 0 THEN 1 ELSE stop_decided
    /\ UNCHANGED <<suspend_count, raised, blocked, port, req, EXCEPTION_QUEUE,
                   NEED_REPLY, lock, freed, pc>>

\* handle_exception on the next request; should_auto_resume is its verdict.  On
\* a request that has been freed the verdict means nothing: either may come out.
handle_next(should_auto_resume) ==
    /\ pc["server"] = "handle"
    /\ exc_queue_internal # << >>
    /\ exc_queue_internal' = Tail(exc_queue_internal)
    /\ will_auto_resume' = IF should_auto_resume = 0 THEN 0 ELSE will_auto_resume
    /\ stop_decided' = IF should_auto_resume = 0 THEN 1 ELSE stop_decided
    /\ UNCHANGED <<suspend_count, raised, blocked, port, req, EXCEPTION_QUEUE,
                   NEED_REPLY, lock, freed, pc>>

\* Mutants: one request is handled per round (if instead of while); the task is
\* resumed directly, without ops_resume.
handled_all_AfterOne ==
    /\ pc["server"] = "handle"
    /\ Goto("server", IF will_auto_resume = 1 THEN "ops_resume" ELSE "report")
    /\ UNCHANGED <<suspend_count, raised, blocked, port, req, exc_queue_internal,
                   EXCEPTION_QUEUE, NEED_REPLY, lock, freed, will_auto_resume,
                   stop_decided>>
handled_all_NoReply ==
    /\ pc["server"] = "handle"
    /\ exc_queue_internal = << >>
    /\ Goto("server", IF will_auto_resume = 1 THEN "task_resume" ELSE "report")
    /\ UNCHANGED <<suspend_count, raised, blocked, port, req, exc_queue_internal,
                   EXCEPTION_QUEUE, NEED_REPLY, lock, freed, will_auto_resume,
                   stop_decided>>

handled_all ==
    /\ pc["server"] = "handle"
    /\ exc_queue_internal = << >>
    /\ Goto("server", IF will_auto_resume = 1 THEN "ops_resume" ELSE "report")
    /\ UNCHANGED <<suspend_count, raised, blocked, port, req, exc_queue_internal,
                   EXCEPTION_QUEUE, NEED_REPLY, lock, freed, will_auto_resume,
                   stop_decided>>

\* io_append of what happened, then back to the top of the loop.
report ==
    /\ pc["server"] = "report"
    /\ Goto("server", "recv")
    /\ UNCHANGED <<suspend_count, raised, blocked, port, req, exc_queue_internal,
                   EXCEPTION_QUEUE, NEED_REPLY, lock, freed, will_auto_resume, stop_decided>>

----------------------------------------------------------------------------
(* ops_resume, called by either thread p: reply_to_all_exceptions under    *)
(* the mutex, then task_resume without it.                                 *)

reply_lock(p) ==
    /\ pc[p] = "ops_resume"
    /\ lock = "free"
    /\ IF NEED_REPLY = 1
         THEN lock' = p /\ Goto(p, "replying")
         ELSE lock' = lock /\ Goto(p, "task_resume")
    /\ UNCHANGED <<suspend_count, raised, blocked, port, req, exc_queue_internal,
                   EXCEPTION_QUEUE, NEED_REPLY, freed, will_auto_resume, stop_decided>>

\* Mutant: the request is looked at (queue_peek) and not taken off the queue.
reply_next_Peeks(p) ==
    /\ pc[p] = "replying"
    /\ EXCEPTION_QUEUE # << >>
    /\ blocked' = [t \in Threads |->
                     IF blocked[t] = Head(EXCEPTION_QUEUE) THEN NONE ELSE blocked[t]]
    /\ freed' = freed \cup {Head(EXCEPTION_QUEUE)}
    /\ UNCHANGED <<suspend_count, raised, port, req, exc_queue_internal, EXCEPTION_QUEUE,
                   NEED_REPLY, lock, will_auto_resume, pc, stop_decided>>

\* dequeue a request, reply to it (its thread runs again), free it.
reply_next(p) ==
    /\ pc[p] = "replying"
    /\ EXCEPTION_QUEUE # << >>
    /\ blocked' = [t \in Threads |->
                     IF blocked[t] = Head(EXCEPTION_QUEUE) THEN NONE ELSE blocked[t]]
    /\ freed' = freed \cup {Head(EXCEPTION_QUEUE)}
    /\ EXCEPTION_QUEUE' = Tail(EXCEPTION_QUEUE)
    /\ UNCHANGED <<suspend_count, raised, port, req, exc_queue_internal, NEED_REPLY,
                   lock, will_auto_resume, pc, stop_decided>>

\* Mutant: only the first request of the queue is answered.
reply_unlock_AfterOne(p) ==
    /\ pc[p] = "replying"
    /\ freed # {}
    /\ NEED_REPLY' = 0
    /\ lock' = "free"
    /\ Goto(p, "task_resume")
    /\ UNCHANGED <<suspend_count, raised, blocked, port, req, exc_queue_internal,
                   EXCEPTION_QUEUE, freed, will_auto_resume, stop_decided>>

reply_unlock(p) ==
    /\ pc[p] = "replying"
    /\ EXCEPTION_QUEUE = << >>
    /\ NEED_REPLY' = 0
    /\ lock' = "free"
    /\ Goto(p, "task_resume")
    /\ UNCHANGED <<suspend_count, raised, blocked, port, req, exc_queue_internal,
                   EXCEPTION_QUEUE, freed, will_auto_resume, stop_decided>>

\* Fails, and changes nothing, when the task is not suspended.
task_resume(p) ==
    /\ pc[p] = "task_resume"
    /\ suspend_count' = IF suspend_count = 0 THEN 0 ELSE suspend_count - 1
    /\ Goto(p, IF p = "main" THEN "inputloop" ELSE "report")
    /\ UNCHANGED <<raised, blocked, port, req, exc_queue_internal, EXCEPTION_QUEUE,
                   NEED_REPLY, lock, freed, will_auto_resume, stop_decided>>

ops_resume(p) == reply_lock(p) \/ reply_next(p) \/ reply_unlock(p) \/ task_resume(p)

----------------------------------------------------------------------------
(* The commands that resume the debuggee.                                  *)

\* A patient user types one only once everything that happened is reported.
UserReady ==
    /\ pc["main"] = "inputloop"
    /\ Patient = 1 => suspend_count = 1 /\ pc["server"] = "recv" /\ port = << >>

Resume ==
    /\ stop_decided' = 0
    /\ Goto("main", "ops_resume")
    /\ UNCHANGED <<suspend_count, raised, blocked, port, req, exc_queue_internal,
                   EXCEPTION_QUEUE, NEED_REPLY, lock, freed, will_auto_resume>>

\* Refused, without a word, unless the debuggee is suspended.
cmdfunc_continue == UserReady /\ suspended /\ Resume

\* step inst-into and step inst-over do not look.
cmdfunc_step_inst == UserReady /\ Resume

----------------------------------------------------------------------------
\* After cmdfunc_attach: suspended, and the SIGSTOP of PT_ATTACHEXC is on its
\* way from one of the threads, unless attached with --ns.
Init ==
    /\ suspend_count = 1
    /\ \/ /\ raised = 0
          /\ blocked = [t \in Threads |-> NONE]
          /\ port = << >>
       \/ \E first \in Threads :
            /\ raised = 1
            /\ blocked = [t \in Threads |-> IF t = first THEN 1 ELSE NONE]
            /\ port = << 1 >>
    /\ req = NONE
    /\ exc_queue_internal = << >>
    /\ EXCEPTION_QUEUE = << >>
    /\ NEED_REPLY = 0
    /\ lock = "free"
    /\ freed = {}
    /\ will_auto_resume = 1
    /\ pc = [p \in Procs |-> IF p = "main" THEN "inputloop" ELSE "recv"]
    /\ stop_decided = 0

Debuggee == \/ \E t \in Threads : raise_exception(t) \/ interrupt(t)
            \/ fake_sigstop

exception_server ==
    \/ exception_server_timeout
    \/ exception_server_recv
    \/ suspend_check
    \/ task_suspend
    \/ enqueue_first
    \/ gather_recv
    \/ gather_enqueue
    \/ gather_timeout
    \/ \E should_auto_resume \in {0, 1} : handle_next(should_auto_resume)
    \/ handled_all
    \/ ops_resume("server")
    \/ report

Next ==
    \/ Debuggee
    \/ exception_server
    \/ cmdfunc_continue
    \/ cmdfunc_step_inst
    \/ ops_resume("main")

\* Both threads of iosdbg are scheduled; the user need not type anything and
\* the debuggee need not raise anything.
Fairness == WF_vars(exception_server) /\ WF_vars(ops_resume("main"))

Spec == Init /\ [][Next]_vars /\ Fairness

----------------------------------------------------------------------------
(* Properties of every run, however fast the user types.                   *)

\* The type invariant.
TypeOK ==
    /\ suspend_count \in {0, 1}
    /\ raised \in 0 .. MaxRaises
    /\ blocked \in [Threads -> 0 .. raised]
    /\ port \in Seq(1 .. raised)
    /\ req \in 0 .. raised
    /\ exc_queue_internal \in Seq(1 .. raised)
    /\ EXCEPTION_QUEUE \in Seq(1 .. raised)
    /\ NEED_REPLY \in {0, 1}
    /\ lock \in Procs \cup {"free"}
    /\ freed \subseteq 1 .. raised
    /\ will_auto_resume \in {0, 1}
    /\ pc \in [Procs -> Labels]
    /\ stop_decided \in {0, 1}

\* reply_to_all_exceptions never replies to a request twice and never frees
\* one twice, although both threads run it: what is still queued is queued
\* once and has not been freed.
RepliedOnce ==
    /\ IsInjective(EXCEPTION_QUEUE)
    /\ Range(EXCEPTION_QUEUE) \cap freed = {}

\* No thread of the debuggee is forgotten: the request a thread waits on is in
\* the port, in the server's hands, or in the queue of replies due.
NoLostRequest ==
    \A t \in Threads :
        blocked[t] # NONE =>
            blocked[t] \in Range(port) \cup {req} \cup Range(EXCEPTION_QUEUE)

----------------------------------------------------------------------------
(* Properties that hold while the user waits for a stop to be reported     *)
(* before resuming (Patient = 1), and fail otherwise.                      *)

\* The server handles no request that reply_to_all_exceptions has freed.
NoUseAfterFree == Range(exc_queue_internal) \cap freed = {}

\* A stop is a stop: once handle_exception has decided that the user is to see
\* the debuggee stopped, it stays suspended until the user types a command,
\* whatever other exceptions of the same batch decided.
StopMeansStopped == stop_decided = 1 => suspend_count = 1

\* A queued request will be answered by the next ops_resume: NEED_REPLY, which
\* only the first request of a batch sets, is set while the queue has requests.
QueuedIsDue == EXCEPTION_QUEUE # << >> => NEED_REPLY = 1

\* When the debuggee runs and neither thread of iosdbg is at work, no thread of
\* the debuggee is still held in the kernel, unless its request is yet to be
\* received.
RunningIsAnswered ==
    /\ suspend_count = 0
    /\ pc["server"] = "recv"
    /\ pc["main"] = "inputloop"
    => \A t \in Threads : blocked[t] \in Range(port) \cup {NONE}

\* A thread that raised an exception gets an answer, or the debuggee is
\* suspended and the user, with `continue', decides when it does.
AnsweredOrStopped ==
    \A t \in Threads :
        blocked[t] # NONE ~>
            \/ blocked[t] = NONE
            \/ suspend_count = 1 /\ pc["main"] = "inputloop" /\ pc["server"] = "recv"
=============================================================================
