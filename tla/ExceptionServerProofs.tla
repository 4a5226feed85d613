------------------------ MODULE ExceptionServerProofs ------------------------
(***************************************************************************)
(* Theorems about ExceptionServer, for every set of threads and every      *)
(* number of requests: first what holds however fast the user types, then  *)
(* what holds for a patient one.                                           *)
(***************************************************************************)
EXTENDS ExceptionServer, TLAPS

----------------------------------------------------------------------------
(* Queues.                                                                 *)

\* enqueue adds its argument to what is queued, and keeps a queue without
\* repetitions so.
LEMMA Enqueued ==
    ASSUME NEW S, NEW q \in Seq(S), NEW e \in S
    PROVE  /\ Append(q, e) \in Seq(S)
           /\ Append(q, e) # << >>
           /\ Range(Append(q, e)) = Range(q) \cup {e}
           /\ IsInjective(q) /\ e \notin Range(q) => IsInjective(Append(q, e))
<1> DEFINE a == Append(q, e)
<1>1. /\ a \in Seq(S)
      /\ DOMAIN a = 1 .. Len(q) + 1
      /\ DOMAIN q = 1 .. Len(q)
      /\ Len(q) \in Nat
      /\ \A i \in 1 .. Len(q) : a[i] = q[i]
      /\ a[Len(q) + 1] = e
    OBVIOUS
<1>2. a # << >>
    BY <1>1
<1> HIDE DEF a
<1>3. Range(a) = Range(q) \cup {e}
    BY <1>1 DEF Range
<1>4. ASSUME IsInjective(q), e \notin Range(q)
      PROVE  IsInjective(a)
    <2> SUFFICES ASSUME NEW i \in DOMAIN a, NEW j \in DOMAIN a, a[i] = a[j]
                 PROVE  i = j
        BY DEF IsInjective
    <2>1. CASE i = Len(q) + 1 /\ j # Len(q) + 1
        BY <1>1, <1>4, <2>1 DEF Range
    <2>2. CASE j = Len(q) + 1 /\ i # Len(q) + 1
        BY <1>1, <1>4, <2>2 DEF Range
    <2>3. CASE i # Len(q) + 1 /\ j # Len(q) + 1
        BY <1>1, <1>4, <2>3 DEF IsInjective
    <2> QED
        BY <2>1, <2>2, <2>3
<1> QED
    BY <1>1, <1>2, <1>3, <1>4 DEF a

\* dequeue takes one element away, and exactly one when there are no repetitions.
LEMMA Dequeued ==
    ASSUME NEW S, NEW q \in Seq(S), q # << >>
    PROVE  /\ Head(q) \in S
           /\ Tail(q) \in Seq(S)
           /\ Range(q) = {Head(q)} \cup Range(Tail(q))
           /\ IsInjective(q) => IsInjective(Tail(q)) /\ Head(q) \notin Range(Tail(q))
<1> DEFINE t == Tail(q)
           h == Head(q)
<1>1. /\ Len(q) \in Nat \ {0}
      /\ DOMAIN q = 1 .. Len(q)
      /\ h = q[1]
      /\ h \in S
      /\ t \in Seq(S)
      /\ Len(t) = Len(q) - 1
      /\ DOMAIN t = 1 .. Len(q) - 1
      /\ \A i \in 1 .. Len(q) - 1 : t[i] = q[i + 1]
    OBVIOUS
<1> HIDE DEF t, h
<1>2. Range(q) = {h} \cup Range(t)
    <2>1. ASSUME NEW i \in DOMAIN q
          PROVE  q[i] \in {h} \cup Range(t)
        <3>1. CASE i = 1
            BY <1>1, <3>1
        <3>2. CASE i # 1
            <4>1. i - 1 \in DOMAIN t /\ t[i - 1] = q[i]
                BY <1>1, <3>2
            <4> QED
                BY <4>1 DEF Range
        <3> QED
            BY <3>1, <3>2
    <2>2. ASSUME NEW i \in DOMAIN t
          PROVE  t[i] \in Range(q)
        <3>1. i + 1 \in DOMAIN q /\ q[i + 1] = t[i]
            BY <1>1
        <3> QED
            BY <3>1 DEF Range
    <2>3. h \in Range(q)
        BY <1>1 DEF Range
    <2> QED
        BY <2>1, <2>2, <2>3 DEF Range
<1>3. ASSUME IsInjective(q)
      PROVE  IsInjective(t) /\ h \notin Range(t)
    <2>1. ASSUME NEW i \in DOMAIN t, NEW j \in DOMAIN t, t[i] = t[j]
          PROVE  i = j
        <3>1. /\ i + 1 \in DOMAIN q /\ j + 1 \in DOMAIN q /\ q[i + 1] = q[j + 1]
              /\ i \in Int /\ j \in Int
            BY <1>1, <2>1
        <3> QED
            BY <3>1, <1>3 DEF IsInjective
    <2>2. ASSUME NEW i \in DOMAIN t, t[i] = h
          PROVE  FALSE
        <3>1. /\ i + 1 \in DOMAIN q /\ 1 \in DOMAIN q /\ q[i + 1] = q[1]
              /\ i + 1 # 1
            BY <1>1, <2>2
        <3> QED
            BY <3>1, <1>3 DEF IsInjective
    <2> QED
        BY <2>1, <2>2 DEF IsInjective, Range
<1> QED
    BY <1>1, <1>2, <1>3 DEF t, h

\* A queue of requests sent so far is also one of the requests sent later.
LEMMA SeqMonotonic ==
    ASSUME NEW S, NEW T, S \subseteq T, NEW q \in Seq(S)
    PROVE  q \in Seq(T)
OBVIOUS

\* The empty queue holds nothing.
LEMMA EmptyRange == Range(<< >>) = {} /\ IsInjective(<< >>)
BY DEF Range, IsInjective

\* What is queued is an element of the set the queue is over.
LEMMA RangeInSet ==
    ASSUME NEW S, NEW q \in Seq(S)
    PROVE  Range(q) \subseteq S
BY DEF Range

----------------------------------------------------------------------------
(* However fast the user types.                                            *)

\* Where the server is says whether it has a request in its hands, and it goes
\* to suspend the task only when it has seen it running.
Places ==
    /\ pc["main"] \in {"inputloop", "ops_resume", "replying", "task_resume"}
    /\ pc["server"] # "inputloop"
    /\ pc["server"] \in {"suspend", "task_suspend", "enqueue"} => req # NONE
    /\ pc["server"] \notin {"suspend", "task_suspend", "enqueue", "gather"} => req = NONE
    /\ pc["server"] = "task_suspend" => suspend_count = 0

\* A request is in one place: in the port, in the server's hands, in
\* EXCEPTION_QUEUE, or freed.
Apart ==
    /\ IsInjective(port)
    /\ IsInjective(EXCEPTION_QUEUE)
    /\ Range(port) \cap Range(EXCEPTION_QUEUE) = {}
    /\ Range(port) \cap freed = {}
    /\ Range(EXCEPTION_QUEUE) \cap freed = {}
    /\ req \notin Range(port) \cup Range(EXCEPTION_QUEUE) \cup freed

QInv == TypeOK /\ Places /\ Apart /\ NoLostRequest

\* Before the first exception nothing is anywhere.
LEMMA QInvInit == Init => QInv
<1> SUFFICES ASSUME Init PROVE QInv
    OBVIOUS
<1>1. CASE raised = 0 /\ blocked = [t \in Threads |-> NONE] /\ port = << >>
    <2>1. TypeOK
        BY <1>1, RaisesAssumption DEF Init, TypeOK, NONE, Procs, Labels
    <2>2. Places /\ Apart /\ NoLostRequest
        BY <1>1, EmptyRange DEF Init, Places, Apart, NoLostRequest, NONE, Procs
    <2> QED
        BY <2>1, <2>2 DEF QInv
<1>2. ASSUME NEW first \in Threads, raised = 1, port = << 1 >>,
             blocked = [t \in Threads |-> IF t = first THEN 1 ELSE NONE]
      PROVE  QInv
    <2>1. port \in Seq(1 .. raised) /\ Range(port) = {1} /\ IsInjective(port)
        BY <1>2 DEF Range, IsInjective
    <2>2. TypeOK
        BY <1>2, <2>1, RaisesAssumption DEF Init, TypeOK, NONE, Procs, Labels
    <2>3. Places /\ Apart /\ NoLostRequest
        BY <1>2, <2>1, EmptyRange DEF Init, Places, Apart, NoLostRequest, NONE, Procs
    <2> QED
        BY <2>2, <2>3 DEF QInv
<1> QED
    BY <1>1, <1>2 DEF Init

\* A new request is in the port and nowhere else.
LEMMA SendStep ==
    ASSUME QInv,
           raised < MaxRaises,
           raised' = raised + 1,
           port' = Append(port, raised'),
           \A t \in Threads : blocked'[t] \in {blocked[t], raised'},
           blocked' \in [Threads -> 0 .. raised'],
           UNCHANGED <<suspend_count, req, exc_queue_internal, EXCEPTION_QUEUE,
                       NEED_REPLY, lock, freed, will_auto_resume, pc, stop_decided>>
    PROVE  QInv'
<1>1. /\ raised \in Nat /\ raised' \in 0 .. MaxRaises
      /\ 1 .. raised \subseteq 1 .. raised'
      /\ raised' \in 1 .. raised'
      /\ raised' \notin 0 .. raised
    BY RaisesAssumption DEF QInv, TypeOK
<1>2. /\ port \in Seq(1 .. raised')
      /\ exc_queue_internal \in Seq(1 .. raised')
      /\ EXCEPTION_QUEUE \in Seq(1 .. raised')
    BY <1>1, SeqMonotonic DEF QInv, TypeOK
<1>3. Range(port) \subseteq 1 .. raised /\ Range(EXCEPTION_QUEUE) \subseteq 1 .. raised
    BY RangeInSet DEF QInv, TypeOK
<1>4. raised' \notin Range(port) \cup Range(EXCEPTION_QUEUE) \cup freed \cup {req}
    BY <1>1, <1>3 DEF QInv, TypeOK
<1>5. /\ port' \in Seq(1 .. raised')
      /\ Range(port') = Range(port) \cup {raised'}
      /\ IsInjective(port')
    BY <1>1, <1>2, <1>4, Enqueued DEF QInv, Apart
<1>6. TypeOK'
    BY <1>1, <1>2, <1>5 DEF QInv, TypeOK
<1>7. Places' /\ Apart'
    BY <1>4, <1>5 DEF QInv, Places, Apart
<1>8. NoLostRequest'
    BY <1>5 DEF QInv, NoLostRequest
<1> QED
    BY <1>6, <1>7, <1>8 DEF QInv

\* Receiving moves a request from the port into the server's hands.
LEMMA ReceiveStep ==
    ASSUME QInv,
           req = NONE,
           port # << >>,
           req' = Head(port),
           port' = Tail(port),
           pc' \in [Procs -> Labels],
           pc'["main"] = pc["main"],
           pc'["server"] \in {"suspend", "gather"},
           UNCHANGED <<suspend_count, raised, blocked, exc_queue_internal, EXCEPTION_QUEUE,
                       NEED_REPLY, lock, freed, will_auto_resume, stop_decided>>
    PROVE  QInv'
<1>1. /\ req' \in 1 .. raised
      /\ port' \in Seq(1 .. raised)
      /\ Range(port) = {req'} \cup Range(port')
      /\ IsInjective(port') /\ req' \notin Range(port')
    BY Dequeued DEF QInv, TypeOK, Apart
<1>2. TypeOK'
    BY <1>1 DEF QInv, TypeOK
<1>3. Places'
    BY <1>1 DEF QInv, TypeOK, Places, NONE
<1>4. Apart'
    BY <1>1 DEF QInv, Apart
<1>5. NoLostRequest'
    BY <1>1 DEF QInv, NoLostRequest
<1> QED
    BY <1>2, <1>3, <1>4, <1>5 DEF QInv

\* Enqueueing moves the request from the server's hands into EXCEPTION_QUEUE.
LEMMA EnqueueStep ==
    ASSUME QInv,
           req # NONE,
           exc_queue_internal' = Append(exc_queue_internal, req),
           EXCEPTION_QUEUE' = Append(EXCEPTION_QUEUE, req),
           req' = NONE,
           NEED_REPLY' \in {0, 1},
           pc' \in [Procs -> Labels],
           pc'["main"] = pc["main"],
           pc'["server"] = "gather",
           UNCHANGED <<suspend_count, raised, blocked, port, lock, freed,
                       will_auto_resume, stop_decided>>
    PROVE  QInv'
<1>1. req \in 1 .. raised
    BY DEF QInv, TypeOK, NONE
<1>2. /\ exc_queue_internal' \in Seq(1 .. raised)
      /\ EXCEPTION_QUEUE' \in Seq(1 .. raised)
      /\ Range(EXCEPTION_QUEUE') = Range(EXCEPTION_QUEUE) \cup {req}
      /\ IsInjective(EXCEPTION_QUEUE')
    BY <1>1, Enqueued DEF QInv, TypeOK, Apart
<1>3. Range(port) \subseteq 1 .. raised /\ Range(EXCEPTION_QUEUE') \subseteq 1 .. raised
    BY <1>2, RangeInSet DEF QInv, TypeOK
<1>4. TypeOK'
    BY <1>2 DEF QInv, TypeOK, NONE
<1>5. Places'
    BY DEF QInv, Places
<1>6. Apart'
    BY <1>2, <1>3 DEF QInv, TypeOK, Apart, NONE
<1>7. NoLostRequest'
    BY <1>2 DEF QInv, NoLostRequest
<1> QED
    BY <1>4, <1>5, <1>6, <1>7 DEF QInv

\* Replying moves a request from EXCEPTION_QUEUE to the freed ones, and no
\* thread waits on it any more.
LEMMA ReplyStep ==
    ASSUME QInv, NEW p \in Procs, reply_next(p)
    PROVE  QInv'
<1> DEFINE r == Head(EXCEPTION_QUEUE)
<1>1. /\ r \in 1 .. raised
      /\ EXCEPTION_QUEUE' \in Seq(1 .. raised)
      /\ Range(EXCEPTION_QUEUE) = {r} \cup Range(EXCEPTION_QUEUE')
      /\ IsInjective(EXCEPTION_QUEUE') /\ r \notin Range(EXCEPTION_QUEUE')
    BY Dequeued DEF QInv, TypeOK, Apart, reply_next
<1>2. /\ blocked' = [t \in Threads |-> IF blocked[t] = r THEN NONE ELSE blocked[t]]
      /\ freed' = freed \cup {r}
      /\ UNCHANGED <<suspend_count, raised, port, req, exc_queue_internal, NEED_REPLY,
                     lock, will_auto_resume, pc, stop_decided>>
    BY DEF reply_next
<1> HIDE DEF r
<1>3. TypeOK'
    BY <1>1, <1>2 DEF QInv, TypeOK, NONE
<1>4. Places' /\ Apart'
    BY <1>1, <1>2 DEF QInv, Places, Apart
<1>5. NoLostRequest'
    BY <1>1, <1>2 DEF QInv, NoLostRequest
<1> QED
    BY <1>3, <1>4, <1>5 DEF QInv

\* Every step of main, the server or the debuggee keeps every request in one place:
\* the proof moves one request per action, by the four lemmas above.
LEMMA QInvStep ==
    ASSUME QInv, [Next]_vars
    PROVE  QInv'
<1> USE DEF Goto
<1>1. ASSUME NEW t \in Threads, Send(t)
      PROVE  QInv'
    <2>1. /\ blocked' \in [Threads -> 0 .. raised']
          /\ \A u \in Threads : blocked'[u] \in {blocked[u], raised'}
        BY <1>1 DEF Send, QInv, TypeOK
    <2> QED
        BY <1>1, <2>1, SendStep DEF Send
<1>2. CASE fake_sigstop
    <2>1. /\ blocked' \in [Threads -> 0 .. raised']
          /\ \A u \in Threads : blocked'[u] \in {blocked[u], raised'}
        BY <1>2 DEF fake_sigstop, QInv, TypeOK
    <2> QED
        BY <1>2, <2>1, SendStep DEF fake_sigstop
<1>3. CASE exception_server_recv
    BY <1>3, ReceiveStep DEF exception_server_recv, QInv, TypeOK, Places, Procs, Labels
<1>4. CASE gather_recv
    BY <1>4, ReceiveStep DEF gather_recv, QInv, TypeOK, Places, Procs, Labels
<1>5. CASE enqueue_first
    BY <1>5, EnqueueStep DEF enqueue_first, QInv, TypeOK, Places, Procs, Labels
<1>6. CASE gather_enqueue
    BY <1>6, EnqueueStep DEF gather_enqueue, QInv, TypeOK, Places, Procs, Labels
<1>7. ASSUME NEW p \in Procs, reply_next(p)
      PROVE  QInv'
    BY <1>7, ReplyStep
<1>8. ASSUME UNCHANGED <<raised, blocked, port, req, EXCEPTION_QUEUE, freed>>, TypeOK', Places'
      PROVE  QInv'
    BY <1>8 DEF QInv, Apart, NoLostRequest
<1>9. CASE suspend_check \/ task_suspend \/ gather_timeout \/ handled_all \/ report
    <2> pc' \in [Procs -> Labels]
        BY <1>9 DEF suspend_check, task_suspend, gather_timeout, handled_all, report,
                    QInv, TypeOK, Procs, Labels
    <2> suspend_count' \in {0, 1} /\ will_auto_resume' \in {0, 1}
        BY <1>9 DEF suspend_check, task_suspend, gather_timeout, handled_all, report,
                    QInv, TypeOK, Places
    <2>1. TypeOK'
        BY <1>9 DEF suspend_check, task_suspend, gather_timeout, handled_all, report,
                    QInv, TypeOK
    <2>2. Places'
        BY <1>9 DEF suspend_check, task_suspend, gather_timeout, handled_all, report,
                    suspended, QInv, TypeOK, Places, Procs
    <2> QED
        BY <1>8, <1>9, <2>1, <2>2 DEF suspend_check, task_suspend, gather_timeout, handled_all, report
<1>10. ASSUME NEW b \in {0, 1}, handle_next(b)
       PROVE  QInv'
    <2>1. exc_queue_internal' \in Seq(1 .. raised)
        BY <1>10, Dequeued DEF handle_next, QInv, TypeOK
    <2>2. will_auto_resume' \in {0, 1} /\ stop_decided' \in {0, 1}
        BY <1>10 DEF handle_next, QInv, TypeOK
    <2>3. TypeOK' /\ Places'
        BY <1>10, <2>1, <2>2 DEF handle_next, QInv, TypeOK, Places
    <2> QED
        BY <1>8, <1>10, <2>3 DEF handle_next
<1>11. ASSUME NEW p \in Procs, reply_lock(p) \/ reply_unlock(p) \/ task_resume(p)
       PROVE  QInv'
    <2> pc' \in [Procs -> Labels]
        BY <1>11 DEF reply_lock, reply_unlock, task_resume, QInv, TypeOK, Procs, Labels
    <2> /\ suspend_count' \in {0, 1} /\ NEED_REPLY' \in {0, 1}
        /\ lock' \in Procs \cup {"free"}
        BY <1>11 DEF reply_lock, reply_unlock, task_resume, QInv, TypeOK
    <2>1. TypeOK'
        BY <1>11 DEF reply_lock, reply_unlock, task_resume, QInv, TypeOK
    <2>2. Places'
        <3>1. CASE p = "main"
            BY <1>11, <3>1 DEF reply_lock, reply_unlock, task_resume, QInv, TypeOK, Places, Procs
        <3>2. CASE p = "server"
            BY <1>11, <3>2 DEF reply_lock, reply_unlock, task_resume, QInv, TypeOK, Places, Procs
        <3> QED
            BY <3>1, <3>2 DEF Procs
    <2> QED
        BY <1>8, <1>11, <2>1, <2>2 DEF reply_lock, reply_unlock, task_resume
<1>12. CASE Resume
    <2>1. TypeOK' /\ Places'
        BY <1>12 DEF Resume, QInv, TypeOK, Places, Procs, Labels
    <2> QED
        BY <1>8, <1>12, <2>1 DEF Resume
<1>13. CASE UNCHANGED vars
    BY <1>13 DEF vars, QInv, TypeOK, Places, Apart, NoLostRequest
<1>14. "main" \in Procs /\ "server" \in Procs
    BY DEF Procs
<1> QED
    BY <1>1, <1>2, <1>3, <1>4, <1>5, <1>6, <1>7, <1>9, <1>10, <1>11, <1>12, <1>13, <1>14
       DEF Next, Debuggee, raise_exception, interrupt, exception_server, ops_resume,
           exception_server_timeout, cmdfunc_continue, cmdfunc_step_inst

\* QInv is an invariant, whoever the user is.
THEOREM QueueInvariant == Spec => []QInv
<1>1. Init => QInv
    BY QInvInit
<1>2. QInv /\ [Next]_vars => QInv'
    BY QInvStep
<1> QED
    BY <1>1, <1>2, PTL DEF Spec

\* Type correctness; in particular the suspend count is never more than 1, so
\* that suspended(), which compares it with 1, answers the question asked.
THEOREM TypeCorrect == Spec => []TypeOK
BY QueueInvariant, PTL DEF QInv

\* reply_to_all_exceptions, run by both threads, replies to and frees every
\* request at most once.
THEOREM NeverRepliedTwice == Spec => []RepliedOnce
<1>1. QInv => RepliedOnce
    BY DEF QInv, Apart, RepliedOnce
<1> QED
    BY <1>1, QueueInvariant, PTL

\* The request of a blocked thread is never lost.
THEOREM NothingLost == Spec => []NoLostRequest
BY QueueInvariant, PTL DEF QInv

----------------------------------------------------------------------------
(* A patient user.                                                         *)

\* While a command resumes the debuggee, the exception server has nothing to do
\* and the debuggee does not run.
MainAlone ==
    pc["main"] # "inputloop" =>
        /\ pc["server"] = "recv"
        /\ port = << >>
        /\ suspend_count = 1
        /\ stop_decided = 0

\* From the moment a batch is opened until ops_resume is through, the debuggee
\* is suspended and NEED_REPLY stays set; nothing new comes in once gathering ends.
BatchOpen ==
    /\ pc["server"] \in {"enqueue", "gather", "handle", "ops_resume", "replying", "task_resume"}
            => suspend_count = 1
    /\ pc["server"] \in {"gather", "handle"} => NEED_REPLY = 1
    /\ pc["server"] \in {"handle", "ops_resume", "replying", "task_resume"} => port = << >>
    /\ pc["server"] \notin {"gather", "handle"} => exc_queue_internal = << >>

\* A stop that was decided on keeps the server from resuming.
StopHolds ==
    stop_decided = 1 =>
        /\ suspend_count = 1
        /\ port = << >>
        /\ pc["server"] \in {"handle", "report", "recv"}
        /\ pc["server"] \in {"handle", "report"} => will_auto_resume = 0

\* Whoever is about to resume the task has answered everything.
AnsweredFirst ==
    /\ QueuedIsDue
    /\ suspend_count = 0 => EXCEPTION_QUEUE = << >>
    /\ \A p \in Procs : pc[p] = "task_resume" => EXCEPTION_QUEUE = << >>

PInv == QInv /\ MainAlone /\ BatchOpen /\ StopHolds /\ AnsweredFirst /\ NoUseAfterFree

\* Nothing runs and nothing is decided when the server starts.
LEMMA PInvInit == Init => PInv
<1> SUFFICES ASSUME Init PROVE PInv
    OBVIOUS
<1>1. QInv
    BY QInvInit
<1>2. MainAlone /\ BatchOpen /\ StopHolds /\ AnsweredFirst /\ NoUseAfterFree
    BY EmptyRange DEF Init, MainAlone, BatchOpen, StopHolds, AnsweredFirst, QueuedIsDue,
                      NoUseAfterFree, Procs
<1> QED
    BY <1>1, <1>2 DEF PInv

\* With a patient user main and the server never work at the same time, so that no
\* step of one invalidates what the other has checked.
LEMMA PInvStep ==
    ASSUME Patient = 1, PInv, [Next]_vars
    PROVE  PInv'
<1>q. QInv /\ QInv'
    BY QInvStep DEF PInv
<1>t. TypeOK /\ Places /\ TypeOK'
    BY <1>q DEF QInv
<1> USE DEF Goto, Procs
<1>1. ASSUME suspend_count = 0, port' # << >>,
             UNCHANGED <<suspend_count, req, exc_queue_internal, EXCEPTION_QUEUE,
                         NEED_REPLY, lock, freed, will_auto_resume, pc, stop_decided>>
      PROVE  PInv'
    BY <1>1, <1>q DEF PInv, MainAlone, BatchOpen, StopHolds, AnsweredFirst, QueuedIsDue,
                      NoUseAfterFree
<1>2. CASE Debuggee
    <2>1. port' # << >>
        BY <1>2, <1>t, Enqueued, SeqMonotonic
           DEF Debuggee, raise_exception, interrupt, Send, fake_sigstop, TypeOK
    <2> QED
        BY <1>1, <1>2, <2>1 DEF Debuggee, raise_exception, interrupt, Send, fake_sigstop
<1>3. CASE exception_server_recv
    BY <1>3, <1>q, <1>t DEF exception_server_recv, PInv, TypeOK, MainAlone, BatchOpen, StopHolds,
                            AnsweredFirst, QueuedIsDue, NoUseAfterFree
<1>4. CASE suspend_check
    BY <1>4, <1>q, <1>t DEF suspend_check, suspended, PInv, TypeOK, MainAlone, BatchOpen,
                            StopHolds, AnsweredFirst, QueuedIsDue, NoUseAfterFree
<1>5. CASE task_suspend
    BY <1>5, <1>q, <1>t DEF task_suspend, PInv, TypeOK, Places, MainAlone, BatchOpen, StopHolds,
                            AnsweredFirst, QueuedIsDue, NoUseAfterFree
<1>6. CASE enqueue_first \/ gather_enqueue
    <2>1. req \in 1 .. raised
        BY <1>6, <1>t DEF enqueue_first, gather_enqueue, TypeOK, Places, NONE
    <2>2. Range(exc_queue_internal') = Range(exc_queue_internal) \cup {req}
        <3>1. exc_queue_internal \in Seq(1 .. raised)
            BY <1>t DEF TypeOK
        <3>2. exc_queue_internal' = Append(exc_queue_internal, req)
            BY <1>6 DEF enqueue_first, gather_enqueue
        <3> DEFINE S == 1 .. raised
        <3>3. exc_queue_internal \in Seq(S) /\ req \in S
            BY <2>1, <3>1
        <3> HIDE DEF S
        <3>4. Range(Append(exc_queue_internal, req)) = Range(exc_queue_internal) \cup {req}
            BY <3>3, Enqueued
        <3> QED
            BY <3>2, <3>4, Zenon
    <2>3. NoUseAfterFree'
        <3>1. freed' = freed
            BY <1>6 DEF enqueue_first, gather_enqueue
        <3>2. req \notin freed /\ Range(exc_queue_internal) \cap freed = {}
            BY DEF QInv, Apart, PInv, NoUseAfterFree
        <3> QED
            BY ONLY <2>2, <3>1, <3>2 DEF NoUseAfterFree
    <2>4. MainAlone' /\ BatchOpen' /\ StopHolds'
        BY <1>6, <1>t DEF enqueue_first, gather_enqueue, PInv, TypeOK, MainAlone, BatchOpen,
                          StopHolds
    <2>5. AnsweredFirst'
        BY <1>6, <1>t DEF enqueue_first, gather_enqueue, PInv, TypeOK, MainAlone, BatchOpen,
                          AnsweredFirst, QueuedIsDue
    <2> QED
        BY <1>q, <2>3, <2>4, <2>5 DEF PInv
<1>7. CASE gather_recv
    BY <1>7, <1>q, <1>t DEF gather_recv, PInv, TypeOK, MainAlone, BatchOpen, StopHolds,
                            AnsweredFirst, QueuedIsDue, NoUseAfterFree
<1>8. CASE gather_timeout
    BY <1>8, <1>q, <1>t DEF gather_timeout, PInv, TypeOK, MainAlone, BatchOpen, StopHolds,
                            AnsweredFirst, QueuedIsDue, NoUseAfterFree
<1>9. ASSUME NEW b \in {0, 1}, handle_next(b)
      PROVE  PInv'
    <2>1. Range(exc_queue_internal') \subseteq Range(exc_queue_internal)
        BY <1>9, <1>t, Dequeued DEF handle_next, TypeOK
    <2>2. NoUseAfterFree'
        BY <1>9, <2>1 DEF handle_next, PInv, NoUseAfterFree
    <2>3. MainAlone' /\ BatchOpen' /\ StopHolds' /\ AnsweredFirst'
        BY <1>9, <1>t DEF handle_next, PInv, TypeOK, MainAlone, BatchOpen, StopHolds,
                          AnsweredFirst, QueuedIsDue
    <2> QED
        BY <1>q, <2>2, <2>3 DEF PInv
<1>10. CASE handled_all \/ report
    BY <1>10, <1>q, <1>t DEF handled_all, report, PInv, TypeOK, MainAlone, BatchOpen, StopHolds,
                             AnsweredFirst, QueuedIsDue, NoUseAfterFree
<1>11. ASSUME NEW p \in Procs, reply_lock(p) \/ reply_unlock(p)
       PROVE  PInv'
    <2>1. CASE p = "main"
        BY <1>11, <1>q, <1>t, <2>1 DEF reply_lock, reply_unlock, PInv, TypeOK, MainAlone, BatchOpen,
                                       StopHolds, AnsweredFirst, QueuedIsDue, NoUseAfterFree
    <2>2. CASE p = "server"
        BY <1>11, <1>q, <1>t, <2>2 DEF reply_lock, reply_unlock, PInv, TypeOK, MainAlone, BatchOpen,
                                       StopHolds, AnsweredFirst, QueuedIsDue, NoUseAfterFree
    <2> QED
        BY <2>1, <2>2
<1>12. ASSUME NEW p \in Procs, reply_next(p)
       PROVE  PInv'
    <2>1. exc_queue_internal = << >>
        BY <1>12, <1>t DEF reply_next, PInv, MainAlone, BatchOpen
    <2>2. NoUseAfterFree'
        BY <1>12, <2>1, EmptyRange DEF reply_next, NoUseAfterFree
    <2>3. NEED_REPLY = 1 /\ \A r \in Procs : pc[r] # "task_resume"
        BY <1>12, <1>t DEF reply_next, PInv, MainAlone, AnsweredFirst, QueuedIsDue
    <2>4. MainAlone' /\ BatchOpen' /\ StopHolds'
        BY <1>12, <1>t DEF reply_next, PInv, TypeOK, MainAlone, BatchOpen, StopHolds
    <2>5. suspend_count = 1
        BY <1>12, <1>t DEF reply_next, PInv, MainAlone, BatchOpen
    <2>6. AnsweredFirst'
        BY <1>12, <2>3, <2>5 DEF reply_next, AnsweredFirst, QueuedIsDue
    <2> QED
        BY <1>q, <2>2, <2>4, <2>6 DEF PInv
<1>13. ASSUME NEW p \in Procs, task_resume(p)
       PROVE  PInv'
    <2>1. CASE p = "main"
        BY <1>13, <1>q, <1>t, <2>1 DEF task_resume, PInv, TypeOK, MainAlone, BatchOpen, StopHolds,
                                       AnsweredFirst, QueuedIsDue, NoUseAfterFree
    <2>2. CASE p = "server"
        BY <1>13, <1>q, <1>t, <2>2 DEF task_resume, PInv, TypeOK, MainAlone, BatchOpen, StopHolds,
                                       AnsweredFirst, QueuedIsDue, NoUseAfterFree
    <2> QED
        BY <2>1, <2>2
<1>14. CASE UserReady /\ Resume
    BY <1>14, <1>q, <1>t DEF UserReady, Resume, PInv, TypeOK, MainAlone, BatchOpen, StopHolds,
                             AnsweredFirst, QueuedIsDue, NoUseAfterFree
<1>15. CASE UNCHANGED vars
    BY <1>15, <1>q DEF vars, PInv, MainAlone, BatchOpen, StopHolds, AnsweredFirst, QueuedIsDue,
                       NoUseAfterFree
<1> QED
    BY <1>2, <1>3, <1>4, <1>5, <1>6, <1>7, <1>8, <1>9, <1>10, <1>11, <1>12, <1>13, <1>14, <1>15
       DEF Next, exception_server, ops_resume, exception_server_timeout, cmdfunc_continue,
           cmdfunc_step_inst

\* PInv, the inductive invariant behind the theorems about a user who waits for
\* reports, holds in every reachable state of exception_server and the commands.
THEOREM PatientInvariant ==
    ASSUME Patient = 1
    PROVE  Spec => []PInv
<1>1. Init => PInv
    BY PInvInit
<1>2. PInv /\ [Next]_vars => PInv'
    BY PInvStep
<1> QED
    BY <1>1, <1>2, PTL DEF Spec

\* With a user who waits for reports, the server handles no freed request.
THEOREM NothingUsedAfterFree ==
    ASSUME Patient = 1
    PROVE  Spec => []NoUseAfterFree
BY PatientInvariant, PTL DEF PInv

\* With a user who waits for reports, a stop lasts until the next command.
THEOREM StopsAreStops ==
    ASSUME Patient = 1
    PROVE  Spec => []StopMeansStopped
<1>1. PInv => StopMeansStopped
    BY DEF PInv, StopHolds, StopMeansStopped
<1> QED
    BY <1>1, PatientInvariant, PTL

\* With a user who waits for reports, when the debuggee runs and iosdbg is idle
\* nothing is left unanswered, and whatever is queued will be answered.
THEOREM EverythingAnswered ==
    ASSUME Patient = 1
    PROVE  Spec => [](RunningIsAnswered /\ QueuedIsDue)
<1>1. PInv => RunningIsAnswered /\ QueuedIsDue
    BY EmptyRange DEF PInv, QInv, Places, NoLostRequest, AnsweredFirst, RunningIsAnswered
<1> QED
    BY <1>1, PatientInvariant, PTL
=============================================================================
