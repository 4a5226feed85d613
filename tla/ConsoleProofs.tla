--------------------------- MODULE ConsoleProofs ---------------------------
(***************************************************************************)
(* Proofs about Console, for every size of the pipe, of the messages and   *)
(* of the bounds: io_append and io_flush implement Output, the reader      *)
(* finds a whole message, and what hangs stays hung.                       *)
(***************************************************************************)
EXTENDS Console, SequenceTheorems, WellFoundedInduction, TLAPS

----------------------------------------------------------------------------
(* The inductive invariant                                                 *)

MainPlaces == {"select", "append", "text", "etx", "lock", "read", "wp", "wp_th", "start_trace", "detach", "quit"}

\* Where a thread is, for main below the stop_trace it may be waiting in.
Where(t) == IF t = "main" /\ pc["main"] = "stop_trace" THEN ret ELSE pc[t]

Writes(t)  == Where(t) \in {"text", "etx"}
Written(t) == Size(t) - left[t]

PlaceInv ==
    /\ Where("main") \in MainPlaces
    /\ pc["es"] \in {"idle", "wait_for_trace", "focus", "append", "text", "etx"}
    /\ pc["tm"] \in {"idle", "th", "th_wp", "wp", "wp_th", "append", "text", "etx"}

\* A lock is held by the thread that is between taking and releasing it.
LockInv ==
    /\ \A t \in Threads : holder["IO"] = t <=> Where(t) \in {"text", "etx", "read"}
    /\ \A t \in Threads : holder["WP"] = t <=> Where(t) = "wp_th"
    /\ holder["TH"] = "tm" <=> pc["tm"] \in {"th", "th_wp"}
    /\ holder["TH"] \in {None, "tm"}

\* How much of a message is left goes with how far its writer is.
LeftInv ==
    /\ Where("main") \in {"append", "text", "etx"} => plan # <<>>
    /\ \A t \in Threads :
        /\ Where(t) = "append" => left[t] = Size(t)
        /\ Where(t) = "text" => left[t] \in 1 .. Size(t)
        /\ Where(t) = "etx" => left[t] = 0

\* Once main has been told that the pipe is readable it stays so, since main
\* is its only reader.
ReadyInv ==
    /\ ready /\ Where("main") # "select" /\ ~broken => pipe # <<>>
    /\ Where("main") = "read" => ready

\* The trace thread runs only with the flag set, and the debuggee is
\* suspended only while there is one.
TraceInv ==
    /\ tr # None => tracing
    /\ Where("main") = "start_trace" => tracing /\ tr = None
    /\ suspended => attached

\* What the pipe holds: the messages appended and not shown yet, the i-th of
\* them up to the ETX at e[i], and then what the writer has written so far.
Waiting   == Len(sent) - Len(shown)
Msg(i)    == sent[Len(shown) + i]
Frames(e) ==
    /\ e[0] = 0
    /\ \A i, j \in 0 .. Waiting : i < j => e[i] < e[j]
    /\ \A i \in 1 .. Waiting :
        /\ e[i] = e[i - 1] + Len(Msg(i)) + 1
        /\ pipe[e[i]] = ETX
        /\ \A j \in 1 .. Len(Msg(i)) : pipe[e[i - 1] + j] = Msg(i)[j]
Rest(e) ==
    /\ (\A t \in Threads : ~Writes(t)) => Len(pipe) = e[Waiting]
    /\ \A t \in Threads : Writes(t) =>
        /\ Len(pipe) = e[Waiting] + Written(t)
        /\ \A j \in 1 .. Written(t) : pipe[e[Waiting] + j] = t
Framed(e) == Frames(e) /\ Rest(e)

OutputInv ==
    ~broken => /\ Len(shown) <= Len(sent)
               /\ text = <<>>
               /\ \E e \in [0 .. Waiting -> 0 .. Len(pipe)] : Framed(e)

\* The parts of TypeOK, and the types of the history variables.
PlaceType ==
    /\ pc \in [Threads -> MainPlaces \cup {"stop_trace", "idle", "wait_for_trace", "focus", "th", "th_wp"}]
    /\ holder \in [Locks -> Threads \cup {None}]
    /\ ret \in MainPlaces \cup {None}
    /\ tr \in {None, "spin", "start", "wait", "event"}
PipeType ==
    /\ pipe \in Seq(Threads \cup {ETX}) /\ Len(pipe) <= Capacity
    /\ text \in Seq(Threads)
MessageType ==
    /\ left \in [Threads -> 0 .. MaxLen]
    /\ plan \in Seq(Sizes) /\ Len(plan) <= 2
FlagType    == {ready, attached, suspended, tracing, stop, done, quit, up, broken} \subseteq BOOLEAN
CountType   == lines \in 0 .. MaxLines /\ signals \in 0 .. MaxSignals
HistoryType == sent \in Seq(Seq(Threads)) /\ shown \in Seq(Seq(Threads))

IInv ==
    /\ TypeOK /\ HistoryType
    /\ PlaceInv /\ LockInv /\ LeftInv /\ ReadyInv /\ TraceInv /\ OutputInv

----------------------------------------------------------------------------

\* A set of natural numbers that is not empty has a least element.
LEMMA LeastNat ==
    ASSUME NEW S, S \subseteq Nat, S # {}
    PROVE  \E i \in S : \A j \in S : ~(j < i)
<1> DEFINE R == OpToRel(<, Nat)
<1>1. IsWellFoundedOn(R, Nat)
    BY NatLessThanWellFounded DEF OpToRel
<1>2. \E i \in S : \A j \in S : <<j, i>> \notin R
  <2> HIDE DEF R
  <2> QED
    BY <1>1, WFMin
<1>3. \A i, j \in Nat : <<j, i>> \in R <=> j < i
    BY DEF OpToRel
<1> QED
    BY <1>2, <1>3

\* A pipe with an ETX has a first one, and Etx is its place.
LEMMA FirstEtx ==
    ASSUME PipeType, Complete
    PROVE  /\ Etx \in 1 .. Len(pipe)
           /\ pipe[Etx] = ETX
           /\ \A j \in 1 .. Etx - 1 : pipe[j] \in Threads
<1> DEFINE S == {i \in DOMAIN pipe : pipe[i] = ETX}
<1>1. Len(pipe) \in Nat /\ DOMAIN pipe = 1 .. Len(pipe)
    BY LenProperties DEF PipeType
<1>2. S # {} /\ S \subseteq Nat
    BY <1>1 DEF Complete
<1>3. PICK i \in S : \A j \in S : ~(j < i)
  <2> HIDE DEF S
  <2> QED
    BY <1>2, LeastNat
<1>4. i \in DOMAIN pipe /\ pipe[i] = ETX /\ \A j \in 1 .. i - 1 : pipe[j] # ETX
    BY <1>1, <1>3
<1>5. Etx \in DOMAIN pipe /\ pipe[Etx] = ETX /\ \A j \in 1 .. Etx - 1 : pipe[j] # ETX
    BY <1>4 DEF Etx
<1> QED
    BY <1>1, <1>5, ElementOfSeq DEF PipeType

\* What io_flush reads of a complete message, and what it leaves.
LEMMA FlushParts ==
    ASSUME PipeType, Complete
    PROVE  /\ SubSeq(pipe, 1, Etx - 1) \in Seq(Threads)
           /\ Len(SubSeq(pipe, 1, Etx - 1)) = Etx - 1
           /\ \A j \in 1 .. Etx - 1 : SubSeq(pipe, 1, Etx - 1)[j] = pipe[j]
           /\ SubSeq(pipe, Etx + 1, Len(pipe)) \in Seq(Threads \cup {ETX})
           /\ Len(SubSeq(pipe, Etx + 1, Len(pipe))) = Len(pipe) - Etx
           /\ \A j \in 1 .. Len(pipe) - Etx : SubSeq(pipe, Etx + 1, Len(pipe))[j] = pipe[Etx + j]
<1>1. Len(pipe) \in Nat
    BY LenProperties DEF PipeType
<1>2. /\ Etx \in 1 .. Len(pipe)
      /\ \A j \in 1 .. Etx - 1 : pipe[j] \in Threads
    BY FirstEtx
<1>3. \A j \in Etx + 1 .. Len(pipe) : pipe[j] \in Threads \cup {ETX}
    BY <1>1, <1>2, ElementOfSeq DEF PipeType
<1>4. /\ SubSeq(pipe, 1, Etx - 1) \in Seq(Threads)
      /\ Len(SubSeq(pipe, 1, Etx - 1)) = Etx - 1
      /\ \A j \in 1 .. Etx - 1 : SubSeq(pipe, 1, Etx - 1)[j] = pipe[j]
  <2>1. 1 \in Int /\ Etx - 1 \in Int
    BY <1>1, <1>2
  <2> DEFINE r == SubSeq(pipe, 1, Etx - 1)
  <2>2. /\ r \in Seq(Threads)
        /\ Len(r) = IF 1 <= Etx - 1 THEN (Etx - 1) - 1 + 1 ELSE 0
        /\ \A i \in 1 .. (Etx - 1) - 1 + 1 : r[i] = pipe[1 + i - 1]
    BY <1>2, <2>1, SubSeqProperties
  <2> HIDE DEF r
  <2>3. r \in Seq(Threads) /\ Len(r) = Etx - 1 /\ \A j \in 1 .. Etx - 1 : r[j] = pipe[j]
    BY <1>1, <1>2, <2>2
  <2> QED
    BY <2>3 DEF r
<1>5. /\ SubSeq(pipe, Etx + 1, Len(pipe)) \in Seq(Threads \cup {ETX})
      /\ Len(SubSeq(pipe, Etx + 1, Len(pipe))) = Len(pipe) - Etx
      /\ \A j \in 1 .. Len(pipe) - Etx : SubSeq(pipe, Etx + 1, Len(pipe))[j] = pipe[Etx + j]
  <2>1. Etx + 1 \in Int /\ Len(pipe) \in Int
    BY <1>1, <1>2
  <2> DEFINE r == SubSeq(pipe, Etx + 1, Len(pipe))
  <2>2. /\ r \in Seq(Threads \cup {ETX})
        /\ Len(r) = IF Etx + 1 <= Len(pipe) THEN Len(pipe) - (Etx + 1) + 1 ELSE 0
        /\ \A i \in 1 .. Len(pipe) - (Etx + 1) + 1 : r[i] = pipe[(Etx + 1) + i - 1]
    BY <1>3, <2>1, SubSeqProperties
  <2> HIDE DEF r
  <2>3. /\ r \in Seq(Threads \cup {ETX}) /\ Len(r) = Len(pipe) - Etx
        /\ \A j \in 1 .. Len(pipe) - Etx : r[j] = pipe[Etx + j]
    BY <1>1, <1>2, <2>2
  <2> QED
    BY <2>3 DEF r
<1> QED
    BY <1>4, <1>5

\* A write adds one unit at the end of a pipe that is not full.
LEMMA WriteParts ==
    ASSUME PipeType, ~Full, NEW u \in Threads \cup {ETX}, pipe' = Append(pipe, u)
    PROVE  /\ pipe' \in Seq(Threads \cup {ETX}) /\ Len(pipe') <= Capacity
           /\ Len(pipe') = Len(pipe) + 1 /\ pipe'[Len(pipe) + 1] = u
           /\ \A j \in 1 .. Len(pipe) : pipe'[j] = pipe[j]
<1>1. Len(pipe) \in Nat /\ Capacity \in Nat
    BY LenProperties, SizeAssumption DEF PipeType
<1>2. /\ pipe' \in Seq(Threads \cup {ETX})
      /\ Len(pipe') = Len(pipe) + 1
      /\ \A i \in 1 .. Len(pipe) : pipe'[i] = pipe[i]
      /\ pipe'[Len(pipe) + 1] = u
    BY AppendProperties DEF PipeType
<1> QED
    BY <1>1, <1>2 DEF Full

\* A command's result is none, one or two messages.
LEMMA ShowsType ==
    ASSUME MessageType, NEW m \in Seq(Sizes), Len(m) <= 2, Shows(m)
    PROVE  MessageType'
<1>1. m # <<>> => m[1] \in Sizes
    BY EmptySeq, ElementOfSeq
<1> QED
    BY <1>1, SizeAssumption DEF MessageType, Shows, Sizes, Threads

\* Only main may have a second message.
LEMMA NextMessage ==
    ASSUME MessageType, NEW t, Next_message(t) = "append"
    PROVE  t = "main" /\ Len(plan) = 2 /\ plan[2] \in 1 .. MaxLen
<1>1. t = "main" /\ Len(plan) > 1
    BY DEF Next_message
<1>2. plan \in Seq(Sizes)
    BY DEF MessageType
<1>3. Len(plan) \in Nat
    BY <1>2, LenProperties
<1>4. Len(plan) <= 2
    BY DEF MessageType
<1>5. \A n \in Nat : n > 1 /\ n <= 2 => n = 2
    OBVIOUS
<1>6. Len(plan) = 2
    BY <1>1, <1>3, <1>4, <1>5, Zenon
<1>7. plan[2] \in Sizes
  <2>1. 2 \in 1 .. Len(plan)
    BY <1>6
  <2> QED
    BY <1>2, <2>1, ElementOfSeq
<1> QED
    BY <1>1, <1>6, <1>7 DEF Sizes

\* The second of two messages is the first of what is left.
LEMMA SecondMessage ==
    ASSUME MessageType, Len(plan) = 2
    PROVE  Head(Tail(plan)) = plan[2] /\ Tail(plan) # <<>>
<1> DEFINE none == <<>>
<1>0. Len(none) = 0
    OBVIOUS
<1>1. plan \in Seq(Sizes) /\ plan # <<>>
  <2> HIDE DEF none
  <2>1. plan # none
    BY <1>0
  <2> QED
    BY <2>1 DEF MessageType, none
<1>2. /\ Tail(plan) \in Seq(Sizes) /\ Len(Tail(plan)) = Len(plan) - 1
      /\ \A i \in 1 .. Len(Tail(plan)) : Tail(plan)[i] = plan[i + 1]
    BY <1>1, HeadTailProperties
<1>3. Len(Tail(plan)) = 1
    BY <1>2
<1>4. Tail(plan)[1] = plan[2]
    BY <1>2, <1>3
<1>5. Tail(plan) # <<>>
  <2> DEFINE rest == Tail(plan)
  <2>1. Len(rest) = 1
    BY <1>3
  <2>2. rest # none
    <3> HIDE DEF none, rest
    <3> QED
      BY <1>0, <2>1
  <2> QED
    BY <2>2
<1> QED
    BY <1>4, <1>5

\* The messages commands show.
LEMMA ResultType ==
    /\ <<>> \in Seq(Sizes) /\ Len(<<>>) <= 2
    /\ <<1>> \in Seq(Sizes) /\ Len(<<1>>) <= 2
    /\ \A a \in Sizes : /\ <<a>> \in Seq(Sizes) /\ Len(<<a>>) <= 2
                        /\ <<a, 1>> \in Seq(Sizes) /\ Len(<<a, 1>>) <= 2
BY SizeAssumption DEF Sizes

\* TypeOK is its parts.
LEMMA TypeParts ==
    /\ TypeOK <=> PlaceType /\ PipeType /\ MessageType /\ FlagType /\ CountType
    /\ TypeOK' <=> PlaceType' /\ PipeType' /\ MessageType' /\ FlagType' /\ CountType'
<1>1. TypeOK <=> PlaceType /\ PipeType /\ MessageType /\ FlagType /\ CountType
    BY DEF TypeOK, PlaceType, PipeType, MessageType, FlagType, CountType, MainPlaces
<1>2. TypeOK' <=> PlaceType' /\ PipeType' /\ MessageType' /\ FlagType' /\ CountType'
    BY DEF TypeOK, PlaceType, PipeType, MessageType, FlagType, CountType, MainPlaces
<1> QED
    BY <1>1, <1>2

\* Every step leaves each thread at one of its places.
LEMMA PlaceStep ==
    ASSUME PlaceType, PlaceInv, [Next]_vars
    PROVE  (PlaceType /\ PlaceInv)'
<1> USE SizeAssumption DEF Threads, Locks, ETX, None, Sizes, MainPlaces, Goes, Free, Locked,
        Unlocked, output, io, tracer, proc, loop, PlaceType, PlaceInv, Where
<1>1. ASSUME NEW t \in Threads, io_append_lock(t)
      PROVE  (PlaceType /\ PlaceInv)'
    BY <1>1 DEF io_append_lock
<1>2. ASSUME NEW t \in Threads, io_append_text(t)
      PROVE  (PlaceType /\ PlaceInv)'
    BY <1>2 DEF io_append_text
<1>3. ASSUME NEW t \in Threads, io_append_etx(t)
      PROVE  (PlaceType /\ PlaceInv)'
    BY <1>3 DEF io_append_etx, Size, Next_message
<1>4. CASE cmdfunc_print
    BY <1>4 DEF cmdfunc_print, Enters, Shows
<1>5. CASE cmdfunc_continue
    BY <1>5 DEF cmdfunc_continue, Enters, Shows, Said, Silent
<1>6. CASE cmdfunc_watchpoint_delete
    BY <1>6 DEF cmdfunc_watchpoint_delete, Enters
<1>7. CASE cmdfunc_trace
    BY <1>7 DEF cmdfunc_trace, Enters, Said, Shows
<1>8. CASE cmdfunc_detach
    BY <1>8 DEF cmdfunc_detach, Enters, stop_trace
<1>9. CASE cmdfunc_quit
    BY <1>9 DEF cmdfunc_quit, Enters, stop_trace
<1>10. CASE interrupt
    BY <1>10 DEF interrupt, stop_trace, Resumed, Cut_text, Cut_etx, Cut_read, Full, Next_message
<1>11. CASE watchpoint_delete_wp
    BY <1>11 DEF watchpoint_delete_wp
<1>12. CASE watchpoint_delete_th
    BY <1>12 DEF watchpoint_delete_th
<1>13. CASE start_trace
    BY <1>13 DEF start_trace
<1>14. CASE stop_trace_returns
    BY <1>14 DEF stop_trace_returns
<1>15. CASE ops_detach
    BY <1>15 DEF ops_detach, Said, Shows
<1>16. CASE linecb_quits
    BY <1>16 DEF linecb_quits, Said, Silent, Shows
<1>17. CASE select_pipe
    BY <1>17 DEF select_pipe
<1>18. CASE inputloop_lock
    BY <1>18 DEF inputloop_lock, Round
<1>19. CASE io_flush
    BY <1>19 DEF io_flush, Round
<1>20. CASE wait_for_trace
    BY <1>20 DEF wait_for_trace
<1>21. CASE handle_exception
    BY <1>21 DEF handle_exception, Appends
<1>22. CASE exception_server
    BY <1>22 DEF exception_server
<1>23. CASE update_thread_list_new
    BY <1>23 DEF update_thread_list_new
<1>24. CASE update_thread_list_same
    BY <1>24 DEF update_thread_list_same
<1>25. CASE adjust_watchpoints_wp
    BY <1>25 DEF adjust_watchpoints_wp
<1>26. CASE adjust_watchpoints_th
    BY <1>26 DEF adjust_watchpoints_th, Appends
<1>27. CASE thread_monitor_server
    BY <1>27 DEF thread_monitor_server
<1>28. CASE trace_spin
    BY <1>28 DEF trace_spin
<1>29. CASE trace_start
    BY <1>29 DEF trace_start, cleanup, At
<1>30. CASE trace_wake
    BY <1>30 DEF trace_wake, cleanup, At
<1>31. CASE trace_event
    BY <1>31 DEF trace_event
<1>32. CASE trace_timeout
    BY <1>32 DEF trace_timeout, cleanup, At
<1>33. CASE UNCHANGED vars
    BY <1>33 DEF vars
<1> QED
    BY <1>1, <1>2, <1>3, <1>4, <1>5, <1>6, <1>7, <1>8, <1>9, <1>10, <1>11, <1>12, <1>13, <1>14,
       <1>15, <1>16, <1>17, <1>18, <1>19, <1>20, <1>21, <1>22, <1>23, <1>24, <1>25, <1>26, <1>27,
       <1>28, <1>29, <1>30, <1>31, <1>32, <1>33
    DEF Next, User, Main, io_append, ExceptionServer, ThreadMonitor, Trace, Threads

\* Every step keeps the types of the pipe and of what is read from it.
LEMMA PipeTypeStep ==
    ASSUME PipeType, [Next]_vars
    PROVE  PipeType'
<1> USE DEF PipeType, io, output, tracer, proc, loop
<1>1. ASSUME NEW t \in Threads, io_append_lock(t)
      PROVE  PipeType'
    BY <1>1 DEF io_append_lock
<1>2. ASSUME NEW t \in Threads, io_append_text(t)
      PROVE  PipeType'
    BY <1>2, WriteParts DEF io_append_text
<1>3. ASSUME NEW t \in Threads, io_append_etx(t)
      PROVE  PipeType'
    BY <1>3, WriteParts DEF io_append_etx
<1>4. CASE interrupt
    BY <1>4 DEF interrupt, stop_trace, Resumed, Cut_text, Cut_etx, Cut_read, Full, Next_message
<1>5. CASE io_flush
  <2>1. Len(pipe) \in Nat /\ Capacity \in Nat
    BY LenProperties, SizeAssumption
  <2>2. CASE Complete
    <3>1. pipe' = SubSeq(pipe, Etx + 1, Len(pipe)) /\ text' = <<>>
      BY <1>5, <2>2 DEF io_flush
    <3>2. Etx \in 1 .. Len(pipe)
      BY <2>2, FirstEtx
    <3> QED
      BY <2>1, <2>2, <3>1, <3>2, FlushParts, EmptySeq
  <2>3. CASE ~Complete
    <3>1. pipe' = <<>> /\ text' = text \o pipe
      BY <1>5, <2>3 DEF io_flush
    <3>2. pipe \in Seq(Threads)
      <4>1. \A i \in 1 .. Len(pipe) : pipe[i] \in Threads
        BY <2>3, LenProperties, ElementOfSeq DEF Complete
      <4> QED
        BY <2>1, <4>1, LenProperties, SeqDef
    <3> QED
      BY <2>1, <3>1, <3>2, ConcatProperties, EmptySeq
  <2> QED
    BY <2>2, <2>3
<1>6. CASE \/ cmdfunc_print \/ cmdfunc_continue \/ cmdfunc_watchpoint_delete \/ cmdfunc_trace
           \/ cmdfunc_detach \/ cmdfunc_quit \/ watchpoint_delete_wp \/ watchpoint_delete_th
           \/ start_trace \/ stop_trace_returns \/ ops_detach \/ linecb_quits \/ select_pipe
           \/ inputloop_lock \/ wait_for_trace \/ handle_exception \/ exception_server
           \/ update_thread_list_new \/ update_thread_list_same \/ adjust_watchpoints_wp
           \/ adjust_watchpoints_th \/ thread_monitor_server \/ trace_spin \/ trace_start
           \/ trace_wake \/ trace_event \/ trace_timeout
    BY <1>6 DEF cmdfunc_print, Enters, Shows, cmdfunc_continue, Said, Silent,
        cmdfunc_watchpoint_delete, cmdfunc_trace, cmdfunc_detach, stop_trace, cmdfunc_quit,
        watchpoint_delete_wp, watchpoint_delete_th, start_trace, stop_trace_returns, ops_detach,
        linecb_quits, select_pipe, inputloop_lock, Round, wait_for_trace, handle_exception,
        Appends, exception_server, update_thread_list_new, update_thread_list_same,
        adjust_watchpoints_wp, adjust_watchpoints_th, thread_monitor_server, trace_spin,
        trace_start, cleanup, At, trace_wake, trace_event, trace_timeout
<1>7. CASE UNCHANGED vars
    BY <1>7 DEF vars
<1> QED
    BY <1>1, <1>2, <1>3, <1>4, <1>5, <1>6, <1>7
    DEF Next, User, Main, io_append, ExceptionServer, ThreadMonitor, Trace, Threads

\* Every step keeps the types of the messages to be written.
LEMMA MessageTypeStep ==
    ASSUME MessageType, PlaceType, PlaceInv, LeftInv, [Next]_vars
    PROVE  MessageType'
<1> USE SizeAssumption DEF MessageType, PlaceType, PlaceInv, LeftInv, Where, Threads, Sizes, Size,
        io, output, tracer, proc, loop
<1>1. ASSUME NEW t \in Threads, io_append_lock(t)
      PROVE  MessageType'
    BY <1>1 DEF io_append_lock
<1>2. ASSUME NEW t \in Threads, io_append_text(t)
      PROVE  MessageType'
    BY <1>2 DEF io_append_text
<1>3. ASSUME NEW t \in Threads, io_append_etx(t)
      PROVE  MessageType'
  <2>1. t = "main" => plan # <<>>
    BY <1>3 DEF io_append_etx
  <2>2. /\ plan' = IF t = "main" THEN Tail(plan) ELSE plan
        /\ left' = [left EXCEPT ![t] = IF Next_message(t) = "append" THEN plan[2] ELSE 0]
    BY <1>3 DEF io_append_etx
  <2>3. Next_message(t) = "append" => Len(plan) = 2 /\ plan[2] \in 0 .. MaxLen
    BY NextMessage
  <2> QED
    <3>1. plan' \in Seq(Sizes) /\ Len(plan') <= 2
      <4>1. CASE t = "main"
        <5>1. Tail(plan) \in Seq(Sizes) /\ Len(Tail(plan)) = Len(plan) - 1
          BY <2>1, <4>1, HeadTailProperties
        <5> QED
          BY <2>2, <4>1, <5>1, LenProperties
      <4> QED
        BY <2>2, <4>1
    <3>2. left' \in [Threads -> 0 .. MaxLen]
      BY <2>2, <2>3
    <3> QED
      BY <3>1, <3>2
<1>4. CASE cmdfunc_print
    BY <1>4, ShowsType, ResultType DEF cmdfunc_print
<1>5. CASE cmdfunc_continue
    BY <1>5, ShowsType, ResultType DEF cmdfunc_continue, Said, Silent
<1>6. CASE cmdfunc_trace
    BY <1>6, ShowsType, ResultType DEF cmdfunc_trace, Said
<1>7. CASE interrupt
  <2>1. plan' \in Seq(Sizes) /\ Len(plan') <= 2
    <3>1. CASE Cut_etx
      <4>1. plan # <<>> /\ plan' = Tail(plan)
        BY <1>7, <3>1 DEF interrupt, Cut_etx
      <4>2. Tail(plan) \in Seq(Sizes) /\ Len(Tail(plan)) = Len(plan) - 1
        BY <4>1, HeadTailProperties
      <4> QED
        BY <4>1, <4>2, LenProperties
    <3>2. CASE ~Cut_etx
      BY <1>7, <3>2, SMTT(30) DEF interrupt
    <3> QED
      BY <3>1, <3>2
  <2>2. left' \in [Threads -> 0 .. MaxLen]
    <3>1. CASE Cut_text
      BY <1>7, <3>1, SMTT(30) DEF interrupt
    <3>2. CASE ~Cut_text /\ Cut_etx /\ Len(plan) > 1
      <4>1. plan[2] \in 1 .. MaxLen
        BY <3>2
      <4> QED
        BY <1>7, <3>2, <4>1 DEF interrupt
    <3>3. CASE ~Cut_text /\ ~(Cut_etx /\ Len(plan) > 1)
      BY <1>7, <3>3 DEF interrupt
    <3> QED
      BY <3>1, <3>2, <3>3
  <2> QED
    BY <2>1, <2>2
<1>8. CASE ops_detach
    BY <1>8, ShowsType, ResultType DEF ops_detach, Said
<1>9. CASE linecb_quits
    BY <1>9, ShowsType, ResultType DEF linecb_quits, Said, Silent
<1>10. CASE handle_exception
    BY <1>10 DEF handle_exception, Appends
<1>11. CASE adjust_watchpoints_th
    BY <1>11 DEF adjust_watchpoints_th, Appends
<1>12. CASE \/ cmdfunc_watchpoint_delete \/ cmdfunc_detach \/ cmdfunc_quit \/ watchpoint_delete_wp
           \/ watchpoint_delete_th \/ start_trace \/ stop_trace_returns \/ select_pipe
           \/ inputloop_lock \/ io_flush \/ wait_for_trace \/ exception_server
           \/ update_thread_list_new \/ update_thread_list_same \/ adjust_watchpoints_wp
           \/ thread_monitor_server \/ trace_spin \/ trace_start \/ trace_wake \/ trace_event
           \/ trace_timeout
    BY <1>12 DEF cmdfunc_watchpoint_delete, Enters, cmdfunc_detach, stop_trace, cmdfunc_quit,
        watchpoint_delete_wp, watchpoint_delete_th, start_trace, stop_trace_returns, select_pipe,
        inputloop_lock, Round, io_flush, wait_for_trace, exception_server, update_thread_list_new,
        update_thread_list_same, adjust_watchpoints_wp, thread_monitor_server, trace_spin,
        trace_start, cleanup, At, trace_wake, trace_event, trace_timeout
<1>13. CASE UNCHANGED vars
    BY <1>13 DEF vars
<1> QED
    BY <1>1, <1>2, <1>3, <1>4, <1>5, <1>6, <1>7, <1>8, <1>9, <1>10, <1>11, <1>12, <1>13
    DEF Next, User, Main, io_append, ExceptionServer, ThreadMonitor, Trace, Threads

\* Every step keeps the flags Boolean.
LEMMA FlagTypeStep ==
    ASSUME FlagType, [Next]_vars
    PROVE  FlagType'
<1> USE DEF FlagType, io, output, tracer, proc, loop
<1>1. ASSUME NEW t \in Threads, io_append_lock(t)
      PROVE  FlagType'
    BY <1>1 DEF io_append_lock
<1>2. ASSUME NEW t \in Threads, io_append_text(t)
      PROVE  FlagType'
    BY <1>2 DEF io_append_text
<1>3. ASSUME NEW t \in Threads, io_append_etx(t)
      PROVE  FlagType'
    BY <1>3 DEF io_append_etx, Size, Next_message
<1>4. CASE cmdfunc_print
    BY <1>4 DEF cmdfunc_print, Enters, Shows
<1>5. CASE cmdfunc_continue
    BY <1>5 DEF cmdfunc_continue, Enters, Shows, Said, Silent
<1>6. CASE cmdfunc_watchpoint_delete
  <2>1. ready' \in BOOLEAN
    <3>1. ready' = (pipe # <<>>)
      BY <1>6 DEF cmdfunc_watchpoint_delete, Enters
    <3> QED
      BY <3>1, Zenon
  <2> QED
    BY <1>6, <2>1 DEF cmdfunc_watchpoint_delete
<1>7. CASE cmdfunc_trace
    BY <1>7 DEF cmdfunc_trace, Enters, Said, Shows
<1>8. CASE cmdfunc_detach
    BY <1>8 DEF cmdfunc_detach, Enters, stop_trace
<1>9. CASE cmdfunc_quit
    BY <1>9 DEF cmdfunc_quit, Enters, stop_trace
<1>10. CASE interrupt
    BY <1>10, ZenonT(60) DEF interrupt, stop_trace, Resumed, Cut_text, Cut_etx, Cut_read, Full, Next_message
<1>11. CASE watchpoint_delete_wp
    BY <1>11 DEF watchpoint_delete_wp
<1>12. CASE watchpoint_delete_th
    BY <1>12 DEF watchpoint_delete_th
<1>13. CASE start_trace
    BY <1>13 DEF start_trace
<1>14. CASE stop_trace_returns
    BY <1>14 DEF stop_trace_returns
<1>15. CASE ops_detach
    BY <1>15 DEF ops_detach, Said, Shows
<1>16. CASE linecb_quits
    BY <1>16 DEF linecb_quits, Said, Silent, Shows
<1>17. CASE select_pipe
    BY <1>17 DEF select_pipe
<1>18. CASE inputloop_lock
    BY <1>18 DEF inputloop_lock, Round
<1>19. CASE io_flush
    BY <1>19 DEF io_flush, Round
<1>20. CASE wait_for_trace
    BY <1>20 DEF wait_for_trace
<1>21. CASE handle_exception
    BY <1>21 DEF handle_exception, Appends
<1>22. CASE exception_server
    BY <1>22 DEF exception_server
<1>23. CASE update_thread_list_new
    BY <1>23 DEF update_thread_list_new
<1>24. CASE update_thread_list_same
    BY <1>24 DEF update_thread_list_same
<1>25. CASE adjust_watchpoints_wp
    BY <1>25 DEF adjust_watchpoints_wp
<1>26. CASE adjust_watchpoints_th
    BY <1>26 DEF adjust_watchpoints_th, Appends
<1>27. CASE thread_monitor_server
    BY <1>27 DEF thread_monitor_server
<1>28. CASE trace_spin
    BY <1>28 DEF trace_spin
<1>29. CASE trace_start
    BY <1>29 DEF trace_start, cleanup, At
<1>30. CASE trace_wake
    BY <1>30 DEF trace_wake, cleanup, At
<1>31. CASE trace_event
    BY <1>31 DEF trace_event
<1>32. CASE trace_timeout
    BY <1>32 DEF trace_timeout, cleanup, At
<1>33. CASE UNCHANGED vars
    BY <1>33 DEF vars
<1> QED
    BY <1>1, <1>2, <1>3, <1>4, <1>5, <1>6, <1>7, <1>8, <1>9, <1>10, <1>11, <1>12, <1>13, <1>14,
       <1>15, <1>16, <1>17, <1>18, <1>19, <1>20, <1>21, <1>22, <1>23, <1>24, <1>25, <1>26, <1>27,
       <1>28, <1>29, <1>30, <1>31, <1>32, <1>33
    DEF Next, User, Main, io_append, ExceptionServer, ThreadMonitor, Trace, Threads

\* Every step keeps the counters within their bounds.
LEMMA CountTypeStep ==
    ASSUME CountType, [Next]_vars
    PROVE  CountType'
<1> USE SizeAssumption DEF CountType, io, output, tracer, proc, loop
<1>1. ASSUME NEW t \in Threads, io_append_lock(t)
      PROVE  CountType'
    BY <1>1 DEF io_append_lock
<1>2. ASSUME NEW t \in Threads, io_append_text(t)
      PROVE  CountType'
    BY <1>2 DEF io_append_text
<1>3. ASSUME NEW t \in Threads, io_append_etx(t)
      PROVE  CountType'
    BY <1>3 DEF io_append_etx, Size, Next_message
<1>4. CASE cmdfunc_print
    BY <1>4 DEF cmdfunc_print, Enters, Shows
<1>5. CASE cmdfunc_continue
    BY <1>5 DEF cmdfunc_continue, Enters, Shows, Said, Silent
<1>6. CASE cmdfunc_watchpoint_delete
  <2>1. lines < MaxLines /\ lines' = lines + 1 /\ signals' = signals
    BY <1>6 DEF cmdfunc_watchpoint_delete, Enters
  <2> QED
    BY <2>1
<1>7. CASE cmdfunc_trace
    BY <1>7 DEF cmdfunc_trace, Enters, Said, Shows
<1>8. CASE cmdfunc_detach
    BY <1>8 DEF cmdfunc_detach, Enters, stop_trace
<1>9. CASE cmdfunc_quit
    BY <1>9 DEF cmdfunc_quit, Enters, stop_trace
<1>10. CASE interrupt
    BY <1>10 DEF interrupt, stop_trace, Resumed, Cut_text, Cut_etx, Cut_read, Full, Next_message
<1>11. CASE \/ watchpoint_delete_wp \/ watchpoint_delete_th \/ start_trace \/ stop_trace_returns
           \/ ops_detach \/ linecb_quits \/ select_pipe \/ inputloop_lock \/ io_flush
           \/ wait_for_trace \/ handle_exception \/ exception_server \/ update_thread_list_new
           \/ update_thread_list_same \/ adjust_watchpoints_wp \/ adjust_watchpoints_th
           \/ thread_monitor_server \/ trace_spin \/ trace_start \/ trace_wake \/ trace_event
           \/ trace_timeout
    BY <1>11 DEF watchpoint_delete_wp, watchpoint_delete_th, start_trace, stop_trace_returns,
        ops_detach, Said, Shows, linecb_quits, Silent, select_pipe, inputloop_lock, Round,
        io_flush, wait_for_trace, handle_exception, Appends, exception_server,
        update_thread_list_new, update_thread_list_same, adjust_watchpoints_wp,
        adjust_watchpoints_th, thread_monitor_server, trace_spin, trace_start, cleanup, At,
        trace_wake, trace_event, trace_timeout
<1>12. CASE UNCHANGED vars
    BY <1>12 DEF vars
<1> QED
    BY <1>1, <1>2, <1>3, <1>4, <1>5, <1>6, <1>7, <1>8, <1>9, <1>10, <1>11, <1>12
    DEF Next, User, Main, io_append, ExceptionServer, ThreadMonitor, Trace, Threads

\* Where a signal leaves the threads: main goes on where the handler found it,
\* or after the call that the signal cut short, if need be below stop_trace.
LEMMA InterruptPlaces ==
    ASSUME PlaceType, PlaceInv, interrupt
    PROVE  /\ Where("main") = pc["main"] /\ Where("main")' = Resumed
           /\ \A t \in {"es", "tm"} : Where(t)' = Where(t) /\ Where(t) = pc[t] /\ pc'[t] = pc[t]
<1>1. pc["main"] # "stop_trace" /\ Resumed # "stop_trace"
    BY DEF interrupt, Resumed, Next_message
<1>2. \/ pc' = [pc EXCEPT !["main"] = "stop_trace"] /\ ret' = Resumed
      \/ pc' = [pc EXCEPT !["main"] = Resumed]
    BY DEF interrupt, stop_trace, Goes
<1> QED
    BY <1>1, <1>2 DEF Where, PlaceType, Threads

\* What a signal does to the message main is writing.
LEMMA InterruptCuts ==
    ASSUME interrupt
    PROVE  /\ Cut_text => /\ pc["main"] = "text" /\ Resumed = "etx"
                          /\ left' = [left EXCEPT !["main"] = 0] /\ plan' = plan
           /\ Cut_etx => /\ pc["main"] = "etx" /\ Resumed = Next_message("main")
                         /\ left' = [left EXCEPT !["main"] = IF Len(plan) > 1 THEN plan[2] ELSE left["main"]]
                         /\ plan' = Tail(plan)
<1>1. CASE Cut_text
  <2>1. pc["main"] = "text" /\ ~Cut_etx /\ ~Cut_read
    BY <1>1 DEF Cut_text, Cut_etx, Cut_read
  <2> QED
    BY <1>1, <2>1 DEF interrupt, Resumed
<1>2. CASE Cut_etx
  <2>1. pc["main"] = "etx" /\ ~Cut_text /\ ~Cut_read
    BY <1>2 DEF Cut_text, Cut_etx, Cut_read
  <2> QED
    BY <1>2, <2>1 DEF interrupt, Resumed
<1> QED
    BY <1>1, <1>2

\* A result that is shown: main has it before it, or is done with it.
LEMMA ShowsLeft ==
    ASSUME PlaceType, PlaceInv, LeftInv, MessageType, pc["main"] # "stop_trace",
           NEW m \in Seq(Sizes), Shows(m)
    PROVE  LeftInv'
<1>1. m # <<>> => m[1] = Head(m)
    OBVIOUS
<1>2. /\ plan' = m /\ pc' = [pc EXCEPT !["main"] = IF m = <<>> THEN "lock" ELSE "append"]
      /\ left' = [left EXCEPT !["main"] = IF m = <<>> THEN 0 ELSE m[1]]
    BY DEF Shows, Goes
<1>3. \A t \in {"es", "tm"} : pc'[t] = pc[t] /\ left'[t] = left[t]
    BY <1>2 DEF PlaceType, MessageType, Threads
<1>4. pc'["main"] = (IF m = <<>> THEN "lock" ELSE "append") /\ (m # <<>> => left'["main"] = Head(plan'))
    BY <1>1, <1>2 DEF PlaceType, MessageType, Threads
<1> QED
    BY <1>2, <1>3, <1>4 DEF LeftInv, Where, Size, Threads

\* Every step keeps what is known of the locks.
LEMMA LockStep ==
    ASSUME PlaceType, PlaceInv, LockInv, [Next]_vars
    PROVE  LockInv'
<1> USE SizeAssumption DEF Threads, Locks, None, Goes, Free, Locked, Unlocked, output, io, tracer,
        proc, loop, MainPlaces, PlaceType, PlaceInv, LockInv, Where
<1>1. ASSUME NEW t \in Threads, io_append_lock(t)
      PROVE  LockInv'
    BY <1>1 DEF io_append_lock
<1>2. ASSUME NEW t \in Threads, io_append_text(t)
      PROVE  LockInv'
    BY <1>2 DEF io_append_text
<1>3. ASSUME NEW t \in Threads, io_append_etx(t)
      PROVE  LockInv'
    BY <1>3 DEF io_append_etx, Size, Next_message
<1>4. CASE cmdfunc_print
    BY <1>4 DEF cmdfunc_print, Enters, Shows
<1>5. CASE cmdfunc_continue
    BY <1>5 DEF cmdfunc_continue, Enters, Shows, Said, Silent
<1>6. CASE cmdfunc_watchpoint_delete
    BY <1>6, ZenonT(60) DEF cmdfunc_watchpoint_delete, Enters
<1>7. CASE cmdfunc_trace
    BY <1>7 DEF cmdfunc_trace, Enters, Said, Shows
<1>8. CASE cmdfunc_detach
    BY <1>8 DEF cmdfunc_detach, Enters, stop_trace
<1>9. CASE cmdfunc_quit
    BY <1>9 DEF cmdfunc_quit, Enters, stop_trace
<1>10. CASE interrupt
  <2>1. /\ Where("main") = pc["main"] /\ Where("main")' = Resumed
        /\ \A t \in {"es", "tm"} : Where(t)' = Where(t) /\ Where(t) = pc[t] /\ pc'[t] = pc[t]
    BY <1>10, InterruptPlaces
  <2>2. CASE Cut_etx \/ Cut_read
    <3>1. Resumed \in {"append", "lock", "select"}
      BY <2>2 DEF Resumed, Next_message, Cut_text, Cut_etx, Cut_read
    <3>2. holder' = [holder EXCEPT !["IO"] = None] /\ pc["main"] \in {"etx", "read"}
      BY <1>10, <2>2 DEF interrupt, Cut_etx, Cut_read
    <3> HIDE DEF Where
    <3> QED
      BY <2>1, <3>1, <3>2
  <2>3. CASE ~(Cut_etx \/ Cut_read)
    <3>1. holder' = holder
      BY <1>10, <2>3 DEF interrupt
    <3>2. Resumed = pc["main"] \/ (pc["main"] = "text" /\ Resumed = "etx")
      BY <2>3 DEF Resumed, Cut_text
    <3> HIDE DEF Where
    <3> QED
      BY <2>1, <3>1, <3>2
  <2> QED
    BY <2>2, <2>3
<1>11. CASE watchpoint_delete_wp
    BY <1>11 DEF watchpoint_delete_wp
<1>12. CASE watchpoint_delete_th
    BY <1>12 DEF watchpoint_delete_th
<1>13. CASE start_trace
    BY <1>13 DEF start_trace
<1>14. CASE stop_trace_returns
    BY <1>14 DEF stop_trace_returns
<1>15. CASE ops_detach
    BY <1>15 DEF ops_detach, Said, Shows
<1>16. CASE linecb_quits
    BY <1>16 DEF linecb_quits, Said, Silent, Shows
<1>17. CASE select_pipe
    BY <1>17 DEF select_pipe
<1>18. CASE inputloop_lock
    BY <1>18 DEF inputloop_lock, Round
<1>19. CASE io_flush
  <2>1. CASE Complete
    BY <1>19, <2>1 DEF io_flush, Round
  <2>2. CASE ~Complete
    BY <1>19, <2>2 DEF io_flush
  <2> QED
    BY <2>1, <2>2
<1>20. CASE wait_for_trace
    BY <1>20 DEF wait_for_trace
<1>21. CASE handle_exception
    BY <1>21 DEF handle_exception, Appends
<1>22. CASE exception_server
    BY <1>22 DEF exception_server
<1>23. CASE update_thread_list_new
    BY <1>23 DEF update_thread_list_new
<1>24. CASE update_thread_list_same
    BY <1>24 DEF update_thread_list_same
<1>25. CASE adjust_watchpoints_wp
    BY <1>25 DEF adjust_watchpoints_wp
<1>26. CASE adjust_watchpoints_th
    BY <1>26 DEF adjust_watchpoints_th, Appends
<1>27. CASE thread_monitor_server
    BY <1>27 DEF thread_monitor_server
<1>28. CASE \/ trace_spin \/ trace_start \/ trace_wake \/ trace_event \/ trace_timeout
    BY <1>28 DEF trace_spin, trace_start, cleanup, At, trace_wake, trace_event, trace_timeout
<1>29. CASE UNCHANGED vars
    BY <1>29 DEF vars
<1> QED
    BY <1>1, <1>2, <1>3, <1>4, <1>5, <1>6, <1>7, <1>8, <1>9, <1>10, <1>11, <1>12, <1>13, <1>14,
       <1>15, <1>16, <1>17, <1>18, <1>19, <1>20, <1>21, <1>22, <1>23, <1>24, <1>25, <1>26, <1>27,
       <1>28, <1>29
    DEF Next, User, Main, io_append, ExceptionServer, ThreadMonitor, Trace, Threads

\* Every step keeps what is known of how much is left to write.
LEMMA LeftStep ==
    ASSUME PlaceType, MessageType, PlaceInv, LeftInv, [Next]_vars
    PROVE  LeftInv'
<1> USE SizeAssumption DEF Threads, Locks, None, Goes, Free, Locked, Unlocked, output, io, tracer,
        proc, loop, Sizes, MainPlaces, PlaceType, MessageType, PlaceInv, LeftInv, Where, Size
<1>1. ASSUME NEW t \in Threads, io_append_lock(t)
      PROVE  LeftInv'
    BY <1>1 DEF io_append_lock
<1>2. ASSUME NEW t \in Threads, io_append_text(t)
      PROVE  LeftInv'
  <2>1. /\ Where(t) = "text" /\ pc' = [pc EXCEPT ![t] = IF left[t] = 1 THEN "etx" ELSE "text"]
        /\ left' = [left EXCEPT ![t] = left[t] - 1] /\ plan' = plan /\ ret' = ret /\ pc[t] = "text"
    BY <1>2 DEF io_append_text
  <2>2. left[t] \in 1 .. Size(t) /\ left[t] \in Nat /\ Size(t) \in Nat
    BY <2>1, HeadTailProperties
  <2>3. \A u \in Threads : u # t => Where(u)' = Where(u) /\ left'[u] = left[u]
    BY <2>1
  <2>4. /\ Where(t)' = IF left[t] = 1 THEN "etx" ELSE "text"
        /\ left'[t] = left[t] - 1
    BY <2>1
  <2>5. \A u \in Threads : Size(u)' = Size(u)
    BY <2>1
  <2> HIDE DEF Where, Size
  <2> QED
    BY <2>1, <2>2, <2>3, <2>4, <2>5, SMTT(30)
<1>3. ASSUME NEW t \in Threads, io_append_etx(t)
      PROVE  LeftInv'
  <2>1. /\ pc' = [pc EXCEPT ![t] = Next_message(t)] /\ ret' = ret /\ pc[t] = "etx"
        /\ left' = [left EXCEPT ![t] = IF Next_message(t) = "append" THEN plan[2] ELSE 0]
        /\ plan' = IF t = "main" THEN Tail(plan) ELSE plan
    BY <1>3 DEF io_append_etx
  <2>2. \A u \in Threads : u # t => Where(u)' = Where(u) /\ left'[u] = left[u]
    BY <2>1
  <2>3. Where(t)' = Next_message(t) /\ Next_message(t) \in {"idle", "append", "lock"}
    BY <2>1 DEF Next_message
  <2>4. t # "main" => Where(t)' = "idle" /\ plan' = plan
    BY <2>1, <2>3 DEF Next_message
  <2>5. t = "main" /\ Next_message(t) = "append" => plan' # <<>> /\ left'[t] = Head(plan')
    <3> HAVE t = "main" /\ Next_message(t) = "append"
    <3>1. plan' = Tail(plan) /\ left'[t] = plan[2]
      BY <2>1
    <3>2. Len(plan) = 2
      BY NextMessage
    <3>3. Head(Tail(plan)) = plan[2] /\ Tail(plan) # <<>>
      BY <3>2, SecondMessage
    <3> QED
      BY <3>1, <3>3
  <2>6. \A u \in {"es", "tm"} : Size(u)' = Size(u)
    OBVIOUS
  <2>7. Where("main") \notin {"append", "text", "etx"} \/ t = "main" \/ Size("main")' = Size("main")
    BY <2>4
  <2>8. CASE t = "main"
    <3>1. Size(t)' = Head(plan')
      BY <2>8
    <3> HIDE DEF Where, Size
    <3> QED
      BY <2>2, <2>3, <2>5, <2>6, <2>8, <3>1
  <2>9. CASE t # "main"
    <3>1. \A u \in Threads : Size(u)' = Size(u)
      BY <2>4, <2>9
    <3> HIDE DEF Where, Size
    <3> QED
      BY <2>2, <2>4, <2>9, <3>1
  <2> QED
    BY <2>8, <2>9
<1>4. CASE cmdfunc_print
    BY <1>4, ShowsLeft, ResultType DEF cmdfunc_print, Enters
<1>5. CASE cmdfunc_continue
    BY <1>5, ShowsLeft, ResultType DEF cmdfunc_continue, Enters, Said, Silent
<1>6. CASE cmdfunc_watchpoint_delete
    BY <1>6, ZenonT(60) DEF cmdfunc_watchpoint_delete, Enters
<1>7. CASE cmdfunc_trace
  <2>1. CASE tracing
    BY <1>7, <2>1, ShowsLeft, ResultType DEF cmdfunc_trace, Enters, Said
  <2>2. CASE ~tracing
    BY <1>7, <2>2 DEF cmdfunc_trace, Enters
  <2> QED
    BY <2>1, <2>2
<1>8. CASE cmdfunc_detach
    BY <1>8 DEF cmdfunc_detach, Enters, stop_trace
<1>9. CASE cmdfunc_quit
    BY <1>9 DEF cmdfunc_quit, Enters, stop_trace
<1>10. CASE interrupt
  <2>1. /\ Where("main") = pc["main"] /\ Where("main")' = Resumed
        /\ \A t \in {"es", "tm"} : Where(t)' = Where(t) /\ left'[t] = left[t]
    BY <1>10, InterruptPlaces DEF interrupt
  <2>2. CASE Cut_text
    <3>1. Resumed = "etx" /\ left'["main"] = 0 /\ plan' = plan /\ pc["main"] = "text"
      BY <1>10, <2>2, InterruptCuts
    <3> HIDE DEF Where
    <3> QED
      BY <2>1, <3>1
  <2>3. CASE Cut_etx
    <3>1. pc["main"] = "etx" /\ Resumed = Next_message("main") /\ plan # <<>> /\ plan' = Tail(plan)
      BY <1>10, <2>1, <2>3, InterruptCuts
    <3>2. CASE Next_message("main") = "append"
      <4>1. left'["main"] = plan[2] /\ Len(plan) = 2
        BY <1>10, <2>3, <3>2, NextMessage DEF interrupt, Cut_text, Cut_etx
      <4>2. Head(Tail(plan)) = plan[2] /\ Tail(plan) # <<>>
        BY <4>1, SecondMessage
      <4> HIDE DEF Where
      <4> QED
        BY <2>1, <3>1, <3>2, <4>1, <4>2
    <3>3. CASE Next_message("main") # "append"
      <4>1. Next_message("main") = "lock"
        BY <3>3 DEF Next_message
      <4> HIDE DEF Where
      <4> QED
        BY <2>1, <3>1, <4>1
    <3> QED
      BY <3>2, <3>3
  <2>4. CASE ~Cut_text /\ ~Cut_etx
    <3>1. left'["main"] = left["main"] /\ plan' = plan
      BY <1>10, <2>4 DEF interrupt
    <3>2. Resumed = pc["main"] \/ Resumed = "select"
      BY <2>4 DEF Resumed
    <3> HIDE DEF Where
    <3> QED
      BY <2>1, <3>1, <3>2
  <2> QED
    BY <2>2, <2>3, <2>4
<1>11. CASE watchpoint_delete_wp
    BY <1>11 DEF watchpoint_delete_wp
<1>12. CASE watchpoint_delete_th
    BY <1>12 DEF watchpoint_delete_th
<1>13. CASE start_trace
    BY <1>13 DEF start_trace
<1>14. CASE stop_trace_returns
    BY <1>14 DEF stop_trace_returns
<1>15. CASE ops_detach
    BY <1>15, ShowsLeft, ResultType DEF ops_detach, Said
<1>16. CASE linecb_quits
    BY <1>16, ShowsLeft, ResultType DEF linecb_quits, Said, Silent
<1>17. CASE select_pipe
    BY <1>17 DEF select_pipe
<1>18. CASE inputloop_lock
    BY <1>18 DEF inputloop_lock, Round
<1>19. CASE io_flush
  <2>1. CASE Complete
    BY <1>19, <2>1, ZenonT(60) DEF io_flush, Round
  <2>2. CASE ~Complete
    BY <1>19, <2>2 DEF io_flush
  <2> QED
    BY <2>1, <2>2
<1>20. CASE wait_for_trace
    BY <1>20 DEF wait_for_trace
<1>21. CASE handle_exception
  <2>1. /\ Appends("es") \/ (Goes("es", "idle") /\ left' = left)
        /\ plan' = plan /\ ret' = ret
    BY <1>21 DEF handle_exception
  <2>2. CASE Appends("es")
    BY <2>1, <2>2, SMTT(30) DEF Appends
  <2>3. CASE Goes("es", "idle") /\ left' = left
    BY <2>1, <2>3, SMTT(30)
  <2> QED
    BY <2>1, <2>2, <2>3
<1>22. CASE exception_server
    BY <1>22 DEF exception_server
<1>23. CASE update_thread_list_new
    BY <1>23 DEF update_thread_list_new
<1>24. CASE update_thread_list_same
    BY <1>24 DEF update_thread_list_same
<1>25. CASE adjust_watchpoints_wp
    BY <1>25 DEF adjust_watchpoints_wp
<1>26. CASE adjust_watchpoints_th
  <2>1. /\ Appends("tm") \/ (Goes("tm", "idle") /\ left' = left)
        /\ plan' = plan /\ ret' = ret
    BY <1>26 DEF adjust_watchpoints_th
  <2> QED
    BY <2>1 DEF Appends
<1>27. CASE thread_monitor_server
    BY <1>27 DEF thread_monitor_server
<1>28. CASE \/ trace_spin \/ trace_start \/ trace_wake \/ trace_event \/ trace_timeout
    BY <1>28 DEF trace_spin, trace_start, cleanup, At, trace_wake, trace_event, trace_timeout
<1>29. CASE UNCHANGED vars
    BY <1>29 DEF vars
<1> QED
    BY <1>1, <1>2, <1>3, <1>4, <1>5, <1>6, <1>7, <1>8, <1>9, <1>10, <1>11, <1>12, <1>13, <1>14,
       <1>15, <1>16, <1>17, <1>18, <1>19, <1>20, <1>21, <1>22, <1>23, <1>24, <1>25, <1>26, <1>27,
       <1>28, <1>29
    DEF Next, User, Main, io_append, ExceptionServer, ThreadMonitor, Trace, Threads

\* Every step keeps what is known of the trace thread.
LEMMA TraceStep ==
    ASSUME PlaceType, FlagType, PlaceInv, TraceInv, [Next]_vars
    PROVE  TraceInv'
<1> USE DEF Threads, None, Goes, output, io, tracer, proc, loop, MainPlaces, PlaceType, FlagType,
        PlaceInv, TraceInv, Where
<1>1. ASSUME NEW t \in Threads, io_append_lock(t)
      PROVE  TraceInv'
    BY <1>1 DEF io_append_lock
<1>2. ASSUME NEW t \in Threads, io_append_text(t)
      PROVE  TraceInv'
    BY <1>2 DEF io_append_text
<1>3. ASSUME NEW t \in Threads, io_append_etx(t)
      PROVE  TraceInv'
    BY <1>3 DEF io_append_etx, Size, Next_message
<1>4. CASE cmdfunc_print
    BY <1>4 DEF cmdfunc_print, Enters, Shows
<1>5. CASE cmdfunc_continue
    BY <1>5 DEF cmdfunc_continue, Enters, Shows, Said, Silent
<1>6. CASE cmdfunc_watchpoint_delete
    BY <1>6 DEF cmdfunc_watchpoint_delete, Enters
<1>7. CASE cmdfunc_trace
    BY <1>7 DEF cmdfunc_trace, Enters, Said, Shows
<1>8. CASE cmdfunc_detach
    BY <1>8 DEF cmdfunc_detach, Enters, stop_trace
<1>9. CASE cmdfunc_quit
    BY <1>9 DEF cmdfunc_quit, Enters, stop_trace
<1>10. CASE interrupt
    BY <1>10 DEF interrupt, stop_trace, Resumed, Cut_text, Cut_etx, Cut_read, Full, Next_message
<1>11. CASE watchpoint_delete_wp
    BY <1>11 DEF watchpoint_delete_wp
<1>12. CASE watchpoint_delete_th
    BY <1>12 DEF watchpoint_delete_th
<1>13. CASE start_trace
    BY <1>13 DEF start_trace
<1>14. CASE stop_trace_returns
    BY <1>14 DEF stop_trace_returns
<1>15. CASE ops_detach
    BY <1>15 DEF ops_detach, Said, Shows
<1>16. CASE linecb_quits
    BY <1>16 DEF linecb_quits, Said, Silent, Shows
<1>17. CASE select_pipe
    BY <1>17 DEF select_pipe
<1>18. CASE inputloop_lock
    BY <1>18 DEF inputloop_lock, Round
<1>19. CASE io_flush
  <2>1. CASE Complete
    BY <1>19, <2>1 DEF io_flush, Round
  <2>2. CASE ~Complete
    BY <1>19, <2>2 DEF io_flush
  <2> QED
    BY <2>1, <2>2
<1>20. CASE wait_for_trace
    BY <1>20 DEF wait_for_trace
<1>21. CASE handle_exception
  <2>1. suspended' \in {suspended, FALSE} /\ UNCHANGED <<attached, tr, tracing>>
    BY <1>21 DEF handle_exception
  <2>2. suspended' => suspended
    BY <2>1, Zenon
  <2>3. Where("main")' = Where("main")
    BY <1>21 DEF handle_exception, Appends
  <2> QED
    BY <2>1, <2>2, <2>3
<1>22. CASE exception_server
    BY <1>22 DEF exception_server
<1>23. CASE update_thread_list_new
    BY <1>23 DEF update_thread_list_new
<1>24. CASE update_thread_list_same
    BY <1>24 DEF update_thread_list_same
<1>25. CASE adjust_watchpoints_wp
    BY <1>25 DEF adjust_watchpoints_wp
<1>26. CASE adjust_watchpoints_th
    BY <1>26 DEF adjust_watchpoints_th, Appends
<1>27. CASE thread_monitor_server
    BY <1>27 DEF thread_monitor_server
<1>28. CASE trace_spin
    BY <1>28 DEF trace_spin
<1>29. CASE trace_start
    BY <1>29 DEF trace_start, cleanup, At
<1>30. CASE trace_wake
    BY <1>30 DEF trace_wake, cleanup, At
<1>31. CASE trace_event
    BY <1>31 DEF trace_event
<1>32. CASE trace_timeout
    BY <1>32 DEF trace_timeout, cleanup, At
<1>33. CASE UNCHANGED vars
    BY <1>33 DEF vars
<1> QED
    BY <1>1, <1>2, <1>3, <1>4, <1>5, <1>6, <1>7, <1>8, <1>9, <1>10, <1>11, <1>12, <1>13, <1>14,
       <1>15, <1>16, <1>17, <1>18, <1>19, <1>20, <1>21, <1>22, <1>23, <1>24, <1>25, <1>26, <1>27,
       <1>28, <1>29, <1>30, <1>31, <1>32, <1>33
    DEF Next, User, Main, io_append, ExceptionServer, ThreadMonitor, Trace, Threads

----------------------------------------------------------------------------
(* The contents of the pipe                                                *)

\* A step that has nothing to do with the pipe.
Still ==
    /\ UNCHANGED <<pipe, text, sent, shown, broken>>
    /\ \A t \in Threads : /\ Writes(t)' <=> Writes(t)
                          /\ Writes(t) => Written(t)' = Written(t)

\* Such a step leaves the pipe framed as it was.
LEMMA StillFramed ==
    ASSUME OutputInv, Still
    PROVE  OutputInv'
<1> SUFFICES ASSUME ~broken
             PROVE  OutputInv'
    BY DEF OutputInv, Still
<1>1. PICK e \in [0 .. Waiting -> 0 .. Len(pipe)] : Framed(e)
    BY DEF OutputInv
<1>2. Waiting' = Waiting /\ \A i : Msg(i)' = Msg(i)
    BY DEF Still, Waiting, Msg
<1>3. Framed(e)'
    BY <1>1, <1>2 DEF Still, Framed, Frames, Rest
<1> QED
    BY <1>1, <1>2, <1>3 DEF Still, OutputInv

\* The lengths are numbers.
LEMMA Lengths ==
    ASSUME PipeType, HistoryType
    PROVE  Len(pipe) \in Nat /\ Len(sent) \in Nat /\ Len(shown) \in Nat
BY LenProperties DEF PipeType, HistoryType

\* The writer is alone, since it has the lock.
LEMMA OneWriter ==
    ASSUME LockInv, NEW t \in Threads, Where(t) \in {"text", "etx", "read"}
    PROVE  \A u \in Threads : u # t => ~Writes(u)
BY DEF LockInv, Writes

\* io_append takes the lock: nothing is written yet.
LEMMA LockFramed ==
    ASSUME PlaceType, MessageType, PlaceInv, LockInv, LeftInv, OutputInv, PipeType, HistoryType,
           NEW t \in Threads, io_append_lock(t)
    PROVE  OutputInv'
<1> SUFFICES ASSUME ~broken
             PROVE  OutputInv'
    BY DEF OutputInv, io_append_lock, output
<1>1. PICK e \in [0 .. Waiting -> 0 .. Len(pipe)] : Framed(e)
    BY DEF OutputInv
<1>2. UNCHANGED <<pipe, text, sent, shown, broken, left, plan, ret>>
    BY DEF io_append_lock, output, io, loop
<1>3. Waiting' = Waiting /\ \A i : Msg(i)' = Msg(i)
    BY <1>2 DEF Waiting, Msg
<1>4. \A u \in Threads : ~Writes(u)
    BY DEF io_append_lock, Free, LockInv, Writes, None, Threads
<1>5. \A u \in Threads : u # t => ~Writes(u)'
    BY <1>2, <1>4 DEF io_append_lock, Goes, Writes, Where, PlaceType, Threads
<1>6. Written(t)' = 0
  <2>1. left[t] = Size(t)
    BY DEF io_append_lock, LeftInv, Where
  <2>2. left[t] \in Nat
    BY SizeAssumption DEF MessageType
  <2> QED
    BY <1>2, <2>1, <2>2 DEF Written, Size
<1>7. Len(pipe) = e[Waiting]
    BY <1>1, <1>4 DEF Framed, Rest
<1>8. Len(pipe) \in Nat
    BY Lengths
<1>9. Framed(e)'
  <2>1. Frames(e)'
    BY <1>1, <1>2, <1>3 DEF Framed, Frames
  <2>2. Writes(t)'
    BY DEF io_append_lock, Goes, Writes, Where, PlaceType
  <2>3. Rest(e)'
    <3>1. Len(pipe)' = e[Waiting'] + 0
      BY <1>2, <1>3, <1>7, <1>8
    <3> QED
      BY <1>5, <1>6, <2>2, <3>1 DEF Rest
  <2> QED
    BY <2>1, <2>3 DEF Framed
<1> QED
    BY <1>1, <1>2, <1>3, <1>9 DEF OutputInv

\* A writer knows how long its message is.
LEMMA Sized ==
    ASSUME MessageType, PlaceInv, LeftInv, NEW t \in Threads, Where(t) \in {"append", "text", "etx"}
    PROVE  Size(t) \in Nat /\ Size(t) >= 1 /\ left[t] \in Nat /\ left[t] <= Size(t)
<1>1. t = "main" => Head(plan) \in Sizes
    BY HeadTailProperties DEF LeftInv, MessageType
<1>2. Size(t) \in Nat /\ Size(t) >= 1
    BY <1>1, SizeAssumption DEF Size, Sizes
<1>3. left[t] \in Nat
    BY SizeAssumption DEF MessageType
<1> QED
    BY <1>2, <1>3 DEF LeftInv

\* What a message's end marks stay when the pipe grows.
LEMMA GrowsFramed ==
    ASSUME PipeType, HistoryType, Len(shown) <= Len(sent),
           NEW e \in [0 .. Waiting -> 0 .. Len(pipe)], Frames(e),
           \A j \in 1 .. Len(pipe) : pipe'[j] = pipe[j]
    PROVE  \A i \in 1 .. Waiting :
                /\ pipe'[e[i]] = ETX
                /\ \A j \in 1 .. Len(Msg(i)) : pipe'[e[i - 1] + j] = Msg(i)[j]
<1> SUFFICES ASSUME NEW i \in 1 .. Waiting
             PROVE  /\ pipe'[e[i]] = ETX
                    /\ \A j \in 1 .. Len(Msg(i)) : pipe'[e[i - 1] + j] = Msg(i)[j]
    OBVIOUS
<1>1. Waiting \in Nat /\ Len(pipe) \in Nat
    BY Lengths DEF Waiting
<1>2. Len(Msg(i)) \in Nat
  <2>1. Len(shown) + i \in 1 .. Len(sent)
    BY <1>1, Lengths DEF Waiting
  <2>2. Msg(i) \in Seq(Threads)
    BY <2>1, ElementOfSeq DEF Msg, HistoryType
  <2> QED
    BY <2>2, LenProperties
<1>3. e[i] \in 0 .. Len(pipe) /\ e[i - 1] \in 0 .. Len(pipe) /\ e[i] = e[i - 1] + Len(Msg(i)) + 1
    BY <1>1 DEF Frames
<1>4. e[i] \in 1 .. Len(pipe) /\ \A j \in 1 .. Len(Msg(i)) : e[i - 1] + j \in 1 .. Len(pipe)
    BY <1>1, <1>2, <1>3
<1> QED
    BY <1>4 DEF Frames

\* io_append writes a unit of its text.
LEMMA TextFramed ==
    ASSUME PlaceType, MessageType, PlaceInv, LockInv, LeftInv, OutputInv, PipeType, HistoryType,
           NEW t \in Threads, io_append_text(t)
    PROVE  OutputInv'
<1> SUFFICES ASSUME ~broken
             PROVE  OutputInv'
    BY DEF OutputInv, io_append_text, output
<1>1. PICK e \in [0 .. Waiting -> 0 .. Len(pipe)] : Framed(e)
    BY DEF OutputInv
<1>2. UNCHANGED <<text, sent, shown, broken, plan, ret>> /\ Where(t) = "text" /\ pc[t] = "text"
    BY DEF io_append_text, output, loop, Where
<1>3. Waiting' = Waiting /\ \A i : Msg(i)' = Msg(i)
    BY <1>2 DEF Waiting, Msg
<1>4. \A u \in Threads : u # t => ~Writes(u)
    BY <1>2, OneWriter
<1>5. Writes(t)' /\ \A u \in Threads : u # t => ~Writes(u)'
    BY <1>2, <1>4 DEF io_append_text, Goes, Writes, Where, PlaceType, Threads
<1>6. Written(t)' = Written(t) + 1 /\ Written(t) \in Nat
  <2>1. Size(t) \in Nat /\ left[t] \in Nat /\ left[t] <= Size(t) /\ Size(t)' = Size(t)
    BY <1>2, Sized DEF Size
  <2>2. left'[t] = left[t] - 1
    BY DEF io_append_text, MessageType
  <2> QED
    BY <2>1, <2>2 DEF Written
<1>7. /\ Len(pipe') = Len(pipe) + 1 /\ pipe'[Len(pipe) + 1] = t
      /\ \A j \in 1 .. Len(pipe) : pipe'[j] = pipe[j]
    BY WriteParts DEF io_append_text
<1>8. /\ Len(pipe) \in Nat /\ Waiting \in Nat /\ e[Waiting] \in Nat
      /\ Len(pipe) = e[Waiting] + Written(t)
      /\ \A j \in 1 .. Written(t) : pipe[e[Waiting] + j] = t
  <2>1. Writes(t)
    BY <1>2 DEF Writes
  <2>2. Len(pipe) \in Nat /\ Waiting \in Nat
    BY Lengths DEF OutputInv, Waiting
  <2> QED
    BY <1>1, <2>1, <2>2 DEF Framed, Rest
<1>9. Frames(e)'
    BY <1>1, <1>3, <1>7, GrowsFramed DEF Framed, Frames, OutputInv
<1>10. Rest(e)'
  <2>1. Len(pipe)' = e[Waiting'] + Written(t)'
    BY <1>3, <1>6, <1>7, <1>8
  <2>2. \A j \in 1 .. Written(t)' : pipe'[e[Waiting'] + j] = t
    BY <1>3, <1>6, <1>7, <1>8, SMTT(30)
  <2> QED
    BY <1>5, <2>1, <2>2 DEF Rest
<1>11. e \in [0 .. Waiting' -> 0 .. Len(pipe')]
    BY <1>3, <1>7, <1>8
<1> QED
    BY <1>2, <1>9, <1>10, <1>11 DEF OutputInv, Framed

\* A message is a sequence.
LEMMA MessageSeq ==
    ASSUME NEW n \in Nat, NEW t \in Threads
    PROVE  [i \in 1 .. n |-> t] \in Seq(Threads) /\ Len([i \in 1 .. n |-> t]) = n
<1>1. [i \in 1 .. n |-> t] \in [1 .. n -> Threads]
    OBVIOUS
<1>2. [i \in 1 .. n |-> t] \in Seq(Threads)
    BY <1>1, SeqDef
<1> QED
    BY <1>2, LenProperties

\* io_append ends its message: there is one more in the pipe.
LEMMA EtxFramed ==
    ASSUME PlaceType, MessageType, PlaceInv, LockInv, LeftInv, OutputInv, PipeType, HistoryType,
           NEW t \in Threads, io_append_etx(t)
    PROVE  OutputInv'
<1> SUFFICES ASSUME ~broken
             PROVE  OutputInv'
    BY DEF OutputInv, io_append_etx
<1>1. PICK e \in [0 .. Waiting -> 0 .. Len(pipe)] : Framed(e)
    BY DEF OutputInv
<1> DEFINE m == [i \in 1 .. Size(t) |-> t]
<1>0. PICK k, f : k = Waiting /\ f = [i \in 0 .. k + 1 |-> IF i <= k THEN e[i] ELSE Len(pipe) + 1]
    OBVIOUS
<1>2. UNCHANGED <<text, shown, broken, ret>> /\ Where(t) = "etx" /\ pc[t] = "etx" /\ sent' = Append(sent, m)
    BY DEF io_append_etx, Where
<1>3. Len(pipe) \in Nat /\ Len(sent) \in Nat /\ Len(shown) \in Nat /\ Len(shown) <= Len(sent)
      /\ Waiting \in Nat /\ Waiting = Len(sent) - Len(shown)
    BY Lengths DEF OutputInv, Waiting
<1>4. Size(t) \in Nat /\ Written(t) = Size(t)
  <2>1. Size(t) \in Nat /\ left[t] = 0
    BY <1>2, Sized DEF LeftInv
  <2> QED
    BY <2>1 DEF Written
<1>5. m \in Seq(Threads) /\ Len(m) = Size(t) /\ \A j \in 1 .. Size(t) : m[j] = t
    BY <1>4, MessageSeq
<1>6. /\ Len(sent') = Len(sent) + 1 /\ sent'[Len(sent) + 1] = m
      /\ \A i \in 1 .. Len(sent) : sent'[i] = sent[i]
  <2> HIDE DEF m
  <2> QED
    BY <1>2, <1>5, AppendProperties DEF HistoryType
<1>7. Waiting' = k + 1 /\ Msg(k + 1)' = m /\ \A i \in 1 .. k : Msg(i)' = Msg(i)
  <2> HIDE DEF m
  <2>1. Waiting' = k + 1
    BY <1>0, <1>2, <1>3, <1>6 DEF Waiting
  <2>2. Len(shown) + (k + 1) = Len(sent) + 1
    BY <1>0, <1>3
  <2>3. \A i \in 1 .. k : Len(shown) + i \in 1 .. Len(sent)
    BY <1>0, <1>3
  <2> QED
    BY <1>2, <1>6, <2>1, <2>2, <2>3 DEF Msg
<1>8. \A u \in Threads : ~Writes(u)'
  <2>1. \A u \in Threads : u # t => ~Writes(u)
    BY <1>2, OneWriter
  <2>2. pc' = [pc EXCEPT ![t] = Next_message(t)] /\ Next_message(t) \in {"idle", "append", "lock"}
    BY DEF io_append_etx, Goes, Next_message
  <2> QED
    BY <1>2, <2>1, <2>2 DEF Writes, Where, PlaceType, Threads
<1>9. /\ Len(pipe') = Len(pipe) + 1 /\ pipe'[Len(pipe) + 1] = ETX
      /\ \A j \in 1 .. Len(pipe) : pipe'[j] = pipe[j]
    BY WriteParts DEF io_append_etx
<1>10. /\ Len(pipe) = e[Waiting] + Size(t) /\ e[Waiting] \in Nat
       /\ \A j \in 1 .. Size(t) : pipe[e[Waiting] + j] = t
  <2>1. Writes(t)
    BY <1>2 DEF Writes
  <2> QED
    BY <1>1, <1>3, <1>4, <2>1 DEF Framed, Rest
<1>11. /\ k \in Nat /\ f[k + 1] = Len(pipe) + 1
       /\ \A i \in 0 .. k : f[i] = e[i] /\ e[i] \in 0 .. Len(pipe)
  <2>1. k \in Nat
    BY <1>0, <1>3
  <2>2. k + 1 \in 0 .. k + 1 /\ ~(k + 1 <= k) /\ \A i \in 0 .. k : i \in 0 .. k + 1 /\ i <= k
    BY <2>1
  <2>3. \A i \in 0 .. k : e[i] \in 0 .. Len(pipe)
    BY <1>0, <1>1
  <2> QED
    BY <1>0, <2>1, <2>2, <2>3
<1>12. f \in [0 .. k + 1 -> 0 .. Len(pipe) + 1]
  <2>1. \A i \in 0 .. k + 1 : (IF i <= k THEN e[i] ELSE Len(pipe) + 1) \in 0 .. Len(pipe) + 1
    BY <1>3, <1>11
  <2> QED
    BY <1>0, <2>1
<1>13. Frames(f)'
  <2>1. f[0] = 0
    BY <1>1, <1>3, <1>11 DEF Framed, Frames
  <2>2. \A i, j \in 0 .. Waiting' : i < j => f[i] < f[j]
    <3>1. \A i, j \in 0 .. k : i < j => f[i] < f[j]
      BY <1>0, <1>1, <1>11 DEF Framed, Frames
    <3>2. \A i \in 0 .. k : f[i] < f[k + 1]
      BY <1>3, <1>11
    <3> QED
      BY <1>7, <1>11, <3>1, <3>2
  <2>3. ASSUME NEW i \in 1 .. Waiting'
        PROVE  /\ f[i] = f[i - 1] + Len(Msg(i)') + 1
               /\ pipe'[f[i]] = ETX
               /\ \A j \in 1 .. Len(Msg(i)') : pipe'[f[i - 1] + j] = Msg(i)'[j]
    <3>1. CASE i = k + 1
      <4>1. f[i] = Len(pipe) + 1 /\ f[i - 1] = e[Waiting] /\ Msg(i)' = m
        BY <1>0, <1>3, <1>7, <1>11, <3>1
      <4>2. \A j \in 1 .. Size(t) : e[Waiting] + j \in 1 .. Len(pipe)
        BY <1>3, <1>4, <1>10
      <4> HIDE DEF m
      <4> QED
        BY <1>5, <1>9, <1>10, <4>1, <4>2
    <3>2. CASE i \in 1 .. k
      <4>1. f[i] = e[i] /\ f[i - 1] = e[i - 1] /\ Msg(i)' = Msg(i)
        BY <1>3, <1>7, <1>11, <3>2
      <4>2. e[i] = e[i - 1] + Len(Msg(i)) + 1
        BY <1>0, <1>1, <3>2 DEF Framed, Frames
      <4> QED
        <5>1. /\ pipe'[e[i]] = ETX
              /\ \A j \in 1 .. Len(Msg(i)) : pipe'[e[i - 1] + j] = Msg(i)[j]
          BY <1>0, <1>1, <1>3, <1>9, <3>2, GrowsFramed DEF Framed
        <5> QED
          BY <4>1, <4>2, <5>1
    <3> QED
      BY <1>7, <1>11, <3>1, <3>2
  <2> QED
    BY <2>1, <2>2, <2>3 DEF Frames
<1>14. Rest(f)'
    BY <1>7, <1>8, <1>9, <1>11 DEF Rest
<1> QED
  <2>1. f \in [0 .. Waiting' -> 0 .. Len(pipe')]
    BY <1>7, <1>9, <1>12
  <2>2. Len(shown') <= Len(sent') /\ text' = <<>>
    BY <1>2, <1>3, <1>6 DEF OutputInv
  <2> QED
    BY <1>13, <1>14, <2>1, <2>2 DEF OutputInv, Framed

\* iosdbg.c:465-468: what select saw is a whole message once main has the
\* lock.
LEMMA FlushFinds ==
    ASSUME IInv
    PROVE  FlushFindsMessage
<1> SUFFICES ASSUME pc["main"] = "read", ~broken
             PROVE  Complete
    BY DEF FlushFindsMessage
<1>1. Where("main") = "read" /\ pipe # <<>>
    BY DEF Where, IInv, ReadyInv
<1>2. \A u \in Threads : ~Writes(u)
    BY <1>1, OneWriter DEF IInv, Writes, Threads
<1>3. PICK e \in [0 .. Waiting -> 0 .. Len(pipe)] : Framed(e)
    BY DEF IInv, OutputInv
<1>4. Len(pipe) = e[Waiting] /\ e[0] = 0
    BY <1>2, <1>3 DEF Framed, Frames, Rest
<1>5. Len(pipe) \in Nat /\ Waiting \in Nat
    BY Lengths, TypeParts DEF IInv, OutputInv, Waiting
<1>6. Len(pipe) # 0
    BY <1>1, TypeParts, EmptySeq DEF IInv, PipeType
<1>7. e[1] \in 1 .. Len(pipe) /\ pipe[e[1]] = ETX
  <2>1. Waiting # 0
    BY <1>4, <1>6
  <2>2. 0 < 1 /\ 1 \in 1 .. Waiting /\ 0 \in 0 .. Waiting /\ 1 \in 0 .. Waiting
    BY <1>5, <2>1
  <2>3. e[0] < e[1] /\ pipe[e[1]] = ETX /\ e[1] \in 0 .. Len(pipe)
    BY <1>3, <2>2 DEF Framed, Frames
  <2> QED
    BY <1>4, <1>5, <2>3
<1> QED
    BY <1>7, LenProperties, TypeParts DEF Complete, IInv, PipeType

\* io_flush takes the first message from the pipe, shows it, and leaves the
\* others framed.
LEMMA FlushFramed ==
    ASSUME IInv, io_flush, ~broken
    PROVE  /\ Len(shown) < Len(sent)
           /\ shown' = Append(shown, sent[Len(shown) + 1])
           /\ OutputInv'
<1>1. PICK e \in [0 .. Waiting -> 0 .. Len(pipe)] : Framed(e)
    BY DEF IInv, OutputInv
<1>2. PipeType /\ HistoryType /\ Complete /\ PlaceType
    BY FlushFinds, TypeParts DEF IInv, io_flush, FlushFindsMessage
<1>3. Len(pipe) \in Nat /\ Len(sent) \in Nat /\ Len(shown) \in Nat /\ Len(shown) <= Len(sent)
      /\ Waiting \in Nat /\ Waiting = Len(sent) - Len(shown) /\ text = <<>>
    BY <1>2, Lengths DEF IInv, OutputInv, Waiting
<1>4. Etx \in 1 .. Len(pipe) /\ pipe[Etx] = ETX /\ \A j \in 1 .. Etx - 1 : pipe[j] \in Threads
    BY <1>2, FirstEtx
<1>5. Where("main") = "read" /\ \A u \in Threads : ~Writes(u)
  <2>1. Where("main") = "read"
    BY DEF io_flush, Where
  <2> QED
    BY <2>1, OneWriter DEF IInv, Writes, Threads
<1>6. Len(pipe) = e[Waiting] /\ e[0] = 0
    BY <1>1, <1>5 DEF Framed, Frames, Rest
<1>7. Waiting >= 1
    BY <1>3, <1>4, <1>6
<1>8. /\ e[1] = Len(Msg(1)) + 1 /\ pipe[e[1]] = ETX /\ e[1] \in 0 .. Len(pipe)
      /\ \A j \in 1 .. Len(Msg(1)) : pipe[j] = Msg(1)[j]
  <2>1. 1 \in 1 .. Waiting /\ 1 \in 0 .. Waiting /\ 1 - 1 = 0
    BY <1>3, <1>7
  <2>2. Len(Msg(1)) \in Nat
    <3>1. Len(shown) + 1 \in 1 .. Len(sent)
      BY <1>3, <1>7
    <3>2. Msg(1) \in Seq(Threads)
      BY <1>2, <3>1, ElementOfSeq DEF Msg, HistoryType
    <3> QED
      BY <3>2, LenProperties
  <2>3. /\ e[1] = e[0] + Len(Msg(1)) + 1 /\ pipe[e[1]] = ETX
        /\ \A j \in 1 .. Len(Msg(1)) : pipe[e[0] + j] = Msg(1)[j]
    BY <1>1, <2>1 DEF Framed, Frames
  <2> QED
    BY <1>1, <1>6, <2>1, <2>2, <2>3
<1>9. Msg(1) = sent[Len(shown) + 1] /\ Msg(1) \in Seq(Threads) /\ Len(Msg(1)) \in Nat
  <2>1. Len(shown) + 1 \in 1 .. Len(sent)
    BY <1>3, <1>7
  <2>2. Msg(1) \in Seq(Threads)
    BY <1>2, <2>1, ElementOfSeq DEF Msg, HistoryType
  <2> QED
    BY <2>2, LenProperties DEF Msg
<1>10. Etx = e[1]
  <2>1. ETX \notin Threads
    BY DEF ETX, Threads
  <2>2. ~(e[1] < Etx)
    BY <1>3, <1>4, <1>8, <1>9, <2>1
  <2>3. ~(Etx < e[1])
    <3> SUFFICES ASSUME Etx < e[1]
                 PROVE  FALSE
      OBVIOUS
    <3>1. Etx \in 1 .. Len(Msg(1))
      BY <1>3, <1>4, <1>8, <1>9
    <3>2. pipe[Etx] \in Threads
      BY <1>8, <1>9, <3>1, ElementOfSeq
    <3> QED
      BY <1>4, <2>1, <3>2
  <2> QED
    BY <1>3, <1>4, <1>8, <1>9, <2>2, <2>3
<1>11. SubSeq(pipe, 1, Etx - 1) = Msg(1)
  <2>1. /\ SubSeq(pipe, 1, Etx - 1) \in Seq(Threads) /\ Len(SubSeq(pipe, 1, Etx - 1)) = Etx - 1
        /\ \A j \in 1 .. Etx - 1 : SubSeq(pipe, 1, Etx - 1)[j] = pipe[j]
    BY <1>2, FlushParts
  <2> DEFINE r == SubSeq(pipe, 1, Etx - 1)
  <2>2. r \in Seq(Threads) /\ Len(r) = Etx - 1 /\ \A j \in 1 .. Etx - 1 : r[j] = pipe[j]
    BY <2>1
  <2> HIDE DEF r
  <2>3. Len(r) = Len(Msg(1)) /\ \A j \in 1 .. Len(r) : r[j] = Msg(1)[j]
    BY <1>8, <1>9, <1>10, <2>2
  <2>4. r = Msg(1)
    BY <1>9, <2>2, <2>3, SeqEqual
  <2> QED
    BY <2>4 DEF r
<1>12. /\ shown' = Append(shown, Msg(1)) /\ text' = <<>> /\ pipe' = SubSeq(pipe, Etx + 1, Len(pipe))
       /\ sent' = sent /\ broken' = broken /\ pc' = [pc EXCEPT !["main"] = "select"]
  <2>1. text \o SubSeq(pipe, 1, Etx - 1) = Msg(1)
    BY <1>3, <1>9, <1>11, ConcatEmptySeq
  <2> QED
    BY <1>2, <2>1 DEF io_flush, Round, Goes
<1>13. Len(pipe') = Len(pipe) - e[1] /\ \A j \in 1 .. Len(pipe) - e[1] : pipe'[j] = pipe[e[1] + j]
    BY <1>2, <1>10, <1>12, FlushParts
<1>14. Len(shown') = Len(shown) + 1
    BY <1>2, <1>9, <1>12, AppendProperties DEF HistoryType
<1>15. PICK k, d, f : k = Waiting /\ d = e[1] /\ f = [i \in 0 .. k - 1 |-> e[i + 1] - d]
    OBVIOUS
<1>16. k \in Nat /\ k >= 1 /\ d \in Nat /\ d >= 1 /\ d <= Len(pipe)
    BY <1>3, <1>7, <1>8, <1>9, <1>15
<1>17. Waiting' = k - 1 /\ \A i \in 1 .. k - 1 : Msg(i)' = Msg(i + 1)
  <2>1. Waiting' = k - 1
    BY <1>3, <1>12, <1>14, <1>15 DEF Waiting
  <2>2. \A i \in 1 .. k - 1 : Len(shown') + i = Len(shown) + (i + 1)
    BY <1>3, <1>14, <1>16
  <2> QED
    BY <1>12, <2>1, <2>2 DEF Msg
<1>18. /\ \A i \in 0 .. k - 1 : f[i] = e[i + 1] - d /\ e[i + 1] \in d .. Len(pipe)
       /\ f \in [0 .. k - 1 -> 0 .. Len(pipe) - d]
  <2>1. \A i \in 0 .. k - 1 : e[i + 1] \in d .. Len(pipe)
    <3> SUFFICES ASSUME NEW i \in 0 .. k - 1
                 PROVE  e[i + 1] \in d .. Len(pipe)
      OBVIOUS
    <3>1. i + 1 \in 0 .. Waiting /\ 1 \in 0 .. Waiting /\ (i = 0 \/ 1 < i + 1)
      BY <1>15, <1>16
    <3>2. e[i + 1] \in 0 .. Len(pipe) /\ (i = 0 \/ e[1] < e[i + 1])
      BY <1>1, <3>1 DEF Framed, Frames
    <3>3. CASE i = 0
      <4>1. i + 1 = 1
        BY <3>3
      <4> QED
        BY <1>3, <1>15, <1>16, <4>1
    <3>4. CASE i # 0
      BY <1>3, <1>15, <1>16, <3>2, <3>4
    <3> QED
      BY <3>3, <3>4
  <2>2. \A i \in 0 .. k - 1 : e[i + 1] - d \in 0 .. Len(pipe) - d
    BY <1>3, <1>16, <2>1
  <2> QED
    BY <1>15, <2>1, <2>2
<1>19. Frames(f)'
  <2>1. f[0] = 0
    <3>1. 0 \in 0 .. k - 1 /\ 0 + 1 = 1
      BY <1>16
    <3>2. f[0] = d - d
      BY <1>15, <1>18, <3>1
    <3> QED
      BY <1>16, <3>2
  <2>2. \A i, j \in 0 .. Waiting' : i < j => f[i] < f[j]
    <3> SUFFICES ASSUME NEW i \in 0 .. k - 1, NEW j \in 0 .. k - 1, i < j
                 PROVE  f[i] < f[j]
      BY <1>17
    <3>1. i + 1 \in 0 .. Waiting /\ j + 1 \in 0 .. Waiting /\ i + 1 < j + 1
      BY <1>15, <1>16
    <3>2. e[i + 1] < e[j + 1]
      BY <1>1, <3>1 DEF Framed, Frames
    <3>3. /\ f[i] = e[i + 1] - d /\ f[j] = e[j + 1] - d
          /\ e[i + 1] \in d .. Len(pipe) /\ e[j + 1] \in d .. Len(pipe)
      BY <1>18
    <3>4. e[i + 1] \in Int /\ e[j + 1] \in Int
      BY <1>3, <1>16, <3>3
    <3> QED
      BY <1>16, <3>2, <3>3, <3>4
  <2>3. ASSUME NEW i \in 1 .. Waiting'
        PROVE  /\ f[i] = f[i - 1] + Len(Msg(i)') + 1
               /\ pipe'[f[i]] = ETX
               /\ \A j \in 1 .. Len(Msg(i)') : pipe'[f[i - 1] + j] = Msg(i)'[j]
    <3>1. i \in 1 .. k - 1 /\ i + 1 \in 1 .. Waiting /\ (i + 1) - 1 = i
      BY <1>15, <1>16, <1>17
    <3>2. /\ e[i + 1] = e[i] + Len(Msg(i + 1)) + 1 /\ pipe[e[i + 1]] = ETX
          /\ \A j \in 1 .. Len(Msg(i + 1)) : pipe[e[i] + j] = Msg(i + 1)[j]
      BY <1>1, <3>1 DEF Framed, Frames
    <3>3. Msg(i)' = Msg(i + 1)
      BY <1>17, <3>1
    <3>4. f[i] = e[i + 1] - d /\ e[i + 1] \in d .. Len(pipe)
      BY <1>16, <1>18, <3>1
    <3>5. f[i - 1] = e[i] - d /\ e[i] \in d .. Len(pipe)
      <4>1. i - 1 \in 0 .. k - 1 /\ (i - 1) + 1 = i
        BY <1>16, <3>1
      <4> QED
        BY <1>18, <4>1
    <3>6. Len(Msg(i + 1)) \in Nat
      <4>1. Len(shown) + (i + 1) \in 1 .. Len(sent)
        BY <1>3, <3>1
      <4>2. Msg(i + 1) \in Seq(Threads)
        BY <1>2, <4>1, ElementOfSeq DEF Msg, HistoryType
      <4> QED
        BY <4>2, LenProperties
    <3>10. PICK a \in Int, b \in Int, n \in Nat :
              /\ a = e[i] /\ b = e[i + 1] /\ n = Len(Msg(i + 1)) /\ b = a + n + 1 /\ d <= a /\ b <= Len(pipe)
              /\ f[i] = b - d /\ f[i - 1] = a - d
      <4>1. e[i] \in Int /\ e[i + 1] \in Int /\ d <= e[i] /\ e[i + 1] <= Len(pipe)
        BY <1>3, <1>16, <3>4, <3>5
      <4> QED
        BY <3>2, <3>4, <3>5, <3>6, <4>1
    <3>7. f[i] = f[i - 1] + Len(Msg(i + 1)) + 1 /\ f[i] \in 1 .. Len(pipe) - d
      <4>1. \A x, y, l \in Int : \A m, c \in Nat :
                y = x + m + 1 /\ c <= x /\ y <= l => y - c = (x - c) + m + 1 /\ y - c \in 1 .. l - c
        OBVIOUS
      <4>2. b - d = (a - d) + n + 1 /\ b - d \in 1 .. Len(pipe) - d
        <5>1. b = a + n + 1 /\ d <= a /\ b <= Len(pipe)
          BY <3>10
        <5>2. d \in Nat /\ Len(pipe) \in Int
          BY <1>3, <1>16
        <5> QED
          BY <4>1, <5>1, <5>2
      <4> QED
        BY <3>10, <4>2
    <3>8. pipe'[f[i]] = pipe[d + f[i]] /\ d + f[i] = e[i + 1]
      <4>1. d + (b - d) = b
        BY <1>16
      <4> QED
        BY <1>13, <1>15, <3>7, <3>10, <4>1
    <3>9. \A j \in 1 .. Len(Msg(i + 1)) : pipe'[f[i - 1] + j] = Msg(i + 1)[j]
      <4> SUFFICES ASSUME NEW j \in 1 .. Len(Msg(i + 1))
                   PROVE  pipe'[f[i - 1] + j] = Msg(i + 1)[j]
        OBVIOUS
      <4>1. f[i - 1] + j \in 1 .. Len(pipe) - d /\ d + (f[i - 1] + j) = e[i] + j
        <5>1. j \in 1 .. n
          BY <3>10
        <5>2. (a - d) + j \in 1 .. Len(pipe) - d /\ d + ((a - d) + j) = a + j
          <6>1. \A x, y, l \in Int : \A m, c \in Nat : \A z \in 1 .. m :
                    y = x + m + 1 /\ c <= x /\ y <= l
                        => (x - c) + z \in 1 .. l - c /\ c + ((x - c) + z) = x + z
            OBVIOUS
          <6>2. b = a + n + 1 /\ d <= a /\ b <= Len(pipe)
            BY <3>10
          <6>3. d \in Nat /\ Len(pipe) \in Int
            BY <1>3, <1>16
          <6> QED
            BY <5>1, <6>1, <6>2, <6>3
        <5> QED
          BY <3>10, <5>2
      <4>2. pipe'[f[i - 1] + j] = pipe[d + (f[i - 1] + j)]
        BY <1>13, <1>15, <4>1
      <4> QED
        BY <3>2, <4>1, <4>2
    <3> QED
      BY <3>2, <3>3, <3>7, <3>8, <3>9
  <2> QED
    BY <2>1, <2>2, <2>3 DEF Frames
<1>20. Rest(f)'
  <2>1. \A u \in Threads : ~Writes(u)'
    BY <1>2, <1>5, <1>12 DEF Writes, Where, PlaceType, Threads
  <2>2. Len(pipe') = f[Waiting']
    <3>1. k - 1 \in 0 .. k - 1 /\ (k - 1) + 1 = k
      BY <1>16
    <3>2. f[k - 1] = e[k] - d
      BY <1>18, <3>1
    <3> QED
      BY <1>6, <1>13, <1>15, <1>17, <3>2
  <2> QED
    BY <2>1, <2>2 DEF Rest
<1>21. Len(shown) < Len(sent) /\ Len(shown') <= Len(sent')
    BY <1>3, <1>7, <1>12, <1>14
<1>22. f \in [0 .. Waiting' -> 0 .. Len(pipe')]
    BY <1>13, <1>15, <1>17, <1>18
<1> QED
    BY <1>9, <1>12, <1>19, <1>20, <1>21, <1>22 DEF OutputInv, Framed

\* Every step leaves the pipe framed.
LEMMA OutputStep ==
    ASSUME IInv, [Next]_vars
    PROVE  OutputInv'
<1> USE DEF Threads, Goes, output, io, tracer, proc, loop, PlaceType, MessageType
<1>0. PlaceType /\ PipeType /\ MessageType /\ HistoryType /\ FlagType
      /\ PlaceInv /\ LockInv /\ LeftInv /\ OutputInv
    BY TypeParts DEF IInv
<1>1. ASSUME NEW t \in Threads, io_append_lock(t)
      PROVE  OutputInv'
    BY <1>0, <1>1, LockFramed
<1>2. ASSUME NEW t \in Threads, io_append_text(t)
      PROVE  OutputInv'
    BY <1>0, <1>2, TextFramed
<1>3. ASSUME NEW t \in Threads, io_append_etx(t)
      PROVE  OutputInv'
    BY <1>0, <1>3, EtxFramed
<1>4. CASE cmdfunc_print
  <2>1. Still
    BY <1>0, <1>4 DEF Still, Writes, Written, Size, Where, cmdfunc_print, Enters, Shows
  <2> QED
    BY <1>0, <2>1, StillFramed
<1>5. CASE cmdfunc_continue
  <2>1. Still
    BY <1>0, <1>5 DEF Still, Writes, Written, Size, Where, cmdfunc_continue, Enters, Shows, Said, Silent
  <2> QED
    BY <1>0, <2>1, StillFramed
<1>6. CASE cmdfunc_watchpoint_delete
  <2>1. Still
    BY <1>0, <1>6 DEF Still, Writes, Written, Size, Where, cmdfunc_watchpoint_delete, Enters
  <2> QED
    BY <1>0, <2>1, StillFramed
<1>7. CASE cmdfunc_trace
  <2>1. Still
    BY <1>0, <1>7 DEF Still, Writes, Written, Size, Where, cmdfunc_trace, Enters, Said, Shows
  <2> QED
    BY <1>0, <2>1, StillFramed
<1>8. CASE cmdfunc_detach
  <2>1. Still
    BY <1>0, <1>8 DEF Still, Writes, Written, Size, Where, cmdfunc_detach, Enters, stop_trace
  <2> QED
    BY <1>0, <2>1, StillFramed
<1>9. CASE cmdfunc_quit
  <2>1. Still
    BY <1>0, <1>9 DEF Still, Writes, Written, Size, Where, cmdfunc_quit, Enters, stop_trace
  <2> QED
    BY <1>0, <2>1, StillFramed
<1>10. CASE interrupt
  <2>1. CASE Cut_text \/ Cut_etx \/ Cut_read
    BY <1>10, <2>1 DEF interrupt, OutputInv
  <2>2. CASE ~(Cut_text \/ Cut_etx \/ Cut_read)
    <3>1. /\ Where("main") = pc["main"] /\ Where("main")' = Resumed
          /\ \A t \in {"es", "tm"} : Where(t)' = Where(t)
      BY <1>0, <1>10, InterruptPlaces
    <3>2. Resumed = pc["main"]
      BY <2>2 DEF Resumed
    <3>3. UNCHANGED <<pipe, text, sent, shown, broken, plan>> /\ left' = [left EXCEPT !["main"] = left["main"]]
      <4>1. broken' = broken
        BY <1>10, <2>2, TypeParts, Zenon DEF interrupt, IInv, FlagType
      <4> QED
        BY <1>10, <2>2, <4>1 DEF interrupt
    <3>4. left' = left
      BY <1>0, <3>3
    <3>5. Still
      <4>1. \A t \in Threads : Where(t)' = Where(t)
        BY <3>1, <3>2
      <4> QED
        BY <3>3, <3>4, <4>1 DEF Still, Writes, Written, Size
    <3> QED
      BY <1>0, <3>5, StillFramed
  <2> QED
    BY <2>1, <2>2
<1>11. CASE watchpoint_delete_wp
  <2>1. Still
    BY <1>0, <1>11 DEF Still, Writes, Written, Size, Where, watchpoint_delete_wp
  <2> QED
    BY <1>0, <2>1, StillFramed
<1>12. CASE watchpoint_delete_th
  <2>1. Still
    BY <1>0, <1>12 DEF Still, Writes, Written, Size, Where, watchpoint_delete_th
  <2> QED
    BY <1>0, <2>1, StillFramed
<1>13. CASE start_trace
  <2>1. Still
    BY <1>0, <1>13 DEF Still, Writes, Written, Size, Where, start_trace
  <2> QED
    BY <1>0, <2>1, StillFramed
<1>14. CASE stop_trace_returns
  <2>1. Still
    BY <1>0, <1>14 DEF Still, Writes, Written, Size, Where, stop_trace_returns,
        PlaceInv, MainPlaces
  <2> QED
    BY <1>0, <2>1, StillFramed
<1>15. CASE ops_detach
  <2>1. Still
    BY <1>0, <1>15 DEF Still, Writes, Written, Size, Where, ops_detach, Said, Shows
  <2> QED
    BY <1>0, <2>1, StillFramed
<1>16. CASE linecb_quits
  <2>1. Still
    BY <1>0, <1>16 DEF Still, Writes, Written, Size, Where, linecb_quits, Said, Silent, Shows
  <2> QED
    BY <1>0, <2>1, StillFramed
<1>17. CASE select_pipe
  <2>1. Still
    BY <1>0, <1>17 DEF Still, Writes, Written, Size, Where, select_pipe
  <2> QED
    BY <1>0, <2>1, StillFramed
<1>18. CASE inputloop_lock
  <2>1. Still
    BY <1>0, <1>18 DEF Still, Writes, Written, Size, Where, inputloop_lock, Round
  <2> QED
    BY <1>0, <2>1, StillFramed
<1>19. CASE io_flush
  <2>1. CASE broken
    BY <1>19, <2>1 DEF io_flush, OutputInv
  <2>2. CASE ~broken
    BY <1>19, <2>2, FlushFramed
  <2> QED
    BY <2>1, <2>2
<1>20. CASE wait_for_trace
  <2>1. Still
    BY <1>0, <1>20 DEF Still, Writes, Written, Size, Where, wait_for_trace
  <2> QED
    BY <1>0, <2>1, StillFramed
<1>21. CASE handle_exception
  <2>1. Still
    BY <1>0, <1>21 DEF Still, Writes, Written, Size, Where, handle_exception, Appends
  <2> QED
    BY <1>0, <2>1, StillFramed
<1>22. CASE exception_server
  <2>1. Still
    BY <1>0, <1>22 DEF Still, Writes, Written, Size, Where, exception_server
  <2> QED
    BY <1>0, <2>1, StillFramed
<1>23. CASE update_thread_list_new
  <2>1. Still
    BY <1>0, <1>23 DEF Still, Writes, Written, Size, Where, update_thread_list_new
  <2> QED
    BY <1>0, <2>1, StillFramed
<1>24. CASE update_thread_list_same
  <2>1. Still
    BY <1>0, <1>24 DEF Still, Writes, Written, Size, Where, update_thread_list_same
  <2> QED
    BY <1>0, <2>1, StillFramed
<1>25. CASE adjust_watchpoints_wp
  <2>1. Still
    BY <1>0, <1>25 DEF Still, Writes, Written, Size, Where, adjust_watchpoints_wp
  <2> QED
    BY <1>0, <2>1, StillFramed
<1>26. CASE adjust_watchpoints_th
  <2>1. Still
    BY <1>0, <1>26 DEF Still, Writes, Written, Size, Where, adjust_watchpoints_th, Appends
  <2> QED
    BY <1>0, <2>1, StillFramed
<1>27. CASE thread_monitor_server
  <2>1. Still
    BY <1>0, <1>27 DEF Still, Writes, Written, Size, Where, thread_monitor_server
  <2> QED
    BY <1>0, <2>1, StillFramed
<1>28. CASE trace_spin
  <2>1. Still
    BY <1>0, <1>28 DEF Still, Writes, Written, Size, Where, trace_spin
  <2> QED
    BY <1>0, <2>1, StillFramed
<1>29. CASE trace_start
  <2>1. Still
    BY <1>0, <1>29 DEF Still, Writes, Written, Size, Where, trace_start, cleanup, At
  <2> QED
    BY <1>0, <2>1, StillFramed
<1>30. CASE trace_wake
  <2>1. Still
    BY <1>0, <1>30 DEF Still, Writes, Written, Size, Where, trace_wake, cleanup, At
  <2> QED
    BY <1>0, <2>1, StillFramed
<1>31. CASE trace_event
  <2>1. Still
    BY <1>0, <1>31 DEF Still, Writes, Written, Size, Where, trace_event
  <2> QED
    BY <1>0, <2>1, StillFramed
<1>32. CASE trace_timeout
  <2>1. Still
    BY <1>0, <1>32 DEF Still, Writes, Written, Size, Where, trace_timeout, cleanup, At
  <2> QED
    BY <1>0, <2>1, StillFramed
<1>33. CASE UNCHANGED vars
  <2>1. Still
    BY <1>33 DEF vars, Still, Writes, Written, Size, Where
  <2> QED
    BY <1>0, <2>1, StillFramed
<1> QED
    BY <1>1, <1>2, <1>3, <1>4, <1>5, <1>6, <1>7, <1>8, <1>9, <1>10, <1>11, <1>12, <1>13, <1>14,
       <1>15, <1>16, <1>17, <1>18, <1>19, <1>20, <1>21, <1>22, <1>23, <1>24, <1>25, <1>26, <1>27,
       <1>28, <1>29, <1>30, <1>31, <1>32, <1>33
    DEF Next, User, Main, io_append, ExceptionServer, ThreadMonitor, Trace, Threads

\* Every step keeps the types of the history.
LEMMA HistoryStep ==
    ASSUME HistoryType, PipeType, MessageType, PlaceInv, LeftInv, [Next]_vars
    PROVE  HistoryType'
<1> USE DEF HistoryType, PipeType, output, io, tracer, proc, loop
<1>1. ASSUME NEW t \in Threads, io_append_lock(t)
      PROVE  HistoryType'
    BY <1>1 DEF io_append_lock
<1>2. ASSUME NEW t \in Threads, io_append_text(t)
      PROVE  HistoryType'
    BY <1>2 DEF io_append_text
<1>3. ASSUME NEW t \in Threads, io_append_etx(t)
      PROVE  HistoryType'
  <2>1. Size(t) \in Nat
    BY <1>3, Sized DEF io_append_etx, Where
  <2>2. [i \in 1 .. Size(t) |-> t] \in Seq(Threads)
    BY <2>1, MessageSeq
  <2> QED
    BY <1>3, <2>2, AppendProperties DEF io_append_etx
<1>4. CASE interrupt
  <2>1. shown' = shown \/ shown' = Append(shown, text)
    BY <1>4 DEF interrupt
  <2> QED
    BY <1>4, <2>1, AppendProperties DEF interrupt
<1>5. CASE io_flush
  <2>1. shown' = shown \/ (Complete /\ shown' = Append(shown, text \o SubSeq(pipe, 1, Etx - 1)))
    BY <1>5 DEF io_flush
  <2>2. Complete => text \o SubSeq(pipe, 1, Etx - 1) \in Seq(Threads)
    BY FlushParts, ConcatProperties
  <2> DEFINE read == text \o SubSeq(pipe, 1, Etx - 1)
  <2>3. sent' = sent
    BY <1>5 DEF io_flush
  <2>4. Complete => Append(shown, read) \in Seq(Seq(Threads))
    <3> HIDE DEF read
    <3>1. Complete => read \in Seq(Threads)
      BY <2>2 DEF read
    <3> QED
      BY <3>1, AppendProperties
  <2> QED
    BY <2>1, <2>3, <2>4
<1>6. CASE \/ cmdfunc_print \/ cmdfunc_continue \/ cmdfunc_watchpoint_delete \/ cmdfunc_trace
           \/ cmdfunc_detach \/ cmdfunc_quit \/ watchpoint_delete_wp \/ watchpoint_delete_th
           \/ start_trace \/ stop_trace_returns \/ ops_detach \/ linecb_quits \/ select_pipe
           \/ inputloop_lock \/ wait_for_trace \/ handle_exception \/ exception_server
           \/ update_thread_list_new \/ update_thread_list_same \/ adjust_watchpoints_wp
           \/ adjust_watchpoints_th \/ thread_monitor_server \/ trace_spin \/ trace_start
           \/ trace_wake \/ trace_event \/ trace_timeout
    BY <1>6 DEF cmdfunc_print, Enters, Shows, cmdfunc_continue, Said, Silent,
        cmdfunc_watchpoint_delete, cmdfunc_trace, cmdfunc_detach, stop_trace, cmdfunc_quit,
        watchpoint_delete_wp, watchpoint_delete_th, start_trace, stop_trace_returns, ops_detach,
        linecb_quits, select_pipe, inputloop_lock, Round, wait_for_trace, handle_exception,
        Appends, exception_server, update_thread_list_new, update_thread_list_same,
        adjust_watchpoints_wp, adjust_watchpoints_th, thread_monitor_server, trace_spin,
        trace_start, cleanup, At, trace_wake, trace_event, trace_timeout
<1>7. CASE UNCHANGED vars
    BY <1>7 DEF vars
<1> QED
    BY <1>1, <1>2, <1>3, <1>4, <1>5, <1>6, <1>7
    DEF Next, User, Main, io_append, ExceptionServer, ThreadMonitor, Trace, Threads

\* Every step keeps what main knows of the pipe.
LEMMA ReadyStep ==
    ASSUME PlaceType, PipeType, PlaceInv, ReadyInv, FlushFindsMessage, [Next]_vars
    PROVE  ReadyInv'
<1> USE DEF ReadyInv
<1>1. ASSUME NEW t \in Threads, io_append_lock(t)
      PROVE  ReadyInv'
    BY <1>1 DEF io_append_lock, Goes, Where, PlaceType, PlaceInv, MainPlaces, Threads, output, io,
        tracer, proc, loop
<1>2. ASSUME NEW t \in Threads, io_append_text(t)
      PROVE  ReadyInv'
  <2>1. pipe' # <<>>
    <3>1. Len(pipe') = Len(pipe) + 1 /\ Len(pipe) \in Nat
      BY <1>2, WriteParts, LenProperties DEF io_append_text, PipeType, Threads, ETX
    <3> QED
      BY <3>1, EmptySeq
  <2>2. ready' = ready /\ (Where("main")' = "read" => Where("main") = "read")
    BY <1>2 DEF io_append_text, Next_message, Goes, Where, PlaceType, Threads, loop, Goes, Where,
        PlaceType, PlaceInv, MainPlaces, Threads, output, io, tracer, proc, loop
  <2> QED
    BY <2>1, <2>2
<1>3. ASSUME NEW t \in Threads, io_append_etx(t)
      PROVE  ReadyInv'
  <2>1. pipe' # <<>>
    <3>1. Len(pipe') = Len(pipe) + 1 /\ Len(pipe) \in Nat
      BY <1>3, WriteParts, LenProperties DEF io_append_etx, PipeType, Threads, ETX
    <3> QED
      BY <3>1, EmptySeq
  <2>2. ready' = ready /\ (Where("main")' = "read" => Where("main") = "read")
    BY <1>3 DEF io_append_etx, Next_message, Goes, Where, PlaceType, Threads, loop, Goes, Where,
        PlaceType, PlaceInv, MainPlaces, Threads, output, io, tracer, proc, loop
  <2> QED
    BY <2>1, <2>2
<1>4. CASE cmdfunc_print
    BY <1>4 DEF cmdfunc_print, Enters, Shows, Goes, Where, PlaceType, PlaceInv, MainPlaces,
        Threads, output, io, tracer, proc, loop
<1>5. CASE cmdfunc_continue
    BY <1>5 DEF cmdfunc_continue, Enters, Shows, Said, Silent, Goes, Where, PlaceType, PlaceInv,
        MainPlaces, Threads, output, io, tracer, proc, loop
<1>6. CASE cmdfunc_watchpoint_delete
    BY <1>6 DEF cmdfunc_watchpoint_delete, Enters, Goes, Where, PlaceType, PlaceInv, MainPlaces,
        Threads, output, io, tracer, proc, loop
<1>7. CASE cmdfunc_trace
    BY <1>7 DEF cmdfunc_trace, Enters, Said, Shows, Goes, Where, PlaceType, PlaceInv, MainPlaces,
        Threads, output, io, tracer, proc, loop
<1>8. CASE cmdfunc_detach
    BY <1>8 DEF cmdfunc_detach, Enters, stop_trace, Goes, Where, PlaceType, PlaceInv, MainPlaces,
        Threads, output, io, tracer, proc, loop
<1>9. CASE cmdfunc_quit
    BY <1>9 DEF cmdfunc_quit, Enters, stop_trace, Goes, Where, PlaceType, PlaceInv, MainPlaces,
        Threads, output, io, tracer, proc, loop
<1>10. CASE interrupt
  <2>1. Where("main") = pc["main"] /\ Where("main")' = Resumed /\ pipe' = pipe /\ ready' = ready
    BY <1>10, InterruptPlaces DEF interrupt
  <2>2. CASE Cut_text \/ Cut_etx \/ Cut_read
    <3>1. broken'
      BY <1>10, <2>2 DEF interrupt
    <3>2. Resumed # "read"
      BY <2>2 DEF Resumed, Cut_text, Cut_etx, Cut_read, Next_message
    <3> QED
      BY <2>1, <3>1, <3>2
  <2>3. CASE ~(Cut_text \/ Cut_etx \/ Cut_read)
    <3>1. Resumed = pc["main"]
      BY <2>3 DEF Resumed
    <3>2. ~broken' => ~broken
      BY <1>10 DEF interrupt
    <3> QED
      BY <2>1, <3>1, <3>2
  <2> QED
    BY <2>2, <2>3
<1>11. CASE watchpoint_delete_wp
    BY <1>11 DEF watchpoint_delete_wp, Goes, Where, PlaceType, PlaceInv, MainPlaces, Threads,
        output, io, tracer, proc, loop
<1>12. CASE watchpoint_delete_th
    BY <1>12 DEF watchpoint_delete_th, Goes, Where, PlaceType, PlaceInv, MainPlaces, Threads,
        output, io, tracer, proc, loop
<1>13. CASE start_trace
    BY <1>13 DEF start_trace, Goes, Where, PlaceType, PlaceInv, MainPlaces, Threads, output, io,
        tracer, proc, loop
<1>14. CASE stop_trace_returns
    BY <1>14 DEF stop_trace_returns, Goes, Where, PlaceType, PlaceInv, MainPlaces, Threads,
        output, io, tracer, proc, loop
<1>15. CASE ops_detach
    BY <1>15 DEF ops_detach, Said, Shows, Goes, Where, PlaceType, PlaceInv, MainPlaces, Threads,
        output, io, tracer, proc, loop
<1>16. CASE linecb_quits
    BY <1>16 DEF linecb_quits, Said, Silent, Shows, Goes, Where, PlaceType, PlaceInv, MainPlaces,
        Threads, output, io, tracer, proc, loop
<1>17. CASE select_pipe
    BY <1>17 DEF select_pipe, Goes, Where, PlaceType, PlaceInv, MainPlaces, Threads, output, io,
        tracer, proc, loop
<1>18. CASE inputloop_lock
    BY <1>18 DEF inputloop_lock, Round, Goes, Where, PlaceType, PlaceInv, MainPlaces, Threads,
        output, io, tracer, proc, loop
<1>19. CASE io_flush
  <2>1. CASE Complete
    <3>1. pc' = [pc EXCEPT !["main"] = "select"]
      BY <1>19, <2>1 DEF io_flush, Round, Goes
    <3> QED
      BY <3>1 DEF PlaceType, Where, Threads
  <2>2. CASE ~Complete
    <3>1. pc["main"] = "read" /\ broken' = broken /\ broken
      BY <1>19, <2>2 DEF io_flush, FlushFindsMessage
    <3>2. UNCHANGED <<pc, ret, ready>>
      BY <1>19, <2>2 DEF io_flush, loop
    <3> QED
      BY <3>1, <3>2 DEF Where
  <2> QED
    BY <2>1, <2>2
<1>20. CASE wait_for_trace
    BY <1>20 DEF wait_for_trace, Goes, Where, PlaceType, PlaceInv, MainPlaces, Threads, output,
        io, tracer, proc, loop
<1>21. CASE handle_exception
    BY <1>21 DEF handle_exception, Appends, Goes, Where, PlaceType, PlaceInv, MainPlaces, Threads,
        output, io, tracer, proc, loop
<1>22. CASE exception_server
    BY <1>22 DEF exception_server, Goes, Where, PlaceType, PlaceInv, MainPlaces, Threads, output,
        io, tracer, proc, loop
<1>23. CASE update_thread_list_new
    BY <1>23 DEF update_thread_list_new, Goes, Where, PlaceType, PlaceInv, MainPlaces, Threads,
        output, io, tracer, proc, loop
<1>24. CASE update_thread_list_same
    BY <1>24 DEF update_thread_list_same, Goes, Where, PlaceType, PlaceInv, MainPlaces, Threads,
        output, io, tracer, proc, loop
<1>25. CASE adjust_watchpoints_wp
    BY <1>25 DEF adjust_watchpoints_wp, Goes, Where, PlaceType, PlaceInv, MainPlaces, Threads,
        output, io, tracer, proc, loop
<1>26. CASE adjust_watchpoints_th
    BY <1>26 DEF adjust_watchpoints_th, Appends, Goes, Where, PlaceType, PlaceInv, MainPlaces,
        Threads, output, io, tracer, proc, loop
<1>27. CASE thread_monitor_server
    BY <1>27 DEF thread_monitor_server, Goes, Where, PlaceType, PlaceInv, MainPlaces, Threads,
        output, io, tracer, proc, loop
<1>28. CASE trace_spin
    BY <1>28 DEF trace_spin, Goes, Where, PlaceType, PlaceInv, MainPlaces, Threads, output, io,
        tracer, proc, loop
<1>29. CASE trace_start
    BY <1>29 DEF trace_start, cleanup, At, Goes, Where, PlaceType, PlaceInv, MainPlaces, Threads,
        output, io, tracer, proc, loop
<1>30. CASE trace_wake
    BY <1>30 DEF trace_wake, cleanup, At, Goes, Where, PlaceType, PlaceInv, MainPlaces, Threads,
        output, io, tracer, proc, loop
<1>31. CASE trace_event
    BY <1>31 DEF trace_event, Goes, Where, PlaceType, PlaceInv, MainPlaces, Threads, output, io,
        tracer, proc, loop
<1>32. CASE trace_timeout
    BY <1>32 DEF trace_timeout, cleanup, At, Goes, Where, PlaceType, PlaceInv, MainPlaces,
        Threads, output, io, tracer, proc, loop
<1>33. CASE UNCHANGED vars
    BY <1>33 DEF vars, Goes, Where, PlaceType, PlaceInv, MainPlaces, Threads, output, io, tracer,
        proc, loop
<1> QED
    BY <1>1, <1>2, <1>3, <1>4, <1>5, <1>6, <1>7, <1>8, <1>9, <1>10, <1>11, <1>12, <1>13, <1>14,
       <1>15, <1>16, <1>17, <1>18, <1>19, <1>20, <1>21, <1>22, <1>23, <1>24, <1>25, <1>26, <1>27,
       <1>28, <1>29, <1>30, <1>31, <1>32, <1>33
    DEF Next, User, Main, io_append, ExceptionServer, ThreadMonitor, Trace, Threads

----------------------------------------------------------------------------
(* The theorems                                                            *)

\* Nothing is written, shown or held at the start.
LEMMA InitHolds == Init => IInv
<1> SUFFICES ASSUME Init
             PROVE  IInv
    OBVIOUS
<1>1. TypeOK
  <2>1. {ready, attached, suspended, tracing, stop, done, quit, up, broken} \subseteq BOOLEAN
    BY DEF Init
  <2> QED
    BY <2>1, SizeAssumption, EmptySeq DEF Init, TypeOK, Threads, Locks, None, Sizes
<1>2. HistoryType
    BY EmptySeq DEF Init, HistoryType
<1>3. /\ Where("main") = "select" /\ Where("es") = "idle" /\ Where("tm") = "idle"
      /\ pc["es"] = "idle" /\ pc["tm"] = "idle"
    BY DEF Init, Where, Threads
<1>4. PlaceInv /\ LockInv /\ LeftInv /\ ReadyInv
    BY <1>3 DEF Init, PlaceInv, MainPlaces, LockInv, LeftInv, ReadyInv, Threads, Locks, None
<1>5. TraceInv
    BY <1>3 DEF Init, TraceInv, None
<1>6. OutputInv
  <2>1. Len(sent) = 0 /\ Len(shown) = 0 /\ Len(pipe) = 0 /\ text = <<>>
    BY EmptySeq DEF Init
  <2>2. Waiting = 0
    BY <2>1 DEF Waiting
  <2>3. PICK e : e = [i \in 0 .. 0 |-> 0]
    OBVIOUS
  <2>4. e \in [0 .. Waiting -> 0 .. Len(pipe)] /\ e[0] = 0
    BY <2>1, <2>2, <2>3
  <2>5. \A t \in Threads : ~Writes(t)
    BY <1>3 DEF Writes, Threads
  <2>6. Framed(e)
    BY <2>1, <2>2, <2>4, <2>5 DEF Framed, Frames, Rest
  <2> QED
    BY <2>1, <2>4, <2>6 DEF OutputInv
<1> QED
    BY <1>1, <1>2, <1>4, <1>5, <1>6 DEF IInv

\* Every step of every thread keeps the invariant.
LEMMA StepHolds == IInv /\ [Next]_vars => IInv'
<1> SUFFICES ASSUME IInv, [Next]_vars
             PROVE  IInv'
    OBVIOUS
<1>1. PlaceType /\ PipeType /\ MessageType /\ FlagType /\ CountType
    BY TypeParts DEF IInv
<1>2. HistoryType /\ PlaceInv /\ LockInv /\ LeftInv /\ ReadyInv /\ TraceInv /\ OutputInv
    BY DEF IInv
<1>3. PlaceType' /\ PlaceInv'
    BY <1>1, <1>2, PlaceStep
<1>4. PipeType' /\ MessageType' /\ FlagType' /\ CountType' /\ HistoryType'
    BY <1>1, <1>2, PipeTypeStep, MessageTypeStep, FlagTypeStep, CountTypeStep, HistoryStep
<1>5. LockInv' /\ LeftInv' /\ TraceInv'
    BY <1>1, <1>2, LockStep, LeftStep, TraceStep
<1>6. ReadyInv'
    BY <1>1, <1>2, FlushFinds, ReadyStep
<1>7. OutputInv'
    BY OutputStep
<1> QED
    BY <1>3, <1>4, <1>5, <1>6, <1>7, TypeParts DEF IInv

\* The invariant holds of the specification.
LEMMA Invariant == Spec => []IInv
<1>1. Init => IInv
    BY InitHolds
<1>2. IInv /\ [Next]_vars => IInv'
    BY StepHolds
<1> QED
    BY <1>1, <1>2, PTL DEF Spec

\* dbgio.c, iosdbg.c:465-468: the pipe never holds more than it can, and main
\* never waits inside io_flush with IO_PIPE_LOCK held.
THEOREM PipeIsRead == Spec => []PipeOK
<1>1. IInv => PipeOK
    BY FlushFinds DEF IInv, PipeOK
<1> QED
    BY <1>1, Invariant, PTL

\* A step of a thread is a step of Output, or none of it.
LEMMA OutputRefined ==
    ASSUME IInv, [Next]_vars
    PROVE  [Messages!Next]_(Messages!vars)
<1> USE DEF output, io, tracer, proc, loop, Messages!vars
<1>0. MessageType /\ HistoryType /\ FlagType /\ PlaceInv /\ LeftInv
    BY TypeParts DEF IInv
<1>1. ASSUME NEW t \in Threads, io_append_lock(t)
      PROVE  [Messages!Next]_(Messages!vars)
    BY <1>1 DEF io_append_lock
<1>2. ASSUME NEW t \in Threads, io_append_text(t)
      PROVE  [Messages!Next]_(Messages!vars)
    BY <1>2 DEF io_append_text
<1>3. ASSUME NEW t \in Threads, io_append_etx(t)
      PROVE  [Messages!Next]_(Messages!vars)
  <2>1. UNCHANGED <<shown, broken>> /\ sent' = Append(sent, [i \in 1 .. Size(t) |-> t])
    BY <1>3 DEF io_append_etx
  <2>2. Size(t) \in Nat
    BY <1>3, <1>0, Sized DEF io_append_etx, Where
  <2> DEFINE m == [i \in 1 .. Size(t) |-> t]
  <2>3. m \in Seq(Threads)
    BY <2>2, MessageSeq
  <2> HIDE DEF m
  <2>4. /\ sent' \in Seq(Seq(Threads)) /\ Len(sent') = Len(sent) + 1 /\ Len(sent) \in Nat
        /\ \A i \in 1 .. Len(sent) : sent'[i] = sent[i]
    BY <1>0, <2>1, <2>3, AppendProperties, LenProperties DEF m, HistoryType
  <2>5. SubSeq(sent', 1, Len(sent)) = sent
    <3>1. \A i \in 1 .. Len(sent) : sent'[i] \in Seq(Threads)
      BY <1>0, <2>4, ElementOfSeq DEF HistoryType
    <3> DEFINE q == SubSeq(sent', 1, Len(sent))
    <3>2. /\ q \in Seq(Seq(Threads))
          /\ Len(q) = IF 1 <= Len(sent) THEN Len(sent) - 1 + 1 ELSE 0
          /\ \A i \in 1 .. Len(sent) - 1 + 1 : q[i] = sent'[1 + i - 1]
      BY <2>4, <3>1, SubSeqProperties
    <3> HIDE DEF q
    <3>3. Len(q) = Len(sent) /\ \A i \in 1 .. Len(q) : q[i] = sent[i]
      BY <2>4, <3>2
    <3>4. q = sent
      BY <1>0, <3>2, <3>3, SeqEqual DEF HistoryType
    <3> QED
      BY <3>4 DEF q
  <2> QED
    BY <2>1, <2>4, <2>5 DEF Messages!Next, Messages!Append_message
<1>4. CASE interrupt
  <2>1. CASE Cut_text \/ Cut_etx \/ Cut_read
    BY <1>4, <2>1 DEF interrupt, Messages!Next, Messages!Break
  <2>2. CASE ~(Cut_text \/ Cut_etx \/ Cut_read)
    <3>1. UNCHANGED <<sent, shown>>
      BY <1>4, <2>2 DEF interrupt
    <3>2. broken' = broken
      BY <1>4, <1>0, <2>2, Zenon DEF interrupt, FlagType
    <3> QED
      BY <3>1, <3>2 DEF Messages!vars
  <2> QED
    BY <2>1, <2>2
<1>5. CASE io_flush
  <2>1. CASE broken
    BY <1>5, <2>1 DEF io_flush, Messages!Next, Messages!Break
  <2>2. CASE ~broken
    <3>1. Len(shown) < Len(sent) /\ shown' = Append(shown, sent[Len(shown) + 1])
      BY <1>5, <2>2, FlushFramed
    <3>2. UNCHANGED <<sent, broken>>
      BY <1>5 DEF io_flush
    <3> QED
      BY <3>1, <3>2 DEF Messages!Next, Messages!Show_next
  <2> QED
    BY <2>1, <2>2
<1>6. CASE \/ cmdfunc_print \/ cmdfunc_continue \/ cmdfunc_watchpoint_delete \/ cmdfunc_trace
           \/ cmdfunc_detach \/ cmdfunc_quit \/ watchpoint_delete_wp \/ watchpoint_delete_th
           \/ start_trace \/ stop_trace_returns \/ ops_detach \/ linecb_quits \/ select_pipe
           \/ inputloop_lock \/ wait_for_trace \/ handle_exception \/ exception_server
           \/ update_thread_list_new \/ update_thread_list_same \/ adjust_watchpoints_wp
           \/ adjust_watchpoints_th \/ thread_monitor_server \/ trace_spin \/ trace_start
           \/ trace_wake \/ trace_event \/ trace_timeout
    BY <1>6 DEF cmdfunc_print, Enters, Shows, cmdfunc_continue, Said, Silent,
        cmdfunc_watchpoint_delete, cmdfunc_trace, cmdfunc_detach, stop_trace, cmdfunc_quit,
        watchpoint_delete_wp, watchpoint_delete_th, start_trace, stop_trace_returns, ops_detach,
        linecb_quits, select_pipe, inputloop_lock, Round, wait_for_trace, handle_exception,
        Appends, exception_server, update_thread_list_new, update_thread_list_same,
        adjust_watchpoints_wp, adjust_watchpoints_th, thread_monitor_server, trace_spin,
        trace_start, cleanup, At, trace_wake, trace_event, trace_timeout
<1>7. CASE UNCHANGED vars
    BY <1>7 DEF vars
<1> QED
    BY <1>1, <1>2, <1>3, <1>4, <1>5, <1>6, <1>7
    DEF Next, User, Main, io_append, ExceptionServer, ThreadMonitor, Trace, Threads

\* dbgio.c:35-51: io_append and io_flush implement Output.  Messages of
\* different threads are shown whole, unmixed, once and in order, whatever the
\* sizes of the pipe and of the messages, as long as no signal cut a call short.
THEOREM ConsoleImplementsOutput == Spec => WholeInOrder
<1>1. Init => Messages!Init
    BY DEF Init, Messages!Init
<1>2. IInv /\ [Next]_vars => [Messages!Next]_(Messages!vars)
    BY OutputRefined
<1> QED
    BY <1>1, <1>2, Invariant, PTL DEF Spec, WholeInOrder, Messages!Spec

\* Nobody gets past a server that writes to the full pipe, and nobody reads.
LEMMA JamStays ==
    ASSUME PlaceType, PlaceInv, LockInv, NEW w \in {"es", "tm"}, pc[w] \in {"text", "etx"}, Full,
           [Next]_vars
    PROVE  (pc'[w] = pc[w] /\ pipe' = pipe)
<1> USE DEF Threads, Locks, None, Goes, Free, Locked, output, io, tracer, proc, loop, PlaceType,
        PlaceInv, LockInv, Where
<1>1. ASSUME NEW t \in Threads, io_append_lock(t)
      PROVE  (pc'[w] = pc[w] /\ pipe' = pipe)
    BY <1>1 DEF io_append_lock
<1>2. ASSUME NEW t \in Threads, io_append_text(t)
      PROVE  (pc'[w] = pc[w] /\ pipe' = pipe)
    BY <1>2 DEF io_append_text
<1>3. ASSUME NEW t \in Threads, io_append_etx(t)
      PROVE  (pc'[w] = pc[w] /\ pipe' = pipe)
    BY <1>3 DEF io_append_etx, Size, Next_message
<1>4. CASE cmdfunc_print
    BY <1>4 DEF cmdfunc_print, Enters, Shows
<1>5. CASE cmdfunc_continue
    BY <1>5 DEF cmdfunc_continue, Enters, Shows, Said, Silent
<1>6. CASE cmdfunc_watchpoint_delete
    BY <1>6 DEF cmdfunc_watchpoint_delete, Enters
<1>7. CASE cmdfunc_trace
    BY <1>7 DEF cmdfunc_trace, Enters, Said, Shows
<1>8. CASE cmdfunc_detach
    BY <1>8 DEF cmdfunc_detach, Enters, stop_trace
<1>9. CASE cmdfunc_quit
    BY <1>9 DEF cmdfunc_quit, Enters, stop_trace
<1>10. CASE interrupt
    BY <1>10 DEF interrupt, stop_trace, Resumed, Cut_text, Cut_etx, Cut_read, Full, Next_message
<1>11. CASE watchpoint_delete_wp
    BY <1>11 DEF watchpoint_delete_wp
<1>12. CASE watchpoint_delete_th
    BY <1>12 DEF watchpoint_delete_th
<1>13. CASE start_trace
    BY <1>13 DEF start_trace
<1>14. CASE stop_trace_returns
    BY <1>14 DEF stop_trace_returns
<1>15. CASE ops_detach
    BY <1>15 DEF ops_detach, Said, Shows
<1>16. CASE linecb_quits
    BY <1>16 DEF linecb_quits, Said, Silent, Shows
<1>17. CASE select_pipe
    BY <1>17 DEF select_pipe
<1>18. CASE inputloop_lock
    BY <1>18 DEF inputloop_lock, Round
<1>19. CASE io_flush
    BY <1>19 DEF io_flush, Round
<1>20. CASE wait_for_trace
    BY <1>20 DEF wait_for_trace
<1>21. CASE handle_exception
    BY <1>21 DEF handle_exception, Appends
<1>22. CASE exception_server
    BY <1>22 DEF exception_server
<1>23. CASE update_thread_list_new
    BY <1>23 DEF update_thread_list_new
<1>24. CASE update_thread_list_same
    BY <1>24 DEF update_thread_list_same
<1>25. CASE adjust_watchpoints_wp
    BY <1>25 DEF adjust_watchpoints_wp
<1>26. CASE adjust_watchpoints_th
    BY <1>26 DEF adjust_watchpoints_th, Appends
<1>27. CASE thread_monitor_server
    BY <1>27 DEF thread_monitor_server
<1>28. CASE trace_spin
    BY <1>28 DEF trace_spin
<1>29. CASE trace_start
    BY <1>29 DEF trace_start, cleanup, At
<1>30. CASE trace_wake
    BY <1>30 DEF trace_wake, cleanup, At
<1>31. CASE trace_event
    BY <1>31 DEF trace_event
<1>32. CASE trace_timeout
    BY <1>32 DEF trace_timeout, cleanup, At
<1>33. CASE UNCHANGED vars
    BY <1>33 DEF vars
<1> QED
    BY <1>1, <1>2, <1>3, <1>4, <1>5, <1>6, <1>7, <1>8, <1>9, <1>10, <1>11, <1>12, <1>13, <1>14,
       <1>15, <1>16, <1>17, <1>18, <1>19, <1>20, <1>21, <1>22, <1>23, <1>24, <1>25, <1>26, <1>27,
       <1>28, <1>29, <1>30, <1>31, <1>32, <1>33
    DEF Next, User, Main, io_append, ExceptionServer, ThreadMonitor, Trace, Threads

\* Neither of the two threads in a lock cycle gets its lock.
LEMMA CycleStays ==
    ASSUME PlaceType, PlaceInv, LockInv, LockCycle, [Next]_vars
    PROVE  (LockCycle' \/ pc'["main"] = "stop_trace")
<1> USE DEF Threads, Locks, None, Goes, Free, Locked, Unlocked, output, io, tracer, proc, loop,
        PlaceType, PlaceInv, LockInv, LockCycle, Where
<1>1. ASSUME NEW t \in Threads, io_append_lock(t)
      PROVE  (LockCycle' \/ pc'["main"] = "stop_trace")
    BY <1>1 DEF io_append_lock
<1>2. ASSUME NEW t \in Threads, io_append_text(t)
      PROVE  (LockCycle' \/ pc'["main"] = "stop_trace")
    BY <1>2 DEF io_append_text
<1>3. ASSUME NEW t \in Threads, io_append_etx(t)
      PROVE  (LockCycle' \/ pc'["main"] = "stop_trace")
    BY <1>3 DEF io_append_etx, Size, Next_message
<1>4. CASE cmdfunc_print
    BY <1>4 DEF cmdfunc_print, Enters, Shows
<1>5. CASE cmdfunc_continue
    BY <1>5 DEF cmdfunc_continue, Enters, Shows, Said, Silent
<1>6. CASE cmdfunc_watchpoint_delete
    BY <1>6 DEF cmdfunc_watchpoint_delete, Enters
<1>7. CASE cmdfunc_trace
    BY <1>7 DEF cmdfunc_trace, Enters, Said, Shows
<1>8. CASE cmdfunc_detach
    BY <1>8 DEF cmdfunc_detach, Enters, stop_trace
<1>9. CASE cmdfunc_quit
    BY <1>9 DEF cmdfunc_quit, Enters, stop_trace
<1>10. CASE interrupt
    BY <1>10 DEF interrupt, stop_trace, Resumed, Cut_text, Cut_etx, Cut_read, Full, Next_message
<1>11. CASE watchpoint_delete_wp
    BY <1>11 DEF watchpoint_delete_wp
<1>12. CASE watchpoint_delete_th
    BY <1>12 DEF watchpoint_delete_th
<1>13. CASE start_trace
    BY <1>13 DEF start_trace
<1>14. CASE stop_trace_returns
    BY <1>14 DEF stop_trace_returns
<1>15. CASE ops_detach
    BY <1>15 DEF ops_detach, Said, Shows
<1>16. CASE linecb_quits
    BY <1>16 DEF linecb_quits, Said, Silent, Shows
<1>17. CASE select_pipe
    BY <1>17 DEF select_pipe
<1>18. CASE inputloop_lock
    BY <1>18 DEF inputloop_lock, Round
<1>19. CASE io_flush
    BY <1>19 DEF io_flush, Round
<1>20. CASE wait_for_trace
    BY <1>20 DEF wait_for_trace
<1>21. CASE handle_exception
    BY <1>21 DEF handle_exception, Appends
<1>22. CASE exception_server
    BY <1>22 DEF exception_server
<1>23. CASE update_thread_list_new
    BY <1>23 DEF update_thread_list_new
<1>24. CASE update_thread_list_same
    BY <1>24 DEF update_thread_list_same
<1>25. CASE adjust_watchpoints_wp
    BY <1>25 DEF adjust_watchpoints_wp
<1>26. CASE adjust_watchpoints_th
    BY <1>26 DEF adjust_watchpoints_th, Appends
<1>27. CASE thread_monitor_server
    BY <1>27 DEF thread_monitor_server
<1>28. CASE trace_spin
    BY <1>28 DEF trace_spin
<1>29. CASE trace_start
    BY <1>29 DEF trace_start, cleanup, At
<1>30. CASE trace_wake
    BY <1>30 DEF trace_wake, cleanup, At
<1>31. CASE trace_event
    BY <1>31 DEF trace_event
<1>32. CASE trace_timeout
    BY <1>32 DEF trace_timeout, cleanup, At
<1>33. CASE UNCHANGED vars
    BY <1>33 DEF vars
<1> QED
    BY <1>1, <1>2, <1>3, <1>4, <1>5, <1>6, <1>7, <1>8, <1>9, <1>10, <1>11, <1>12, <1>13, <1>14,
       <1>15, <1>16, <1>17, <1>18, <1>19, <1>20, <1>21, <1>22, <1>23, <1>24, <1>25, <1>26, <1>27,
       <1>28, <1>29, <1>30, <1>31, <1>32, <1>33
    DEF Next, User, Main, io_append, ExceptionServer, ThreadMonitor, Trace, Threads

\* stop_trace waits for a flag only the trace thread clears, and that thread is
\* not there, or waits for a debuggee nobody resumes.
LEMMA TraceHangStays ==
    ASSUME PlaceType, FlagType, PlaceInv, TraceInv, TraceHang, [Next]_vars
    PROVE  TraceHang'
<1> USE DEF Threads, None, Goes, output, io, tracer, proc, loop, PlaceType, PlaceInv, TraceInv,
        TraceHang
<1>1. ASSUME NEW t \in Threads, io_append_lock(t)
      PROVE  TraceHang'
    BY <1>1 DEF io_append_lock
<1>2. ASSUME NEW t \in Threads, io_append_text(t)
      PROVE  TraceHang'
    BY <1>2 DEF io_append_text
<1>3. ASSUME NEW t \in Threads, io_append_etx(t)
      PROVE  TraceHang'
    BY <1>3 DEF io_append_etx, Size, Next_message
<1>4. CASE cmdfunc_print
    BY <1>4 DEF cmdfunc_print, Enters, Shows
<1>5. CASE cmdfunc_continue
    BY <1>5 DEF cmdfunc_continue, Enters, Shows, Said, Silent
<1>6. CASE cmdfunc_watchpoint_delete
    BY <1>6 DEF cmdfunc_watchpoint_delete, Enters
<1>7. CASE cmdfunc_trace
    BY <1>7 DEF cmdfunc_trace, Enters, Said, Shows
<1>8. CASE cmdfunc_detach
    BY <1>8 DEF cmdfunc_detach, Enters, stop_trace
<1>9. CASE cmdfunc_quit
    BY <1>9 DEF cmdfunc_quit, Enters, stop_trace
<1>10. CASE interrupt
    BY <1>10 DEF interrupt, stop_trace, Resumed, Cut_text, Cut_etx, Cut_read, Full, Next_message
<1>11. CASE watchpoint_delete_wp
    BY <1>11 DEF watchpoint_delete_wp
<1>12. CASE watchpoint_delete_th
    BY <1>12 DEF watchpoint_delete_th
<1>13. CASE start_trace
    BY <1>13 DEF start_trace
<1>14. CASE stop_trace_returns
    BY <1>14 DEF stop_trace_returns
<1>15. CASE ops_detach
    BY <1>15 DEF ops_detach, Said, Shows
<1>16. CASE linecb_quits
    BY <1>16 DEF linecb_quits, Said, Silent, Shows
<1>17. CASE select_pipe
    BY <1>17 DEF select_pipe
<1>18. CASE inputloop_lock
    BY <1>18 DEF inputloop_lock, Round
<1>19. CASE io_flush
    BY <1>19 DEF io_flush, Round
<1>20. CASE wait_for_trace
    BY <1>20 DEF wait_for_trace
<1>21. CASE handle_exception
    BY <1>21 DEF handle_exception, Appends
<1>22. CASE exception_server
    BY <1>22 DEF exception_server
<1>23. CASE update_thread_list_new
    BY <1>23 DEF update_thread_list_new
<1>24. CASE update_thread_list_same
    BY <1>24 DEF update_thread_list_same
<1>25. CASE adjust_watchpoints_wp
    BY <1>25 DEF adjust_watchpoints_wp
<1>26. CASE adjust_watchpoints_th
    BY <1>26 DEF adjust_watchpoints_th, Appends
<1>27. CASE thread_monitor_server
    BY <1>27 DEF thread_monitor_server
<1>28. CASE trace_spin
    BY <1>28 DEF trace_spin
<1>29. CASE trace_start
    BY <1>29 DEF trace_start, cleanup, At
<1>30. CASE trace_wake
    BY <1>30 DEF trace_wake, cleanup, At
<1>31. CASE trace_event
    BY <1>31 DEF trace_event
<1>32. CASE trace_timeout
    BY <1>32 DEF trace_timeout, cleanup, At
<1>33. CASE UNCHANGED vars
    BY <1>33 DEF vars
<1> QED
    BY <1>1, <1>2, <1>3, <1>4, <1>5, <1>6, <1>7, <1>8, <1>9, <1>10, <1>11, <1>12, <1>13, <1>14,
       <1>15, <1>16, <1>17, <1>18, <1>19, <1>20, <1>21, <1>22, <1>23, <1>24, <1>25, <1>26, <1>27,
       <1>28, <1>29, <1>30, <1>31, <1>32, <1>33
    DEF Next, User, Main, io_append, ExceptionServer, ThreadMonitor, Trace, Threads

\* dbgio.c:45, watchpoint.c:226, trace.c:178: a jammed pipe, a cycle of locks
\* and a trace that stop_trace cannot end never come apart by themselves; only
\* Ctrl+C gets main out of the first two.
THEOREM HangsAreForGood == Spec => HangsStay
<1>1. ASSUME IInv, [Next]_vars
      PROVE  /\ Jam /\ holder["IO"] # "main" => Jam'
             /\ LockCycle => LockCycle' \/ pc'["main"] = "stop_trace"
             /\ TraceHang => TraceHang'
  <2>1. PlaceType /\ FlagType /\ PlaceInv /\ LockInv /\ TraceInv
    BY <1>1, TypeParts DEF IInv
  <2>2. ASSUME Jam, holder["IO"] # "main"
        PROVE  Jam'
    <3>1. PICK w \in Threads : pc[w] \in {"text", "etx"} /\ Full
      BY <2>2 DEF Jam
    <3>2. w # "main"
      BY <2>1, <2>2, <3>1 DEF LockInv, Where, Threads
    <3>3. pc'[w] = pc[w] /\ pipe' = pipe
      BY <1>1, <2>1, <3>1, <3>2, JamStays DEF Threads
    <3> QED
      BY <3>1, <3>3 DEF Jam, Full
  <2>3. LockCycle => LockCycle' \/ pc'["main"] = "stop_trace"
    BY <1>1, <2>1, CycleStays
  <2>4. TraceHang => TraceHang'
    BY <1>1, <2>1, TraceHangStays
  <2> QED
    BY <2>2, <2>3, <2>4
<1> QED
    BY <1>1, Invariant, PTL DEF Spec, HangsStay
=============================================================================
