------------------------------ MODULE Threads ------------------------------
(***************************************************************************)
(* debuggee->threads (source/thread.c), the update of it that the thread   *)
(* monitor runs every second (ops_threadupdate, source/dbgops.c), and the  *)
(* hardware breakpoints and watchpoints that have to follow the threads:   *)
(* the part of source/breakpoint.c and source/watchpoint.c that programs   *)
(* debug registers, called "points" here because the two are treated the   *)
(* same way.                                                               *)
(*                                                                         *)
(* Three threads of iosdbg act: main (the commands), the exception server  *)
(* and the thread monitor, whose update is cut where it lets go of         *)
(* THREAD_LOCK.  All three change the focus: set_focused_thread takes the  *)
(* lock for each of its two lookups and writes the two flags without it,   *)
(* so each of these is a step of its own.  A pointer into the list is the  *)
(* place of the struct, and dangles once a rebuild has freed the struct;   *)
(* the port of a struct is read in the step that looks the struct up.      *)
(* The debuggee's threads come and go at any time.  A thread               *)
(* port and the pthread tid are one value; the thread a struct machthread  *)
(* is for has the ID that is its place in the list (update_thread_list     *)
(* numbers the threads from 1 each time it rebuilds the list).  The points *)
(* are appended to their lists with growing ids, so a list of them is a    *)
(* set and list order is the order of the ids.                             *)
(***************************************************************************)
EXTENDS Integers, Sequences, FiniteSets, FiniteSetsExt, SequencesExt

CONSTANTS
    MaxThreads, \* bound: how many threads the debuggee ever has
    Kinds,      \* a subset of {"BP", "WP"}
    NumRegs,    \* debuggee->num_hw_bps, debuggee->num_hw_wps
    MaxPoints,  \* bound: how many points are ever set
    Sizes       \* bounds: how much is done of each kind, see Size

ASSUME ThreadsAssumption == MaxThreads \in Nat \ {0}
ASSUME CountAssumption   == NumRegs \in Nat \ {0} /\ MaxPoints \in Nat
ASSUME KindsAssumption   == Kinds \subseteq {"BP", "WP"}

\* How many threads are made and die, how many points are set, and how many
\* commands and exceptions touch the focus.
Size == [threads : 1 .. MaxThreads, deaths : Nat, points : 0 .. MaxPoints, calls : Nat]
ASSUME SizesAssumption == Sizes \subseteq Size

VARIABLES
    size,       \* the bounds that hold in this behaviour
    alive,      \* the debuggee's threads, in the order task_threads lists them
    born,       \* how many threads there have been
    threads,    \* debuggee->threads: a sequence of struct machthread
    regs,       \* regs[t][k][r]: the point in register r of kind k of thread t
    points,     \* debuggee->breakpoints and ->watchpoints
    next_id,    \* the id of the next point
    monitor,    \* where the thread monitor is in ops_threadupdate
    snapshot,   \* the ports its get_threads returned
    linking,    \* points whose registers are set but that are not yet listed
    call,       \* call[c]: what caller c is doing with the focus
    calls,      \* how many commands and exceptions have touched the focus
    selected,   \* focused_th_port: who had the focus before the rebuild
    up,         \* iosdbg has not dereferenced NULL
    recorded,   \* history: what is to be found recorded for a thread
    clash,      \* history: two changes of the focus overlapped (see Enter)
    rearmed,    \* history: an update armed a disabled breakpoint
    raced       \* history: another thread acted inside an update (see Raced)

focusVars == <<call, calls, selected, recorded, clash>>
pointVars == <<regs, points, next_id, linking, rearmed, raced>>
listVars  == <<threads, monitor, snapshot>>
vars == <<size, alive, born, listVars, pointVars, focusVars, up>>

Ports == 1 .. MaxThreads     \* thread ports, in the order they are made
Regs  == 0 .. NumRegs - 1
None == 0       \* a register whose control register is 0; no thread; no id
Gone == -1      \* the tid of a thread that was gone when it was asked for
Dangling == -1  \* a pointer to a struct that was freed
Unknown  == -1  \* a record that was under way when the struct was freed

Callers == {"main", "server", "monitor"}
Idle == [pc |-> "idle", port |-> None, prev |-> 0, new |-> 0]

Machthread == [port : Ports, tid : Ports \cup {Gone}, focused : {0, 1},
               excinfo : {0, 1}]
Point == [kind : Kinds, id : 1 .. MaxPoints, reg : Regs, all : BOOLEAN,
          ID : Nat, tid : Ports \cup {Gone, None}, disabled : BOOLEAN]

Alive == ToSet(alive)

----------------------------------------------------------------------------
(* Lookups: the position in the list, 0 for NULL.                          *)

FirstWhere(S) == IF S = {} THEN 0 ELSE Min(S)

thread_from_port(ts, p)      == FirstWhere({i \in DOMAIN ts : ts[i].port = p})
find_thread_from_ID(ts, ID)  == FirstWhere({i \in DOMAIN ts : i = ID})
find_thread_from_TID(ts, t)  == FirstWhere({i \in DOMAIN ts : ts[i].tid = t})
get_focused_thread(ts)       == FirstWhere({i \in DOMAIN ts : ts[i].focused = 1})

\* The first register no listed point uses, -1 when there is none.
find_ready_reg(ps, k) ==
    FirstWhere({r + 1 : r \in Regs \ {p.reg : p \in {q \in ps : q.kind = k}}}) - 1

NoRegs == [k \in Kinds |-> [r \in Regs |-> None]]

\* The register of point p gets value v on the threads in T, as far as they
\* are still there (set_debug_state, whose failure is ignored).
WriteReg(rg, T, p, v) ==
    [t \in DOMAIN rg |-> IF t \in T \cap Alive THEN [rg[t] EXCEPT ![p.kind][p.reg] = v] ELSE rg[t]]

Listed(ts) == {ts[i].port : i \in DOMAIN ts}

\* The listed threads enable_wp, disable_wp and their breakpoint
\* counterparts write: every one, or the one with the point's ID.
Targets(ts, p) ==
    IF p.all THEN Listed(ts)
    ELSE {ts[i].port : i \in {find_thread_from_ID(ts, p.ID)} \ {0}}

----------------------------------------------------------------------------
(* set_focused_thread, step by step, as caller c runs it.                  *)

At(c, pc) == call[c].pc = pc

\* c has decided to change the focus and is not done with it.
Changing(c) == call[c].pc \in {"prev", "new", "set", "clear", "look"}

\* c begins to change the focus.  What it decided from, or is about to look
\* up, may be stale when another caller is at it too.
Enter(c) == clash' = (clash \/ \E d \in Callers \ {c} : Changing(d))

\* The structs a write through pointer x may hit (0: none of the list).
Hit(x) == IF x = Dangling THEN {0} \cup DOMAIN threads ELSE {x}

WriteFocus(i, f) == IF i = 0 THEN threads ELSE [threads EXCEPT ![i].focused = f]

\* prevfocus = get_focused_thread()
find_prevfocus(c) ==
    /\ At(c, "prev")
    /\ call' = [call EXCEPT ![c].pc = "new", ![c].prev = get_focused_thread(threads)]
    /\ UNCHANGED threads

\* newfocus = thread_from_port(thread_port); nothing is done without one.
find_newfocus(c) ==
    LET new == thread_from_port(threads, call[c].port)
    IN  /\ At(c, "new")
        /\ call' = IF new = 0 THEN [call EXCEPT ![c].pc = "look", ![c].prev = 0]
                   ELSE [call EXCEPT ![c].pc = "set", ![c].new = new]
        /\ UNCHANGED threads

\* newfocus->focused = 1
give_focus(c) ==
    /\ At(c, "set")
    /\ \E i \in Hit(call[c].new) : threads' = WriteFocus(i, 1)
    /\ call' = [call EXCEPT ![c].pc = IF call[c].prev = 0 THEN "look" ELSE "clear", ![c].new = 0]

\* prevfocus->focused = 0, also when it is the thread that got the focus.
take_focus(c) ==
    /\ At(c, "clear")
    /\ \E i \in Hit(call[c].prev) : threads' = WriteFocus(i, 0)
    /\ call' = [call EXCEPT ![c].pc = "look", ![c].prev = 0]

set_focused_thread(c) ==
    /\ find_prevfocus(c) \/ find_newfocus(c) \/ give_focus(c) \/ take_focus(c)
    /\ UNCHANGED <<alive, born, monitor, snapshot, pointVars, calls, selected, recorded, clash, up>>

\* What an exception or a step command leaves in the struct c works on (the
\* fields update_thread_list saves as struct th_excinfo; what they are is
\* Stepping's subject).
Record(c, v) ==
    /\ At(c, "record")
    /\ \E i \in Hit(call[c].new) :
           IF i = 0 THEN UNCHANGED <<threads, recorded>>
           ELSE /\ threads' = [threads EXCEPT ![i].excinfo = v]
                /\ recorded' = [recorded EXCEPT ![threads[i].port] =
                                    IF call[c].new = Dangling THEN Unknown ELSE v]
    /\ call' = [call EXCEPT ![c] = Idle]

----------------------------------------------------------------------------
(* The debuggee.                                                           *)

Birth ==
    /\ born + 1 \in Ports /\ born < size.threads
    /\ born' = born + 1
    /\ alive' = Append(alive, born + 1)
    /\ UNCHANGED <<listVars, pointVars, focusVars, up>>

Death(i) ==
    /\ Len(alive) > 1
    /\ born - Len(alive) < size.deaths
    /\ alive' = RemoveAt(alive, i)
    /\ regs' = [regs EXCEPT ![alive[i]] = NoRegs]
    /\ UNCHANGED <<born, listVars, points, next_id, linking, rearmed, raced, focusVars, up>>

----------------------------------------------------------------------------
(* Main.                                                                   *)

Updating == monitor \notin {"waiting", "fetched"}

\* What main and the exception server do to points inside an update, after
\* the list has its new numbers and before the points have them.
Raced == raced' = (raced \/ Updating)

MainFree == linking = {} /\ At("main", "idle")
Called == calls < size.calls /\ calls' = calls + 1

\* breakpoint_new and watchpoint_new, called with thread number ID (None:
\* every thread): find the thread and a register, set the register.  They
\* refuse a number that no thread has and fail when no register is left.
point_new(k, ID) ==
    LET reg == find_ready_reg(points, k)
        i   == find_thread_from_ID(threads, ID)
        p   == [kind |-> k, id |-> next_id, reg |-> reg, all |-> ID = None, ID |-> ID,
                tid |-> IF ID = None THEN None ELSE threads[i].tid, disabled |-> FALSE]
    IN  /\ MainFree
        /\ next_id <= MaxPoints /\ next_id <= size.points
        /\ ID \in 0 .. Len(threads)
        /\ reg # -1
        /\ regs' = WriteReg(regs, Targets(threads, p), p, p.id)
        /\ linking' = {p}
        /\ next_id' = next_id + 1
        /\ UNCHANGED <<alive, born, listVars, points, rearmed, raced, focusVars, up>>

\* watchpoint_at_address, breakpoint_at_address: the list gets the point.
point_link ==
    /\ linking # {}
    /\ points' = points \cup linking
    /\ linking' = {}
    /\ UNCHANGED <<alive, born, listVars, regs, next_id, rearmed, raced, focusVars, up>>

\* wp_delete_internal, bp_delete_internal.
point_delete(p) ==
    /\ MainFree
    /\ regs' = WriteReg(regs, Targets(threads, p), p, None)
    /\ points' = points \ {p}
    /\ Raced
    /\ UNCHANGED <<alive, born, listVars, next_id, linking, rearmed, focusVars, up>>

\* bp_set_state_internal for every breakpoint that is not a step's own.
\* The registers of two breakpoints differ, so the order does not matter.
set_state_all(disabled) ==
    LET bps == {p \in points : p.kind = "BP"}
        Mine(t, k, r) == {p \in bps : k = "BP" /\ p.reg = r /\ t \in Targets(threads, p) \cap Alive}
        After(t, k, r) ==
            CASE Mine(t, k, r) = {} -> regs[t][k][r]
              [] disabled /\ Mine(t, k, r) # {} -> None
              [] OTHER -> Max({p.id : p \in Mine(t, k, r)})
    IN  /\ regs' = [t \in Ports |-> [k \in Kinds |-> [r \in Regs |-> After(t, k, r)]]]
        /\ points' = (points \ bps) \cup {[p EXCEPT !.disabled = disabled] : p \in bps}
        /\ Raced

\* `thread select': the number is at most thread_count, the length of the
\* list; set_focused_thread_with_idx looks its port up ...
thread_select(ID) ==
    /\ MainFree /\ Called
    /\ call' = [call EXCEPT !["main"] = [Idle EXCEPT !.pc = "prev", !.port = threads[ID].port]]
    /\ Enter("main")
    /\ UNCHANGED <<alive, born, listVars, pointVars, selected, recorded, up>>

\* ... and the command prints the focused thread afterwards, which is NULL
\* when the thread selected had the focus.
thread_selected ==
    /\ At("main", "look")
    /\ up' = (get_focused_thread(threads) # 0)
    /\ call' = [call EXCEPT !["main"] = Idle]
    /\ UNCHANGED <<alive, born, listVars, pointVars, calls, selected, recorded, clash>>

\* prepare, of the step commands: breakpoint_disable_all_except and then
\* the step configuration of the focused thread, which may be NULL.
prepare ==
    LET f == get_focused_thread(threads)
    IN  /\ MainFree /\ Called
        /\ set_state_all(TRUE)
        /\ up' = (f # 0)
        /\ call' = IF f = 0 THEN call
                   ELSE [call EXCEPT !["main"] = [Idle EXCEPT !.pc = "record", !.new = f]]
        /\ UNCHANGED <<alive, born, listVars, next_id, linking, rearmed, selected, recorded, clash>>

prepared ==
    /\ Record("main", 1)
    /\ UNCHANGED <<alive, born, monitor, snapshot, pointVars, calls, selected, clash, up>>

----------------------------------------------------------------------------
(* The exception server gives focus to the thread that raised an exception *)
(* and works on the focused thread.                                        *)

\* Mutant: the thread is focused whether or not it has focus already.
handle_exception_Always(t) ==
    /\ At("server", "idle") /\ Called
    /\ call' = [call EXCEPT !["server"] = [Idle EXCEPT !.pc = "prev", !.port = t]]
    /\ Enter("server")
    /\ UNCHANGED <<alive, born, listVars, pointVars, selected, recorded, up>>

handle_exception(t) ==
    LET f == get_focused_thread(threads)
        Has == f # 0 /\ threads[f].port = t
    IN  /\ At("server", "idle") /\ Called
        /\ call' = [call EXCEPT !["server"] =
                       [Idle EXCEPT !.pc = IF Has THEN "record" ELSE "prev", !.port = t,
                                    !.new = IF Has THEN f ELSE 0]]
        /\ IF Has THEN UNCHANGED clash ELSE Enter("server")
        /\ UNCHANGED <<alive, born, listVars, pointVars, selected, recorded, up>>

\* The thread that has the focus now is the one it goes on with, if any.
refetch_focused ==
    LET f == get_focused_thread(threads)
    IN  /\ At("server", "look")
        /\ call' = [call EXCEPT !["server"] =
                       IF f = 0 THEN Idle ELSE [@ EXCEPT !.pc = "record", !.new = f]]
        /\ UNCHANGED <<alive, born, listVars, pointVars, calls, selected, recorded, clash, up>>

\* handle_single_step enables the breakpoints a step command disabled.
handled(v, single_step) ==
    /\ Record("server", v)
    /\ IF single_step THEN set_state_all(FALSE) ELSE UNCHANGED <<regs, points, raced>>
    /\ UNCHANGED <<alive, born, monitor, snapshot, next_id, linking, rearmed, calls, selected,
                   clash, up>>

----------------------------------------------------------------------------
(* The thread monitor.                                                     *)

get_threads ==
    /\ monitor = "waiting"
    /\ monitor' = "fetched"
    /\ snapshot' = alive
    /\ UNCHANGED <<alive, born, threads, pointVars, focusVars, up>>

\* The thread that has the focus, the last one if two have it.
focused_th_port ==
    LET F == {i \in DOMAIN threads : threads[i].focused = 1}
    IN  IF F = {} THEN None ELSE threads[Max(F)].port

\* Mutant: what was recorded is looked for in the same place of the old list.
machthread_new_ByPlace(p) ==
    LET i == FirstWhere({j \in DOMAIN threads : snapshot[j] = p})
    IN  [port |-> p, tid |-> IF p \in Alive THEN p ELSE Gone,
         focused |-> IF p = focused_th_port THEN 1 ELSE 0,
         excinfo |-> IF i # 0 THEN threads[i].excinfo ELSE 0]

\* A fresh struct for port p; what is kept of the one the list had for it.
machthread_new(p) ==
    LET i == thread_from_port(threads, p)
    IN  [port |-> p, tid |-> IF p \in Alive THEN p ELSE Gone,
         focused |-> IF p = focused_th_port THEN 1 ELSE 0,
         excinfo |-> IF i # 0 THEN threads[i].excinfo ELSE 0]

\* Mutant: off by one in the test for a new thread.
NewThreads_OneLess == {snapshot[i] : i \in {j \in DOMAIN snapshot : j > Len(threads) + 1}}

\* The threads update_thread_list takes to be new: the ones past the old
\* list's length.
NewThreads == {snapshot[i] : i \in {j \in DOMAIN snapshot : j > Len(threads)}}

\* The register values a new thread gets: those of the listed points that
\* are for every thread, the disabled ones too (bcr keeps its E bit).
ForNew(rg) ==
    [k \in Kinds |-> [r \in Regs |->
        LET Here == {p.id : p \in {q \in points : q.all /\ q.kind = k /\ q.reg = r}}
        IN  IF Here = {} THEN rg[k][r] ELSE Max(Here)]]

\* The records under way to structs that are about to be freed.
Losing == {threads[call[c].new].port :
              c \in {d \in Callers : At(d, "record") /\ call[d].new # Dangling}}

Freed(x) == IF x = 0 THEN 0 ELSE Dangling

update_thread_list ==
    /\ monitor = "fetched"
    /\ monitor' = "rebuilt"
    /\ threads' = [i \in DOMAIN snapshot |-> machthread_new(snapshot[i])]
    /\ regs' = [t \in Ports |-> IF t \in NewThreads \cap Alive THEN ForNew(regs[t]) ELSE regs[t]]
    /\ selected' = focused_th_port
    /\ call' = [c \in Callers |-> [call[c] EXCEPT !.prev = Freed(@), !.new = Freed(@)]]
    /\ recorded' = [p \in Ports |-> IF p \in Losing THEN Unknown ELSE recorded[p]]
    /\ clash' = \E c \in Callers : Changing(c)
    /\ rearmed' = (rearmed \/ (NewThreads \cap Alive # {} /\ \E p \in points : p.all /\ p.disabled))
    /\ raced' = (raced \/ linking # {})
    /\ UNCHANGED <<alive, born, points, next_id, snapshot, linking, calls, up>>

\* ops_threadupdate looks for the focused thread ...
check_focus ==
    /\ monitor = "rebuilt"
    /\ IF get_focused_thread(threads) # 0
       THEN monitor' = "focused" /\ UNCHANGED <<call, clash>>
       ELSE /\ monitor' = "unfocused"
            /\ call' = [call EXCEPT !["monitor"] =
                            [Idle EXCEPT !.pc = "prev", !.port = snapshot[1]]]
            /\ Enter("monitor")
    /\ UNCHANGED <<alive, born, threads, snapshot, pointVars, calls, selected, recorded, up>>

\* ... and goes on when it has selected the first one where there was none.
refocused ==
    /\ monitor = "unfocused" /\ At("monitor", "look")
    /\ monitor' = "focused"
    /\ call' = [call EXCEPT !["monitor"] = Idle]
    /\ UNCHANGED <<alive, born, threads, snapshot, pointVars, calls, selected, recorded, clash, up>>

\* fetch_bp_or_wp_threads: the thread with the point's ID, or else its tid,
\* and the thread with its tid.
Correct(p) == find_thread_from_TID(threads, p.tid)
Found(p)   == LET i == find_thread_from_ID(threads, p.ID) IN IF i # 0 THEN i ELSE Correct(p)

\* Mutant: a point whose thread is gone stays.
Invalid_None(k) == {}

\* The points of kind k an adjustment deletes ...
Invalid(k) == {p \in points : p.kind = k /\ ~p.all /\ Correct(p) = 0}

\* Mutant: only a number that no thread has any more is corrected.
Wrong_MissingOnly(k) ==
    {p \in points :
        /\ p.kind = k /\ ~p.all
        /\ Correct(p) # 0
        /\ find_thread_from_ID(threads, p.ID) = 0}

\* ... and those it moves.
Wrong(k) ==
    {p \in points :
        /\ p.kind = k /\ ~p.all
        /\ Correct(p) # 0
        /\ \/ threads[Found(p)].tid # p.tid
           \/ Found(p) # p.ID}

\* Each point has a register of its own kind to itself, so the order of the
\* points does not matter: clear_wrong_thread_debug_state before
\* set_correct_thread_debug_state for a point that is moved, disable_wp or
\* disable_hw_bp for one that is deleted.
adjust(k) ==
    LET moved == Wrong(k)
        gone  == Invalid(k)
        CorrectPort(p) == threads[Correct(p)].port
        FoundPort(p)   == IF Found(p) = 0 THEN None ELSE threads[Found(p)].port
        Set(t, r)   == {p.id : p \in {q \in moved : q.reg = r /\ CorrectPort(q) = t}}
        Clear(t, r) == {q \in moved \cup gone : q.reg = r /\ FoundPort(q) = t}
        After(t, r) ==
            CASE t \in Alive /\ Set(t, r) # {} -> Max(Set(t, r))
              [] Set(t, r) = {} /\ Clear(t, r) # {} -> None
              [] OTHER -> regs[t][k][r]
        Moved(p) == [p EXCEPT !.ID = Correct(p), !.tid = threads[Correct(p)].tid]
    IN  /\ regs' = [t \in Ports |-> [regs[t] EXCEPT ![k] = [r \in Regs |-> After(t, r)]]]
        /\ points' = {IF p \in moved THEN Moved(p) ELSE p : p \in points \ gone}
        /\ rearmed' = (rearmed \/ \E p \in moved : p.disabled)

adjust_breakpoints ==
    /\ monitor = "focused"
    /\ monitor' = "bps_adjusted"
    /\ IF "BP" \in Kinds THEN adjust("BP") ELSE UNCHANGED <<regs, points, rearmed>>
    /\ UNCHANGED <<alive, born, threads, next_id, snapshot, linking, raced, focusVars, up>>

adjust_watchpoints ==
    /\ monitor = "bps_adjusted"
    /\ monitor' = "waiting"
    /\ snapshot' = <<>>          \* vm_deallocate
    /\ selected' = None
    /\ IF "WP" \in Kinds THEN adjust("WP") ELSE UNCHANGED <<regs, points, rearmed>>
    /\ UNCHANGED <<alive, born, threads, next_id, linking, raced, call, calls, recorded, clash, up>>

----------------------------------------------------------------------------
\* cmdfunc_attach has listed the thread it found and focused it; the thread
\* is in the middle of a step, so that something is recorded for it.
Init ==
    /\ size \in Sizes
    /\ alive = <<1>>
    /\ born = 1
    /\ threads = <<[port |-> 1, tid |-> 1, focused |-> 1, excinfo |-> 1]>>
    /\ regs = [t \in Ports |-> NoRegs]
    /\ points = {}
    /\ next_id = 1
    /\ monitor = "waiting"
    /\ snapshot = <<>>
    /\ linking = {}
    /\ call = [c \in Callers |-> Idle]
    /\ calls = 0
    /\ selected = None
    /\ recorded = [p \in Ports |-> IF p = 1 THEN 1 ELSE 0]
    /\ up = TRUE
    /\ clash = FALSE /\ rearmed = FALSE /\ raced = FALSE

Debuggee == Birth \/ \E i \in DOMAIN alive : Death(i)

Main ==
    \/ \E k \in Kinds, ID \in 0 .. Len(threads) : point_new(k, ID)
    \/ point_link
    \/ \E p \in points : point_delete(p)
    \/ \E ID \in DOMAIN threads : thread_select(ID)
    \/ set_focused_thread("main") \/ thread_selected \/ prepare \/ prepared

Monitor == get_threads \/ update_thread_list \/ check_focus
              \/ set_focused_thread("monitor") \/ refocused
              \/ adjust_breakpoints \/ adjust_watchpoints

Server ==
    \/ \E t \in Alive : handle_exception(t)
    \/ set_focused_thread("server") \/ refetch_focused
    \/ \E v \in {0, 1}, single_step \in BOOLEAN : handled(v, single_step)

Next == up /\ (Debuggee \/ Main \/ Monitor \/ Server) /\ UNCHANGED size

\* The monitor wakes at least once a second; main ends a command it began.
Fairness == /\ WF_vars(up /\ Monitor /\ UNCHANGED size)
            /\ WF_vars(up /\ point_link /\ UNCHANGED size)

Spec == Init /\ [][Next]_vars /\ Fairness

----------------------------------------------------------------------------
\* Shape of the state; thread_count (the list's length) is never 0.
TypeOK ==
    /\ alive \in Seq(Ports) /\ Len(alive) > 0 /\ born \in Ports
    /\ threads \in Seq(Machthread) /\ Len(threads) > 0
    /\ regs \in [Ports -> [Kinds -> [Regs -> 0 .. MaxPoints]]]
    /\ points \subseteq Point /\ linking \subseteq Point
    /\ next_id \in 1 .. MaxPoints + 1
    /\ monitor \in {"waiting", "fetched", "rebuilt", "unfocused", "focused", "bps_adjusted"}
    /\ snapshot \in Seq(Ports)
    /\ call \in [Callers -> [pc : {"idle", "prev", "new", "set", "clear", "look", "record"},
                             port : Ports \cup {None},
                             prev : {Dangling, 0} \cup DOMAIN threads,
                             new : {Dangling, 0} \cup DOMAIN threads]]
    /\ size \in Sizes /\ calls \in Nat /\ selected \in Ports \cup {None}
    /\ recorded \in [Ports -> {0, 1, Unknown}]
    /\ up \in BOOLEAN /\ clash \in BOOLEAN /\ rearmed \in BOOLEAN /\ raced \in BOOLEAN

\* set_focused_thread (thread.c:526) and ops_threadupdate (dbgops.c:377): as
\* long as no two changes of the focus overlapped since the last update, no
\* two threads have the focus, but for the moment between the two writes,
\* and one has it when nobody is changing it and no update is under way.
OneFocused ==
    LET focused == {i \in DOMAIN threads : threads[i].focused = 1}
    IN  ~clash =>
            /\ (\A c \in Callers : ~At(c, "clear")) => Cardinality(focused) <= 1
            /\ up /\ ~Updating /\ (\A c \in Callers : ~Changing(c)) => focused # {}

\* exception.c:264, "Give focus to whatever caused this exception": the
\* thread the server goes on with is the one that raised the exception.
FocusFollowsException ==
    At("server", "record") /\ call["server"].new # Dangling =>
        threads[call["server"].new].port = call["server"].port

\* The same where no two changes of the focus overlapped and the list has
\* the thread.
ExceptionOnItsThread ==
    ~clash /\ call["server"].port \in Listed(threads) => FocusFollowsException

\* The list of threads, its numbering and its focus are sound.
ThreadListOK == TypeOK /\ OneFocused /\ ExceptionOnItsThread

\* The thread a point is for, by the number it has now.
RecordAgrees(p) == p.all \/ (p.ID \in DOMAIN threads /\ threads[p.ID].tid = p.tid)
Armed(p, t)     == regs[t][p.kind][p.reg] = p.id
OnItsThread(p)  ==
    p.all \/ (RecordAgrees(p) /\ (p.tid \in Alive /\ ~p.disabled => Armed(p, p.tid)))

\* Between updates every point of one thread has that thread's number and is
\* in that thread's register, although the update renumbered the threads.
NoneMisplaced ==
    ~Updating /\ ~raced => \A p \in points : OnItsThread(p)

\* disable_wp and disable_hw_bp go by the thread's number: a register of a
\* running thread holds no point that is deleted or for another thread, nor
\* a disabled one, unless an update armed one that was disabled.
NoStrayRegister ==
    ~Updating /\ ~raced =>
        \A t \in Listed(threads) \cap Alive, k \in Kinds, r \in Regs :
            regs[t][k][r] # None =>
                \E p \in points \cup linking :
                    /\ p.kind = k /\ p.reg = r /\ p.id = regs[t][k][r]
                    /\ p.all \/ p.tid = t
                    /\ ~p.disabled \/ rearmed

\* adjust_bps_and_wps (dbgops.c:362): the registers of the threads hold the
\* points that are for them and no others, through births, deaths, deletions
\* and the renumbering of every update.
PointsFollowThreads == NoneMisplaced /\ NoStrayRegister

AllArmed == \A p \in points :
                p.all /\ ~p.disabled => \A t \in Listed(threads) \cap Alive : Armed(p, t)

\* thread.c:489: while no thread has died, every listed thread has every
\* point that is for all threads, the threads created since included.
AllThreadsArmed == ~raced /\ Len(alive) = born => AllArmed

\* thread.c:486, "Update non-thread specific breakpoints and watchpoints for
\* any new threads": the same when threads have died.
NewThreadsArmed == ~raced => AllArmed

\* bp_set_state_internal (breakpoint.c:257): a disabled breakpoint is in no
\* register, whatever an update does.
DisabledAreOff ==
    \A p \in points, t \in Listed(threads) \cap Alive : p.disabled => ~Armed(p, t)

\* update_thread_list (thread.c:403): what an exception or a step left in a
\* thread's struct is found in the struct the thread has now, through any
\* rebuilds, births and deaths; but for a record that was under way while
\* the list was rebuilt.
RecordsKept ==
    \A i \in DOMAIN threads :
        recorded[threads[i].port] \in {threads[i].excinfo, Unknown}

\* dbgops.c:381, "Previously selected thread dead": the monitor selects
\* another thread only when the one that had the focus before the rebuild
\* is gone, as long as no two changes of the focus overlapped.
SelectionKept == monitor = "unfocused" /\ ~clash => selected \notin Alive

\* An update loses neither what is recorded nor the user's selection.
RebuildLosesNothing == RecordsKept /\ SelectionKept

\* Whatever was cut into an update, a later one puts it right: in the end
\* every point of one thread has its thread's number and register.
PointsSettle == <>[](up => \A p \in points : OnItsThread(p))
============================================================================
