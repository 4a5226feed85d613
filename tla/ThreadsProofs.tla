--------------------------- MODULE ThreadsProofs ---------------------------
(***************************************************************************)
(* Proofs about Threads, for every number of threads, registers and        *)
(* points.                                                                 *)
(***************************************************************************)
EXTENDS Threads, SequenceTheorems, FiniteSetTheorems, WellFoundedInduction, TLAPS

----------------------------------------------------------------------------
(* The inductive invariant.                                                *)

\* The debuggee's threads are distinct and have ports up to born, which are
\* not used again; as long as none has died they are all of them, in order.
AliveInv ==
    /\ alive \in Seq(Ports) /\ Len(alive) > 0 /\ born \in Ports
    /\ \A i, j \in DOMAIN alive : alive[i] = alive[j] => i = j
    /\ \A i \in DOMAIN alive : alive[i] <= born
    /\ Len(alive) <= born
    /\ Len(alive) = born => \A i \in DOMAIN alive : alive[i] = i

\* So are the threads of the snapshot.
SnapshotInv ==
    /\ snapshot \in Seq(Ports)
    /\ monitor \in {"waiting", "fetched", "rebuilt", "unfocused", "focused", "bps_adjusted"}
    /\ monitor # "waiting" => Len(snapshot) > 0
    /\ \A i, j \in DOMAIN snapshot : snapshot[i] = snapshot[j] => i = j
    /\ \A i \in DOMAIN snapshot : snapshot[i] <= born
    /\ Len(alive) = born => \A i \in DOMAIN snapshot : snapshot[i] = i

\* So are the listed threads; the one with port p has the tid p, unless it
\* was gone when the list was built.
ListInv ==
    /\ threads \in Seq(Machthread) /\ Len(threads) > 0
    /\ \A i, j \in DOMAIN threads : threads[i].port = threads[j].port => i = j
    /\ \A i \in DOMAIN threads : threads[i].port <= born
    /\ \A i \in DOMAIN threads : threads[i].tid \in {threads[i].port, Gone}
    /\ \A i \in DOMAIN threads : threads[i].port \in Alive => threads[i].tid = threads[i].port
    /\ Len(alive) = born => \A i \in DOMAIN threads : threads[i].port = i

\* A listed thread that lives is in the snapshot the next list is built
\* from, and a list that was built from a snapshot has its threads.
FetchInv ==
    /\ monitor = "fetched" =>
        /\ \A i \in DOMAIN threads : threads[i].port \in Alive =>
                \E j \in DOMAIN snapshot : snapshot[j] = threads[i].port
        /\ Len(alive) = born => Len(threads) <= Len(snapshot)
    /\ Updating => /\ Len(threads) = Len(snapshot)
                   /\ \A i \in DOMAIN threads : threads[i].port = snapshot[i]

\* What the callers hold: pointers into the list, or to structs that are
\* freed.  The monitor changes the focus where it found none.
PCs == {"idle", "prev", "new", "set", "clear", "look", "record"}
CallRec == [pc : PCs, port : Ports \cup {None}, prev : {Dangling, 0} \cup DOMAIN threads,
            new : {Dangling, 0} \cup DOMAIN threads]

HeldInv ==
    /\ call \in [Callers -> CallRec]
    /\ \A c \in Callers : At(c, "record") => call[c].new # 0
    /\ IF monitor = "unfocused" THEN Changing("monitor") ELSE At("monitor", "idle")

HistoryInv ==
    /\ size \in Sizes /\ calls \in Nat
    /\ selected \in Ports \cup {None} /\ selected <= born
    /\ recorded \in [Ports -> {0, 1, Unknown}]
    /\ up \in BOOLEAN /\ clash \in BOOLEAN /\ rearmed \in BOOLEAN /\ raced \in BOOLEAN

CallInv == HeldInv /\ HistoryInv

OneFocus(ts) == \A i, j \in DOMAIN ts : ts[i].focused = 1 /\ ts[j].focused = 1 => i = j
HasFocus(ts) == \E i \in DOMAIN ts : ts[i].focused = 1
NoFocus(ts)  == \A i \in DOMAIN ts : ts[i].focused = 0

\* x is what get_focused_thread returns for the list ts.
IsFocus(ts, x) == \/ x = 0 /\ NoFocus(ts)
                  \/ x \in DOMAIN ts /\ ts[x].focused = 1

\* What a caller that changes the focus of ts to port p has decided from: the
\* server, that p does not have it; the monitor, that nobody has.
Decided(ts, c, p) ==
    /\ c = "server" => \A i \in DOMAIN ts : ts[i].port = p => ts[i].focused = 0
    /\ c = "monitor" => NoFocus(ts) /\ p \in Listed(ts)

\* Where the focus is while r is the state of caller c, if nobody else is at it.
Stage(ts, c, r) ==
    /\ r.pc \in {"prev", "new", "set"} => Decided(ts, c, r.port)
    /\ r.pc \in {"new", "set"} => IsFocus(ts, r.prev)
    /\ r.pc = "set" => r.new \in DOMAIN ts /\ ts[r.new].port = r.port
    /\ r.pc = "clear" =>
        /\ r.prev \in DOMAIN ts
        /\ \E n \in DOMAIN ts :
                /\ ts[n].port = r.port /\ ts[n].focused = 1
                /\ \A i \in DOMAIN ts : ts[i].focused = 1 => i \in {r.prev, n}
                /\ c # "main" => n # r.prev
    /\ r.pc = "look" =>
        /\ c = "server" => \A i \in DOMAIN ts : ts[i].port = r.port => ts[i].focused = 1
        /\ c = "monitor" => HasFocus(ts)

\* One caller at a time: the focus is where that caller has brought it, and
\* somebody has it unless the monitor is about to look for it or main took
\* it from the thread it was to give it to.
FocusInv ==
    ~clash =>
        /\ \A c, d \in Callers : Changing(c) /\ Changing(d) => c = d
        /\ (\A c \in Callers : ~At(c, "clear")) => OneFocus(threads)
        /\ \A c \in Callers : Stage(threads, c, call[c])
        /\ up /\ ~At("main", "look") /\ monitor \notin {"rebuilt", "unfocused"} => HasFocus(threads)
        /\ up /\ ~At("main", "look") /\ monitor = "rebuilt" /\ selected \in Alive => HasFocus(threads)
        /\ monitor = "unfocused" => selected \notin Alive
        /\ ExceptionOnItsThread

\* A thread something was recorded for is listed, or gone for good.
RecordInv ==
    /\ RecordsKept
    /\ \A p \in Ports : recorded[p] # 0 =>
            \/ p \in Listed(threads)
            \/ /\ p <= born /\ p \notin Alive
               /\ \A i \in DOMAIN snapshot : snapshot[i] # p

SetPoints == points \cup linking

\* No two points have one register, and a point is for a thread that has been.
PointInv ==
    /\ points \subseteq Point /\ linking \subseteq Point /\ points \cap linking = {}
    /\ next_id \in 1 .. MaxPoints + 1
    /\ regs \in [Ports -> [Kinds -> [Regs -> 0 .. MaxPoints]]]
    /\ \A p, q \in SetPoints : p.kind = q.kind /\ p.reg = q.reg => p = q
    /\ \A p \in SetPoints : p.tid <= born

\* A point whose number the update has yet to correct.
Unadjusted(p) ==
    /\ p \in points
    /\ \/ monitor \in {"rebuilt", "unfocused", "focused"}
       \/ monitor = "bps_adjusted" /\ p.kind = "WP"

\* A point of one thread is in the register of the thread with its tid, and
\* it has that thread's number, unless the update is still to come to it.
PlacedInv ==
    ~raced => \A p \in SetPoints : ~p.all =>
        /\ p.tid \in Alive /\ ~p.disabled => Armed(p, p.tid)
        /\ ~Unadjusted(p) => RecordAgrees(p)
        /\ p.tid \in Alive => p.tid \in Listed(threads)

\* A register that is not off holds a point of its thread, which is listed;
\* not a disabled one, unless an update put it there.
NoStray ==
    ~raced => \A t \in Ports, k \in Kinds, r \in Regs :
        regs[t][k][r] # None =>
            /\ t \in Alive /\ t \in Listed(threads)
            /\ \E p \in SetPoints : /\ p.kind = k /\ p.reg = r /\ p.id = regs[t][k][r]
                                    /\ p.all \/ p.tid = t
                                    /\ ~p.disabled \/ rearmed

\* While no thread has died, the points of every thread are everywhere.
ArmedInv ==
    ~raced /\ Len(alive) = born =>
        \A p \in SetPoints : p.all /\ ~p.disabled =>
            \A t \in Listed(threads) \cap Alive : Armed(p, t)

IInv == /\ AliveInv /\ SnapshotInv /\ ListInv /\ FetchInv
        /\ CallInv /\ FocusInv /\ RecordInv
        /\ PointInv /\ PlacedInv /\ NoStray /\ ArmedInv

----------------------------------------------------------------------------
(* Lookups.                                                                *)

\* A set of natural numbers that is not empty has a least element.
LEMMA LeastNat ==
    ASSUME NEW S, S \subseteq Nat, S # {}
    PROVE  \E i \in S : \A j \in S : i <= j
<1> DEFINE R == OpToRel(<, Nat)
<1>1. IsWellFoundedOn(R, Nat)
    BY NatLessThanWellFounded DEF OpToRel
<1>2. PICK i \in S : \A j \in S : <<j, i>> \notin R
    <2> HIDE DEF R
    <2> QED
        BY <1>1, WFMin
<1>3. \A j \in S : ~(j < i)
    BY <1>2 DEF OpToRel
<1> QED
    BY <1>3

\* A lookup returns a place that it looks for, and 0 only if there is none.
LEMMA FirstIsPlace ==
    ASSUME NEW S, S \subseteq Nat \ {0}
    PROVE  /\ S = {} => FirstWhere(S) = 0
           /\ S # {} => FirstWhere(S) \in S /\ FirstWhere(S) # 0
<1>1. ASSUME S # {}
      PROVE  Min(S) \in S
    <2>1. \E i \in S : \A j \in S : i <= j
        BY <1>1, LeastNat
    <2> QED
        BY <2>1 DEF Min
<1> QED
    BY <1>1 DEF FirstWhere

\* An interval from 1 has one upper end.
LEMMA SameInterval ==
    ASSUME NEW m \in Nat, NEW n \in Nat, 1 .. m = 1 .. n
    PROVE  m = n
<1>1. (m >= 1 => m \in 1 .. m) /\ (n >= 1 => n \in 1 .. n)
    OBVIOUS
<1>2. (m >= 1 => m <= n) /\ (n >= 1 => n <= m)
    BY <1>1
<1> QED
    BY <1>2

\* The places of a list of threads.
LEMMA Places ==
    ASSUME NEW ts \in Seq(Machthread)
    PROVE  /\ Len(ts) \in Nat /\ DOMAIN ts = 1 .. Len(ts)
           /\ \A S \in SUBSET DOMAIN ts : S \subseteq Nat \ {0}
           /\ \A i \in DOMAIN ts : /\ ts[i] \in Machthread /\ ts[i].port \in Ports
                                   /\ ts[i].tid \in Ports \cup {Gone}
                                   /\ ts[i].focused \in {0, 1} /\ ts[i].excinfo \in {0, 1}
<1>1. /\ Len(ts) \in Nat /\ DOMAIN ts = 1 .. Len(ts)
      /\ ts \in [1 .. Len(ts) -> Machthread]
    BY LenProperties
<1>2. \A i \in DOMAIN ts : ts[i] \in Machthread
    BY <1>1
<1>3. \A i \in 1 .. Len(ts) : i \in Nat \ {0}
    BY <1>1
<1> QED
    BY <1>1, <1>2, <1>3 DEF Machthread

\* thread_from_port.
LEMMA FromPort ==
    ASSUME NEW ts \in Seq(Machthread), NEW p
    PROVE  \/ /\ thread_from_port(ts, p) = 0
              /\ \A i \in DOMAIN ts : ts[i].port # p
           \/ /\ thread_from_port(ts, p) \in DOMAIN ts /\ thread_from_port(ts, p) # 0
              /\ ts[thread_from_port(ts, p)].port = p
<1> DEFINE S == {i \in DOMAIN ts : ts[i].port = p}
<1>1. S \subseteq Nat \ {0}
    BY Places
<1>2. thread_from_port(ts, p) = FirstWhere(S)
    BY DEF thread_from_port
<1>3. (FirstWhere(S) = 0 /\ S = {}) \/ (FirstWhere(S) \in S /\ FirstWhere(S) # 0)
    <2> HIDE DEF S
    <2> QED
        BY <1>1, FirstIsPlace
<1> QED
    BY <1>2, <1>3

\* get_focused_thread.
LEMMA FocusOf ==
    ASSUME NEW ts \in Seq(Machthread)
    PROVE  \/ /\ get_focused_thread(ts) = 0
              /\ \A i \in DOMAIN ts : ts[i].focused = 0
           \/ /\ get_focused_thread(ts) \in DOMAIN ts /\ get_focused_thread(ts) # 0
              /\ ts[get_focused_thread(ts)].focused = 1
<1> DEFINE S == {i \in DOMAIN ts : ts[i].focused = 1}
<1>1. S \subseteq Nat \ {0}
    BY Places
<1>2. get_focused_thread(ts) = FirstWhere(S)
    BY DEF get_focused_thread
<1>3. (FirstWhere(S) = 0 /\ S = {}) \/ (FirstWhere(S) \in S /\ FirstWhere(S) # 0)
    <2> HIDE DEF S
    <2> QED
        BY <1>1, FirstIsPlace
<1>4. S = {} => \A i \in DOMAIN ts : ts[i].focused = 0
    BY Places
<1> QED
    BY <1>2, <1>3, <1>4

\* find_thread_from_TID.
LEMMA FromTID ==
    ASSUME NEW ts \in Seq(Machthread), NEW t
    PROVE  \/ /\ find_thread_from_TID(ts, t) = 0
              /\ \A i \in DOMAIN ts : ts[i].tid # t
           \/ /\ find_thread_from_TID(ts, t) \in DOMAIN ts /\ find_thread_from_TID(ts, t) # 0
              /\ ts[find_thread_from_TID(ts, t)].tid = t
<1> DEFINE S == {i \in DOMAIN ts : ts[i].tid = t}
<1>1. S \subseteq Nat \ {0}
    BY Places
<1>2. find_thread_from_TID(ts, t) = FirstWhere(S)
    BY DEF find_thread_from_TID
<1>3. (FirstWhere(S) = 0 /\ S = {}) \/ (FirstWhere(S) \in S /\ FirstWhere(S) # 0)
    <2> HIDE DEF S
    <2> QED
        BY <1>1, FirstIsPlace
<1> QED
    BY <1>2, <1>3

\* find_thread_from_ID.
LEMMA FromID ==
    ASSUME NEW ts \in Seq(Machthread), NEW ID
    PROVE  find_thread_from_ID(ts, ID) = IF ID \in DOMAIN ts THEN ID ELSE 0
<1> DEFINE S == {i \in DOMAIN ts : i = ID}
<1>1. S \subseteq Nat \ {0}
    BY Places
<1>2. find_thread_from_ID(ts, ID) = FirstWhere(S)
    BY DEF find_thread_from_ID
<1>3. (FirstWhere(S) = 0 /\ S = {}) \/ (FirstWhere(S) \in S /\ FirstWhere(S) # 0)
    <2> HIDE DEF S
    <2> QED
        BY <1>1, FirstIsPlace
<1> QED
    BY <1>2, <1>3

\* A function with the places of a list is a list.
LEMMA SameShape ==
    ASSUME NEW ts \in Seq(Machthread), NEW us, DOMAIN us = DOMAIN ts, us = [i \in DOMAIN us |-> us[i]],
           \A i \in DOMAIN ts : us[i] \in Machthread
    PROVE  us \in Seq(Machthread) /\ Len(us) = Len(ts)
<1>1. Len(ts) \in Nat /\ DOMAIN ts = 1 .. Len(ts)
    BY Places
<1>2. us \in [1 .. Len(ts) -> Machthread]
    BY <1>1
<1>3. us \in Seq(Machthread)
    BY <1>1, <1>2, SeqDef
<1>4. Len(us) \in Nat /\ DOMAIN us = 1 .. Len(us) /\ DOMAIN us = 1 .. Len(ts)
    BY <1>1, <1>3, LenProperties
<1> QED
    BY <1>1, <1>3, <1>4, SameInterval

\* Two lists of the same threads.
SameThreads(ts, us) ==
    /\ us \in Seq(Machthread) /\ Len(us) = Len(ts) /\ DOMAIN us = DOMAIN ts
    /\ \A i \in DOMAIN ts : us[i].port = ts[i].port /\ us[i].tid = ts[i].tid

\* A write through a pointer hits one struct, or none of the list.
LEMMA WriteFocusEffect ==
    ASSUME NEW x \in {Dangling, 0} \cup DOMAIN threads, NEW i \in Hit(x), NEW f \in {0, 1},
           threads \in Seq(Machthread)
    PROVE  /\ i \in {0} \cup DOMAIN threads
           /\ x \in DOMAIN threads => i = x
           /\ SameThreads(threads, WriteFocus(i, f))
           /\ \A j \in DOMAIN threads :
                /\ WriteFocus(i, f)[j].focused = IF j = i THEN f ELSE threads[j].focused
                /\ WriteFocus(i, f)[j].excinfo = threads[j].excinfo
<1>1. /\ Len(threads) \in Nat /\ DOMAIN threads = 1 .. Len(threads)
      /\ \A j \in DOMAIN threads : threads[j] \in Machthread
    BY Places
<1>2. i \in {0} \cup DOMAIN threads /\ (x \in DOMAIN threads => i = x)
    BY <1>1 DEF Hit, Dangling
<1>3. CASE i = 0
    BY <1>1, <1>2, <1>3 DEF WriteFocus, SameThreads
<1>4. CASE i # 0
    <2> DEFINE w == [threads EXCEPT ![i].focused = f]
    <2>1. WriteFocus(i, f) = w /\ i \in DOMAIN threads
        BY <1>2, <1>4 DEF WriteFocus
    <2>2. ASSUME NEW j \in DOMAIN threads
          PROVE  /\ w[j] \in Machthread
                 /\ w[j].port = threads[j].port /\ w[j].tid = threads[j].tid
                 /\ w[j].focused = IF j = i THEN f ELSE threads[j].focused
                 /\ w[j].excinfo = threads[j].excinfo
        BY <1>1, <2>1 DEF Machthread
    <2>3. w \in Seq(Machthread) /\ Len(w) = Len(threads) /\ DOMAIN w = DOMAIN threads
        BY <1>1, <2>2, SameShape
    <2> HIDE DEF w
    <2> QED
        BY <1>2, <2>1, <2>2, <2>3 DEF SameThreads
<1> QED
    BY <1>3, <1>4

----------------------------------------------------------------------------
(* Births and deaths.                                                      *)

\* The places of a list of ports.
LEMMA PortPlaces ==
    ASSUME NEW s \in Seq(Ports)
    PROVE  /\ Len(s) \in Nat /\ DOMAIN s = 1 .. Len(s)
           /\ \A i \in DOMAIN s : s[i] \in Ports
<1>1. /\ Len(s) \in Nat /\ DOMAIN s = 1 .. Len(s)
      /\ s \in [1 .. Len(s) -> Ports]
    BY LenProperties
<1> QED
    BY <1>1

\* Ports are natural numbers.
LEMMA PortsAreNumbers == MaxThreads \in Nat /\ Ports \subseteq Nat \ {0}
BY ThreadsAssumption DEF Ports

\* A thread that is born has a port that was never used.
LEMMA BirthEffect ==
    ASSUME AliveInv, Birth
    PROVE  /\ AliveInv'
           /\ born' = born + 1 /\ Alive' = Alive \cup {born + 1}
           /\ Len(alive') = Len(alive) + 1
<1> USE DEF AliveInv
<1>1. /\ Len(alive) \in Nat /\ DOMAIN alive = 1 .. Len(alive)
      /\ \A i \in DOMAIN alive : alive[i] \in Ports
    BY PortPlaces
<1>2. born \in Nat /\ born + 1 \in Ports /\ born' = born + 1
    BY PortsAreNumbers DEF Birth
<1>3. alive' = Append(alive, born + 1)
    BY DEF Birth
<1>4. /\ alive' \in Seq(Ports)
      /\ Len(alive') = Len(alive) + 1
      /\ \A i \in 1 .. Len(alive) : alive'[i] = alive[i]
      /\ alive'[Len(alive) + 1] = born + 1
    BY <1>2, <1>3, AppendProperties
<1>5. Len(alive') \in Nat /\ DOMAIN alive' = 1 .. Len(alive')
    BY <1>4, PortPlaces
<1>6. DOMAIN alive' = DOMAIN alive \cup {Len(alive) + 1}
    BY <1>1, <1>4, <1>5
<1>7. \A i \in DOMAIN alive' : \/ i \in DOMAIN alive /\ alive'[i] = alive[i] /\ alive[i] <= born
                               \/ i = Len(alive) + 1 /\ alive'[i] = born + 1
    BY <1>1, <1>4, <1>6
<1>8. \A i \in DOMAIN alive : alive[i] \in Nat
    BY <1>1, PortsAreNumbers
<1>9. \A i, j \in DOMAIN alive' : alive'[i] = alive'[j] => i = j
    BY <1>2, <1>7, <1>8
<1>10. \A i \in DOMAIN alive' : alive'[i] <= born'
    BY <1>2, <1>7, <1>8
<1>11. Len(alive') <= born' /\ Len(alive') > 0 /\ (Len(alive') = born' => Len(alive) = born)
    <2>1. /\ Len(alive) \in Nat /\ born \in Nat /\ Len(alive) <= born
          /\ Len(alive') = Len(alive) + 1 /\ born' = born + 1
        BY <1>1, <1>2, <1>4
    <2>2. \A x, y \in Nat : x <= y => /\ x + 1 <= y + 1 /\ x + 1 > 0
                                      /\ x + 1 = y + 1 => x = y
        OBVIOUS
    <2> QED
        BY ONLY <2>1, <2>2
<1>12. Len(alive') = born' => \A i \in DOMAIN alive' : alive'[i] = i
    BY <1>2, <1>7, <1>11
<1>13. Alive' = Alive \cup {born + 1}
    <2>1. Alive = {alive[i] : i \in DOMAIN alive} /\ Alive' = {alive'[i] : i \in DOMAIN alive'}
        BY DEF Alive, ToSet
    <2> QED
        BY <1>1, <1>4, <1>6, <1>7, <2>1
<1> QED
    BY <1>2, <1>4, <1>9, <1>10, <1>11, <1>12, <1>13

\* A thread that dies leaves the others in their order.
LEMMA DeathEffect ==
    ASSUME AliveInv, NEW n \in DOMAIN alive, Death(n)
    PROVE  /\ AliveInv'
           /\ born' = born /\ Alive' = Alive \ {alive[n]} /\ alive[n] \in Alive
           /\ Len(alive') # born'
<1> USE DEF AliveInv
<1>1. /\ Len(alive) \in Nat /\ DOMAIN alive = 1 .. Len(alive)
      /\ \A i \in DOMAIN alive : alive[i] \in Ports
    BY PortPlaces
<1>2. n \in Int /\ n - 1 \in Int /\ n + 1 \in Int /\ 1 \in Int /\ Len(alive) \in Int
    BY <1>1
<1> DEFINE a == SubSeq(alive, 1, n - 1)
           b == SubSeq(alive, n + 1, Len(alive))
<1>3. alive' = a \o b
    BY DEF Death, RemoveAt
<1>4. /\ a \in Seq(Ports) /\ Len(a) = n - 1
      /\ \A i \in 1 .. n - 1 : a[i] = alive[i]
    <2>1. \A i \in 1 .. n - 1 : alive[i] \in Ports
        BY <1>1
    <2>2. /\ a \in Seq(Ports)
          /\ Len(a) = IF 1 <= n - 1 THEN n - 1 - 1 + 1 ELSE 0
          /\ \A i \in 1 .. n - 1 - 1 + 1 : a[i] = alive[1 + i - 1]
        BY <1>2, <2>1, SubSeqProperties
    <2> HIDE DEF a
    <2> QED
        BY <1>1, <2>2
<1>5. /\ b \in Seq(Ports) /\ Len(b) = Len(alive) - n
      /\ \A i \in 1 .. Len(alive) - n : b[i] = alive[n + i]
    <2>1. \A i \in n + 1 .. Len(alive) : alive[i] \in Ports
        BY <1>1
    <2>2. /\ b \in Seq(Ports)
          /\ Len(b) = IF n + 1 <= Len(alive) THEN Len(alive) - (n + 1) + 1 ELSE 0
          /\ \A i \in 1 .. Len(alive) - (n + 1) + 1 : b[i] = alive[n + 1 + i - 1]
        BY <1>2, <2>1, SubSeqProperties
    <2> HIDE DEF b
    <2>3. n \in 1 .. Len(alive) /\ Len(alive) \in Nat
        BY <1>1
    <2>4. \A x \in Nat : n \in 1 .. x =>
            /\ x - (n + 1) + 1 = x - n
            /\ (IF n + 1 <= x THEN x - (n + 1) + 1 ELSE 0) = x - n
            /\ \A i \in 1 .. x - n : n + 1 + i - 1 = n + i
        <3> SUFFICES ASSUME NEW x \in Nat, n \in 1 .. x
                     PROVE  /\ x - (n + 1) + 1 = x - n
                            /\ (IF n + 1 <= x THEN x - (n + 1) + 1 ELSE 0) = x - n
                            /\ \A i \in 1 .. x - n : n + 1 + i - 1 = n + i
            OBVIOUS
        <3>1. n \in Int /\ 1 <= n /\ n <= x
            BY <1>2
        <3>2. x - (n + 1) + 1 = x - n /\ (~(n + 1 <= x) => x - n = 0)
            BY ONLY <3>1, x \in Nat
        <3>3. \A i \in Int : n + 1 + i - 1 = n + i
            BY ONLY <3>1
        <3>4. (IF n + 1 <= x THEN x - (n + 1) + 1 ELSE 0) = x - n
            BY ONLY <3>1, <3>2
        <3> QED
            BY <3>2, <3>3, <3>4
    <2> QED
        BY ONLY <2>2, <2>3, <2>4
<1> HIDE DEF a, b
<1>6. /\ alive' \in Seq(Ports)
      /\ Len(alive') = Len(alive) - 1
      /\ \A i \in 1 .. Len(alive) - 1 : alive'[i] = IF i < n THEN alive[i] ELSE alive[i + 1]
    <2>1. /\ a \o b \in Seq(Ports)
          /\ Len(a \o b) = Len(a) + Len(b)
          /\ \A i \in 1 .. Len(a) + Len(b) :
                (a \o b)[i] = IF i <= Len(a) THEN a[i] ELSE b[i - Len(a)]
        <3>1. a \in Seq(Ports) /\ b \in Seq(Ports)
            BY <1>4, <1>5
        <3> QED
            BY ONLY <3>1, ConcatProperties
    <2>2. n \in 1 .. Len(alive) /\ Len(alive) \in Nat
        BY <1>1
    <2>3. Len(a) + Len(b) = Len(alive) - 1
        BY <1>4, <1>5, <2>2
    <2>4. ASSUME NEW i \in 1 .. Len(alive) - 1
          PROVE  alive'[i] = IF i < n THEN alive[i] ELSE alive[i + 1]
        <3>1. i \in Int /\ i >= 1 /\ i <= Len(alive) - 1 /\ (i <= n - 1 <=> i < n)
            BY <2>2
        <3>2. alive'[i] = IF i <= n - 1 THEN a[i] ELSE b[i - (n - 1)]
            BY <1>3, <1>4, <2>1, <2>3
        <3>3. CASE i < n
            <4>1. i \in 1 .. n - 1
                BY <3>1, <3>3
            <4> QED
                BY <1>4, <3>1, <3>2, <3>3, <4>1
        <3>4. CASE ~(i < n)
            <4>1. i - (n - 1) \in 1 .. Len(alive) - n /\ n + (i - (n - 1)) = i + 1
                BY <2>2, <3>1, <3>4
            <4> QED
                BY <1>5, <3>1, <3>2, <3>4, <4>1
        <3> QED
            BY <3>3, <3>4
    <2> QED
        BY <1>3, <2>1, <2>3, <2>4
<1>7. DOMAIN alive' = 1 .. Len(alive) - 1
    BY <1>6, PortPlaces
<1>8. \A i \in DOMAIN alive' : \/ i < n /\ i \in DOMAIN alive /\ alive'[i] = alive[i]
                               \/ i >= n /\ i + 1 \in DOMAIN alive /\ alive'[i] = alive[i + 1]
    BY <1>1, <1>6, <1>7
<1>9. \A i, j \in DOMAIN alive' : alive'[i] = alive'[j] => i = j
    BY <1>1, <1>7, <1>8
<1>10. born' = born /\ born \in Nat
    BY PortsAreNumbers DEF Death
<1>11. \A i \in DOMAIN alive' : alive'[i] <= born'
    BY <1>8, <1>10
<1>12. Len(alive') > 0 /\ Len(alive') <= born' /\ Len(alive') # born'
    <2>1. /\ Len(alive) \in Nat /\ born \in Nat /\ Len(alive) <= born /\ Len(alive) > 1
          /\ Len(alive') = Len(alive) - 1 /\ born' = born
        BY <1>1, <1>6, <1>10 DEF Death
    <2>2. \A x, y \in Nat : x <= y /\ x > 1 => x - 1 > 0 /\ x - 1 <= y /\ x - 1 # y
        OBVIOUS
    <2> QED
        BY ONLY <2>1, <2>2
<1>13. Alive' = Alive \ {alive[n]} /\ alive[n] \in Alive
    <2>1. Alive = {alive[i] : i \in DOMAIN alive} /\ Alive' = {alive'[i] : i \in DOMAIN alive'}
        BY DEF Alive, ToSet
    <2>2. \A i \in DOMAIN alive : i < n => i \in DOMAIN alive' /\ alive'[i] = alive[i]
        BY <1>1, <1>6, <1>7
    <2>3. \A i \in DOMAIN alive : i > n => i - 1 \in DOMAIN alive' /\ alive'[i - 1] = alive[i]
        BY <1>1, <1>6, <1>7
    <2>4. \A i \in DOMAIN alive : i < n \/ i > n \/ i = n
        BY <1>1
    <2>5. \A i \in DOMAIN alive' : alive'[i] # alive[n]
        BY <1>1, <1>7, <1>8
    <2>6. \A i \in DOMAIN alive : i # n => alive[i] \in Alive'
        BY <2>1, <2>2, <2>3, <2>4
    <2>7. \A i \in DOMAIN alive' : alive'[i] \in Alive
        BY <1>8, <2>1
    <2> QED
        BY <2>1, <2>5, <2>6, <2>7
<1> QED
    BY <1>6, <1>9, <1>10, <1>11, <1>12, <1>13

----------------------------------------------------------------------------
(* The kinds of steps.                                                     *)

\* The steps that only have to do with the focus and with what is recorded.
FocusSteps ==
    \/ \E ID \in DOMAIN threads : thread_select(ID)
    \/ \E c \in Callers : set_focused_thread(c)
    \/ thread_selected \/ prepared
    \/ \E t \in Alive : handle_exception(t)
    \/ refetch_focused \/ check_focus \/ refocused

\* The steps that also disable or enable the breakpoints.
StateSteps == prepare \/ \E v \in {0, 1}, ss \in BOOLEAN : handled(v, ss)

\* The steps that set and delete points.
PointSteps ==
    \/ \E k \in Kinds, ID \in 0 .. Len(threads) : point_new(k, ID)
    \/ point_link
    \/ \E p \in points : point_delete(p)

AdjustStep == adjust_breakpoints \/ adjust_watchpoints

\* Every step is one of these.
LEMMA StepKinds ==
    ASSUME [Next]_vars
    PROVE  /\ \/ Birth \/ (\E n \in DOMAIN alive : Death(n))
              \/ PointSteps \/ FocusSteps \/ StateSteps
              \/ get_threads \/ update_thread_list \/ AdjustStep
              \/ UNCHANGED vars
           /\ size' = size
<1>1. CASE UNCHANGED vars
    BY <1>1 DEF vars
<1>2. CASE Next
    <2>1. size' = size /\ (Debuggee \/ Main \/ Monitor \/ Server)
        BY <1>2 DEF Next
    <2>2. Debuggee => Birth \/ \E n \in DOMAIN alive : Death(n)
        BY DEF Debuggee
    <2>3. Main => PointSteps \/ FocusSteps \/ StateSteps
        BY DEF Main, PointSteps, FocusSteps, StateSteps, Callers
    <2>4. Monitor => FocusSteps \/ get_threads \/ update_thread_list \/ AdjustStep
        BY DEF Monitor, FocusSteps, AdjustStep, Callers
    <2>5. Server => FocusSteps \/ StateSteps
        BY DEF Server, FocusSteps, StateSteps, Callers
    <2> QED
        BY <2>1, <2>2, <2>3, <2>4, <2>5
<1> QED
    BY <1>1, <1>2

\* What each kind leaves alone.
LEMMA PointFrame ==
    ASSUME PointSteps
    PROVE  /\ alive' = alive /\ born' = born /\ threads' = threads /\ monitor' = monitor
           /\ snapshot' = snapshot /\ UNCHANGED focusVars /\ up' = up
           /\ rearmed' = rearmed /\ (raced' = raced \/ raced' = (raced \/ Updating))
BY DEF PointSteps, point_new, point_link, point_delete, listVars, Raced

LEMMA FocusFrame ==
    ASSUME FocusSteps
    PROVE  /\ alive' = alive /\ born' = born /\ snapshot' = snapshot
           /\ regs' = regs /\ points' = points /\ next_id' = next_id /\ linking' = linking
           /\ rearmed' = rearmed /\ raced' = raced
           /\ selected' = selected
           /\ \/ monitor' = monitor
              \/ monitor \in {"rebuilt", "unfocused"} /\ monitor' \in {"unfocused", "focused"}
<1>1. CASE \/ \E ID \in DOMAIN threads : thread_select(ID)
           \/ thread_selected \/ (\E t \in Alive : handle_exception(t)) \/ refetch_focused
    BY <1>1 DEF thread_select, thread_selected, handle_exception, refetch_focused, listVars, pointVars
<1>2. CASE (\E c \in Callers : set_focused_thread(c)) \/ prepared
    BY <1>2 DEF set_focused_thread, prepared, pointVars
<1>3. CASE check_focus
    BY <1>3 DEF check_focus, pointVars
<1>4. CASE refocused
    BY <1>4 DEF refocused, pointVars
<1> QED
    BY <1>1, <1>2, <1>3, <1>4 DEF FocusSteps

LEMMA StateFrame ==
    ASSUME StateSteps
    PROVE  /\ alive' = alive /\ born' = born /\ snapshot' = snapshot /\ monitor' = monitor
           /\ next_id' = next_id /\ linking' = linking /\ rearmed' = rearmed
           /\ selected' = selected /\ clash' = clash
           /\ \/ \E b \in BOOLEAN : set_state_all(b)
              \/ regs' = regs /\ points' = points /\ raced' = raced
<1>1. CASE prepare
    BY <1>1 DEF prepare, listVars
<1>2. ASSUME NEW v \in {0, 1}, NEW ss \in BOOLEAN, handled(v, ss)
      PROVE  /\ alive' = alive /\ born' = born /\ snapshot' = snapshot /\ monitor' = monitor
             /\ next_id' = next_id /\ linking' = linking /\ rearmed' = rearmed
             /\ selected' = selected /\ clash' = clash
             /\ \/ \E b \in BOOLEAN : set_state_all(b)
                \/ regs' = regs /\ points' = points /\ raced' = raced
    BY <1>2 DEF handled
<1> QED
    BY <1>1, <1>2 DEF StateSteps

LEMMA UpdateFrame ==
    ASSUME get_threads \/ update_thread_list \/ AdjustStep
    PROVE  /\ alive' = alive /\ born' = born /\ next_id' = next_id /\ linking' = linking
           /\ up' = up /\ calls' = calls
           /\ ~update_thread_list =>
                threads' = threads /\ call' = call /\ recorded' = recorded /\ clash' = clash
                /\ raced' = raced
           /\ get_threads => UNCHANGED pointVars /\ selected' = selected
BY DEF get_threads, update_thread_list, AdjustStep, adjust_breakpoints, adjust_watchpoints,
       focusVars, pointVars

LEMMA StutterFrame ==
    ASSUME UNCHANGED vars
    PROVE  /\ alive' = alive /\ born' = born /\ threads' = threads /\ monitor' = monitor
           /\ snapshot' = snapshot /\ UNCHANGED focusVars /\ UNCHANGED pointVars /\ up' = up
BY DEF vars, listVars

LEMMA DebuggeeFrame ==
    ASSUME Birth \/ \E n \in DOMAIN alive : Death(n)
    PROVE  /\ threads' = threads /\ monitor' = monitor /\ snapshot' = snapshot
           /\ UNCHANGED focusVars /\ up' = up
           /\ points' = points /\ next_id' = next_id /\ linking' = linking
           /\ rearmed' = rearmed /\ raced' = raced
BY DEF Birth, Death, listVars, pointVars

\* What a step does to the threads of the debuggee.
LEMMA AliveEffect ==
    ASSUME AliveInv, [Next]_vars
    PROVE  /\ AliveInv'
           /\ \/ alive' = alive /\ born' = born /\ Alive' = Alive
              \/ Birth
              \/ \E n \in DOMAIN alive : Death(n)
<1>1. CASE alive' = alive /\ born' = born
    BY <1>1 DEF AliveInv, Alive
<1>2. CASE Birth \/ \E n \in DOMAIN alive : Death(n)
    BY <1>2, BirthEffect, DeathEffect
<1>3. CASE PointSteps \/ FocusSteps \/ StateSteps
    BY <1>1, <1>3, PointFrame, FocusFrame, StateFrame
<1>4. CASE get_threads \/ update_thread_list \/ AdjustStep \/ UNCHANGED vars
    BY <1>1, <1>4, UpdateFrame, StutterFrame
<1> QED
    BY <1>2, <1>3, <1>4, StepKinds

\* What follows for the ports of a list: they stay bounded by born, a dead
\* thread does not come back, and "none has died" holds only if it held.
LEMMA AliveFacts ==
    ASSUME AliveInv, [Next]_vars
    PROVE  /\ born \in Nat /\ born' \in Nat /\ born <= born'
           /\ \A x \in Ports : x <= born /\ x \in Alive' => x \in Alive
           /\ Len(alive') = born' => Len(alive) = born
<1>0. born \in Nat /\ born' \in Nat /\ Len(alive) \in Nat
    <2>1. AliveInv'
        BY AliveEffect
    <2> QED
        BY <2>1, PortsAreNumbers, PortPlaces DEF AliveInv
<1>1. CASE alive' = alive /\ born' = born /\ Alive' = Alive
    BY <1>0, <1>1
<1>2. CASE Birth
    <2>1. born' = born + 1 /\ Alive' = Alive \cup {born + 1} /\ Len(alive') = Len(alive) + 1
        BY <1>2, BirthEffect
    <2> QED
        BY <1>0, <2>1, PortsAreNumbers
<1>3. CASE \E n \in DOMAIN alive : Death(n)
    BY <1>0, <1>3, DeathEffect
<1> QED
    BY <1>1, <1>2, <1>3, AliveEffect

----------------------------------------------------------------------------
(* The list of threads.                                                    *)

\* What is recorded goes to one struct of the list, or to none.
LEMMA RecordEffect ==
    ASSUME ListInv, CallInv, NEW c \in Callers, NEW v \in {0, 1}, Record(c, v)
    PROVE  /\ SameThreads(threads, threads')
           /\ \A j \in DOMAIN threads : threads'[j].focused = threads[j].focused
           /\ call' = [call EXCEPT ![c] = Idle]
           /\ \/ threads' = threads /\ recorded' = recorded
              \/ \E i \in DOMAIN threads, x \in {v, Unknown} :
                    /\ \A j \in DOMAIN threads :
                        threads'[j].excinfo = IF j = i THEN v ELSE threads[j].excinfo
                    /\ recorded' = [recorded EXCEPT ![threads[i].port] = x]
<1> DEFINE r == call[c].new
<1>1. /\ r \in {Dangling, 0} \cup DOMAIN threads /\ threads \in Seq(Machthread)
    BY DEF CallInv, HeldInv, CallRec, ListInv
<1>2. /\ Len(threads) \in Nat /\ DOMAIN threads = 1 .. Len(threads)
      /\ \A j \in DOMAIN threads : threads[j] \in Machthread
    BY <1>1, Places
<1>3. PICK i \in Hit(r) :
           IF i = 0 THEN UNCHANGED <<threads, recorded>>
           ELSE /\ threads' = [threads EXCEPT ![i].excinfo = v]
                /\ recorded' = [recorded EXCEPT ![threads[i].port] =
                                    IF r = Dangling THEN Unknown ELSE v]
    BY DEF Record
<1>4. call' = [call EXCEPT ![c] = Idle]
    BY DEF Record
<1>5. i \in {0} \cup DOMAIN threads
    BY <1>1 DEF Hit
<1>6. CASE i = 0
    BY <1>1, <1>3, <1>4, <1>6 DEF SameThreads
<1>7. CASE i # 0
    <2> DEFINE w == [threads EXCEPT ![i].excinfo = v]
               x == IF r = Dangling THEN Unknown ELSE v
    <2>1. i \in DOMAIN threads /\ threads' = w /\ recorded' = [recorded EXCEPT ![threads[i].port] = x]
        BY <1>3, <1>5, <1>7
    <2>2. ASSUME NEW j \in DOMAIN threads
          PROVE  /\ w[j] \in Machthread
                 /\ w[j].port = threads[j].port /\ w[j].tid = threads[j].tid
                 /\ w[j].focused = threads[j].focused
                 /\ w[j].excinfo = IF j = i THEN v ELSE threads[j].excinfo
        BY <1>2, <2>1 DEF Machthread
    <2>3. w \in Seq(Machthread) /\ Len(w) = Len(threads) /\ DOMAIN w = DOMAIN threads
        BY <1>1, <2>2, SameShape
    <2>4. x \in {v, Unknown}
        OBVIOUS
    <2> HIDE DEF w, x
    <2> QED
        BY <1>4, <2>1, <2>2, <2>3, <2>4 DEF SameThreads
<1> QED
    BY <1>5, <1>6, <1>7

\* What set_focused_thread and the recording write are flags of the structs.
LEMMA FocusOnly ==
    ASSUME ListInv, CallInv, FocusSteps \/ StateSteps
    PROVE  SameThreads(threads, threads')
<1>1. SameThreads(threads, threads)
    BY DEF SameThreads, ListInv
<1>2. ASSUME NEW c \in Callers, set_focused_thread(c)
      PROVE  SameThreads(threads, threads')
    <2>1. /\ call[c].prev \in {Dangling, 0} \cup DOMAIN threads
          /\ call[c].new \in {Dangling, 0} \cup DOMAIN threads
          /\ threads \in Seq(Machthread)
        BY DEF CallInv, HeldInv, CallRec, ListInv
    <2>2. \/ threads' = threads
          \/ \E i \in Hit(call[c].new) : threads' = WriteFocus(i, 1)
          \/ \E i \in Hit(call[c].prev) : threads' = WriteFocus(i, 0)
        BY <1>2 DEF set_focused_thread, find_prevfocus, find_newfocus, give_focus, take_focus
    <2> QED
        BY <1>1, <2>1, <2>2, WriteFocusEffect
<1>3. CASE prepared
    BY <1>3, RecordEffect DEF prepared, Callers
<1>4. ASSUME NEW v \in {0, 1}, NEW ss \in BOOLEAN, handled(v, ss)
      PROVE  SameThreads(threads, threads')
    BY <1>4, RecordEffect DEF handled, Callers
<1>5. CASE threads' = threads
    BY <1>1, <1>5
<1>6. CASE \/ \E ID \in DOMAIN threads : thread_select(ID)
           \/ thread_selected \/ (\E t \in Alive : handle_exception(t)) \/ refetch_focused
           \/ check_focus \/ refocused \/ prepare
    BY <1>5, <1>6 DEF thread_select, thread_selected, handle_exception, refetch_focused,
        check_focus, refocused, prepare, listVars
<1> QED
    BY <1>2, <1>3, <1>4, <1>6 DEF FocusSteps, StateSteps

\* The list update_thread_list builds.
LEMMA Rebuild ==
    ASSUME AliveInv, SnapshotInv, ListInv, update_thread_list
    PROVE  /\ threads' \in Seq(Machthread)
           /\ Len(threads') = Len(snapshot) /\ Len(snapshot) > 0
           /\ DOMAIN threads' = DOMAIN snapshot
           /\ \A i \in DOMAIN threads' :
                /\ threads'[i].port = snapshot[i]
                /\ threads'[i].tid = IF snapshot[i] \in Alive THEN snapshot[i] ELSE Gone
                /\ threads'[i].focused = IF snapshot[i] = focused_th_port THEN 1 ELSE 0
                /\ \/ /\ \A j \in DOMAIN threads : threads[j].port # snapshot[i]
                      /\ threads'[i].excinfo = 0
                   \/ \E j \in DOMAIN threads : /\ threads[j].port = snapshot[i]
                                                /\ threads'[i].excinfo = threads[j].excinfo
<1>1. /\ Len(snapshot) \in Nat /\ DOMAIN snapshot = 1 .. Len(snapshot) /\ Len(snapshot) > 0
      /\ \A i \in DOMAIN snapshot : snapshot[i] \in Ports
    BY PortPlaces DEF SnapshotInv, update_thread_list
<1>2. threads' = [i \in DOMAIN snapshot |-> machthread_new(snapshot[i])]
    BY DEF update_thread_list
<1>3. ASSUME NEW p \in Ports
      PROVE  /\ machthread_new(p) \in Machthread
             /\ machthread_new(p).port = p
             /\ machthread_new(p).tid = IF p \in Alive THEN p ELSE Gone
             /\ machthread_new(p).focused = IF p = focused_th_port THEN 1 ELSE 0
             /\ \/ /\ \A j \in DOMAIN threads : threads[j].port # p
                   /\ machthread_new(p).excinfo = 0
                \/ \E j \in DOMAIN threads :
                        /\ threads[j].port = p
                        /\ machthread_new(p).excinfo = threads[j].excinfo
    <2> DEFINE i == thread_from_port(threads, p)
               f == IF p = focused_th_port THEN 1 ELSE 0
               e == IF i # 0 THEN threads[i].excinfo ELSE 0
               d == IF p \in Alive THEN p ELSE Gone
    <2>1. machthread_new(p) = [port |-> p, tid |-> d, focused |-> f, excinfo |-> e]
        BY DEF machthread_new
    <2>2. \/ i = 0 /\ \A j \in DOMAIN threads : threads[j].port # p
          \/ i \in DOMAIN threads /\ i # 0 /\ threads[i].port = p
        BY FromPort DEF ListInv
    <2>3. f \in {0, 1} /\ e \in {0, 1} /\ d \in Ports \cup {Gone}
        BY <2>2, Places DEF ListInv
    <2>4. \/ (\A j \in DOMAIN threads : threads[j].port # p) /\ e = 0
          \/ \E j \in DOMAIN threads : threads[j].port = p /\ e = threads[j].excinfo
        BY <2>2
    <2> HIDE DEF i, e
    <2> QED
        BY <2>1, <2>3, <2>4 DEF Machthread
<1>4. threads' \in [1 .. Len(snapshot) -> Machthread]
    BY <1>1, <1>2, <1>3
<1>5. threads' \in Seq(Machthread)
    BY <1>1, <1>4, SeqDef
<1>6. Len(threads') = Len(snapshot)
    <2>1. Len(threads') \in Nat /\ DOMAIN threads' = 1 .. Len(threads')
        BY <1>5, LenProperties
    <2>2. DOMAIN threads' = 1 .. Len(snapshot)
        BY <1>4
    <2> QED
        BY <1>1, <2>1, <2>2, SameInterval
<1> QED
    BY <1>1, <1>2, <1>3, <1>5, <1>6

\* What a step does to the list: it keeps its threads or rebuilds it.
LEMMA ListEffect ==
    ASSUME ListInv, CallInv, [Next]_vars
    PROVE  \/ update_thread_list
           \/ SameThreads(threads, threads') /\ ~update_thread_list
<1>1. SameThreads(threads, threads)
    BY DEF SameThreads, ListInv
<1>2. CASE threads' = threads
    BY <1>1, <1>2
<1>3. CASE FocusSteps \/ StateSteps
    BY <1>3, FocusOnly
<1>4. CASE PointSteps \/ Birth \/ (\E n \in DOMAIN alive : Death(n)) \/ UNCHANGED vars
    BY <1>2, <1>4, PointFrame, DebuggeeFrame, StutterFrame
<1>5. CASE get_threads \/ AdjustStep
    BY <1>2, <1>5, UpdateFrame
<1> QED
    BY <1>3, <1>4, <1>5, StepKinds

\* What a step does to the snapshot and to where the monitor is.
LEMMA MonitorEffect ==
    ASSUME [Next]_vars
    PROVE  \/ monitor' = monitor /\ snapshot' = snapshot
           \/ /\ FocusSteps /\ snapshot' = snapshot
              /\ monitor \in {"rebuilt", "unfocused"} /\ monitor' \in {"unfocused", "focused"}
           \/ get_threads \/ update_thread_list \/ AdjustStep
BY StepKinds, PointFrame, DebuggeeFrame, StutterFrame, FocusFrame, StateFrame

\* The snapshot stays a list of distinct threads that were there.
LEMMA SnapshotStep ==
    ASSUME AliveInv, SnapshotInv, [Next]_vars
    PROVE  SnapshotInv'
<1>1. /\ born \in Nat /\ born' \in Nat /\ born <= born'
      /\ Len(alive') = born' => Len(alive) = born
    BY AliveFacts
<1>2. \A i \in DOMAIN snapshot : snapshot[i] \in Nat
    BY PortPlaces, PortsAreNumbers DEF SnapshotInv
<1>3. CASE /\ snapshot' = snapshot
           /\ \/ monitor' = monitor
              \/ monitor # "waiting" /\ monitor' \in {"rebuilt", "unfocused", "focused", "bps_adjusted"}
    BY <1>1, <1>2, <1>3 DEF SnapshotInv
<1>4. CASE get_threads
    BY <1>4 DEF get_threads, SnapshotInv, AliveInv
<1>5. CASE update_thread_list \/ adjust_breakpoints
    BY <1>3, <1>5 DEF update_thread_list, adjust_breakpoints
<1>6. CASE adjust_watchpoints
    <2>1. snapshot' = <<>> /\ monitor' = "waiting"
        BY <1>6 DEF adjust_watchpoints
    <2>2. snapshot' \in Seq(Ports) /\ DOMAIN snapshot' = {}
        BY <2>1, EmptySeq
    <2> QED
        BY <2>1, <2>2 DEF SnapshotInv
<1> QED
    BY <1>3, <1>4, <1>5, <1>6, MonitorEffect DEF AdjustStep

\* The list stays a list of distinct threads with their tids.
LEMMA ListStep ==
    ASSUME AliveInv, SnapshotInv, ListInv, CallInv, [Next]_vars
    PROVE  ListInv'
<1>1. /\ born \in Nat /\ born' \in Nat /\ born <= born'
      /\ \A x \in Ports : x <= born /\ x \in Alive' => x \in Alive
      /\ Len(alive') = born' => Len(alive) = born
    BY AliveFacts
<1>2. CASE SameThreads(threads, threads')
    <2>1. \A i \in DOMAIN threads : threads[i].port \in Ports /\ threads[i].port \in Nat
        BY Places, PortsAreNumbers DEF ListInv
    <2>2. /\ threads' \in Seq(Machthread) /\ Len(threads') = Len(threads) /\ Len(threads') > 0
          /\ DOMAIN threads' = DOMAIN threads
          /\ \A i \in DOMAIN threads : /\ threads'[i].port = threads[i].port
                                       /\ threads'[i].tid = threads[i].tid
        BY <1>2 DEF ListInv, SameThreads
    <2>3. /\ \A i, j \in DOMAIN threads : threads[i].port = threads[j].port => i = j
          /\ \A i \in DOMAIN threads : threads[i].port <= born
          /\ \A i \in DOMAIN threads : threads[i].tid \in {threads[i].port, Gone}
          /\ \A i \in DOMAIN threads : threads[i].port \in Alive => threads[i].tid = threads[i].port
          /\ Len(alive) = born => \A i \in DOMAIN threads : threads[i].port = i
        BY DEF ListInv
    <2>4. \A i \in DOMAIN threads : threads[i].port <= born'
        BY ONLY <1>1, <2>1, <2>3
    <2> QED
        BY ONLY <1>1, <2>1, <2>2, <2>3, <2>4 DEF ListInv
<1>3. CASE update_thread_list
    <2>1. /\ threads' \in Seq(Machthread)
          /\ Len(threads') = Len(snapshot) /\ Len(snapshot) > 0
          /\ DOMAIN threads' = DOMAIN snapshot
          /\ \A i \in DOMAIN threads' :
                /\ threads'[i].port = snapshot[i]
                /\ threads'[i].tid = IF snapshot[i] \in Alive THEN snapshot[i] ELSE Gone
        BY <1>3, Rebuild
    <2>2. alive' = alive /\ born' = born /\ Alive' = Alive
        BY <1>3, UpdateFrame DEF Alive
    <2> QED
        BY <2>1, <2>2 DEF ListInv, SnapshotInv
<1> QED
    BY <1>2, <1>3, ListEffect

\* The snapshot and the list go together.
LEMMA FetchStep ==
    ASSUME AliveInv, SnapshotInv, ListInv, CallInv, FetchInv, [Next]_vars
    PROVE  FetchInv'
<1>1. \A x \in Ports : x <= born /\ x \in Alive' => x \in Alive
    BY AliveFacts
<1>2. Len(alive') = born' => Len(alive) = born
    BY AliveFacts
<1>3. \A i \in DOMAIN threads : threads[i].port \in Ports /\ threads[i].port <= born
    BY Places DEF ListInv
<1>4. CASE /\ snapshot' = snapshot /\ ~update_thread_list
           /\ \/ monitor' = monitor
              \/ Updating /\ monitor' \in {"unfocused", "focused", "bps_adjusted"}
    <2>1. SameThreads(threads, threads')
        BY <1>4, ListEffect
    <2> QED
        BY <1>1, <1>2, <1>3, <1>4, <2>1 DEF FetchInv, Updating, SameThreads
<1>5. CASE get_threads
    <2>1. /\ threads' = threads /\ alive' = alive /\ born' = born /\ Alive' = Alive
          /\ snapshot' = alive /\ monitor' = "fetched"
        BY <1>5 DEF get_threads, Alive
    <2>2. \A x \in Alive : \E j \in DOMAIN alive : alive[j] = x
        BY DEF Alive, ToSet
    <2>3. Len(alive) = born => Len(threads) <= Len(alive)
        <3>1. Len(threads) \in Nat /\ Len(threads) \in DOMAIN threads
            BY Places DEF ListInv
        <3> QED
            BY <1>3, <3>1 DEF ListInv
    <2> QED
        BY <2>1, <2>2, <2>3 DEF FetchInv, Updating
<1>6. CASE update_thread_list
    <2>1. /\ Len(threads') = Len(snapshot) /\ DOMAIN threads' = DOMAIN snapshot
          /\ \A i \in DOMAIN threads' : threads'[i].port = snapshot[i]
        BY <1>6, Rebuild
    <2>2. snapshot' = snapshot /\ monitor' = "rebuilt"
        BY <1>6 DEF update_thread_list
    <2> QED
        BY <2>1, <2>2 DEF FetchInv
<1>7. CASE adjust_breakpoints \/ FocusSteps
    <2>1. ~update_thread_list
        BY <1>7, FocusFrame DEF adjust_breakpoints, update_thread_list
    <2> QED
        BY <1>4, <1>7, <2>1, FocusFrame DEF adjust_breakpoints, Updating
<1>8. CASE adjust_watchpoints
    BY <1>8 DEF adjust_watchpoints, FetchInv, Updating
<1> QED
    BY <1>4, <1>5, <1>6, <1>7, <1>8, MonitorEffect DEF AdjustStep

----------------------------------------------------------------------------
(* What the callers hold.                                                  *)

\* The threads that live have ports.
LEMMA AlivePorts ==
    ASSUME AliveInv
    PROVE  Alive \subseteq Ports /\ None \notin Alive
<1>1. \A i \in DOMAIN alive : alive[i] \in Ports
    BY PortPlaces DEF AliveInv
<1>2. Alive \subseteq Ports
    BY <1>1 DEF Alive, ToSet
<1> QED
    BY <1>2, PortsAreNumbers DEF None

\* A step that is taken is taken while iosdbg is up.
LEMMA StepsWhileUp ==
    ASSUME [Next]_vars, monitor' # monitor
    PROVE  up
BY DEF Next, vars, listVars

\* The port update_thread_list keeps: that of a thread that has the focus.
LEMMA FocusedPort ==
    ASSUME threads \in Seq(Machthread)
    PROVE  \/ focused_th_port = None /\ NoFocus(threads)
           \/ \E i \in DOMAIN threads : /\ threads[i].focused = 1
                                        /\ threads[i].port = focused_th_port
<1> DEFINE F == {i \in DOMAIN threads : threads[i].focused = 1}
<1>1. /\ Len(threads) \in Nat /\ DOMAIN threads = 1 .. Len(threads)
      /\ \A i \in DOMAIN threads : threads[i].focused \in {0, 1}
    BY Places
<1>2. focused_th_port = IF F = {} THEN None ELSE threads[Max(F)].port
    BY DEF focused_th_port
<1>3. ASSUME F # {}
      PROVE  Max(F) \in F
    <2> DEFINE n == Len(threads)
               G == {n - i : i \in F}
    <2>1. G \subseteq Nat /\ G # {}
        BY <1>1, <1>3
    <2>2. PICK g \in G : \A h \in G : g <= h
        <3> HIDE DEF G
        <3> QED
            BY <2>1, LeastNat
    <2>3. PICK i \in F : g = n - i
        BY <2>2
    <2>4. \A j \in F : i >= j
        <3>1. \A j \in F : n - i <= n - j
            BY <2>2, <2>3
        <3> QED
            BY <1>1, <3>1
    <2> HIDE DEF F
    <2> QED
        BY <2>3, <2>4 DEF Max
<1>4. CASE F = {}
    BY <1>1, <1>2, <1>4 DEF NoFocus
<1>5. CASE F # {}
    BY <1>2, <1>3, <1>5
<1> QED
    BY <1>4, <1>5

\* What caller c holds after a step of set_focused_thread, and what the step
\* has done to the list.
LEMMA SetFocusEffect ==
    ASSUME ListInv, CallInv, NEW c \in Callers, set_focused_thread(c)
    PROVE  \E r \in CallRec :
             /\ call' = [call EXCEPT ![c] = r] /\ r.port = call[c].port
             /\ r.pc \in {"new", "set", "clear", "look"} /\ Changing(c)
             /\ \/ /\ At(c, "prev") /\ r.pc = "new" /\ threads' = threads
                   /\ IsFocus(threads, r.prev)
                \/ /\ At(c, "new") /\ r.pc = "look" /\ threads' = threads
                   /\ r.port \notin Listed(threads)
                \/ /\ At(c, "new") /\ r.pc = "set" /\ threads' = threads
                   /\ r.prev = call[c].prev
                   /\ r.new \in DOMAIN threads /\ threads[r.new].port = r.port
                \/ /\ At(c, "set") /\ r.pc = (IF call[c].prev = 0 THEN "look" ELSE "clear")
                   /\ r.prev = call[c].prev
                   /\ \E i \in Hit(call[c].new) : threads' = WriteFocus(i, 1)
                \/ /\ At(c, "clear") /\ r.pc = "look"
                   /\ \E i \in Hit(call[c].prev) : threads' = WriteFocus(i, 0)
<1>1. call \in [Callers -> CallRec] /\ threads \in Seq(Machthread)
    BY DEF CallInv, HeldInv, ListInv
<1>2. call[c] \in CallRec
    BY <1>1
<1>3. CASE find_prevfocus(c)
    <2> DEFINE g == get_focused_thread(threads)
    <2>1. g \in {0} \cup DOMAIN threads /\ IsFocus(threads, g)
        BY <1>1, FocusOf DEF IsFocus, NoFocus
    <2>2. /\ call' = [call EXCEPT ![c].pc = "new", ![c].prev = g]
          /\ At(c, "prev") /\ threads' = threads
        BY <1>3 DEF find_prevfocus
    <2> HIDE DEF g
    <2>3. [call[c] EXCEPT !.pc = "new", !.prev = g] \in CallRec
        BY <1>2, <2>1 DEF CallRec, PCs
    <2>4. call' = [call EXCEPT ![c] = [call[c] EXCEPT !.pc = "new", !.prev = g]]
        BY <1>1, <2>2
    <2> WITNESS [call[c] EXCEPT !.pc = "new", !.prev = g] \in CallRec
    <2> QED
        BY <1>2, <2>1, <2>2, <2>4 DEF CallRec, At, Changing
<1>4. CASE find_newfocus(c)
    <2> DEFINE n == thread_from_port(threads, call[c].port)
    <2>1. \/ n = 0 /\ \A i \in DOMAIN threads : threads[i].port # call[c].port
          \/ n \in DOMAIN threads /\ n # 0 /\ threads[n].port = call[c].port
        BY <1>1, FromPort
    <2>2. /\ call' = IF n = 0 THEN [call EXCEPT ![c].pc = "look", ![c].prev = 0]
                     ELSE [call EXCEPT ![c].pc = "set", ![c].new = n]
          /\ At(c, "new") /\ threads' = threads
        BY <1>4 DEF find_newfocus
    <2> HIDE DEF n
    <2>3. CASE n = 0
        <3>1. [call[c] EXCEPT !.pc = "look", !.prev = 0] \in CallRec
            BY <1>2 DEF CallRec, PCs
        <3>2. call' = [call EXCEPT ![c] = [call[c] EXCEPT !.pc = "look", !.prev = 0]]
            BY <1>1, <2>2, <2>3
        <3> WITNESS [call[c] EXCEPT !.pc = "look", !.prev = 0] \in CallRec
        <3>3. call[c].port \notin Listed(threads)
            BY <2>1, <2>3, Places, <1>1 DEF Listed
        <3> QED
            BY <1>2, <2>2, <3>2, <3>3 DEF CallRec, At, Changing
    <2>4. CASE n # 0
        <3>1. [call[c] EXCEPT !.pc = "set", !.new = n] \in CallRec
            BY <1>2, <2>1, <2>4 DEF CallRec, PCs
        <3>2. call' = [call EXCEPT ![c] = [call[c] EXCEPT !.pc = "set", !.new = n]]
            BY <1>1, <2>2, <2>4
        <3> WITNESS [call[c] EXCEPT !.pc = "set", !.new = n] \in CallRec
        <3> QED
            BY <1>2, <2>1, <2>2, <2>4, <3>2 DEF CallRec, At, Changing
    <2> QED
        BY <2>3, <2>4
<1>5. CASE give_focus(c)
    <2> DEFINE q == IF call[c].prev = 0 THEN "look" ELSE "clear"
    <2>1. /\ call' = [call EXCEPT ![c].pc = q, ![c].new = 0] /\ At(c, "set")
          /\ \E i \in Hit(call[c].new) : threads' = WriteFocus(i, 1)
        BY <1>5 DEF give_focus
    <2>2. q \in {"look", "clear"}
        OBVIOUS
    <2>3. [call[c] EXCEPT !.pc = q, !.new = 0] \in CallRec
        BY <1>2, <2>2 DEF CallRec, PCs
    <2>4. call' = [call EXCEPT ![c] = [call[c] EXCEPT !.pc = q, !.new = 0]]
        BY <1>1, <2>1
    <2> WITNESS [call[c] EXCEPT !.pc = q, !.new = 0] \in CallRec
    <2> QED
        BY <1>2, <2>1, <2>2, <2>4 DEF CallRec, At, Changing
<1>6. CASE take_focus(c)
    <2>1. /\ call' = [call EXCEPT ![c].pc = "look", ![c].prev = 0] /\ At(c, "clear")
          /\ \E i \in Hit(call[c].prev) : threads' = WriteFocus(i, 0)
        BY <1>6 DEF take_focus
    <2>3. [call[c] EXCEPT !.pc = "look", !.prev = 0] \in CallRec
        BY <1>2 DEF CallRec, PCs
    <2>4. call' = [call EXCEPT ![c] = [call[c] EXCEPT !.pc = "look", !.prev = 0]]
        BY <1>1, <2>1
    <2> WITNESS [call[c] EXCEPT !.pc = "look", !.prev = 0] \in CallRec
    <2> QED
        BY <1>2, <2>1, <2>4 DEF CallRec, At, Changing
<1> QED
    BY <1>3, <1>4, <1>5, <1>6 DEF set_focused_thread

\* What the other steps make of it.
LEMMA EntryEffect ==
    ASSUME ListInv, CallInv, SnapshotInv
    PROVE  /\ \A ID \in DOMAIN threads : thread_select(ID) =>
                \E r \in CallRec : /\ call' = [call EXCEPT !["main"] = r] /\ r.pc = "prev"
                                   /\ At("main", "idle")
           /\ thread_selected => /\ call' = [call EXCEPT !["main"] = Idle] /\ At("main", "look")
                                 /\ up' \in BOOLEAN /\ (up' => HasFocus(threads))
           /\ prepare =>
                /\ up' \in BOOLEAN /\ (up' => HasFocus(threads)) /\ At("main", "idle")
                /\ \/ call' = call
                   \/ \E r \in CallRec : /\ call' = [call EXCEPT !["main"] = r]
                                         /\ r.pc = "record" /\ r.new \in DOMAIN threads
           /\ \A t \in Ports : handle_exception(t) =>
                \E r \in CallRec :
                    /\ call' = [call EXCEPT !["server"] = r] /\ r.port = t /\ At("server", "idle")
                    /\ \/ /\ r.pc = "record" /\ r.new \in DOMAIN threads
                          /\ threads[r.new].port = t /\ clash' = clash
                       \/ /\ r.pc = "prev"
                          /\ \/ NoFocus(threads)
                             \/ \E i \in DOMAIN threads : /\ threads[i].focused = 1
                                                          /\ threads[i].port # t
                          /\ clash' = (clash \/ \E d \in Callers \ {"server"} : Changing(d))
           /\ refetch_focused =>
                /\ At("server", "look")
                /\ \/ call' = [call EXCEPT !["server"] = Idle]
                   \/ \E r \in CallRec :
                        /\ call' = [call EXCEPT !["server"] = r] /\ r.port = call["server"].port
                        /\ r.pc = "record" /\ r.new \in DOMAIN threads
                        /\ threads[r.new].focused = 1
           /\ check_focus =>
                \/ monitor' = "focused" /\ call' = call /\ clash' = clash /\ HasFocus(threads)
                \/ /\ monitor' = "unfocused" /\ NoFocus(threads)
                   /\ \E r \in CallRec : /\ call' = [call EXCEPT !["monitor"] = r]
                                         /\ r.pc = "prev" /\ r.port = snapshot[1]
                   /\ clash' = (clash \/ \E d \in Callers \ {"monitor"} : Changing(d))
<1> DEFINE g == get_focused_thread(threads)
<1>1. call \in [Callers -> CallRec] /\ threads \in Seq(Machthread)
    BY DEF CallInv, HeldInv, ListInv
<1>2. \/ g = 0 /\ NoFocus(threads) /\ ~HasFocus(threads)
      \/ g \in DOMAIN threads /\ g # 0 /\ threads[g].focused = 1 /\ HasFocus(threads)
    BY <1>1, FocusOf DEF NoFocus, HasFocus
<1>3. ASSUME NEW pc \in PCs, NEW t \in Ports \cup {None}, NEW n \in {0} \cup DOMAIN threads
      PROVE  /\ [Idle EXCEPT !.pc = pc, !.port = t, !.new = n] \in CallRec
             /\ [Idle EXCEPT !.pc = pc, !.port = t] \in CallRec
             /\ [Idle EXCEPT !.pc = pc, !.new = n] \in CallRec
    BY DEF Idle, CallRec, None
<1>4. PCs = {"idle", "prev", "new", "set", "clear", "look", "record"} /\ None \in Ports \cup {None}
      /\ "main" \in Callers /\ "server" \in Callers /\ "monitor" \in Callers
    BY DEF PCs, Callers
<1>5. \A i \in DOMAIN threads : threads[i].port \in Ports
    BY <1>1, Places
<1>6. ASSUME NEW ID \in DOMAIN threads, thread_select(ID)
      PROVE  \E r \in CallRec : /\ call' = [call EXCEPT !["main"] = r] /\ r.pc = "prev"
                                /\ At("main", "idle")
    <2>1. [Idle EXCEPT !.pc = "prev", !.port = threads[ID].port] \in CallRec
        BY <1>3, <1>4, <1>5
    <2> QED
        BY <1>6, <2>1 DEF thread_select, MainFree, Idle
<1>7. ASSUME thread_selected
      PROVE  /\ call' = [call EXCEPT !["main"] = Idle] /\ At("main", "look")
             /\ up' \in BOOLEAN /\ (up' => HasFocus(threads))
    <2>1. up' = (g # 0) /\ call' = [call EXCEPT !["main"] = Idle] /\ At("main", "look")
        BY <1>7 DEF thread_selected
    <2> HIDE DEF g
    <2> QED
        BY <1>2, <2>1
<1>8. ASSUME prepare
      PROVE  /\ up' \in BOOLEAN /\ (up' => HasFocus(threads)) /\ At("main", "idle")
             /\ \/ call' = call
                \/ \E r \in CallRec : /\ call' = [call EXCEPT !["main"] = r]
                                      /\ r.pc = "record" /\ r.new \in DOMAIN threads
    <2>1. /\ up' = (g # 0) /\ At("main", "idle")
          /\ call' = IF g = 0 THEN call
                     ELSE [call EXCEPT !["main"] = [Idle EXCEPT !.pc = "record", !.new = g]]
        BY <1>8, Zenon DEF prepare, MainFree
    <2> HIDE DEF g
    <2>2. up' \in BOOLEAN /\ (up' => HasFocus(threads))
        BY <1>2, <2>1
    <2>3. CASE g = 0
        BY <2>1, <2>2, <2>3
    <2>4. CASE g # 0
        <3>1. [Idle EXCEPT !.pc = "record", !.new = g] \in CallRec /\ g \in DOMAIN threads
            BY <1>2, <1>3, <1>4, <2>4
        <3> QED
            BY <2>1, <2>2, <2>4, <3>1 DEF Idle
    <2> QED
        BY <2>3, <2>4
<1>9. ASSUME NEW t \in Ports, handle_exception(t)
      PROVE  \E r \in CallRec :
                    /\ call' = [call EXCEPT !["server"] = r] /\ r.port = t /\ At("server", "idle")
                    /\ \/ /\ r.pc = "record" /\ r.new \in DOMAIN threads
                          /\ threads[r.new].port = t /\ clash' = clash
                       \/ /\ r.pc = "prev"
                          /\ \/ NoFocus(threads)
                             \/ \E i \in DOMAIN threads : /\ threads[i].focused = 1
                                                          /\ threads[i].port # t
                          /\ clash' = (clash \/ \E d \in Callers \ {"server"} : Changing(d))
    <2> DEFINE Has == g # 0 /\ threads[g].port = t
    <2>1. /\ At("server", "idle")
          /\ call' = [call EXCEPT !["server"] =
                       [Idle EXCEPT !.pc = IF Has THEN "record" ELSE "prev", !.port = t,
                                    !.new = IF Has THEN g ELSE 0]]
          /\ IF Has THEN clash' = clash
             ELSE clash' = (clash \/ \E d \in Callers \ {"server"} : Changing(d))
        BY <1>9 DEF handle_exception, Enter
    <2> HIDE DEF g
    <2>2. CASE Has
        <3>1. [Idle EXCEPT !.pc = "record", !.port = t, !.new = g] \in CallRec
            BY <1>2, <1>3, <1>4, <2>2
        <3>2. call' = [call EXCEPT !["server"] = [Idle EXCEPT !.pc = "record", !.port = t, !.new = g]]
            BY <2>1, <2>2
        <3> QED
            BY <1>2, <2>1, <2>2, <3>1, <3>2 DEF Idle
    <2>3. CASE ~Has
        <3>1. [Idle EXCEPT !.pc = "prev", !.port = t, !.new = 0] \in CallRec
            BY <1>3, <1>4
        <3>2. call' = [call EXCEPT !["server"] = [Idle EXCEPT !.pc = "prev", !.port = t, !.new = 0]]
            BY <2>1, <2>3
        <3>3. \/ NoFocus(threads)
              \/ \E i \in DOMAIN threads : threads[i].focused = 1 /\ threads[i].port # t
            BY <1>2, <2>3
        <3>4. clash' = (clash \/ \E d \in Callers \ {"server"} : Changing(d))
            BY <2>1, <2>3
        <3> QED
            BY <2>1, <3>1, <3>2, <3>3, <3>4 DEF Idle
    <2> QED
        BY <2>2, <2>3
<1>10. ASSUME refetch_focused
       PROVE  /\ At("server", "look")
              /\ \/ call' = [call EXCEPT !["server"] = Idle]
                 \/ \E r \in CallRec :
                        /\ call' = [call EXCEPT !["server"] = r] /\ r.port = call["server"].port
                        /\ r.pc = "record" /\ r.new \in DOMAIN threads
                        /\ threads[r.new].focused = 1
    <2>1. /\ At("server", "look")
          /\ call' = [call EXCEPT !["server"] =
                       IF g = 0 THEN Idle ELSE [@ EXCEPT !.pc = "record", !.new = g]]
        BY <1>10 DEF refetch_focused
    <2> HIDE DEF g
    <2>2. call["server"] \in CallRec
        BY <1>1, <1>4
    <2>3. CASE g = 0
        BY <2>1, <2>3
    <2>4. CASE g # 0
        <3>1. [call["server"] EXCEPT !.pc = "record", !.new = g] \in CallRec
            BY <1>2, <2>2, <2>4 DEF CallRec, PCs
        <3>2. call' = [call EXCEPT !["server"] = [call["server"] EXCEPT !.pc = "record", !.new = g]]
            BY <1>1, <1>4, <2>1, <2>4
        <3> QED
            BY <1>2, <2>1, <2>2, <2>4, <3>1, <3>2 DEF CallRec
    <2> QED
        BY <2>3, <2>4
<1>11. ASSUME check_focus
       PROVE  \/ monitor' = "focused" /\ call' = call /\ clash' = clash /\ HasFocus(threads)
              \/ /\ monitor' = "unfocused" /\ NoFocus(threads)
                 /\ \E r \in CallRec : /\ call' = [call EXCEPT !["monitor"] = r]
                                       /\ r.pc = "prev" /\ r.port = snapshot[1]
                 /\ clash' = (clash \/ \E d \in Callers \ {"monitor"} : Changing(d))
    <2>1. IF g # 0
          THEN monitor' = "focused" /\ call' = call /\ clash' = clash
          ELSE /\ monitor' = "unfocused"
               /\ call' = [call EXCEPT !["monitor"] =
                               [Idle EXCEPT !.pc = "prev", !.port = snapshot[1]]]
               /\ clash' = (clash \/ \E d \in Callers \ {"monitor"} : Changing(d))
        BY <1>11 DEF check_focus, Enter
    <2> HIDE DEF g
    <2>2. snapshot[1] \in Ports
        <3>1. monitor # "waiting"
            BY <1>11 DEF check_focus
        <3> QED
            BY <3>1, PortPlaces DEF SnapshotInv
    <2>3. [Idle EXCEPT !.pc = "prev", !.port = snapshot[1]] \in CallRec
        BY <1>3, <1>4, <2>2
    <2> QED
        BY <1>2, <2>1, <2>3 DEF Idle
<1> QED
    BY <1>6, <1>7, <1>8, <1>9, <1>10, <1>11

\* What is recorded, and how it gets into the structs.
LEMMA RecordedEffect ==
    ASSUME ListInv, CallInv, FocusSteps \/ StateSteps
    PROVE  \/ /\ recorded' = recorded
              /\ \A j \in DOMAIN threads : threads'[j].excinfo = threads[j].excinfo
           \/ \E i \in DOMAIN threads, v \in {0, 1}, x \in {0, 1, Unknown} :
                /\ x \in {v, Unknown}
                /\ \A j \in DOMAIN threads :
                        threads'[j].excinfo = IF j = i THEN v ELSE threads[j].excinfo
                /\ recorded' = [recorded EXCEPT ![threads[i].port] = x]
<1>1. ASSUME NEW c \in Callers, NEW v \in {0, 1}, Record(c, v)
      PROVE  \/ threads' = threads /\ recorded' = recorded
             \/ \E i \in DOMAIN threads, x \in {v, Unknown} :
                   /\ \A j \in DOMAIN threads :
                        threads'[j].excinfo = IF j = i THEN v ELSE threads[j].excinfo
                   /\ recorded' = [recorded EXCEPT ![threads[i].port] = x]
    BY <1>1, RecordEffect
<1>2. ASSUME NEW c \in Callers, set_focused_thread(c)
      PROVE  /\ recorded' = recorded
             /\ \A j \in DOMAIN threads : threads'[j].excinfo = threads[j].excinfo
    <2>1. /\ call[c].prev \in {Dangling, 0} \cup DOMAIN threads
          /\ call[c].new \in {Dangling, 0} \cup DOMAIN threads
          /\ threads \in Seq(Machthread)
        BY DEF CallInv, HeldInv, CallRec, ListInv
    <2>2. \/ threads' = threads
          \/ \E i \in Hit(call[c].new) : threads' = WriteFocus(i, 1)
          \/ \E i \in Hit(call[c].prev) : threads' = WriteFocus(i, 0)
        BY <1>2 DEF set_focused_thread, find_prevfocus, find_newfocus, give_focus, take_focus
    <2>3. recorded' = recorded
        BY <1>2 DEF set_focused_thread
    <2> QED
        BY <2>1, <2>2, <2>3, WriteFocusEffect
<1>3. CASE \/ \E ID \in DOMAIN threads : thread_select(ID)
           \/ thread_selected \/ (\E t \in Alive : handle_exception(t)) \/ refetch_focused
           \/ check_focus \/ refocused \/ prepare
    BY <1>3 DEF thread_select, thread_selected, handle_exception, refetch_focused,
        check_focus, refocused, prepare, listVars
<1>4. (prepared => Record("main", 1)) /\ \A v, ss : handled(v, ss) => Record("server", v)
    BY DEF prepared, handled
<1>5. CASE prepared \/ \E v \in {0, 1}, ss \in BOOLEAN : handled(v, ss)
    <2>1. PICK c \in Callers, v \in {0, 1} : Record(c, v)
        BY <1>4, <1>5 DEF Callers
    <2> QED
        BY <1>1, <2>1
<1> QED
    BY <1>2, <1>3, <1>5 DEF FocusSteps, StateSteps

\* The bounds and the histories keep their types.
LEMMA HistoryStep ==
    ASSUME AliveInv, SnapshotInv, ListInv, CallInv, [Next]_vars
    PROVE  HistoryInv'
<1>1. size' \in Sizes
    BY StepKinds DEF CallInv, HistoryInv
<1>2. born \in Nat /\ born' \in Nat /\ born <= born' /\ selected \in Nat /\ selected <= born
    BY AliveFacts, PortsAreNumbers DEF CallInv, HistoryInv, None
<1>3. /\ calls \in Nat /\ selected \in Ports \cup {None}
      /\ recorded \in [Ports -> {0, 1, Unknown}]
      /\ up \in BOOLEAN /\ clash \in BOOLEAN /\ rearmed \in BOOLEAN /\ raced \in BOOLEAN
    BY DEF CallInv, HistoryInv
<1>4. SUFFICES
        /\ calls' \in Nat /\ selected' \in Ports \cup {None} /\ selected' <= born'
        /\ recorded' \in [Ports -> {0, 1, Unknown}]
        /\ up' \in BOOLEAN /\ clash' \in BOOLEAN /\ rearmed' \in BOOLEAN /\ raced' \in BOOLEAN
    BY <1>1 DEF HistoryInv
<1>5. CASE Birth \/ (\E n \in DOMAIN alive : Death(n)) \/ UNCHANGED vars
    BY <1>2, <1>3, <1>5, DebuggeeFrame, StutterFrame DEF focusVars, pointVars
<1>6. CASE PointSteps
    BY <1>2, <1>3, <1>6, PointFrame DEF focusVars
<1>7. CASE FocusSteps \/ StateSteps
    <2>1. recorded' \in [Ports -> {0, 1, Unknown}]
        <3>1. \A i \in DOMAIN threads : threads[i].port \in Ports
            BY Places DEF ListInv
        <3>2. \/ recorded' = recorded
              \/ \E i \in DOMAIN threads, x \in {0, 1, Unknown} :
                    recorded' = [recorded EXCEPT ![threads[i].port] = x]
            BY <1>7, RecordedEffect
        <3> QED
            BY <1>3, <3>1, <3>2
    <2>2. born' = born /\ selected' = selected /\ rearmed' = rearmed
        BY <1>7, FocusFrame, StateFrame
    <2>3. raced' \in BOOLEAN
        BY <1>3, <1>7, FocusFrame, StateFrame DEF set_state_all, Raced
    <2>4. calls' \in Nat
        <3>1. calls' \in {calls, calls + 1}
            BY <1>7 DEF FocusSteps, StateSteps, thread_select, set_focused_thread, thread_selected,
                prepared, handle_exception, refetch_focused, check_focus, refocused, prepare,
                handled, Called
        <3> QED
            BY <1>3, <3>1
    <2>5. up' \in BOOLEAN
        <3>1. up' = up \/ thread_selected \/ prepare
            BY <1>7 DEF FocusSteps, StateSteps, thread_select, set_focused_thread,
                prepared, handle_exception, refetch_focused, check_focus, refocused, handled
        <3> QED
            BY <1>3, <3>1, EntryEffect
    <2>6. clash' \in BOOLEAN
        <3>1. clash' = clash \/ \E c \in Callers : Enter(c)
            BY <1>7 DEF FocusSteps, StateSteps, thread_select, set_focused_thread, thread_selected,
                prepared, handle_exception, refetch_focused, check_focus, refocused, prepare,
                handled, Callers
        <3> QED
            BY <1>3, <3>1 DEF Enter
    <2> QED
        BY <1>2, <1>3, <2>1, <2>2, <2>3, <2>4, <2>5, <2>6
<1>8. CASE get_threads
    <2>1. ~update_thread_list
        BY <1>8 DEF get_threads, update_thread_list
    <2> QED
        BY <1>2, <1>3, <1>8, <2>1, UpdateFrame DEF pointVars
<1>9. CASE AdjustStep
    <2>1. /\ calls' = calls /\ recorded' = recorded /\ up' = up /\ clash' = clash
          /\ born' = born /\ raced' = raced
        <3>1. ~update_thread_list
            BY <1>9 DEF AdjustStep, adjust_breakpoints, adjust_watchpoints, update_thread_list
        <3> QED
            BY <1>9, <3>1, UpdateFrame
    <2>2. selected' \in {selected, None}
        BY <1>9 DEF AdjustStep, adjust_breakpoints, adjust_watchpoints, focusVars
    <2>3. rearmed' \in BOOLEAN
        <3>1. rearmed' = rearmed \/ adjust("BP") \/ adjust("WP")
            BY <1>9 DEF AdjustStep, adjust_breakpoints, adjust_watchpoints
        <3> QED
            BY <1>3, <3>1, Zenon DEF adjust
    <2> QED
        BY <1>2, <1>3, <2>1, <2>2, <2>3 DEF None
<1>10. CASE update_thread_list
    <2>1. calls' = calls /\ up' = up /\ born' = born
        BY <1>10, UpdateFrame
    <2>2. /\ selected' = focused_th_port
          /\ recorded' = [p \in Ports |-> IF p \in Losing THEN Unknown ELSE recorded[p]]
          /\ clash' \in BOOLEAN /\ rearmed' \in BOOLEAN /\ raced' \in BOOLEAN
        BY <1>3, <1>10, Zenon DEF update_thread_list
    <2>3. selected' \in Ports \cup {None} /\ selected' <= born'
        BY <1>2, <2>1, <2>2, FocusedPort, Places DEF ListInv, None
    <2> QED
        BY <1>3, <2>1, <2>2, <2>3
<1> QED
    BY <1>5, <1>6, <1>7, <1>8, <1>9, <1>10, StepKinds

\* A caller comes to hold r.
LEMMA HeldKept ==
    ASSUME ListInv, CallInv, NEW c \in Callers, NEW r \in CallRec,
           call' = [call EXCEPT ![c] = r], DOMAIN threads' = DOMAIN threads,
           r.pc = "record" => r.new # 0,
           c # "monitor" /\ monitor' = monitor
    PROVE  HeldInv'
<1>1. /\ call \in [Callers -> CallRec] /\ CallRec' = CallRec
      /\ \A d \in Callers : call[d].pc = "record" => call[d].new # 0
    BY DEF CallInv, HeldInv, CallRec, At
<1>2. call' \in [Callers -> CallRec] /\ \A d \in Callers : call'[d] = IF d = c THEN r ELSE call[d]
    BY <1>1
<1>3. "monitor" \in Callers
    BY DEF Callers
<1>4. \A d \in Callers : call'[d].pc = "record" => call'[d].new # 0
    BY <1>1, <1>2
<1>5. IF monitor' = "unfocused" THEN Changing("monitor")' ELSE At("monitor", "idle")'
    BY <1>2, <1>3 DEF CallInv, HeldInv, Changing, At
<1> QED
    BY <1>1, <1>2, <1>4, <1>5 DEF HeldInv, At

\* What the callers hold stays what they may hold.
LEMMA HeldStep ==
    ASSUME AliveInv, SnapshotInv, ListInv, CallInv, [Next]_vars
    PROVE  HeldInv'
<1>1. /\ call \in [Callers -> CallRec]
      /\ \A d \in Callers : call[d].pc = "record" => call[d].new # 0
      /\ IF monitor = "unfocused" THEN Changing("monitor") ELSE At("monitor", "idle")
    BY DEF CallInv, HeldInv, At
<1>2. Idle \in CallRec /\ Idle.pc = "idle"
    BY DEF Idle, CallRec, PCs, None
<1>3. "main" \in Callers /\ "server" \in Callers /\ "monitor" \in Callers
    BY DEF Callers
<1>4. CASE /\ call' = call /\ DOMAIN threads' = DOMAIN threads
           /\ monitor' = monitor \/ (monitor # "unfocused" /\ monitor' # "unfocused")
    BY <1>1, <1>4 DEF HeldInv, CallRec, Changing, At
<1>5. CASE Birth \/ (\E n \in DOMAIN alive : Death(n)) \/ PointSteps \/ UNCHANGED vars
    BY <1>4, <1>5, DebuggeeFrame, PointFrame, StutterFrame DEF focusVars
<1>6. CASE get_threads \/ AdjustStep
    <2>1. ~update_thread_list
        BY <1>6 DEF get_threads, AdjustStep, adjust_breakpoints, adjust_watchpoints, update_thread_list
    <2>2. monitor # "unfocused" /\ monitor' # "unfocused"
        BY <1>6 DEF get_threads, AdjustStep, adjust_breakpoints, adjust_watchpoints
    <2> QED
        BY <1>4, <1>6, <2>1, <2>2, UpdateFrame
<1>7. CASE update_thread_list
    <2>1. /\ monitor = "fetched" /\ monitor' = "rebuilt"
          /\ call' = [c \in Callers |-> [call[c] EXCEPT !.prev = Freed(@), !.new = Freed(@)]]
        BY <1>7, Zenon DEF update_thread_list
    <2>2. ASSUME NEW r \in CallRec
          PROVE  /\ [r EXCEPT !.prev = Freed(@), !.new = Freed(@)] \in CallRec'
                 /\ [r EXCEPT !.prev = Freed(@), !.new = Freed(@)].pc = r.pc
                 /\ [r EXCEPT !.prev = Freed(@), !.new = Freed(@)].new = Freed(r.new)
        BY DEF CallRec, Freed
    <2>3. \A c \in Callers : /\ call'[c] \in CallRec' /\ call'[c].pc = call[c].pc
                             /\ call'[c].new = Freed(call[c].new)
        BY <1>1, <2>1, <2>2
    <2>4. call' \in [Callers -> CallRec']
        BY <2>1, <2>3
    <2>5. \A c \in Callers : call'[c].pc = "record" => call'[c].new # 0
        BY <1>1, <2>3 DEF Freed, Dangling
    <2>6. At("monitor", "idle")'
        BY <1>1, <1>3, <2>1, <2>3 DEF At
    <2> QED
        BY <2>1, <2>4, <2>5, <2>6 DEF HeldInv, At
<1>8. CASE FocusSteps \/ StateSteps
    <2>1. DOMAIN threads' = DOMAIN threads
        BY <1>8, FocusOnly DEF SameThreads
    <2>2. \A i \in DOMAIN threads : i # 0
        BY Places DEF ListInv
    <2>3. ASSUME NEW c \in Callers, set_focused_thread(c)
          PROVE  HeldInv'
        <3>1. monitor' = monitor
            BY <2>3 DEF set_focused_thread
        <3>2. PICK r \in CallRec :
                /\ call' = [call EXCEPT ![c] = r] /\ r.pc \in {"new", "set", "clear", "look"}
                /\ Changing(c)
            BY <2>3, SetFocusEffect
        <3>3. r.pc # "record"
            BY <3>2
        <3>4. CASE c # "monitor"
            BY <2>1, <3>1, <3>2, <3>3, <3>4, HeldKept
        <3>5. CASE c = "monitor"
            <4>1. monitor = "unfocused"
                BY <1>1, <3>2, <3>5 DEF Changing, At
            <4>2. call' \in [Callers -> CallRec] /\ \A d \in Callers : call'[d] = IF d = c THEN r ELSE call[d]
                BY <1>1, <3>2
            <4>3. Changing("monitor")'
                BY <3>2, <3>5, <4>2 DEF Changing
            <4> QED
                BY <1>1, <2>1, <3>1, <3>3, <4>1, <4>2, <4>3 DEF HeldInv, At, CallRec
        <3> QED
            BY <3>4, <3>5
    <2>4. CASE \/ \E ID \in DOMAIN threads : thread_select(ID)
               \/ thread_selected \/ (\E t \in Alive : handle_exception(t)) \/ refetch_focused
        <3>1. monitor' = monitor /\ \A t \in Alive : t \in Ports
            <4>1. monitor' = monitor
                BY <2>4 DEF thread_select, thread_selected, handle_exception, refetch_focused, listVars
            <4> QED
                BY <4>1, AlivePorts
        <3>2. \E c \in Callers \ {"monitor"}, r \in CallRec :
                call' = [call EXCEPT ![c] = r] /\ (r.pc = "record" => r.new # 0)
            <4>1. CASE \E ID \in DOMAIN threads : thread_select(ID)
                BY <1>3, <4>1, EntryEffect
            <4>2. CASE thread_selected
                BY <1>2, <1>3, <4>2, EntryEffect
            <4>3. CASE \E t \in Alive : handle_exception(t)
                BY <1>3, <2>2, <3>1, <4>3, EntryEffect
            <4>4. CASE refetch_focused
                BY <1>2, <1>3, <2>2, <4>4, EntryEffect
            <4> QED
                BY <2>4, <4>1, <4>2, <4>3, <4>4
        <3> QED
            BY <2>1, <3>1, <3>2, HeldKept
    <2>5. ASSUME NEW c \in {"main", "server"}, NEW v, Record(c, v), monitor' = monitor
          PROVE  HeldInv'
        <3>1. call' = [call EXCEPT ![c] = Idle] /\ c \in Callers /\ c # "monitor" /\ Idle.pc # "record"
            BY <1>2, <2>5 DEF Record, Callers
        <3> QED
            BY <1>2, <2>1, <2>5, <3>1, HeldKept
    <2>6. CASE prepared \/ \E v \in {0, 1}, ss \in BOOLEAN : handled(v, ss)
        BY <2>5, <2>6 DEF prepared, handled
    <2>7. CASE prepare
        <3>1. monitor' = monitor
            BY <2>7, Zenon DEF prepare, listVars
        <3>2. CASE call' = call
            BY <1>4, <2>1, <3>1, <3>2
        <3>3. CASE \E r \in CallRec : /\ call' = [call EXCEPT !["main"] = r]
                                      /\ r.pc = "record" /\ r.new \in DOMAIN threads
            BY <1>3, <2>1, <2>2, <3>1, <3>3, HeldKept
        <3> QED
            BY <2>7, <3>2, <3>3, EntryEffect
    <2>8. CASE check_focus
        <3>1. monitor = "rebuilt"
            BY <2>8 DEF check_focus
        <3>2. CASE monitor' = "focused" /\ call' = call
            BY <1>4, <2>1, <3>1, <3>2
        <3>3. CASE /\ monitor' = "unfocused"
                   /\ \E r \in CallRec : call' = [call EXCEPT !["monitor"] = r] /\ r.pc = "prev"
            <4>1. PICK r \in CallRec : call' = [call EXCEPT !["monitor"] = r] /\ r.pc = "prev"
                BY <3>3
            <4>2. /\ call' \in [Callers -> CallRec]
                  /\ \A d \in Callers : call'[d] = IF d = "monitor" THEN r ELSE call[d]
                BY <1>1, <4>1
            <4>3. Changing("monitor")'
                BY <1>3, <4>1, <4>2 DEF Changing
            <4> QED
                BY <1>1, <2>1, <3>3, <4>1, <4>2, <4>3 DEF HeldInv, At, CallRec
        <3> QED
            BY <2>8, <3>2, <3>3, EntryEffect
    <2>9. CASE refocused
        <3>1. monitor' = "focused" /\ call' = [call EXCEPT !["monitor"] = Idle]
            BY <2>9 DEF refocused
        <3>2. /\ call' \in [Callers -> CallRec]
              /\ \A d \in Callers : call'[d] = IF d = "monitor" THEN Idle ELSE call[d]
            BY <1>1, <1>2, <3>1
        <3> QED
            BY <1>1, <1>2, <1>3, <2>1, <3>1, <3>2 DEF HeldInv, At, CallRec
    <2> QED
        BY <1>8, <2>3, <2>4, <2>6, <2>7, <2>8, <2>9 DEF FocusSteps, StateSteps
<1> QED
    BY <1>5, <1>6, <1>7, <1>8, StepKinds

LEMMA CallStep ==
    ASSUME AliveInv, SnapshotInv, ListInv, CallInv, [Next]_vars
    PROVE  CallInv'
BY HeldStep, HistoryStep DEF CallInv

----------------------------------------------------------------------------
(* The focus.                                                              *)

\* A caller that is not changing the focus knows nothing of it.
LEMMA StageOther ==
    ASSUME NEW ts, NEW c, NEW r, r.pc \in {"idle", "record"}
    PROVE  Stage(ts, c, r)
BY DEF Stage

\* Two lists of the same threads with the same focus.
SameFocus(ts, us) ==
    SameThreads(ts, us) /\ \A i \in DOMAIN ts : us[i].focused = ts[i].focused

LEMMA FocusSame ==
    ASSUME NEW ts, NEW us, SameFocus(ts, us)
    PROVE  /\ OneFocus(ts) => OneFocus(us)
           /\ HasFocus(ts) => HasFocus(us)
           /\ \A c, r : Stage(ts, c, r) => Stage(us, c, r)
           /\ Listed(us) = Listed(ts)
<1>1. /\ DOMAIN us = DOMAIN ts
      /\ \A i \in DOMAIN ts : us[i].port = ts[i].port /\ us[i].focused = ts[i].focused
    BY DEF SameFocus, SameThreads
<1>2. Listed(us) = Listed(ts)
    BY <1>1 DEF Listed
<1>3. (OneFocus(ts) => OneFocus(us)) /\ (HasFocus(ts) => HasFocus(us)) /\ (NoFocus(ts) => NoFocus(us))
    BY <1>1 DEF OneFocus, HasFocus, NoFocus
<1>4. \A x : IsFocus(ts, x) => IsFocus(us, x)
    BY <1>1, <1>3 DEF IsFocus
<1>5. \A c, p : Decided(ts, c, p) => Decided(us, c, p)
    BY <1>1, <1>2, <1>3 DEF Decided
<1>6. ASSUME NEW c, NEW r, Stage(ts, c, r)
      PROVE  Stage(us, c, r)
    <2>1. r.pc \in {"prev", "new", "set"} => Decided(us, c, r.port)
        BY <1>5, <1>6 DEF Stage
    <2>2. r.pc \in {"new", "set"} => IsFocus(us, r.prev)
        BY <1>4, <1>6 DEF Stage
    <2>3. r.pc = "set" => r.new \in DOMAIN us /\ us[r.new].port = r.port
        BY <1>1, <1>6 DEF Stage
    <2>4. r.pc = "clear" =>
            /\ r.prev \in DOMAIN us
            /\ \E n \in DOMAIN us :
                    /\ us[n].port = r.port /\ us[n].focused = 1
                    /\ \A i \in DOMAIN us : us[i].focused = 1 => i \in {r.prev, n}
                    /\ c # "main" => n # r.prev
        BY <1>1, <1>6 DEF Stage
    <2>5. r.pc = "look" =>
            /\ c = "server" => \A i \in DOMAIN us : us[i].port = r.port => us[i].focused = 1
            /\ c = "monitor" => HasFocus(us)
        BY <1>1, <1>3, <1>6 DEF Stage
    <2> QED
        BY <2>1, <2>2, <2>3, <2>4, <2>5 DEF Stage
<1> QED
    BY <1>2, <1>3, <1>6

\* The parts of FocusInv that say who has the focus, and which thread the
\* server goes on with.
Owned ==
    /\ up /\ ~At("main", "look") /\ monitor \notin {"rebuilt", "unfocused"} => HasFocus(threads)
    /\ up /\ ~At("main", "look") /\ monitor = "rebuilt" /\ selected \in Alive => HasFocus(threads)
    /\ monitor = "unfocused" => selected \notin Alive

Followed(ts, r) ==
    r.port \in Listed(ts) /\ r.pc = "record" /\ r.new # Dangling => ts[r.new].port = r.port

LEMMA FocusParts ==
    ASSUME ~clash
    PROVE  FocusInv <=>
             /\ \A c, d \in Callers : Changing(c) /\ Changing(d) => c = d
             /\ (\A c \in Callers : ~At(c, "clear")) => OneFocus(threads)
             /\ \A c \in Callers : Stage(threads, c, call[c])
             /\ Owned
             /\ Followed(threads, call["server"])
BY DEF FocusInv, Owned, Followed, ExceptionOnItsThread, FocusFollowsException, At

LEMMA FocusPartsNext ==
    ASSUME ~clash'
    PROVE  FocusInv' <=>
             /\ \A c, d \in Callers : Changing(c)' /\ Changing(d)' => c = d
             /\ (\A c \in Callers : ~At(c, "clear")') => OneFocus(threads')
             /\ \A c \in Callers : Stage(threads', c, call'[c])
             /\ Owned'
             /\ Followed(threads', call'["server"])
BY DEF FocusInv, Owned, Followed, ExceptionOnItsThread, FocusFollowsException, At

\* Where only caller c is changing the focus, it is enough to look at c.
LEMMA FocusMoved ==
    ASSUME ListInv, CallInv, FocusInv, ~clash, ~clash',
           NEW c \in Callers, NEW r, call' = [call EXCEPT ![c] = r],
           \A d \in Callers \ {c} : ~Changing(d),
           SameThreads(threads, threads'),
           Stage(threads', c, r),
           r.pc # "clear" => OneFocus(threads'),
           c = "server" => Followed(threads', r),
           Owned'
    PROVE  FocusInv'
<1>1. call \in [Callers -> CallRec]
    BY DEF CallInv, HeldInv
<1>2. \A d \in Callers : call'[d] = IF d = c THEN r ELSE call[d]
    BY <1>1
<1>3. ASSUME NEW d \in Callers, d # c
      PROVE  ~Changing(d)' /\ ~At(d, "clear")' /\ Stage(threads', d, call'[d])
    <2>1. call[d].pc \in PCs /\ ~Changing(d) /\ call'[d] = call[d]
        BY <1>1, <1>2, <1>3 DEF CallRec
    <2>2. call[d].pc \in {"idle", "record"}
        BY <2>1 DEF Changing, PCs
    <2> QED
        BY <2>1, <2>2, StageOther DEF Changing, At
<1>4. \A d, e \in Callers : Changing(d)' /\ Changing(e)' => d = e
    BY <1>3
<1>5. (\A d \in Callers : ~At(d, "clear")') => OneFocus(threads')
    BY <1>2 DEF At
<1>6. \A d \in Callers : Stage(threads', d, call'[d])
    BY <1>2, <1>3
<1>7. Followed(threads', call'["server"])
    <2>1. "server" \in Callers
        BY DEF Callers
    <2>2. CASE c = "server"
        BY <1>2, <2>1, <2>2
    <2>3. CASE c # "server"
        <3>1. call'["server"] = call["server"] /\ call["server"] \in CallRec
            BY <1>1, <1>2, <2>1, <2>3
        <3>2. Followed(threads, call["server"])
            BY FocusParts
        <3>3. Listed(threads') = Listed(threads)
            BY DEF Listed, SameThreads
        <3>4. call["server"].pc = "record" => call["server"].new # 0
            BY <2>1 DEF CallInv, HeldInv, At
        <3>5. call["server"].new \in {Dangling, 0} \cup DOMAIN threads
            BY <3>1 DEF CallRec
        <3> QED
            BY <3>1, <3>2, <3>3, <3>4, <3>5 DEF Followed, SameThreads
    <2> QED
        BY <2>2, <2>3
<1> QED
    BY <1>4, <1>5, <1>6, <1>7, FocusPartsNext

\* Caller c is not changing the focus, before or after.
LEMMA FocusQuiet ==
    ASSUME ListInv, CallInv, FocusInv, ~clash, ~clash',
           NEW c \in Callers, NEW r, call' = [call EXCEPT ![c] = r],
           ~Changing(c), r.pc \in {"idle", "record"},
           SameFocus(threads, threads'),
           c = "server" => Followed(threads', r),
           monitor' = monitor, selected' = selected, Alive' = Alive, up' => up
    PROVE  FocusInv'
<1>1. call \in [Callers -> CallRec] /\ "main" \in Callers /\ "server" \in Callers
    BY DEF CallInv, HeldInv, Callers
<1>2. \A d \in Callers : call'[d] = IF d = c THEN r ELSE call[d]
    BY <1>1
<1>3. /\ \A d, e \in Callers : Changing(d) /\ Changing(e) => d = e
      /\ (\A d \in Callers : ~At(d, "clear")) => OneFocus(threads)
      /\ \A d \in Callers : Stage(threads, d, call[d])
      /\ Owned
      /\ Followed(threads, call["server"])
    BY FocusParts
<1>4. /\ ~Changing(c)' /\ ~At(c, "clear")' /\ ~At(c, "look")'
      /\ ~At(c, "clear") /\ ~At(c, "look")
    BY <1>2 DEF Changing, At
<1>5. \A d \in Callers : d # c => /\ Changing(d)' = Changing(d)
                                  /\ \A pc : At(d, pc)' = At(d, pc)
    BY <1>2 DEF Changing, At
<1>6. \A d, e \in Callers : Changing(d)' /\ Changing(e)' => d = e
    BY <1>3, <1>4, <1>5
<1>7. (\A d \in Callers : ~At(d, "clear")') => OneFocus(threads')
    <2>1. (\A d \in Callers : ~At(d, "clear")') => \A d \in Callers : ~At(d, "clear")
        BY <1>4, <1>5
    <2> QED
        BY <1>3, <2>1, FocusSame
<1>8. \A d \in Callers : Stage(threads', d, call'[d])
    BY <1>2, <1>3, FocusSame, StageOther
<1>9. Owned'
    <2>1. ~At("main", "look")' => ~At("main", "look")
        BY <1>1, <1>4, <1>5
    <2> QED
        BY <1>3, <2>1, FocusSame DEF Owned
<1>10. Followed(threads', call'["server"])
    <2>1. CASE c = "server"
        BY <1>1, <1>2, <2>1
    <2>2. CASE c # "server"
        <3>1. call'["server"] = call["server"] /\ call["server"] \in CallRec
            BY <1>1, <1>2, <2>2
        <3>2. call["server"].pc = "record" => call["server"].new # 0
            BY <1>1 DEF CallInv, HeldInv, At
        <3>3. call["server"].new \in {Dangling, 0} \cup DOMAIN threads
            BY <3>1 DEF CallRec
        <3>4. Listed(threads') = Listed(threads)
            BY FocusSame
        <3> QED
            BY <1>3, <3>1, <3>2, <3>3, <3>4 DEF Followed, SameFocus, SameThreads
    <2> QED
        BY <2>1, <2>2
<1> QED
    BY <1>6, <1>7, <1>8, <1>9, <1>10, FocusPartsNext

\* A step of set_focused_thread brings the focus on to the next stage.
LEMMA SetFocusKeeps ==
    ASSUME ListInv, CallInv, FocusInv, ~clash, NEW c \in Callers, set_focused_thread(c)
    PROVE  FocusInv'
<1>1. /\ alive' = alive /\ monitor' = monitor /\ selected' = selected /\ up' = up
      /\ clash' = clash
    BY DEF set_focused_thread
<1>2. Alive' = Alive
    BY <1>1 DEF Alive
<1>3. PICK r \in CallRec :
         /\ call' = [call EXCEPT ![c] = r] /\ r.port = call[c].port
         /\ r.pc \in {"new", "set", "clear", "look"} /\ Changing(c)
         /\ \/ /\ At(c, "prev") /\ r.pc = "new" /\ threads' = threads
               /\ IsFocus(threads, r.prev)
            \/ /\ At(c, "new") /\ r.pc = "look" /\ threads' = threads
               /\ r.port \notin Listed(threads)
            \/ /\ At(c, "new") /\ r.pc = "set" /\ threads' = threads
               /\ r.prev = call[c].prev
               /\ r.new \in DOMAIN threads /\ threads[r.new].port = r.port
            \/ /\ At(c, "set") /\ r.pc = (IF call[c].prev = 0 THEN "look" ELSE "clear")
               /\ r.prev = call[c].prev
               /\ \E i \in Hit(call[c].new) : threads' = WriteFocus(i, 1)
            \/ /\ At(c, "clear") /\ r.pc = "look"
               /\ \E i \in Hit(call[c].prev) : threads' = WriteFocus(i, 0)
    BY SetFocusEffect
<1>4. /\ \A d, e \in Callers : Changing(d) /\ Changing(e) => d = e
      /\ (\A d \in Callers : ~At(d, "clear")) => OneFocus(threads)
      /\ Stage(threads, c, call[c])
      /\ Owned
    BY FocusParts
<1>5. \A d \in Callers \ {c} : ~Changing(d) /\ ~At(d, "clear") /\ ~At(d, "look")
    BY <1>3, <1>4 DEF Changing, At
<1>6. call \in [Callers -> CallRec] /\ threads \in Seq(Machthread) /\ "main" \in Callers
      /\ call[c].prev \in {Dangling, 0} \cup DOMAIN threads
    BY DEF CallInv, HeldInv, ListInv, Callers, CallRec
<1>7. \A d \in Callers : call'[d] = IF d = c THEN r ELSE call[d]
    BY <1>3, <1>6
<1>8. ~At(c, "clear") => OneFocus(threads)
    BY <1>4, <1>5
<1>9. SameThreads(threads, threads)
    BY <1>6 DEF SameThreads
<1>10. c = "server" => Followed(threads', r)
    BY <1>3 DEF Followed
<1>11. ~At(c, "look") /\ (At("main", "look")' <=> c = "main" /\ r.pc = "look")
    BY <1>3, <1>5, <1>6, <1>7 DEF At
<1>12. c = "monitor" <=> monitor = "unfocused"
    <2>1. IF monitor = "unfocused" THEN Changing("monitor") ELSE At("monitor", "idle")
        BY DEF CallInv, HeldInv
    <2>2. "monitor" \in Callers
        BY DEF Callers
    <2> QED
        BY <1>3, <1>4, <2>1, <2>2 DEF Changing, At
<1>13. ~At("main", "look")
    BY <1>5, <1>6, <1>11
<1>14. HasFocus(threads') => Owned'
    BY <1>1, <1>2, <1>4 DEF Owned
<1>15. (HasFocus(threads) => HasFocus(threads') \/ (c = "main" /\ r.pc = "look")) => Owned'
    BY <1>1, <1>2, <1>4, <1>11, <1>13 DEF Owned
<1>16. ASSUME SameThreads(threads, threads'), Stage(threads', c, r),
              r.pc # "clear" => OneFocus(threads'), Owned'
       PROVE  FocusInv'
    BY <1>1, <1>3, <1>5, <1>10, <1>16, FocusMoved
<1>17. CASE /\ At(c, "prev") /\ r.pc = "new" /\ threads' = threads
            /\ IsFocus(threads, r.prev)
    <2>1. Stage(threads', c, r)
        BY <1>3, <1>4, <1>17 DEF Stage, At
    <2>2. OneFocus(threads') /\ Owned'
        BY <1>8, <1>15, <1>17 DEF At
    <2> QED
        BY <1>9, <1>16, <1>17, <2>1, <2>2
<1>18. CASE /\ At(c, "new") /\ r.pc = "look" /\ threads' = threads
            /\ r.port \notin Listed(threads)
    <2>1. c = "monitor" => FALSE
        BY <1>3, <1>4, <1>18 DEF Stage, At, Decided
    <2>2. \A i \in DOMAIN threads : threads[i].port # r.port
        BY <1>18 DEF Listed
    <2>3. Stage(threads', c, r)
        BY <1>18, <2>1, <2>2 DEF Stage
    <2>4. OneFocus(threads') /\ Owned'
        BY <1>8, <1>15, <1>18 DEF At
    <2> QED
        BY <1>9, <1>16, <1>18, <2>3, <2>4
<1>19. CASE /\ At(c, "new") /\ r.pc = "set" /\ threads' = threads
            /\ r.prev = call[c].prev
            /\ r.new \in DOMAIN threads /\ threads[r.new].port = r.port
    <2>1. Stage(threads', c, r)
        BY <1>3, <1>4, <1>19 DEF Stage, At
    <2>2. OneFocus(threads') /\ Owned'
        BY <1>8, <1>15, <1>19 DEF At
    <2> QED
        BY <1>9, <1>16, <1>19, <2>1, <2>2
<1>20. CASE /\ At(c, "set") /\ r.pc = (IF call[c].prev = 0 THEN "look" ELSE "clear")
            /\ r.prev = call[c].prev
            /\ \E i \in Hit(call[c].new) : threads' = WriteFocus(i, 1)
    <2> DEFINE n == call[c].new
               p == call[c].prev
    <2>1. n \in DOMAIN threads /\ threads[n].port = r.port /\ IsFocus(threads, p)
          /\ Decided(threads, c, r.port)
        BY <1>3, <1>4, <1>20 DEF Stage, At
    <2>2. OneFocus(threads)
        BY <1>8, <1>20 DEF At
    <2>3. PICK i \in Hit(n) : threads' = WriteFocus(i, 1)
        BY <1>20
    <2>4. /\ i = n /\ SameThreads(threads, threads')
          /\ \A j \in DOMAIN threads :
                threads'[j].focused = IF j = i THEN 1 ELSE threads[j].focused
        <3> HIDE DEF n
        <3> QED
            BY <1>6, <2>1, <2>3, WriteFocusEffect
    <2>5. /\ DOMAIN threads' = DOMAIN threads
          /\ \A j \in DOMAIN threads : /\ threads'[j].port = threads[j].port
                                       /\ threads'[j].focused = IF j = n THEN 1 ELSE threads[j].focused
        BY <2>4 DEF SameThreads
    <2>6. \A i1, j1 \in DOMAIN threads : threads[i1].port = threads[j1].port => i1 = j1
        BY DEF ListInv
    <2> HIDE DEF n, p
    <2>7. HasFocus(threads')
        BY <2>1, <2>5 DEF HasFocus
    <2>8. CASE p = 0
        <3>1. \A j \in DOMAIN threads : threads[j].focused = 0
            BY <1>6, <2>1, <2>8, Places DEF IsFocus, NoFocus
        <3>2. OneFocus(threads')
            BY <2>5, <3>1 DEF OneFocus
        <3>3. r.pc = "look"
            BY <1>20, <2>8 DEF p
        <3>4. \A j \in DOMAIN threads' : threads'[j].port = r.port => threads'[j].focused = 1
            BY <2>1, <2>5, <2>6
        <3>5. Stage(threads', c, r)
            BY <2>7, <3>3, <3>4 DEF Stage
        <3> QED
            BY <1>14, <1>16, <2>4, <2>7, <3>2, <3>5
    <2>9. CASE p # 0
        <3>1. p \in DOMAIN threads /\ threads[p].focused = 1
            BY <2>1, <2>9 DEF IsFocus
        <3>2. r.pc = "clear" /\ r.prev = p
            BY <1>20, <2>9 DEF p
        <3>3. \A j \in DOMAIN threads' : threads'[j].focused = 1 => j \in {p, n}
            BY <2>2, <2>5, <3>1 DEF OneFocus
        <3>4. c # "main" => n # p
            BY <2>1, <3>1 DEF Decided, NoFocus, Callers
        <3>5. threads'[n].port = r.port /\ threads'[n].focused = 1 /\ n \in DOMAIN threads'
            BY <2>1, <2>5
        <3>6. Stage(threads', c, r)
            BY <2>5, <3>1, <3>2, <3>3, <3>4, <3>5 DEF Stage
        <3> QED
            BY <1>14, <1>16, <2>4, <2>7, <3>2, <3>6
    <2> QED
        BY <2>8, <2>9
<1>21. CASE /\ At(c, "clear") /\ r.pc = "look"
            /\ \E i \in Hit(call[c].prev) : threads' = WriteFocus(i, 0)
    <2> DEFINE p == call[c].prev
    <2>1. p \in DOMAIN threads
        BY <1>4, <1>21 DEF Stage, At
    <2>2. PICK n \in DOMAIN threads :
                /\ threads[n].port = r.port /\ threads[n].focused = 1
                /\ \A i \in DOMAIN threads : threads[i].focused = 1 => i \in {p, n}
                /\ c # "main" => n # p
        BY <1>3, <1>4, <1>21 DEF Stage, At
    <2>3. PICK i \in Hit(p) : threads' = WriteFocus(i, 0)
        BY <1>21
    <2> HIDE DEF p
    <2>4. /\ i = p /\ SameThreads(threads, threads')
          /\ \A j \in DOMAIN threads :
                threads'[j].focused = IF j = i THEN 0 ELSE threads[j].focused
        BY <1>6, <2>1, <2>3, WriteFocusEffect
    <2>5. /\ DOMAIN threads' = DOMAIN threads
          /\ \A j \in DOMAIN threads : /\ threads'[j].port = threads[j].port
                                       /\ threads'[j].focused = IF j = p THEN 0 ELSE threads[j].focused
        BY <2>4 DEF SameThreads
    <2>6. \A i1, j1 \in DOMAIN threads : threads[i1].port = threads[j1].port => i1 = j1
        BY DEF ListInv
    <2>7. OneFocus(threads')
        BY <2>2, <2>5 DEF OneFocus
    <2>8. c # "main" => HasFocus(threads')
        BY <2>2, <2>5 DEF HasFocus
    <2>9. c # "main" => \A j \in DOMAIN threads' : threads'[j].port = r.port => threads'[j].focused = 1
        BY <2>2, <2>5, <2>6
    <2>10. Stage(threads', c, r)
        BY <1>21, <2>8, <2>9 DEF Stage
    <2>11. Owned'
        BY <1>15, <1>21, <2>8
    <2> QED
        BY <1>16, <2>4, <2>7, <2>10, <2>11
<1> QED
    BY <1>3, <1>17, <1>18, <1>19, <1>20, <1>21

\* The callers of set_focused_thread find the focus as they left it.
LEMMA EntryKeeps ==
    ASSUME AliveInv, SnapshotInv, ListInv, CallInv, FetchInv, FocusInv, ~clash, ~clash', [Next]_vars,
           \/ \E ID \in DOMAIN threads : thread_select(ID)
           \/ thread_selected \/ (\E t \in Alive : handle_exception(t)) \/ refetch_focused
           \/ check_focus \/ refocused
    PROVE  FocusInv'
<1>1. threads' = threads /\ alive' = alive /\ selected' = selected
    BY DEF thread_select, thread_selected, handle_exception, refetch_focused, check_focus,
        refocused, listVars
<1>2. Alive' = Alive /\ SameThreads(threads, threads) /\ SameFocus(threads, threads')
      /\ threads \in Seq(Machthread)
    BY <1>1 DEF Alive, SameThreads, SameFocus, ListInv
<1>3. /\ \A d, e \in Callers : Changing(d) /\ Changing(e) => d = e
      /\ (\A d \in Callers : ~At(d, "clear")) => OneFocus(threads)
      /\ \A d \in Callers : Stage(threads, d, call[d])
      /\ Owned
    BY FocusParts
<1>4. "main" \in Callers /\ "server" \in Callers /\ "monitor" \in Callers
    BY DEF Callers
<1>5. call \in [Callers -> CallRec]
    BY DEF CallInv, HeldInv
<1>6. ASSUME NEW c \in Callers, \A d \in Callers \ {c} : ~Changing(d), ~At(c, "clear")
      PROVE  OneFocus(threads)
    BY <1>3, <1>6 DEF Changing, At
<1>7. ASSUME NEW c \in Callers, At(c, "look")
      PROVE  (\A d \in Callers \ {c} : ~Changing(d)) /\ OneFocus(threads)
    <2>1. Changing(c) /\ ~At(c, "clear")
        BY <1>7 DEF Changing, At
    <2> QED
        BY <1>3, <1>6, <2>1
<1>8. Idle.pc = "idle" /\ \A c : Stage(threads, c, Idle)
    BY StageOther DEF Idle
<1>9. ASSUME NEW ID \in DOMAIN threads, thread_select(ID)
      PROVE  FocusInv'
    <2>1. PICK r \in CallRec : /\ call' = [call EXCEPT !["main"] = r] /\ r.pc = "prev"
                               /\ At("main", "idle")
        BY <1>9, EntryEffect
    <2>2. \A d \in Callers \ {"main"} : ~Changing(d)
        BY <1>9 DEF thread_select, Enter
    <2>3. OneFocus(threads)
        BY <1>4, <1>6, <2>1, <2>2 DEF At
    <2>4. Stage(threads, "main", r)
        BY <2>1 DEF Stage, Decided
    <2>5. Owned'
        <3>1. monitor' = monitor /\ up' = up /\ ~At("main", "look") /\ ~At("main", "look")'
            BY <1>4, <1>5, <1>9, <2>1 DEF thread_select, At, listVars
        <3> QED
            BY <1>1, <1>2, <1>3, <3>1 DEF Owned
    <2> QED
        BY <1>1, <1>2, <1>4, <2>1, <2>2, <2>3, <2>4, <2>5, FocusMoved
<1>10. CASE thread_selected
    <2>1. call' = [call EXCEPT !["main"] = Idle] /\ At("main", "look") /\ (up' => HasFocus(threads))
        BY <1>10, EntryEffect
    <2>2. (\A d \in Callers \ {"main"} : ~Changing(d)) /\ OneFocus(threads)
        BY <1>4, <1>7, <2>1
    <2>3. Owned'
        <3>1. monitor' = monitor
            BY <1>10 DEF thread_selected, listVars
        <3> QED
            BY <1>1, <1>2, <1>3, <2>1, <3>1 DEF Owned
    <2> QED
        BY <1>1, <1>2, <1>4, <1>8, <2>1, <2>2, <2>3, FocusMoved
<1>11. ASSUME NEW t \in Alive, handle_exception(t)
       PROVE  FocusInv'
    <2>0. t \in Ports
        BY AlivePorts
    <2>1. PICK r \in CallRec :
                    /\ call' = [call EXCEPT !["server"] = r] /\ r.port = t /\ At("server", "idle")
                    /\ \/ /\ r.pc = "record" /\ r.new \in DOMAIN threads
                          /\ threads[r.new].port = t /\ clash' = clash
                       \/ /\ r.pc = "prev"
                          /\ \/ NoFocus(threads)
                             \/ \E i \in DOMAIN threads : /\ threads[i].focused = 1
                                                          /\ threads[i].port # t
                          /\ clash' = (clash \/ \E d \in Callers \ {"server"} : Changing(d))
        BY <1>11, <2>0, EntryEffect
    <2>2. monitor' = monitor /\ up' = up
        BY <1>11 DEF handle_exception, listVars
    <2>3. CASE r.pc = "record" /\ threads[r.new].port = t
        <3>1. ~Changing("server") /\ Followed(threads', r)
            BY <1>1, <2>1, <2>3 DEF Changing, At, Followed
        <3> QED
            BY <1>1, <1>2, <1>4, <2>1, <2>2, <2>3, <3>1, FocusQuiet
    <2>4. CASE /\ r.pc = "prev"
               /\ NoFocus(threads) \/ \E i \in DOMAIN threads : /\ threads[i].focused = 1
                                                                /\ threads[i].port # t
               /\ clash' = (clash \/ \E d \in Callers \ {"server"} : Changing(d))
        <3>1. \A d \in Callers \ {"server"} : ~Changing(d)
            BY <2>4
        <3>2. OneFocus(threads)
            BY <1>4, <1>6, <2>1, <3>1 DEF At
        <3>3. \A i \in DOMAIN threads : threads[i].port = t => threads[i].focused = 0
            BY <1>2, <2>4, <3>2, Places DEF NoFocus, OneFocus
        <3>4. Stage(threads, "server", r) /\ Followed(threads', r)
            BY <2>1, <2>4, <3>3 DEF Stage, Decided, Followed
        <3>5. Owned'
            <4>1. At("main", "look")' <=> At("main", "look")
                BY <1>4, <1>5, <2>1 DEF At
            <4> QED
                BY <1>1, <1>2, <1>3, <2>2, <4>1 DEF Owned
        <3> QED
            BY <1>1, <1>2, <1>4, <2>1, <3>1, <3>2, <3>4, <3>5, FocusMoved
    <2> QED
        BY <2>1, <2>3, <2>4
<1>12. CASE refetch_focused
    <2>1. /\ At("server", "look")
          /\ \/ call' = [call EXCEPT !["server"] = Idle]
             \/ \E r \in CallRec :
                  /\ call' = [call EXCEPT !["server"] = r] /\ r.port = call["server"].port
                  /\ r.pc = "record" /\ r.new \in DOMAIN threads
                  /\ threads[r.new].focused = 1
        BY <1>12, EntryEffect
    <2>2. monitor' = monitor /\ up' = up
        BY <1>12 DEF refetch_focused, listVars
    <2>3. (\A d \in Callers \ {"server"} : ~Changing(d)) /\ OneFocus(threads)
        BY <1>4, <1>7, <2>1
    <2>4. ASSUME NEW r, call' = [call EXCEPT !["server"] = r]
          PROVE  Owned'
        <3>1. At("main", "look")' <=> At("main", "look")
            BY <1>4, <1>5, <2>4 DEF At
        <3> QED
            BY <1>1, <1>2, <1>3, <2>2, <3>1 DEF Owned
    <2>5. CASE call' = [call EXCEPT !["server"] = Idle]
        <3>1. Followed(threads', Idle)
            BY <1>8 DEF Followed
        <3> QED
            BY <1>1, <1>2, <1>4, <1>8, <2>3, <2>4, <2>5, <3>1, FocusMoved
    <2>6. ASSUME NEW r \in CallRec,
                 /\ call' = [call EXCEPT !["server"] = r] /\ r.port = call["server"].port
                 /\ r.pc = "record" /\ r.new \in DOMAIN threads
                 /\ threads[r.new].focused = 1
          PROVE  FocusInv'
        <3>1. \A i \in DOMAIN threads : threads[i].port = r.port => threads[i].focused = 1
            BY <1>3, <1>4, <2>1, <2>6 DEF Stage, At
        <3>2. r.port \in Listed(threads) => threads[r.new].port = r.port
            BY <2>3, <2>6, <3>1 DEF Listed, OneFocus
        <3>3. Followed(threads', r)
            BY <1>1, <3>2 DEF Followed
        <3>4. Stage(threads', "server", r)
            BY <2>6, StageOther
        <3> QED
            BY <1>1, <1>2, <1>4, <2>3, <2>4, <2>6, <3>3, <3>4, FocusMoved
    <2> QED
        BY <2>1, <2>5, <2>6
<1>13. CASE check_focus
    <2>1. monitor = "rebuilt" /\ up' = up
        BY <1>13 DEF check_focus
    <2>2. CASE monitor' = "focused" /\ call' = call /\ clash' = clash /\ HasFocus(threads)
        <3>1. Owned'
            BY <1>1, <2>2 DEF Owned
        <3>2. Followed(threads, call["server"])
            BY FocusParts
        <3> QED
            BY <1>1, <1>3, <2>2, <3>1, <3>2, FocusPartsNext DEF Changing, At
    <2>3. CASE /\ monitor' = "unfocused" /\ NoFocus(threads)
               /\ \E r \in CallRec : /\ call' = [call EXCEPT !["monitor"] = r]
                                     /\ r.pc = "prev" /\ r.port = snapshot[1]
               /\ clash' = (clash \/ \E d \in Callers \ {"monitor"} : Changing(d))
        <3>1. PICK r \in CallRec : /\ call' = [call EXCEPT !["monitor"] = r]
                                   /\ r.pc = "prev" /\ r.port = snapshot[1]
            BY <2>3
        <3>2. \A d \in Callers \ {"monitor"} : ~Changing(d)
            BY <2>3
        <3>3. OneFocus(threads) /\ ~HasFocus(threads)
            BY <2>3 DEF NoFocus, OneFocus, HasFocus
        <3>4. r.port \in Listed(threads)
            <4>1. 1 \in DOMAIN threads
                BY <1>2, Places DEF ListInv
            <4>2. threads[1].port = snapshot[1]
                BY <2>1, <4>1 DEF FetchInv, Updating
            <4> QED
                BY <3>1, <4>1, <4>2 DEF Listed
        <3>5. Stage(threads, "monitor", r)
            BY <2>3, <3>1, <3>4 DEF Stage, Decided
        <3>6. Owned'
            <4>1. up
                BY <2>1, <2>3, StepsWhileUp
            <4>2. ~At("main", "look")
                BY <1>4, <3>2 DEF Changing, At
            <4>3. selected \notin Alive
                BY <1>3, <2>1, <3>3, <4>1, <4>2 DEF Owned
            <4> QED
                BY <1>1, <1>2, <2>3, <4>3 DEF Owned
        <3> QED
            BY <1>1, <1>2, <1>4, <3>1, <3>2, <3>3, <3>5, <3>6, FocusMoved
    <2> QED
        BY <1>13, <2>2, <2>3, EntryEffect
<1>14. CASE refocused
    <2>1. /\ call' = [call EXCEPT !["monitor"] = Idle] /\ At("monitor", "look")
          /\ monitor' = "focused"
        BY <1>14 DEF refocused
    <2>2. (\A d \in Callers \ {"monitor"} : ~Changing(d)) /\ OneFocus(threads)
        BY <1>4, <1>7, <2>1
    <2>3. HasFocus(threads)
        BY <1>3, <1>4, <2>1 DEF Stage, At
    <2>4. Owned'
        BY <1>1, <2>1, <2>3 DEF Owned
    <2> QED
        BY <1>1, <1>2, <1>4, <1>8, <2>1, <2>2, <2>4, FocusMoved
<1> QED
    BY <1>9, <1>10, <1>11, <1>12, <1>13, <1>14

\* A rebuild leaves at most one thread focused, the one that had the focus if
\* it lives, and no pointer to the list.
LEMMA RebuildFocus ==
    ASSUME AliveInv, SnapshotInv, ListInv, CallInv, FetchInv, ~clash', update_thread_list
    PROVE  FocusInv'
<1>1. /\ monitor = "fetched" /\ monitor' = "rebuilt" /\ selected' = focused_th_port
      /\ call' = [c \in Callers |-> [call[c] EXCEPT !.prev = Freed(@), !.new = Freed(@)]]
      /\ clash' = \E c \in Callers : Changing(c)
    BY Zenon DEF update_thread_list
<1>2. alive' = alive /\ Alive' = Alive
    BY UpdateFrame DEF Alive
<1>3. /\ call \in [Callers -> CallRec] /\ "server" \in Callers
      /\ \A c \in Callers : call[c].pc = "record" => call[c].new # 0
    BY DEF CallInv, HeldInv, Callers, At
<1>4. ASSUME NEW c \in Callers
      PROVE  /\ call'[c].pc = call[c].pc /\ call'[c].pc \in {"idle", "record"}
             /\ call'[c].pc = "record" => call'[c].new = Dangling
    <2>1. call'[c] = [call[c] EXCEPT !.prev = Freed(@), !.new = Freed(@)] /\ call[c] \in CallRec
        BY <1>1, <1>3
    <2>2. call'[c].pc = call[c].pc /\ call'[c].new = Freed(call[c].new)
        BY <2>1 DEF CallRec
    <2>3. call[c].pc \in PCs /\ ~Changing(c)
        BY <1>1, <2>1 DEF CallRec
    <2> QED
        BY <1>3, <2>2, <2>3 DEF Changing, PCs, Freed
<1>5. /\ DOMAIN threads' = DOMAIN snapshot
      /\ \A i \in DOMAIN threads' :
            threads'[i].focused = IF snapshot[i] = focused_th_port THEN 1 ELSE 0
    BY Rebuild
<1>6. OneFocus(threads')
    BY <1>5 DEF OneFocus, SnapshotInv
<1>7. focused_th_port \in Alive => HasFocus(threads')
    <2>1. focused_th_port \in Alive =>
            \E i \in DOMAIN threads : threads[i].port = focused_th_port
        BY AlivePorts, FocusedPort DEF ListInv
    <2>2. focused_th_port \in Alive => \E j \in DOMAIN snapshot : snapshot[j] = focused_th_port
        BY <1>1, <2>1 DEF FetchInv
    <2> QED
        BY <1>5, <2>2 DEF HasFocus
<1>8. Owned'
    BY <1>1, <1>2, <1>7 DEF Owned
<1>9. \A c, d \in Callers : Changing(c)' /\ Changing(d)' => c = d
    BY <1>4 DEF Changing
<1>10. \A c \in Callers : Stage(threads', c, call'[c])
    BY <1>4, StageOther
<1>11. Followed(threads', call'["server"])
    BY <1>3, <1>4 DEF Followed
<1> QED
    BY <1>6, <1>8, <1>9, <1>10, <1>11, FocusPartsNext

\* The focus is where the one caller that is at it has brought it.
LEMMA FocusStep ==
    ASSUME AliveInv, SnapshotInv, ListInv, CallInv, FetchInv, FocusInv, [Next]_vars
    PROVE  FocusInv'
<1>1. SUFFICES ASSUME ~clash'
               PROVE  FocusInv'
    BY DEF FocusInv
<1>2. \A x \in Ports : x <= born /\ x \in Alive' => x \in Alive
    BY AliveFacts
<1>3. selected \in Alive' => selected \in Alive
    <2>1. selected \in Ports \cup {None} /\ selected <= born
        BY DEF CallInv, HistoryInv
    <2>2. None \notin Alive'
        <3>1. alive' \in Seq(Ports)
            BY AliveEffect DEF AliveInv
        <3>2. \A i \in DOMAIN alive' : alive'[i] \in Ports
            BY <3>1, PortPlaces
        <3> QED
            BY <3>2, PortsAreNumbers DEF Alive, ToSet, None
    <2> QED
        BY <1>2, <2>1, <2>2
<1>4. CASE /\ call' = call /\ threads' = threads /\ clash' = clash /\ up' = up
           /\ monitor' = monitor \/ (monitor' \notin {"rebuilt", "unfocused"}
                                     /\ monitor \notin {"rebuilt", "unfocused"})
           /\ selected' = selected \/ monitor' = "waiting"
    <2>1. /\ \A c, d \in Callers : Changing(c) /\ Changing(d) => c = d
          /\ (\A c \in Callers : ~At(c, "clear")) => OneFocus(threads)
          /\ \A c \in Callers : Stage(threads, c, call[c])
          /\ Owned
          /\ Followed(threads, call["server"])
        BY <1>1, <1>4, FocusParts
    <2>2. Owned'
        BY <1>3, <1>4, <2>1 DEF Owned, At
    <2> QED
        BY <1>1, <1>4, <2>1, <2>2, FocusPartsNext DEF Changing, At
<1>5. CASE Birth \/ (\E n \in DOMAIN alive : Death(n)) \/ PointSteps \/ UNCHANGED vars
    BY <1>4, <1>5, DebuggeeFrame, PointFrame, StutterFrame DEF focusVars
<1>6. CASE get_threads \/ AdjustStep
    <2>1. ~update_thread_list
        BY <1>6 DEF get_threads, AdjustStep, adjust_breakpoints, adjust_watchpoints, update_thread_list
    <2>2. /\ monitor \notin {"rebuilt", "unfocused"} /\ monitor' \notin {"rebuilt", "unfocused"}
          /\ selected' = selected \/ monitor' = "waiting"
        BY <1>6 DEF get_threads, AdjustStep, adjust_breakpoints, adjust_watchpoints, focusVars
    <2> QED
        BY <1>4, <1>6, <2>1, <2>2, UpdateFrame
<1>7. CASE update_thread_list
    BY <1>1, <1>7, RebuildFocus
<1>8. CASE FocusSteps \/ StateSteps
    <2>1. ~clash
        <3>1. clash' = clash \/ \E c \in Callers : Enter(c)
            BY <1>8 DEF FocusSteps, StateSteps, thread_select, set_focused_thread, thread_selected,
                prepared, handle_exception, refetch_focused, check_focus, refocused, prepare,
                handled, Callers
        <3> QED
            BY <1>1, <3>1 DEF Enter
    <2>2. CASE \E c \in Callers : set_focused_thread(c)
        BY <2>1, <2>2, SetFocusKeeps
    <2>3. CASE \/ \E ID \in DOMAIN threads : thread_select(ID)
               \/ thread_selected \/ (\E t \in Alive : handle_exception(t)) \/ refetch_focused
               \/ check_focus \/ refocused
        BY <1>1, <2>1, <2>3, EntryKeeps
    <2>4. ASSUME NEW c \in Callers, NEW v \in {0, 1}, Record(c, v), monitor' = monitor,
                 selected' = selected, alive' = alive, up' = up
          PROVE  FocusInv'
        <3>1. /\ SameFocus(threads, threads') /\ call' = [call EXCEPT ![c] = Idle]
            BY <2>4, RecordEffect DEF SameFocus
        <3>2. ~Changing(c) /\ Idle.pc = "idle" /\ Followed(threads', Idle) /\ Alive' = Alive
            BY <2>4 DEF Record, At, Changing, Idle, Followed, Alive
        <3> QED
            BY <1>1, <2>1, <2>4, <3>1, <3>2, FocusQuiet
    <2>5. CASE prepared
        BY <2>4, <2>5 DEF prepared, Callers
    <2>6. CASE \E v \in {0, 1}, ss \in BOOLEAN : handled(v, ss)
        BY <2>4, <2>6 DEF handled, Callers
    <2>7. CASE prepare
        <3>1. /\ monitor' = monitor /\ selected' = selected /\ alive' = alive /\ threads' = threads
              /\ clash' = clash
            BY <2>7, Zenon DEF prepare, listVars
        <3>2. Alive' = Alive /\ SameFocus(threads, threads')
            BY <3>1 DEF Alive, SameFocus, SameThreads, ListInv
        <3>3. up
            <4>1. CASE UNCHANGED vars
                BY <2>7, <4>1 DEF prepare, vars, focusVars, Called, CallInv, HistoryInv
            <4>2. CASE Next
                BY <4>2 DEF Next
            <4> QED
                BY <4>1, <4>2
        <3>4. CASE call' = call
            <4>1. /\ \A c, d \in Callers : Changing(c) /\ Changing(d) => c = d
                  /\ (\A c \in Callers : ~At(c, "clear")) => OneFocus(threads)
                  /\ \A c \in Callers : Stage(threads, c, call[c])
                  /\ Owned
                  /\ Followed(threads, call["server"])
                BY <2>1, FocusParts
            <4>2. Owned'
                BY <3>1, <3>2, <3>3, <3>4, <4>1 DEF Owned, At
            <4> QED
                BY <1>1, <3>1, <3>4, <4>1, <4>2, FocusPartsNext DEF Changing, At
        <3>5. CASE \E r \in CallRec : /\ call' = [call EXCEPT !["main"] = r]
                                      /\ r.pc = "record" /\ r.new \in DOMAIN threads
            <4>1. ~Changing("main") /\ "main" \in Callers
                BY <2>7, EntryEffect DEF Changing, At, Callers
            <4> QED
                BY <1>1, <2>1, <3>1, <3>2, <3>3, <3>5, <4>1, FocusQuiet
        <3> QED
            BY <2>7, <3>4, <3>5, EntryEffect
    <2> QED
        BY <1>8, <2>2, <2>3, <2>5, <2>6, <2>7 DEF FocusSteps, StateSteps
<1> QED
    BY <1>5, <1>6, <1>7, <1>8, StepKinds

\* What is recorded for a thread is in its struct, if it has one.
LEMMA RecordStep ==
    ASSUME AliveInv, SnapshotInv, ListInv, CallInv, FetchInv, RecordInv, [Next]_vars
    PROVE  RecordInv'
<1>1. /\ \A x \in Ports : x <= born /\ x \in Alive' => x \in Alive
      /\ born \in Nat /\ born' \in Nat /\ born <= born'
    BY AliveFacts
<1>2. /\ \A i \in DOMAIN threads : /\ threads[i].port \in Ports /\ threads[i].port <= born
                                   /\ threads[i].excinfo \in {0, 1}
      /\ \A i, j \in DOMAIN threads : threads[i].port = threads[j].port => i = j
      /\ \A p \in Ports : p \in Nat
    BY Places, PortsAreNumbers DEF ListInv
<1>3. /\ \A i \in DOMAIN threads : recorded[threads[i].port] \in {threads[i].excinfo, Unknown}
      /\ \A p \in Ports : recorded[p] # 0 =>
            \/ p \in Listed(threads)
            \/ /\ p <= born /\ p \notin Alive
               /\ \A i \in DOMAIN snapshot : snapshot[i] # p
    BY DEF RecordInv, RecordsKept
<1>4. recorded \in [Ports -> {0, 1, Unknown}]
    BY DEF CallInv, HistoryInv
<1>5. ASSUME SameThreads(threads, threads'),
             \A i \in DOMAIN threads :
                recorded'[threads[i].port] \in {threads'[i].excinfo, Unknown},
             \A p \in Ports : p \notin Listed(threads) => recorded'[p] = recorded[p],
             snapshot' \in {snapshot, alive, <<>>}
      PROVE  RecordInv'
    <2>1. Listed(threads') = Listed(threads)
        BY <1>5 DEF SameThreads, Listed
    <2>2. RecordsKept'
        BY <1>5 DEF RecordsKept, SameThreads
    <2>3. \A i \in DOMAIN snapshot' : snapshot'[i] \in Alive \/ \E j \in DOMAIN snapshot : snapshot'[i] = snapshot[j]
        BY <1>5 DEF Alive, ToSet
    <2>4. ASSUME NEW p \in Ports, recorded'[p] # 0, p \notin Listed(threads)
          PROVE  /\ p <= born' /\ p \notin Alive' /\ \A i \in DOMAIN snapshot' : snapshot'[i] # p
        <3>1. p <= born /\ p \notin Alive /\ \A i \in DOMAIN snapshot : snapshot[i] # p
            BY <1>3, <1>5, <2>4
        <3> QED
            BY <1>1, <1>2, <2>3, <3>1
    <2> QED
        BY <2>1, <2>2, <2>4 DEF RecordInv
<1>6. CASE threads' = threads /\ recorded' = recorded /\ snapshot' \in {snapshot, alive, <<>>}
    <2>1. SameThreads(threads, threads')
        BY <1>6 DEF SameThreads, ListInv
    <2> QED
        BY <1>3, <1>5, <1>6, <2>1
<1>7. CASE Birth \/ (\E n \in DOMAIN alive : Death(n)) \/ PointSteps \/ UNCHANGED vars
    BY <1>6, <1>7, DebuggeeFrame, PointFrame, StutterFrame DEF focusVars
<1>8. CASE get_threads \/ AdjustStep
    <2>1. ~update_thread_list
        BY <1>8 DEF get_threads, AdjustStep, adjust_breakpoints, adjust_watchpoints, update_thread_list
    <2>2. snapshot' \in {snapshot, alive, <<>>}
        BY <1>8 DEF get_threads, AdjustStep, adjust_breakpoints, adjust_watchpoints
    <2> QED
        BY <1>6, <1>8, <2>1, <2>2, UpdateFrame
<1>9. CASE FocusSteps \/ StateSteps
    <2>1. SameThreads(threads, threads') /\ snapshot' = snapshot
        BY <1>9, FocusOnly, FocusFrame, StateFrame
    <2>2. CASE /\ recorded' = recorded
               /\ \A j \in DOMAIN threads : threads'[j].excinfo = threads[j].excinfo
        BY <1>3, <1>5, <2>1, <2>2
    <2>3. ASSUME NEW i \in DOMAIN threads, NEW v \in {0, 1}, NEW x \in {0, 1, Unknown},
                 /\ x \in {v, Unknown}
                 /\ \A j \in DOMAIN threads :
                        threads'[j].excinfo = IF j = i THEN v ELSE threads[j].excinfo
                 /\ recorded' = [recorded EXCEPT ![threads[i].port] = x]
          PROVE  RecordInv'
        <3>1. \A p \in Ports : recorded'[p] = IF p = threads[i].port THEN x ELSE recorded[p]
            BY <1>4, <2>3
        <3>2. \A j \in DOMAIN threads : recorded'[threads[j].port] \in {threads'[j].excinfo, Unknown}
            BY <1>2, <1>3, <2>3, <3>1
        <3>3. \A p \in Ports : p \notin Listed(threads) => recorded'[p] = recorded[p]
            BY <3>1 DEF Listed
        <3> QED
            BY <1>5, <2>1, <3>2, <3>3
    <2> QED
        BY <1>9, <2>2, <2>3, RecordedEffect
<1>10. CASE update_thread_list
    <2>1. /\ recorded' = [p \in Ports |-> IF p \in Losing THEN Unknown ELSE recorded[p]]
          /\ monitor = "fetched" /\ snapshot' = snapshot
        BY <1>10, Zenon DEF update_thread_list
    <2>2. alive' = alive /\ born' = born /\ Alive' = Alive
        BY <1>10, UpdateFrame DEF Alive
    <2>3. /\ DOMAIN threads' = DOMAIN snapshot
          /\ \A i \in DOMAIN threads' :
                /\ threads'[i].port = snapshot[i]
                /\ \/ /\ \A j \in DOMAIN threads : threads[j].port # snapshot[i]
                      /\ threads'[i].excinfo = 0
                   \/ \E j \in DOMAIN threads : /\ threads[j].port = snapshot[i]
                                                /\ threads'[i].excinfo = threads[j].excinfo
        BY <1>10, Rebuild
    <2>4. \A i \in DOMAIN snapshot : snapshot[i] \in Ports
        BY PortPlaces DEF SnapshotInv
    <2>5. Losing \subseteq Listed(threads)
        <3>1. ASSUME NEW c \in Callers, At(c, "record"), call[c].new # Dangling
              PROVE  threads[call[c].new].port \in Listed(threads)
            <4>1. call[c] \in CallRec /\ call[c].new # 0
                BY <3>1 DEF CallInv, HeldInv
            <4>2. call[c].new \in DOMAIN threads
                BY <3>1, <4>1 DEF CallRec
            <4> QED
                BY <4>2 DEF Listed
        <3> QED
            BY <3>1 DEF Losing
    <2>6. ASSUME NEW i \in DOMAIN threads'
          PROVE  recorded'[threads'[i].port] \in {threads'[i].excinfo, Unknown}
        <3>1. snapshot[i] \in Ports /\ threads'[i].port = snapshot[i]
            BY <2>3, <2>4
        <3>2. CASE snapshot[i] \in Losing
            BY <2>1, <3>1, <3>2
        <3>3. CASE snapshot[i] \notin Losing
            <4>1. recorded'[threads'[i].port] = recorded[snapshot[i]]
                BY <2>1, <3>1, <3>3
            <4>2. CASE /\ \A j \in DOMAIN threads : threads[j].port # snapshot[i]
                       /\ threads'[i].excinfo = 0
                <5>1. snapshot[i] \notin Listed(threads)
                    BY <4>2 DEF Listed
                <5>2. recorded[snapshot[i]] = 0
                    BY <1>3, <2>3, <3>1, <5>1
                <5> QED
                    BY <4>1, <4>2, <5>2
            <4>3. CASE \E j \in DOMAIN threads : /\ threads[j].port = snapshot[i]
                                                 /\ threads'[i].excinfo = threads[j].excinfo
                BY <1>3, <4>1, <4>3
            <4> QED
                BY <2>3, <4>2, <4>3
        <3> QED
            BY <3>2, <3>3
    <2>7. ASSUME NEW p \in Ports, recorded'[p] # 0, p \notin Listed(threads')
          PROVE  p <= born /\ p \notin Alive /\ \A i \in DOMAIN snapshot : snapshot[i] # p
        <3>1. \A i \in DOMAIN snapshot : snapshot[i] # p
            BY <2>3, <2>7 DEF Listed
        <3>2. CASE p \in Listed(threads)
            <4>1. PICK j \in DOMAIN threads : threads[j].port = p
                BY <3>2 DEF Listed
            <4>2. p \notin Alive
                BY <2>1, <3>1, <4>1 DEF FetchInv
            <4> QED
                BY <1>2, <3>1, <4>1, <4>2
        <3>3. CASE p \notin Listed(threads)
            <4>1. recorded[p] # 0
                BY <2>1, <2>5, <2>7, <3>3
            <4> QED
                BY <1>3, <3>3, <4>1
        <3> QED
            BY <3>2, <3>3
    <2> QED
        BY <2>1, <2>2, <2>6, <2>7 DEF RecordInv, RecordsKept
<1> QED
    BY <1>7, <1>8, <1>9, <1>10, StepKinds

----------------------------------------------------------------------------
(* The points.                                                             *)

RegFiles == [Ports -> [Kinds -> [Regs -> 0 .. MaxPoints]]]

\* The bounds are numbers, and the ids of points are not None.
LEMMA PointNumbers ==
    /\ NumRegs \in Nat /\ MaxPoints \in Nat /\ Regs \subseteq Nat /\ Gone \notin Nat
    /\ \A p \in Point : /\ p.kind \in Kinds /\ p.reg \in Regs /\ p.id \in 1 .. MaxPoints
                        /\ p.id \in 0 .. MaxPoints /\ p.id # None /\ p.id \in Nat
                        /\ p.all \in BOOLEAN /\ p.ID \in Nat
                        /\ p.tid \in Ports \cup {Gone, None} /\ p.disabled \in BOOLEAN
<1>1. NumRegs \in Nat /\ MaxPoints \in Nat /\ Regs \subseteq Nat /\ Gone \notin Nat
    BY CountAssumption DEF Regs, Gone
<1>2. \A i \in 1 .. MaxPoints : i \in 0 .. MaxPoints /\ i # None /\ i \in Nat
    BY <1>1 DEF None
<1> QED
    BY <1>1, <1>2 DEF Point

\* find_ready_reg returns a register that no listed point of the kind has.
LEMMA ReadyReg ==
    ASSUME NEW ps, NEW k, find_ready_reg(ps, k) # -1
    PROVE  /\ find_ready_reg(ps, k) \in Regs
           /\ \A p \in ps : p.kind = k => p.reg # find_ready_reg(ps, k)
<1> DEFINE Free == Regs \ {p.reg : p \in {q \in ps : q.kind = k}}
           S == {r + 1 : r \in Free}
<1>1. find_ready_reg(ps, k) = FirstWhere(S) - 1
    BY DEF find_ready_reg
<1>2. Free \subseteq Nat
    BY PointNumbers
<1>3. \A r \in Free : r \in Regs /\ \A p \in ps : p.kind = k => p.reg # r
    OBVIOUS
<1> HIDE DEF Free
<1>4. S \subseteq Nat \ {0}
    <2>1. \A r \in Nat : r + 1 \in Nat \ {0}
        OBVIOUS
    <2> QED
        BY <1>2, <2>1
<1>5. (FirstWhere(S) = 0 /\ S = {}) \/ FirstWhere(S) \in S
    <2> HIDE DEF S
    <2> QED
        BY <1>4, FirstIsPlace
<1>6. FirstWhere(S) # 0
    BY <1>1
<1>7. FirstWhere(S) - 1 \in Free
    BY <1>2, <1>5, <1>6
<1> QED
    BY <1>1, <1>3, <1>7

\* WriteReg writes one register of the threads that are there.
LEMMA WriteEffect ==
    ASSUME NEW rg \in RegFiles, NEW T, NEW p \in Point, NEW v \in 0 .. MaxPoints
    PROVE  /\ WriteReg(rg, T, p, v) \in RegFiles
           /\ \A t \in Ports, k \in Kinds, r \in Regs :
                WriteReg(rg, T, p, v)[t][k][r] =
                    IF t \in T /\ t \in Alive /\ k = p.kind /\ r = p.reg THEN v ELSE rg[t][k][r]
<1>1. p.kind \in Kinds /\ p.reg \in Regs
    BY PointNumbers
<1> DEFINE w == WriteReg(rg, T, p, v)
<1>2. \A t \in Ports : rg[t] \in [Kinds -> [Regs -> 0 .. MaxPoints]]
    BY DEF RegFiles
<1>3. w = [t \in Ports |-> IF t \in T \cap Alive THEN [rg[t] EXCEPT ![p.kind][p.reg] = v]
                           ELSE rg[t]]
    BY DEF WriteReg, RegFiles
<1>4. ASSUME NEW x \in [Kinds -> [Regs -> 0 .. MaxPoints]]
      PROVE  /\ [x EXCEPT ![p.kind][p.reg] = v] \in [Kinds -> [Regs -> 0 .. MaxPoints]]
             /\ \A k \in Kinds, r \in Regs :
                    [x EXCEPT ![p.kind][p.reg] = v][k][r] =
                        IF k = p.kind /\ r = p.reg THEN v ELSE x[k][r]
    BY <1>1
<1>5. w \in RegFiles
    BY <1>2, <1>3, <1>4 DEF RegFiles
<1>6. ASSUME NEW t \in Ports, NEW k \in Kinds, NEW r \in Regs
      PROVE  w[t][k][r] = IF t \in T /\ t \in Alive /\ k = p.kind /\ r = p.reg THEN v
                          ELSE rg[t][k][r]
    <2>1. CASE t \in T \cap Alive
        <3>1. w[t] = [rg[t] EXCEPT ![p.kind][p.reg] = v]
            BY <1>3, <2>1
        <3> HIDE DEF w
        <3> QED
            BY <1>2, <1>4, <2>1, <3>1
    <2>2. CASE t \notin T \cap Alive
        BY <1>3, <2>2
    <2> QED
        BY <2>1, <2>2
<1> QED
    BY <1>5, <1>6

\* The largest element of a set with one element.
LEMMA MaxOne ==
    ASSUME NEW v \in Nat
    PROVE  Max({v}) = v
BY DEF Max

\* What a new thread gets: the points for every thread that are listed, each
\* in its register.
LEMMA ForNewEffect ==
    ASSUME PointInv, NEW x \in [Kinds -> [Regs -> 0 .. MaxPoints]]
    PROVE  /\ ForNew(x) \in [Kinds -> [Regs -> 0 .. MaxPoints]]
           /\ \A p \in points : p.all => ForNew(x)[p.kind][p.reg] = p.id
           /\ \A k \in Kinds, r \in Regs :
                \/ ForNew(x)[k][r] = x[k][r]
                \/ \E p \in points : p.all /\ p.kind = k /\ p.reg = r /\ ForNew(x)[k][r] = p.id
           /\ \A p \in points : ~p.all => ForNew(x)[p.kind][p.reg] = x[p.kind][p.reg]
<1> DEFINE Here(k, r) == {p.id : p \in {q \in points : q.all /\ q.kind = k /\ q.reg = r}}
           y(k, r) == IF Here(k, r) = {} THEN x[k][r] ELSE Max(Here(k, r))
<1>1. ForNew(x) = [k \in Kinds |-> [r \in Regs |-> y(k, r)]]
    BY DEF ForNew
<1>2. points \subseteq Point /\ \A p, q \in points : p.kind = q.kind /\ p.reg = q.reg => p = q
    BY DEF PointInv, SetPoints
<1>3. ASSUME NEW p \in points, p.all
      PROVE  y(p.kind, p.reg) = p.id
    <2>1. Here(p.kind, p.reg) = {p.id}
        BY <1>2, <1>3
    <2>2. p.id \in Nat
        BY <1>2, PointNumbers
    <2> QED
        BY <2>1, <2>2, MaxOne
<1>4. ASSUME NEW k \in Kinds, NEW r \in Regs, Here(k, r) # {}
      PROVE  \E p \in points : p.all /\ p.kind = k /\ p.reg = r
    BY <1>4
<1>5. ASSUME NEW k \in Kinds, NEW r \in Regs, Here(k, r) = {}
      PROVE  y(k, r) = x[k][r]
    BY <1>5
<1>6. ASSUME NEW p \in points, ~p.all
      PROVE  Here(p.kind, p.reg) = {}
    BY <1>2, <1>6
<1> HIDE DEF y, Here
<1>7. ASSUME NEW k \in Kinds, NEW r \in Regs
      PROVE  \/ y(k, r) = x[k][r]
             \/ \E p \in points : p.all /\ p.kind = k /\ p.reg = r /\ y(k, r) = p.id
    BY <1>3, <1>4, <1>5
<1>8. \A p \in points : p.kind \in Kinds /\ p.reg \in Regs /\ p.id \in 0 .. MaxPoints
    BY <1>2, PointNumbers
<1>9. \A k \in Kinds, r \in Regs : y(k, r) \in 0 .. MaxPoints
    BY <1>7, <1>8
<1>10. \A k \in Kinds, r \in Regs : ForNew(x)[k][r] = y(k, r)
    BY <1>1
<1>11. ForNew(x) \in [Kinds -> [Regs -> 0 .. MaxPoints]]
    BY <1>1, <1>9
<1>12. \A p \in points : p.all => ForNew(x)[p.kind][p.reg] = p.id
    BY <1>3, <1>8, <1>10
<1>13. ASSUME NEW p \in points, ~p.all
       PROVE  ForNew(x)[p.kind][p.reg] = x[p.kind][p.reg]
    <2>1. p.kind \in Kinds /\ p.reg \in Regs /\ Here(p.kind, p.reg) = {}
        BY <1>6, <1>8, <1>13
    <2> QED
        BY <1>5, <1>10, <2>1
<1>14. \A k \in Kinds, r \in Regs :
            \/ ForNew(x)[k][r] = x[k][r]
            \/ \E p \in points : p.all /\ p.kind = k /\ p.reg = r /\ ForNew(x)[k][r] = p.id
    BY <1>7, <1>10
<1> QED
    BY <1>11, <1>12, <1>13, <1>14

\* A point that an adjustment moves to thread t.
MovesTo(p, t) == p \in Wrong(p.kind) /\ t \in Alive /\ threads[Correct(p)].port = t

\* The point with its thread's number and tid.
Corrected(p) == [p EXCEPT !.ID = Correct(p), !.tid = threads[Correct(p)].tid]

\* What an adjustment does: it touches the registers of the points it moves
\* or deletes, sets those it moves on their threads, and otherwise only
\* clears.
LEMMA AdjustEffect ==
    ASSUME PointInv, NEW k \in Kinds, adjust(k)
    PROVE  /\ regs' \in RegFiles
           /\ \A t \in Ports, l \in Kinds, r \in Regs :
                l # k => regs'[t][l][r] = regs[t][l][r]
           /\ \A t \in Ports, r \in Regs :
                (\A p \in points : ~(p.kind = k /\ p.reg = r)) => regs'[t][k][r] = regs[t][k][r]
           /\ \A p \in points, t \in Ports : p.kind = k =>
                /\ MovesTo(p, t) => regs'[t][k][p.reg] = p.id
                /\ ~MovesTo(p, t) => regs'[t][k][p.reg] \in {None, regs[t][k][p.reg]}
                /\ p \notin Wrong(k) \cup Invalid(k) => regs'[t][k][p.reg] = regs[t][k][p.reg]
           /\ points' = {IF p \in Wrong(k) THEN Corrected(p) ELSE p : p \in points \ Invalid(k)}
           /\ rearmed' = (rearmed \/ \E p \in Wrong(k) : p.disabled)
<1> DEFINE moved == Wrong(k)
           gone  == Invalid(k)
           CorrectPort(p) == threads[Correct(p)].port
           FoundPort(p)   == IF Found(p) = 0 THEN None ELSE threads[Found(p)].port
           Put(t, r)   == {p.id : p \in {q \in moved : q.reg = r /\ CorrectPort(q) = t}}
           Clear(t, r) == {q \in moved \cup gone : q.reg = r /\ FoundPort(q) = t}
           After(t, r) ==
               CASE t \in Alive /\ Put(t, r) # {} -> Max(Put(t, r))
                 [] Put(t, r) = {} /\ Clear(t, r) # {} -> None
                 [] OTHER -> regs[t][k][r]
<1>1. regs' = [t \in Ports |-> [regs[t] EXCEPT ![k] = [r \in Regs |-> After(t, r)]]]
    BY Zenon DEF adjust
<1>2. points' = {IF p \in Wrong(k) THEN Corrected(p) ELSE p : p \in points \ Invalid(k)}
    BY Zenon DEF adjust, Corrected
<1>0. rearmed' = (rearmed \/ \E p \in Wrong(k) : p.disabled)
    BY Zenon DEF adjust
<1>3. /\ points \subseteq Point /\ \A p, q \in points : p.kind = q.kind /\ p.reg = q.reg => p = q
      /\ regs \in RegFiles
    BY DEF PointInv, SetPoints, RegFiles
<1>4. \A p \in moved \cup gone : p \in points /\ p.kind = k
    BY DEF Wrong, Invalid
<1> HIDE DEF moved, gone, CorrectPort, FoundPort
<1>5. ASSUME NEW t, NEW r, \A p \in points : ~(p.kind = k /\ p.reg = r)
      PROVE  After(t, r) = regs[t][k][r]
    <2>1. Put(t, r) = {} /\ Clear(t, r) = {}
        BY <1>4, <1>5
    <2> HIDE DEF Put, Clear
    <2> QED
        BY <2>1
<1>6. ASSUME NEW t \in Ports, NEW p \in points, p.kind = k
      PROVE  /\ p \in moved /\ t \in Alive /\ CorrectPort(p) = t => After(t, p.reg) = p.id
             /\ ~(p \in moved /\ t \in Alive /\ CorrectPort(p) = t) =>
                    After(t, p.reg) \in {None, regs[t][k][p.reg]}
             /\ p \notin moved \cup gone => After(t, p.reg) = regs[t][k][p.reg]
    <2>1. \A q \in moved \cup gone : q.reg = p.reg => q = p
        BY <1>3, <1>4, <1>6
    <2>2. CASE p \in moved /\ CorrectPort(p) = t
        <3>1. Put(t, p.reg) = {p.id}
            BY <2>1, <2>2
        <3>2. Max(Put(t, p.reg)) = p.id
            BY <1>3, <3>1, MaxOne, PointNumbers
        <3>3. Put(t, p.reg) # {}
            BY <3>1
        <3> HIDE DEF Put, Clear
        <3>4. CASE t \in Alive
            BY <2>2, <3>2, <3>3, <3>4
        <3>5. CASE t \notin Alive
            BY <2>2, <3>3, <3>5
        <3> QED
            BY <3>4, <3>5
    <2>3. CASE ~(p \in moved /\ CorrectPort(p) = t)
        <3>1. Put(t, p.reg) = {}
            BY <2>1, <2>3
        <3>2. p \notin moved \cup gone => Clear(t, p.reg) = {}
            BY <2>1
        <3> HIDE DEF Put, Clear
        <3>3. CASE Clear(t, p.reg) = {}
            BY <2>3, <3>1, <3>3
        <3>4. CASE Clear(t, p.reg) # {}
            BY <2>3, <3>1, <3>2, <3>4
        <3> QED
            BY <3>3, <3>4
    <2> QED
        BY <2>2, <2>3
<1> HIDE DEF After
<1>7. \A t \in Ports : regs[t] \in [Kinds -> [Regs -> 0 .. MaxPoints]]
    BY <1>3 DEF RegFiles
<1>8. ASSUME NEW t \in Ports, NEW r \in Regs
      PROVE  After(t, r) \in 0 .. MaxPoints
    <2>1. regs[t][k][r] \in 0 .. MaxPoints /\ None \in 0 .. MaxPoints
        BY <1>7, PointNumbers DEF None
    <2>2. CASE \A p \in points : ~(p.kind = k /\ p.reg = r)
        BY <1>5, <2>1, <2>2
    <2>3. CASE \E p \in points : p.kind = k /\ p.reg = r
        <3>1. PICK p \in points : p.kind = k /\ p.reg = r
            BY <2>3
        <3>2. p.id \in 0 .. MaxPoints
            BY <1>3, PointNumbers
        <3> QED
            BY <1>6, <2>1, <3>1, <3>2
    <2> QED
        BY <2>2, <2>3
<1>9. regs' \in RegFiles
    BY <1>1, <1>7, <1>8 DEF RegFiles
<1>10. ASSUME NEW t \in Ports, NEW l \in Kinds, NEW r \in Regs
       PROVE  regs'[t][l][r] = IF l = k THEN After(t, r) ELSE regs[t][l][r]
    <2>1. regs'[t] = [regs[t] EXCEPT ![k] = [q \in Regs |-> After(t, q)]]
        BY <1>1
    <2> QED
        BY <1>7, <2>1
<1>11. \A p \in points : p.kind \in Kinds /\ p.reg \in Regs
    BY <1>3, PointNumbers
<1> USE DEF moved, gone, CorrectPort, MovesTo
<1> QED
    BY <1>0, <1>2, <1>5, <1>6, <1>9, <1>10, <1>11

\* The new point of point_new has a register that no other point has.
LEMMA NewPoint ==
    ASSUME AliveInv, ListInv, PointInv,
           NEW k \in Kinds, NEW ID \in 0 .. Len(threads), point_new(k, ID)
    PROVE  \E p \in Point :
             /\ linking = {} /\ linking' = {p} /\ p.kind = k /\ p.id = next_id
             /\ \A q \in points : ~(q.kind = p.kind /\ q.reg = p.reg)
             /\ p.all <=> ID = None
             /\ ~p.all => p.ID \in DOMAIN threads /\ p.tid = threads[p.ID].tid
             /\ p.tid <= born /\ ~p.disabled
             /\ regs' = WriteReg(regs, Targets(threads, p), p, p.id)
             /\ Targets(threads, p) = IF p.all THEN Listed(threads) ELSE {threads[p.ID].port}
             /\ next_id' = next_id + 1 /\ next_id' \in 1 .. MaxPoints + 1
<1> DEFINE reg == find_ready_reg(points, k)
           i   == find_thread_from_ID(threads, ID)
           d   == IF ID = None THEN None ELSE threads[i].tid
           p   == [kind |-> k, id |-> next_id, reg |-> reg, all |-> ID = None, ID |-> ID,
                   tid |-> d, disabled |-> FALSE]
<1>1. /\ linking = {} /\ next_id <= MaxPoints /\ reg # -1
      /\ regs' = WriteReg(regs, Targets(threads, p), p, p.id)
      /\ linking' = {p} /\ next_id' = next_id + 1
    BY DEF point_new, MainFree
<1>2. reg \in Regs /\ \A q \in points : q.kind = k => q.reg # reg
    BY <1>1, ReadyReg
<1>3. /\ Len(threads) \in Nat /\ DOMAIN threads = 1 .. Len(threads)
      /\ \A j \in DOMAIN threads : threads[j].tid \in Ports \cup {Gone} /\ threads[j].port \in Ports
    BY Places DEF ListInv
<1>4. ID \in Nat /\ (ID # None => ID \in DOMAIN threads /\ i = ID)
    <2>1. ID \in Nat /\ (ID # 0 => ID \in DOMAIN threads)
        BY <1>3
    <2>2. i = IF ID \in DOMAIN threads THEN ID ELSE 0
        BY FromID DEF ListInv
    <2> QED
        BY <2>1, <2>2 DEF None
<1>5. next_id \in 1 .. MaxPoints /\ next_id + 1 \in 1 .. MaxPoints + 1
    BY <1>1, PointNumbers DEF PointInv
<1>6. d \in Ports \cup {Gone, None} /\ (ID # None => d = threads[ID].tid)
    BY <1>3, <1>4
<1>7. d <= born
    <2>1. born \in Nat
        BY PortsAreNumbers DEF AliveInv
    <2>2. ID # None => threads[ID].tid = Gone \/ (threads[ID].tid = threads[ID].port)
        BY <1>4 DEF ListInv
    <2>3. ID # None => threads[ID].port <= born
        BY <1>4 DEF ListInv
    <2> QED
        BY <1>6, <2>1, <2>2, <2>3 DEF Gone, None
<1> HIDE DEF reg, i, d
<1>8. p \in Point
    BY <1>2, <1>4, <1>5, <1>6 DEF Point
<1>9. p.kind = k /\ p.id = next_id /\ p.reg = reg /\ p.all = (ID = None) /\ p.ID = ID /\ p.tid = d
      /\ p.disabled = FALSE
    OBVIOUS
<1> HIDE DEF p
<1>10. ~p.all => p.ID \in DOMAIN threads /\ p.tid = threads[p.ID].tid
    BY <1>4, <1>6, <1>9
<1>11. Targets(threads, p) = IF p.all THEN Listed(threads) ELSE {threads[p.ID].port}
    <2>1. find_thread_from_ID(threads, p.ID) = IF p.ID \in DOMAIN threads THEN p.ID ELSE 0
        BY FromID DEF ListInv
    <2>2. ~p.all => find_thread_from_ID(threads, p.ID) = p.ID /\ p.ID # 0
        BY <1>4, <1>9, <2>1 DEF None
    <2>3. ~p.all => {find_thread_from_ID(threads, p.ID)} \ {0} = {p.ID}
        BY <2>2
    <2> QED
        BY <2>3 DEF Targets
<1> QED
    BY <1>1, <1>2, <1>5, <1>7, <1>8, <1>9, <1>10, <1>11

\* A number that is corrected is that of a listed thread, and the tid stays.
LEMMA CorrectedPoint ==
    ASSUME ListInv, NEW p \in Point, p \in Wrong(p.kind)
    PROVE  /\ Correct(p) \in DOMAIN threads /\ threads[Correct(p)].tid = p.tid
           /\ Corrected(p) \in Point /\ ~p.all
           /\ Corrected(p).ID = Correct(p) /\ Corrected(p).tid = p.tid
           /\ Corrected(p).kind = p.kind /\ Corrected(p).reg = p.reg
           /\ Corrected(p).id = p.id /\ Corrected(p).all = p.all
           /\ Corrected(p).disabled = p.disabled
<1>1. Correct(p) # 0 /\ ~p.all
    BY DEF Wrong
<1>2. Correct(p) \in DOMAIN threads /\ threads[Correct(p)].tid = p.tid
    BY <1>1, FromTID DEF Correct, ListInv
<1>3. Correct(p) \in Nat
    BY <1>2, Places DEF ListInv
<1> QED
    BY <1>1, <1>2, <1>3 DEF Corrected, Point

\* The points after an adjustment.
LEMMA AdjustedPoints ==
    ASSUME ListInv, PointInv, NEW k \in Kinds, adjust(k)
    PROVE  /\ \A q \in points' : \E p \in points :
                /\ p \notin Invalid(k)
                /\ q = IF p \in Wrong(k) THEN Corrected(p) ELSE p
                /\ q \in Point /\ q.kind = p.kind /\ q.reg = p.reg /\ q.id = p.id
                /\ q.all = p.all /\ q.tid = p.tid /\ q.disabled = p.disabled
           /\ \A p \in points : p \notin Invalid(k) =>
                (IF p \in Wrong(k) THEN Corrected(p) ELSE p) \in points'
<1>1. points' = {IF p \in Wrong(k) THEN Corrected(p) ELSE p : p \in points \ Invalid(k)}
    BY AdjustEffect
<1>2. points \subseteq Point
    BY DEF PointInv
<1>3. \A p \in points : p \in Wrong(k) => p.kind = k
    BY DEF Wrong
<1>4. \A p \in points : p \in Wrong(k) =>
        /\ Corrected(p) \in Point /\ Corrected(p).tid = p.tid
        /\ Corrected(p).kind = p.kind /\ Corrected(p).reg = p.reg
        /\ Corrected(p).id = p.id /\ Corrected(p).all = p.all
        /\ Corrected(p).disabled = p.disabled
    BY <1>2, <1>3, CorrectedPoint
<1>5. ASSUME NEW q \in points'
      PROVE  \E p \in points : p \notin Invalid(k) /\ q = IF p \in Wrong(k) THEN Corrected(p) ELSE p
    BY <1>1
<1>6. ASSUME NEW p \in points, p \notin Invalid(k)
      PROVE  (IF p \in Wrong(k) THEN Corrected(p) ELSE p) \in points'
    BY <1>1, <1>6
<1>7. ASSUME NEW q \in points'
      PROVE  \E p \in points :
                /\ p \notin Invalid(k)
                /\ q = IF p \in Wrong(k) THEN Corrected(p) ELSE p
                /\ q \in Point /\ q.kind = p.kind /\ q.reg = p.reg /\ q.id = p.id
                /\ q.all = p.all /\ q.tid = p.tid /\ q.disabled = p.disabled
    <2>1. PICK p \in points : p \notin Invalid(k) /\ q = IF p \in Wrong(k) THEN Corrected(p) ELSE p
        BY <1>5
    <2> QED
        BY <1>2, <1>4, <2>1
<1> QED
    BY <1>6, <1>7

\* A point after the breakpoints were disabled (b) or enabled.
Reset(p, b) == IF p.kind = "BP" THEN [p EXCEPT !.disabled = b] ELSE p

LEMMA ResetPoint ==
    ASSUME NEW p \in Point, NEW b \in BOOLEAN
    PROVE  /\ Reset(p, b) \in Point
           /\ Reset(p, b).kind = p.kind /\ Reset(p, b).reg = p.reg /\ Reset(p, b).id = p.id
           /\ Reset(p, b).all = p.all /\ Reset(p, b).ID = p.ID /\ Reset(p, b).tid = p.tid
           /\ Reset(p, b).disabled = IF p.kind = "BP" THEN b ELSE p.disabled
BY DEF Reset, Point

\* What disabling or enabling does: it writes the registers of breakpoints,
\* on the threads they have the numbers of.
LEMMA SetStateEffect ==
    ASSUME PointInv, NEW b \in BOOLEAN, set_state_all(b)
    PROVE  /\ regs' \in RegFiles
           /\ \A t \in Ports, k \in Kinds, r \in Regs :
                (\A p \in points : ~(k = "BP" /\ p.kind = k /\ p.reg = r)) =>
                    regs'[t][k][r] = regs[t][k][r]
           /\ \A p \in points, t \in Ports : p.kind = "BP" =>
                regs'[t][p.kind][p.reg] =
                    IF t \in Targets(threads, p) \cap Alive THEN (IF b THEN None ELSE p.id)
                    ELSE regs[t][p.kind][p.reg]
           /\ \A q \in points' : \E p \in points : q = Reset(p, b)
           /\ \A p \in points : Reset(p, b) \in points'
           /\ raced' = (raced \/ Updating)
<1> DEFINE bps == {p \in points : p.kind = "BP"}
           Mine(t, k, r) == {p \in bps : k = "BP" /\ p.reg = r /\ t \in Targets(threads, p) \cap Alive}
           After(t, k, r) ==
               CASE Mine(t, k, r) = {} -> regs[t][k][r]
                 [] b /\ Mine(t, k, r) # {} -> None
                 [] OTHER -> Max({p.id : p \in Mine(t, k, r)})
<1>1. /\ regs' = [t \in Ports |-> [k \in Kinds |-> [r \in Regs |-> After(t, k, r)]]]
      /\ points' = (points \ bps) \cup {[p EXCEPT !.disabled = b] : p \in bps}
      /\ raced' = (raced \/ Updating)
    BY Zenon DEF set_state_all, Raced
<1>2. /\ points \subseteq Point /\ \A p, q \in points : p.kind = q.kind /\ p.reg = q.reg => p = q
      /\ regs \in RegFiles
    BY DEF PointInv, SetPoints, RegFiles
<1>3. ASSUME NEW t, NEW k, NEW r, \A p \in points : ~(k = "BP" /\ p.kind = k /\ p.reg = r)
      PROVE  After(t, k, r) = regs[t][k][r]
    <2>1. Mine(t, k, r) = {}
        BY <1>3
    <2> HIDE DEF Mine
    <2> QED
        BY <2>1
<1>4. ASSUME NEW p \in points, NEW t, p.kind = "BP"
      PROVE  After(t, p.kind, p.reg) =
                IF t \in Targets(threads, p) \cap Alive THEN (IF b THEN None ELSE p.id)
                ELSE regs[t][p.kind][p.reg]
    <2>1. CASE t \in Targets(threads, p) \cap Alive
        <3>1. Mine(t, p.kind, p.reg) = {p}
            BY <1>2, <1>4, <2>1
        <3>2. {q.id : q \in Mine(t, p.kind, p.reg)} = {p.id} /\ Mine(t, p.kind, p.reg) # {}
            BY <3>1
        <3>3. Max({p.id}) = p.id
            BY <1>2, MaxOne, PointNumbers
        <3> HIDE DEF Mine
        <3> QED
            BY <2>1, <3>2, <3>3
    <2>2. CASE t \notin Targets(threads, p) \cap Alive
        <3>1. Mine(t, p.kind, p.reg) = {}
            BY <1>2, <1>4, <2>2
        <3> HIDE DEF Mine
        <3> QED
            BY <2>2, <3>1
    <2> QED
        BY <2>1, <2>2
<1>5. /\ \A q \in points' : \E p \in points : q = Reset(p, b)
      /\ \A p \in points : Reset(p, b) \in points'
    BY <1>1 DEF Reset
<1> HIDE DEF After
<1>6. \A t \in Ports, k \in Kinds, r \in Regs : regs'[t][k][r] = After(t, k, r)
    BY <1>1
<1>7. ASSUME NEW t \in Ports, NEW k \in Kinds, NEW r \in Regs
      PROVE  After(t, k, r) \in 0 .. MaxPoints
    <2>1. regs[t][k][r] \in 0 .. MaxPoints /\ None \in 0 .. MaxPoints
        BY <1>2, PointNumbers DEF RegFiles, None
    <2>2. CASE \A p \in points : ~(k = "BP" /\ p.kind = k /\ p.reg = r)
        BY <1>3, <2>1, <2>2
    <2>3. CASE \E p \in points : k = "BP" /\ p.kind = k /\ p.reg = r
        <3>1. PICK p \in points : p.kind = "BP" /\ p.kind = k /\ p.reg = r
            BY <2>3
        <3>2. p.id \in 0 .. MaxPoints
            BY <1>2, PointNumbers
        <3> QED
            BY <1>4, <2>1, <3>1, <3>2
    <2> QED
        BY <2>2, <2>3
<1>8. regs' \in RegFiles
    BY <1>1, <1>7 DEF RegFiles
<1>9. \A p \in points : p.kind \in Kinds /\ p.reg \in Regs
    BY <1>2, PointNumbers
<1> QED
    BY <1>1, <1>3, <1>4, <1>5, <1>6, <1>8, <1>9

\* Every point keeps a register to itself.
LEMMA PointStep ==
    ASSUME AliveInv, SnapshotInv, ListInv, PointInv, [Next]_vars
    PROVE  PointInv'
<1>1. born \in Nat /\ born' \in Nat /\ born <= born'
    BY AliveFacts
<1>2. \A p \in Point : p.tid \in Int
    <2>1. \A t \in Ports \cup {Gone, None} : t \in Int
        BY PortsAreNumbers DEF Gone, None
    <2> QED
        BY <2>1, PointNumbers
<1>3. regs \in RegFiles
    BY DEF PointInv, RegFiles
<1>4. CASE regs' \in RegFiles /\ points' = points /\ linking' = linking /\ next_id' = next_id
    <2>1. \A p \in SetPoints : p.tid <= born'
        BY <1>1, <1>2 DEF PointInv, SetPoints
    <2> QED
        BY <1>4, <2>1 DEF PointInv, RegFiles, SetPoints
<1>5. CASE Birth \/ FocusSteps \/ get_threads \/ UNCHANGED vars
    BY <1>3, <1>4, <1>5, FocusFrame, UpdateFrame, StutterFrame DEF Birth, pointVars
<1>6. ASSUME NEW n \in DOMAIN alive, Death(n)
      PROVE  PointInv'
    <2>1. alive[n] \in Ports
        BY PortPlaces DEF AliveInv
    <2>2. NoRegs \in [Kinds -> [Regs -> 0 .. MaxPoints]]
        BY PointNumbers DEF NoRegs, None
    <2>3. regs' \in RegFiles
        BY <1>3, <1>6, <2>1, <2>2 DEF Death, RegFiles
    <2> QED
        BY <1>4, <1>6, <2>3 DEF Death
<1>7. ASSUME NEW k \in Kinds, NEW ID \in 0 .. Len(threads), point_new(k, ID)
      PROVE  PointInv'
    <2>1. PICK p \in Point :
             /\ linking = {} /\ linking' = {p}
             /\ \A q \in points : ~(q.kind = p.kind /\ q.reg = p.reg)
             /\ p.tid <= born
             /\ regs' = WriteReg(regs, Targets(threads, p), p, p.id)
             /\ next_id' \in 1 .. MaxPoints + 1
        BY <1>7, NewPoint
    <2>2. regs' \in RegFiles
        BY <1>3, <2>1, WriteEffect, PointNumbers
    <2>3. points' = points /\ born' = born
        BY <1>7 DEF point_new
    <2> QED
        BY <2>1, <2>2, <2>3 DEF PointInv, SetPoints, RegFiles
<1>8. CASE point_link
    BY <1>8 DEF point_link, PointInv, SetPoints
<1>9. ASSUME NEW p \in points, point_delete(p)
      PROVE  PointInv'
    <2>1. regs' \in RegFiles
        <3>1. p \in Point /\ None \in 0 .. MaxPoints
            BY PointNumbers DEF PointInv, None
        <3>2. regs' = WriteReg(regs, Targets(threads, p), p, None)
            BY <1>9 DEF point_delete
        <3> QED
            BY <1>3, <3>1, <3>2, WriteEffect
    <2>2. points' = points \ {p} /\ linking' = linking /\ next_id' = next_id /\ born' = born
        BY <1>9 DEF point_delete
    <2> QED
        BY <2>1, <2>2 DEF PointInv, SetPoints, RegFiles
<1>10. CASE update_thread_list
    <2>1. \A t \in Ports : ForNew(regs[t]) \in [Kinds -> [Regs -> 0 .. MaxPoints]]
        BY <1>3, ForNewEffect DEF RegFiles
    <2>2. regs' \in RegFiles
        BY <1>3, <1>10, <2>1 DEF update_thread_list, RegFiles
    <2>3. points' = points /\ linking' = linking /\ next_id' = next_id
        BY <1>10, Zenon DEF update_thread_list
    <2> QED
        BY <1>4, <2>2, <2>3
<1>11. ASSUME NEW k \in Kinds, adjust(k), linking' = linking, next_id' = next_id, born' = born
       PROVE  PointInv'
    <2>1. regs' \in RegFiles
        BY <1>11, AdjustEffect
    <2>2. \A q \in points' : q \in Point /\ \E p \in points :
                /\ q = IF p \in Wrong(k) THEN Corrected(p) ELSE p
                /\ q.kind = p.kind /\ q.reg = p.reg /\ q.tid = p.tid
        BY <1>11, AdjustedPoints
    <2>3. points' \subseteq Point
        BY <2>2
    <2>4. ASSUME NEW a \in SetPoints', NEW b \in SetPoints', a.kind = b.kind, a.reg = b.reg
          PROVE  a = b
        <3>1. \A p, q \in SetPoints : p.kind = q.kind /\ p.reg = q.reg => p = q
            BY DEF PointInv
        <3>2. CASE a \in points' /\ b \in points'
            <4>1. PICK p \in points : /\ a = IF p \in Wrong(k) THEN Corrected(p) ELSE p
                                      /\ a.kind = p.kind /\ a.reg = p.reg
                BY <2>2, <3>2
            <4>2. PICK q \in points : /\ b = IF q \in Wrong(k) THEN Corrected(q) ELSE q
                                      /\ b.kind = q.kind /\ b.reg = q.reg
                BY <2>2, <3>2
            <4>3. p = q
                BY <2>4, <3>1, <4>1, <4>2 DEF SetPoints
            <4> QED
                BY <4>1, <4>2, <4>3
        <3>3. CASE a \in linking /\ b \in linking
            BY <2>4, <3>1, <3>3 DEF SetPoints
        <3>4. ASSUME NEW x \in points', NEW y \in linking, x.kind = y.kind, x.reg = y.reg
              PROVE  FALSE
            <4>1. PICK p \in points : /\ x = IF p \in Wrong(k) THEN Corrected(p) ELSE p
                                      /\ x.kind = p.kind /\ x.reg = p.reg
                BY <2>2
            <4>2. p = y
                BY <3>1, <3>4, <4>1 DEF SetPoints
            <4> QED
                BY <4>2 DEF PointInv
        <3> QED
            BY <1>11, <2>4, <3>2, <3>3, <3>4 DEF SetPoints
    <2>5. \A q \in SetPoints' : q.tid <= born'
        BY <1>11, <2>2 DEF SetPoints, PointInv
    <2>6. points' \cap linking' = {}
        <3>1. ASSUME NEW x \in points', x \in linking
              PROVE  FALSE
            <4>1. PICK p \in points : x.kind = p.kind /\ x.reg = p.reg
                BY <2>2
            <4> QED
                BY <3>1, <4>1 DEF SetPoints, PointInv
        <3> QED
            BY <1>11, <3>1
    <2> QED
        BY <1>11, <2>1, <2>3, <2>4, <2>5, <2>6 DEF PointInv, RegFiles
<1>12. CASE adjust_breakpoints \/ adjust_watchpoints
    <2>1. /\ linking' = linking /\ next_id' = next_id /\ born' = born
          /\ \/ regs' = regs /\ points' = points
             \/ \E k \in Kinds : adjust(k)
        BY <1>12 DEF adjust_breakpoints, adjust_watchpoints
    <2> QED
        BY <1>3, <1>4, <1>11, <2>1
<1>13. ASSUME NEW b \in BOOLEAN, set_state_all(b), linking' = linking, next_id' = next_id,
              born' = born
       PROVE  PointInv'
    <2>1. regs' \in RegFiles
        BY <1>13, SetStateEffect
    <2>2. \A q \in points' : \E p \in points :
            /\ q = Reset(p, b) /\ q \in Point
            /\ q.kind = p.kind /\ q.reg = p.reg /\ q.tid = p.tid
        BY <1>13, SetStateEffect, ResetPoint DEF PointInv
    <2>3. \A p, q \in SetPoints : p.kind = q.kind /\ p.reg = q.reg => p = q
        BY DEF PointInv
    <2>4. \A x \in SetPoints' : \E p \in SetPoints :
            /\ x = IF p \in points THEN Reset(p, b) ELSE p
            /\ x \in Point /\ x.kind = p.kind /\ x.reg = p.reg /\ x.tid = p.tid
            /\ p \in linking <=> x \in linking
        <3>1. ASSUME NEW x \in points'
              PROVE  \E p \in SetPoints :
                        /\ x = IF p \in points THEN Reset(p, b) ELSE p
                        /\ x \in Point /\ x.kind = p.kind /\ x.reg = p.reg /\ x.tid = p.tid
                        /\ p \in linking <=> x \in linking
            <4>1. PICK p \in points : /\ x = Reset(p, b) /\ x \in Point
                                      /\ x.kind = p.kind /\ x.reg = p.reg /\ x.tid = p.tid
                BY <2>2
            <4>2. p \notin linking /\ p \in SetPoints
                BY DEF PointInv, SetPoints
            <4>3. x \notin linking
                BY <2>3, <4>1, <4>2 DEF SetPoints
            <4> QED
                BY <4>1, <4>2, <4>3
        <3>2. ASSUME NEW x \in linking
              PROVE  x \in SetPoints /\ x \notin points /\ x \in Point
            BY DEF PointInv, SetPoints
        <3> QED
            BY <1>13, <3>1, <3>2 DEF SetPoints
    <2>5. \A x, y \in SetPoints' : x.kind = y.kind /\ x.reg = y.reg => x = y
        BY <2>3, <2>4
    <2>6. \A x \in SetPoints' : x.tid <= born'
        BY <1>13, <2>4 DEF PointInv
    <2>7. points' \cap linking' = {}
        <3>1. ASSUME NEW x \in points', x \in linking
              PROVE  FALSE
            <4>1. PICK p \in points : x.kind = p.kind /\ x.reg = p.reg
                BY <2>2
            <4> QED
                BY <3>1, <4>1 DEF SetPoints, PointInv
        <3> QED
            BY <1>13, <3>1
    <2>8. points' \subseteq Point
        BY <2>2
    <2> QED
        BY <1>13, <2>1, <2>5, <2>6, <2>7, <2>8 DEF PointInv, RegFiles
<1>14. CASE StateSteps
    BY <1>3, <1>4, <1>13, <1>14, StateFrame
<1> QED
    BY <1>5, <1>6, <1>7, <1>8, <1>9, <1>10, <1>12, <1>14, StepKinds DEF PointSteps, AdjustStep

----------------------------------------------------------------------------
(* The points are in the registers of their threads.                       *)

PointsSound == PlacedInv /\ NoStray /\ ArmedInv

\* Threads that live have ports; a listed thread with a port for its tid has
\* its own.
LEMMA Tids ==
    ASSUME AliveInv, ListInv
    PROVE  /\ Alive \subseteq Ports
           /\ \A i \in DOMAIN threads : threads[i].tid \in Ports => threads[i].port = threads[i].tid
           /\ \A i \in DOMAIN threads : threads[i].port \in Alive => threads[i].tid = threads[i].port
           /\ \A t : t \in Listed(threads) <=> \E i \in DOMAIN threads : threads[i].port = t
<1>1. Alive \subseteq Ports
    BY PortPlaces DEF AliveInv, Alive, ToSet
<1>2. Gone \notin Ports
    BY PortsAreNumbers DEF Gone
<1> QED
    BY <1>1, <1>2 DEF ListInv, Listed

\* A step that changes neither the points, the registers nor the threads,
\* and leaves no fewer points to be adjusted.
LEMMA QuietStep ==
    ASSUME PointsSound,
           regs' = regs, SetPoints' = SetPoints, alive' = alive, born' = born,
           SameThreads(threads, threads'), raced => raced', rearmed => rearmed',
           \A p \in SetPoints : ~Unadjusted(p)' => ~Unadjusted(p)
    PROVE  PointsSound'
<1>1. Alive' = Alive
    BY DEF Alive
<1>2. Listed(threads') = Listed(threads)
    BY DEF Listed, SameThreads
<1>3. \A p \in SetPoints : RecordAgrees(p) => RecordAgrees(p)'
    BY DEF RecordAgrees, SameThreads
<1>4. PlacedInv'
    BY <1>1, <1>2, <1>3 DEF PointsSound, PlacedInv, Armed
<1>5. NoStray'
    BY <1>1, <1>2 DEF PointsSound, NoStray
<1>6. ArmedInv'
    BY <1>1, <1>2 DEF PointsSound, ArmedInv, Armed
<1> QED
    BY <1>4, <1>5, <1>6 DEF PointsSound

\* The steps that are quiet.
LEMMA QuietSteps ==
    ASSUME ListInv, CallInv, PointInv, PointsSound, [Next]_vars,
           FocusSteps \/ get_threads \/ point_link \/ UNCHANGED vars
    PROVE  PointsSound'
<1>1. SameThreads(threads, threads')
    BY ListEffect, FocusOnly, UpdateFrame, StutterFrame, PointFrame
        DEF get_threads, point_link, update_thread_list, PointSteps, listVars
<1>2. /\ regs' = regs /\ SetPoints' = SetPoints /\ alive' = alive /\ born' = born
      /\ (raced => raced') /\ (rearmed => rearmed') /\ points \subseteq points'
    BY FocusFrame, UpdateFrame, StutterFrame DEF get_threads, point_link, SetPoints, pointVars
<1>3. \A p \in SetPoints : ~Unadjusted(p)' => ~Unadjusted(p)
    <2>1. \/ monitor' = monitor
          \/ monitor \in {"waiting"}
          \/ monitor \in {"rebuilt", "unfocused"} /\ monitor' \in {"unfocused", "focused"}
        BY FocusFrame, StutterFrame DEF get_threads, point_link, listVars
    <2> QED
        BY <1>2, <2>1 DEF Unadjusted
<1> QED
    BY <1>1, <1>2, <1>3, QuietStep

\* Where a point has its thread's number, the threads it is disabled and
\* deleted on are the listed ones it is for.
LEMMA TargetsAreIts ==
    ASSUME AliveInv, ListInv, NEW p, RecordAgrees(p), NEW t \in Alive
    PROVE  t \in Targets(threads, p) <=> t \in Listed(threads) /\ (p.all \/ p.tid = t)
<1>1. t \in Ports
    BY Tids
<1>2. CASE p.all
    BY <1>2 DEF Targets
<1>3. CASE ~p.all
    <2>1. p.ID \in DOMAIN threads /\ threads[p.ID].tid = p.tid
        BY <1>3 DEF RecordAgrees
    <2>2. find_thread_from_ID(threads, p.ID) = p.ID /\ p.ID # 0
        BY <2>1, FromID, Places DEF ListInv
    <2>3. Targets(threads, p) = {threads[p.ID].port}
        <3>1. {find_thread_from_ID(threads, p.ID)} \ {0} = {p.ID}
            BY <2>2
        <3> QED
            BY <1>3, <3>1 DEF Targets
    <2>4. threads[p.ID].port = t <=> p.tid = t
        BY <1>1, <2>1, Tids
    <2> QED
        BY <1>3, <2>1, <2>3, <2>4, Tids
<1> QED
    BY <1>2, <1>3

\* Disabling takes the breakpoints out of the registers they are in, enabling
\* puts them back.
LEMMA StateKeeps ==
    ASSUME AliveInv, ListInv, CallInv, PointInv, PointsSound, NEW b \in BOOLEAN, set_state_all(b),
           alive' = alive, born' = born, monitor' = monitor, linking' = linking,
           rearmed' = rearmed, SameThreads(threads, threads')
    PROVE  PointsSound'
<1>1. /\ Alive' = Alive /\ Alive \subseteq Ports
      /\ Listed(threads') = Listed(threads)
    BY Tids DEF Alive, Listed, SameThreads
<1>2. ~raced' => ~raced /\ ~Updating
    BY SetStateEffect DEF CallInv, HistoryInv
<1>3. /\ points \subseteq Point /\ linking \subseteq Point /\ points \cap linking = {}
      /\ \A p, q \in SetPoints : p.kind = q.kind /\ p.reg = q.reg => p = q
    BY DEF PointInv
<1>4. \A p \in SetPoints : p.kind \in Kinds /\ p.reg \in Regs /\ p.id # None
    BY <1>3, PointNumbers DEF SetPoints
<1>5. SetPoints' = points' \cup linking
    BY DEF SetPoints
\* What becomes of the points.
<1>6. ASSUME NEW q \in SetPoints'
      PROVE  \E p \in SetPoints :
                /\ p \in points /\ p.kind = "BP" => q.disabled = b
                /\ ~(p \in points /\ p.kind = "BP") => q = p
                /\ q.kind = p.kind /\ q.reg = p.reg /\ q.id = p.id
                /\ q.all = p.all /\ q.ID = p.ID /\ q.tid = p.tid
    <2>1. CASE q \in linking
        BY <1>3, <2>1 DEF SetPoints
    <2>2. CASE q \in points'
        <3>1. PICK p \in points : q = Reset(p, b)
            BY <2>2, SetStateEffect
        <3>2. p \in Point /\ p \in SetPoints
            BY <1>3 DEF SetPoints
        <3>3. p.kind # "BP" => q = p
            BY <3>1 DEF Reset
        <3> QED
            BY <3>1, <3>2, <3>3, ResetPoint
    <2> QED
        BY <1>5, <2>1, <2>2
<1>7. ASSUME NEW p \in SetPoints
      PROVE  \E q \in SetPoints' :
                /\ p \in points /\ p.kind = "BP" => q.disabled = b
                /\ ~(p \in points /\ p.kind = "BP") => q = p
                /\ q.kind = p.kind /\ q.reg = p.reg /\ q.id = p.id
                /\ q.all = p.all /\ q.tid = p.tid
    <2>1. CASE p \in linking
        BY <1>3, <1>5, <2>1
    <2>2. CASE p \in points
        <3>1. Reset(p, b) \in SetPoints' /\ p \in Point
            BY <1>3, <1>5, <2>2, SetStateEffect
        <3>2. p.kind # "BP" => Reset(p, b) = p
            BY DEF Reset
        <3>3. PICK q : q = Reset(p, b)
            OBVIOUS
        <3>4. /\ q.kind = p.kind /\ q.reg = p.reg /\ q.id = p.id
              /\ q.all = p.all /\ q.tid = p.tid
              /\ q.disabled = IF p.kind = "BP" THEN b ELSE p.disabled
            BY <3>1, <3>3, ResetPoint
        <3>5. q \in SetPoints' /\ (p.kind # "BP" => q = p)
            BY <3>1, <3>2, <3>3
        <3> QED
            BY <2>2, <3>4, <3>5
    <2> QED
        BY <2>1, <2>2 DEF SetPoints
\* What becomes of the registers.
<1>8. ASSUME NEW p \in SetPoints, NEW t \in Ports, ~(p \in points /\ p.kind = "BP")
      PROVE  regs'[t][p.kind][p.reg] = regs[t][p.kind][p.reg]
    <2>1. \A q \in points : ~(p.kind = "BP" /\ q.kind = p.kind /\ q.reg = p.reg)
        BY <1>3, <1>8 DEF SetPoints
    <2> QED
        BY <1>4, <2>1, SetStateEffect
<1>9. ASSUME NEW p \in points, p.kind = "BP", NEW t \in Ports
      PROVE  regs'[t][p.kind][p.reg] =
                    IF t \in Targets(threads, p) \cap Alive THEN (IF b THEN None ELSE p.id)
                    ELSE regs[t][p.kind][p.reg]
    BY <1>9, SetStateEffect
<1>10. ASSUME ~raced', NEW p \in SetPoints
       PROVE  /\ RecordAgrees(p)
              /\ ~p.all => /\ p.tid \in Alive /\ ~p.disabled => Armed(p, p.tid)
                           /\ p.tid \in Alive => p.tid \in Listed(threads)
    <2>1. ~raced /\ ~Unadjusted(p)
        BY <1>2, <1>10 DEF Unadjusted, Updating
    <2> QED
        BY <2>1 DEF PointsSound, PlacedInv, RecordAgrees
<1>11. PlacedInv'
    <2> SUFFICES ASSUME ~raced', NEW q \in SetPoints', ~q.all
                 PROVE  /\ q.tid \in Alive /\ ~q.disabled => regs'[q.tid][q.kind][q.reg] = q.id
                        /\ RecordAgrees(q)'
                        /\ q.tid \in Alive => q.tid \in Listed(threads)
        BY <1>1 DEF PlacedInv, Armed
    <2>1. PICK p \in SetPoints :
                /\ p \in points /\ p.kind = "BP" => q.disabled = b
                /\ ~(p \in points /\ p.kind = "BP") => q = p
                /\ q.kind = p.kind /\ q.reg = p.reg /\ q.id = p.id
                /\ q.all = p.all /\ q.ID = p.ID /\ q.tid = p.tid
        BY <1>6
    <2>2. RecordAgrees(q)'
        BY <1>10, <2>1 DEF RecordAgrees, SameThreads
    <2>3. q.tid \in Alive => q.tid \in Listed(threads)
        BY <1>10, <2>1
    <2>4. ASSUME q.tid \in Alive, ~q.disabled
          PROVE  regs'[q.tid][q.kind][q.reg] = q.id
        <3>1. p.tid \in Alive /\ p.tid \in Ports
            BY <1>1, <2>1, <2>4
        <3>2. CASE p \in points /\ p.kind = "BP"
            <4>1. ~b /\ p.tid \in Targets(threads, p)
                BY <1>10, <2>1, <2>3, <2>4, <3>1, <3>2, TargetsAreIts
            <4> QED
                BY <1>9, <2>1, <3>1, <3>2, <4>1
        <3>3. CASE ~(p \in points /\ p.kind = "BP")
            BY <1>8, <1>10, <2>1, <2>4, <3>1, <3>3 DEF Armed
        <3> QED
            BY <3>2, <3>3
    <2> QED
        BY <2>2, <2>3, <2>4
<1>12. NoStray'
    <2> SUFFICES ASSUME ~raced', NEW t \in Ports, NEW k \in Kinds, NEW r \in Regs,
                        regs'[t][k][r] # None
                 PROVE  /\ t \in Alive /\ t \in Listed(threads)
                        /\ \E q \in SetPoints' : /\ q.kind = k /\ q.reg = r
                                                 /\ q.id = regs'[t][k][r]
                                                 /\ q.all \/ q.tid = t
                                                 /\ ~q.disabled \/ rearmed
        BY <1>1 DEF NoStray
    <2>1. regs[t][k][r] # None =>
            /\ t \in Alive /\ t \in Listed(threads)
            /\ \E p \in SetPoints : /\ p.kind = k /\ p.reg = r /\ p.id = regs[t][k][r]
                                    /\ p.all \/ p.tid = t
                                    /\ ~p.disabled \/ rearmed
        BY <1>2 DEF PointsSound, NoStray
    <2>2. CASE \E p \in points : k = "BP" /\ p.kind = k /\ p.reg = r
        <3>1. PICK p \in points : p.kind = "BP" /\ p.kind = k /\ p.reg = r /\ p \in SetPoints
            BY <2>2 DEF SetPoints
        <3>2. t \in Targets(threads, p) \cap Alive
            <4> SUFFICES ASSUME t \notin Targets(threads, p) \cap Alive
                         PROVE  FALSE
                OBVIOUS
            <4>1. regs'[t][k][r] = regs[t][k][r]
                BY <1>9, <3>1
            <4>2. t \in Alive /\ t \in Listed(threads) /\ (p.all \/ p.tid = t)
                BY <1>3, <2>1, <3>1, <4>1
            <4> QED
                BY <1>10, <3>1, <4>2, TargetsAreIts
        <3>3. ~b /\ regs'[t][k][r] = p.id
            BY <1>9, <3>1, <3>2
        <3>4. t \in Listed(threads) /\ (p.all \/ p.tid = t)
            BY <1>10, <3>1, <3>2, TargetsAreIts
        <3> QED
            BY <1>7, <3>1, <3>2, <3>3, <3>4
    <2>3. CASE ~\E p \in points : k = "BP" /\ p.kind = k /\ p.reg = r
        <3>1. regs'[t][k][r] = regs[t][k][r]
            BY <2>3, SetStateEffect
        <3>2. PICK p \in SetPoints : /\ p.kind = k /\ p.reg = r /\ p.id = regs[t][k][r]
                                     /\ p.all \/ p.tid = t
                                     /\ ~p.disabled \/ rearmed
                                     /\ t \in Alive /\ t \in Listed(threads)
            BY <2>1, <3>1
        <3>3. ~(p \in points /\ p.kind = "BP")
            BY <2>3, <3>2
        <3> QED
            BY <1>7, <3>1, <3>2, <3>3
    <2> QED
        BY <2>2, <2>3
<1>13. ArmedInv'
    <2> SUFFICES ASSUME ~raced', Len(alive) = born, NEW q \in SetPoints', q.all, ~q.disabled,
                        NEW t \in Alive, t \in Listed(threads)
                 PROVE  regs'[t][q.kind][q.reg] = q.id
        BY <1>1 DEF ArmedInv, Armed
    <2>1. PICK p \in SetPoints :
                /\ p \in points /\ p.kind = "BP" => q.disabled = b
                /\ ~(p \in points /\ p.kind = "BP") => q = p
                /\ q.kind = p.kind /\ q.reg = p.reg /\ q.id = p.id
                /\ q.all = p.all /\ q.tid = p.tid
        BY <1>6
    <2>2. t \in Ports
        BY <1>1
    <2>3. CASE p \in points /\ p.kind = "BP"
        <3>1. ~b /\ t \in Targets(threads, p)
            BY <1>10, <2>1, <2>3, TargetsAreIts
        <3> QED
            BY <1>9, <2>1, <2>2, <2>3, <3>1
    <2>4. CASE ~(p \in points /\ p.kind = "BP")
        BY <1>2, <1>8, <2>1, <2>2, <2>4 DEF PointsSound, ArmedInv, Armed
    <2> QED
        BY <2>3, <2>4
<1> QED
    BY <1>11, <1>12, <1>13 DEF PointsSound

\* A thread that is born has no point, and no point is for it.
LEMMA BirthKeeps ==
    ASSUME AliveInv, ListInv, PointInv, PointsSound, Birth
    PROVE  PointsSound'
<1>1. /\ regs' = regs /\ points' = points /\ linking' = linking /\ threads' = threads
      /\ raced' = raced /\ rearmed' = rearmed /\ monitor' = monitor
    BY DebuggeeFrame DEF Birth, pointVars
<1>2. Alive' = Alive \cup {born + 1} /\ born \in Nat
    BY BirthEffect, PortsAreNumbers DEF AliveInv
<1>3. Len(alive') = born' => Len(alive) = born
    <2>1. Len(alive) \in Nat
        BY PortPlaces DEF AliveInv
    <2> QED
        BY <1>2, <2>1, BirthEffect
<1>4. \A p \in SetPoints : p.tid \in Alive' => p.tid \in Alive
    <2>1. \A p \in SetPoints : p.tid <= born
        BY DEF PointInv
    <2>2. ~(born + 1 <= born)
        BY <1>2
    <2> QED
        BY <1>2, <2>1, <2>2
<1>5. \A t \in Listed(threads) : t \in Alive' => t \in Alive
    <2>1. \A t \in Listed(threads) : t <= born
        BY DEF Listed, ListInv
    <2>2. ~(born + 1 <= born)
        BY <1>2
    <2> QED
        BY <1>2, <2>1, <2>2
<1>6. PlacedInv'
    BY <1>1, <1>4 DEF PointsSound, PlacedInv, SetPoints, Armed, RecordAgrees, Unadjusted
<1>7. NoStray'
    BY <1>1, <1>2 DEF PointsSound, NoStray, SetPoints
<1>8. ArmedInv'
    BY <1>1, <1>3, <1>5 DEF PointsSound, ArmedInv, SetPoints, Armed
<1> QED
    BY <1>6, <1>7, <1>8 DEF PointsSound

\* The registers of a thread that ends are gone with it.
LEMMA DeathKeeps ==
    ASSUME AliveInv, ListInv, PointInv, PointsSound, NEW n \in DOMAIN alive, Death(n)
    PROVE  PointsSound'
<1>1. /\ points' = points /\ linking' = linking /\ threads' = threads
      /\ raced' = raced /\ rearmed' = rearmed /\ monitor' = monitor
      /\ regs' = [regs EXCEPT ![alive[n]] = NoRegs]
    BY DebuggeeFrame DEF Death
<1>2. Alive' = Alive \ {alive[n]} /\ Len(alive') # born' /\ alive[n] \in Ports /\ Alive \subseteq Ports
    BY DeathEffect, Tids, PortPlaces DEF AliveInv
<1>3. \A t \in Ports : regs'[t] = IF t = alive[n] THEN NoRegs ELSE regs[t]
    BY <1>1, <1>2 DEF PointInv
<1>4. PlacedInv'
    BY <1>1, <1>2, <1>3 DEF PointsSound, PlacedInv, SetPoints, Armed, RecordAgrees, Unadjusted
<1>5. NoStray'
    <2>1. \A k \in Kinds, r \in Regs : NoRegs[k][r] = None
        BY DEF NoRegs
    <2>2. \A t \in Ports, k \in Kinds, r \in Regs : regs'[t][k][r] # None =>
                t # alive[n] /\ regs'[t][k][r] = regs[t][k][r]
        BY <1>3, <2>1
    <2> QED
        BY <1>1, <1>2, <2>2 DEF PointsSound, NoStray, SetPoints
<1>6. ArmedInv'
    BY <1>2 DEF ArmedInv
<1> QED
    BY <1>4, <1>5, <1>6 DEF PointsSound

\* A new point is on the threads it is for, and no other point is moved.
LEMMA NewKeeps ==
    ASSUME AliveInv, ListInv, PointInv, PointsSound,
           NEW k \in Kinds, NEW ID \in 0 .. Len(threads), point_new(k, ID)
    PROVE  PointsSound'
<1>1. PICK p \in Point :
         /\ linking = {} /\ linking' = {p} /\ p.kind = k /\ ~p.disabled
         /\ \A q \in points : ~(q.kind = p.kind /\ q.reg = p.reg)
         /\ ~p.all => p.ID \in DOMAIN threads /\ p.tid = threads[p.ID].tid
         /\ regs' = WriteReg(regs, Targets(threads, p), p, p.id)
         /\ Targets(threads, p) = IF p.all THEN Listed(threads) ELSE {threads[p.ID].port}
    BY NewPoint
<1>2. /\ points' = points /\ alive' = alive /\ born' = born /\ threads' = threads
      /\ raced' = raced /\ rearmed' = rearmed /\ monitor' = monitor /\ Alive' = Alive
    BY DEF point_new, Alive, listVars
<1>3. SetPoints = points /\ SetPoints' = points \cup {p}
    BY <1>1, <1>2 DEF SetPoints
<1> DEFINE T == IF p.all THEN Listed(threads) ELSE {threads[p.ID].port}
<1>4. \A t \in Ports, l \in Kinds, r \in Regs :
        regs'[t][l][r] = IF t \in T /\ t \in Alive /\ l = p.kind /\ r = p.reg THEN p.id
                         ELSE regs[t][l][r]
    <2>1. regs \in RegFiles /\ p.id \in 0 .. MaxPoints
        BY PointNumbers DEF PointInv, RegFiles
    <2>2. regs' = WriteReg(regs, T, p, p.id)
        BY <1>1
    <2> HIDE DEF T
    <2> QED
        BY <2>1, <2>2, WriteEffect
<1>5. points \subseteq Point /\ \A q \in points : q.kind \in Kinds /\ q.reg \in Regs
    BY PointNumbers DEF PointInv
<1>6. p.kind \in Kinds /\ p.reg \in Regs /\ p.id # None
    BY PointNumbers
<1>7. Alive \subseteq Ports
    BY Tids
<1>8. ASSUME NEW q \in points, NEW t \in Ports, Armed(q, t)
      PROVE  Armed(q, t)'
    <2>1. q.kind \in Kinds /\ q.reg \in Regs /\ ~(q.kind = p.kind /\ q.reg = p.reg)
        BY <1>1, <1>5
    <2>2. regs'[t][q.kind][q.reg] = regs[t][q.kind][q.reg]
        BY <1>4, <2>1
    <2> QED
        BY <1>8, <2>2 DEF Armed
<1>9. \A t \in T : t \in Alive => Armed(p, t)'
    BY <1>4, <1>6, <1>7 DEF Armed
<1>10. ~p.all /\ p.tid \in Alive => p.tid \in T /\ p.tid \in Listed(threads)
    BY <1>1, <1>7, Tids
<1>11. \A t \in T : t \in Alive => t \in Listed(threads) /\ (p.all \/ p.tid = t)
    BY <1>1, Tids
<1> HIDE DEF T
<1>12. PlacedInv'
    <2> SUFFICES ASSUME ~raced, NEW q \in points \cup {p}, ~q.all
                 PROVE  /\ q.tid \in Alive /\ ~q.disabled => Armed(q, q.tid)'
                        /\ ~Unadjusted(q)' => RecordAgrees(q)'
                        /\ q.tid \in Alive => q.tid \in Listed(threads)
        BY <1>2, <1>3 DEF PlacedInv
    <2>1. CASE q \in points
        BY <1>2, <1>3, <1>7, <1>8, <2>1 DEF PointsSound, PlacedInv, Unadjusted, RecordAgrees
    <2>2. CASE q = p
        BY <1>1, <1>2, <1>9, <1>10, <2>2 DEF RecordAgrees
    <2> QED
        BY <2>1, <2>2
<1>13. NoStray'
    <2> SUFFICES ASSUME ~raced, NEW t \in Ports, NEW l \in Kinds, NEW r \in Regs,
                        regs'[t][l][r] # None
                 PROVE  /\ t \in Alive /\ t \in Listed(threads)
                        /\ \E q \in points \cup {p} : /\ q.kind = l /\ q.reg = r
                                                      /\ q.id = regs'[t][l][r]
                                                      /\ q.all \/ q.tid = t
                                                      /\ ~q.disabled \/ rearmed
        BY <1>2, <1>3 DEF NoStray
    <2>1. CASE t \in T /\ t \in Alive /\ l = p.kind /\ r = p.reg
        BY <1>1, <1>4, <1>11, <2>1
    <2>2. CASE ~(t \in T /\ t \in Alive /\ l = p.kind /\ r = p.reg)
        <3>1. regs'[t][l][r] = regs[t][l][r]
            BY <1>4, <2>2
        <3> QED
            BY <1>3, <3>1 DEF PointsSound, NoStray
    <2> QED
        BY <2>1, <2>2
<1>14. ArmedInv'
    <2>1. p.all => T = Listed(threads)
        BY DEF T
    <2> QED
        BY <1>2, <1>3, <1>7, <1>8, <1>9, <2>1 DEF PointsSound, ArmedInv
<1> QED
    BY <1>12, <1>13, <1>14 DEF PointsSound

\* A point that is deleted is out of every register it was in.
LEMMA DeleteKeeps ==
    ASSUME AliveInv, ListInv, CallInv, PointInv, PointsSound, NEW p \in points, point_delete(p)
    PROVE  PointsSound'
<1>1. /\ points' = points \ {p} /\ linking = {} /\ linking' = linking
      /\ alive' = alive /\ born' = born /\ threads' = threads
      /\ monitor' = monitor /\ Alive' = Alive /\ rearmed' = rearmed
      /\ regs' = WriteReg(regs, Targets(threads, p), p, None)
    BY DEF point_delete, Alive, listVars, MainFree
<1>2. ~raced' => ~raced /\ ~Updating
    BY DEF point_delete, Raced, CallInv, HistoryInv
<1>3. SetPoints = points /\ SetPoints' = points \ {p}
    BY <1>1 DEF SetPoints
<1>4. points \subseteq Point /\ \A q \in points : q.kind \in Kinds /\ q.reg \in Regs
    BY PointNumbers DEF PointInv
<1> DEFINE T == Targets(threads, p)
<1>5. \A t \in Ports, l \in Kinds, r \in Regs :
        regs'[t][l][r] = IF t \in T /\ t \in Alive /\ l = p.kind /\ r = p.reg THEN None
                         ELSE regs[t][l][r]
    <2>1. regs \in RegFiles /\ None \in 0 .. MaxPoints /\ p \in Point
        BY <1>4, PointNumbers DEF PointInv, RegFiles, None
    <2>2. regs' = WriteReg(regs, T, p, None)
        BY <1>1
    <2> HIDE DEF T
    <2> QED
        BY <2>1, <2>2, WriteEffect
<1>6. Alive \subseteq Ports
    BY Tids
<1>7. ASSUME NEW q \in points, q # p, NEW t \in Ports, Armed(q, t)
      PROVE  Armed(q, t)'
    <2>1. q.kind \in Kinds /\ q.reg \in Regs /\ ~(q.kind = p.kind /\ q.reg = p.reg)
        BY <1>3, <1>4, <1>7 DEF PointInv
    <2>2. regs'[t][q.kind][q.reg] = regs[t][q.kind][q.reg]
        BY <1>5, <2>1
    <2> QED
        BY <1>7, <2>2 DEF Armed
<1>8. ASSUME ~raced', NEW t \in Alive, t \in Listed(threads), p.all \/ p.tid = t
      PROVE  t \in T
    <2>1. ~raced /\ ~Unadjusted(p)
        BY <1>2, <1>8 DEF Unadjusted, Updating
    <2>2. RecordAgrees(p)
        BY <1>3, <2>1 DEF PointsSound, PlacedInv, RecordAgrees
    <2> QED
        BY <1>8, <2>2, TargetsAreIts
<1> HIDE DEF T
<1>9. PlacedInv'
    <2> SUFFICES ASSUME ~raced', NEW q \in points, q # p, ~q.all
                 PROVE  /\ q.tid \in Alive /\ ~q.disabled => Armed(q, q.tid)'
                        /\ ~Unadjusted(q)' => RecordAgrees(q)'
                        /\ q.tid \in Alive => q.tid \in Listed(threads)
        BY <1>1, <1>3 DEF PlacedInv
    <2>1. ~raced /\ ~Unadjusted(q)
        BY <1>2 DEF Unadjusted, Updating
    <2>2. /\ q.tid \in Alive /\ ~q.disabled => Armed(q, q.tid)
          /\ q.tid \in Alive => q.tid \in Listed(threads)
          /\ RecordAgrees(q)
        BY <1>3, <2>1 DEF PointsSound, PlacedInv
    <2>3. RecordAgrees(q)'
        BY <1>1, <2>2 DEF RecordAgrees
    <2> QED
        BY <1>6, <1>7, <2>2, <2>3
<1>10. NoStray'
    <2> SUFFICES ASSUME ~raced', NEW t \in Ports, NEW l \in Kinds, NEW r \in Regs,
                        regs'[t][l][r] # None
                 PROVE  /\ t \in Alive /\ t \in Listed(threads)
                        /\ \E q \in points \ {p} : /\ q.kind = l /\ q.reg = r
                                                   /\ q.id = regs'[t][l][r]
                                                   /\ q.all \/ q.tid = t
                                                   /\ ~q.disabled \/ rearmed
        BY <1>1, <1>3 DEF NoStray
    <2>1. /\ regs'[t][l][r] = regs[t][l][r]
          /\ ~(t \in T /\ t \in Alive /\ l = p.kind /\ r = p.reg)
        BY <1>5
    <2>2. PICK q \in points : /\ q.kind = l /\ q.reg = r /\ q.id = regs'[t][l][r]
                              /\ q.all \/ q.tid = t
                              /\ ~q.disabled \/ rearmed
                              /\ t \in Alive /\ t \in Listed(threads)
        BY <1>2, <1>3, <2>1 DEF PointsSound, NoStray
    <2>3. q # p
        BY <1>8, <2>1, <2>2
    <2> QED
        BY <2>2, <2>3
<1>11. ArmedInv'
    BY <1>1, <1>2, <1>3, <1>6, <1>7 DEF PointsSound, ArmedInv
<1> QED
    BY <1>9, <1>10, <1>11 DEF PointsSound

\* The rebuilt list has every thread that has a point, and the threads that
\* are new in it have the points that are for every thread.
LEMMA RebuildKeeps ==
    ASSUME AliveInv, SnapshotInv, ListInv, FetchInv, CallInv, PointInv, PointsSound,
           update_thread_list
    PROVE  PointsSound'
<1>1. /\ points' = points /\ linking' = linking /\ alive' = alive /\ born' = born
      /\ monitor = "fetched" /\ monitor' = "rebuilt" /\ Alive' = Alive
      /\ regs' = [t \in Ports |-> IF t \in NewThreads \cap Alive THEN ForNew(regs[t]) ELSE regs[t]]
    BY UpdateFrame, Zenon DEF update_thread_list, Alive
<1>2. ~raced' => ~raced /\ linking = {} /\ SetPoints = points /\ SetPoints' = points
    <2>1. raced' = (raced \/ linking # {})
        BY Zenon DEF update_thread_list
    <2> QED
        BY <1>1, <2>1 DEF CallInv, HistoryInv, SetPoints
<1>0. /\ rearmed => rearmed'
      /\ \A t \in NewThreads \cap Alive, p \in points : p.all /\ p.disabled => rearmed'
    <2>1. rearmed' = (rearmed \/ (NewThreads \cap Alive # {} /\ \E p \in points : p.all /\ p.disabled))
        BY Zenon DEF update_thread_list
    <2> QED
        BY <2>1 DEF CallInv, HistoryInv
<1>3. /\ Alive \subseteq Ports
      /\ \A t : t \in Listed(threads) <=> \E i \in DOMAIN threads : threads[i].port = t
    BY Tids
<1>4. \A t : t \in Listed(threads') <=> \E i \in DOMAIN snapshot : snapshot[i] = t
    <2>1. /\ DOMAIN threads' = DOMAIN snapshot
          /\ \A i \in DOMAIN threads' : threads'[i].port = snapshot[i]
        BY Rebuild
    <2> QED
        BY <2>1 DEF Listed
<1>5. \A t \in Alive : t \in Listed(threads) => t \in Listed(threads')
    BY <1>1, <1>3, <1>4 DEF FetchInv
<1>6. \A t \in NewThreads : t \in Listed(threads')
    BY <1>4 DEF NewThreads
<1>7. points \subseteq Point /\ \A q \in points : q.kind \in Kinds /\ q.reg \in Regs
    BY PointNumbers DEF PointInv
<1>8. \A t \in Ports : regs[t] \in [Kinds -> [Regs -> 0 .. MaxPoints]]
    BY DEF PointInv
<1>9. PlacedInv'
    <2> SUFFICES ASSUME ~raced', NEW q \in points, ~q.all, q.tid \in Alive
                 PROVE  (~q.disabled => Armed(q, q.tid)') /\ q.tid \in Listed(threads')
        BY <1>1, <1>2 DEF PlacedInv, Unadjusted
    <2>1. (~q.disabled => Armed(q, q.tid)) /\ q.tid \in Listed(threads)
        BY <1>2 DEF PointsSound, PlacedInv
    <2>2. q.tid \in Ports /\ q.kind \in Kinds /\ q.reg \in Regs
        BY <1>3, <1>7
    <2>3. ForNew(regs[q.tid])[q.kind][q.reg] = regs[q.tid][q.kind][q.reg]
        BY <1>8, <2>2, ForNewEffect
    <2>4. regs'[q.tid][q.kind][q.reg] = regs[q.tid][q.kind][q.reg]
        BY <1>1, <2>2, <2>3
    <2> QED
        BY <1>5, <2>1, <2>4 DEF Armed
<1>10. NoStray'
    <2> SUFFICES ASSUME ~raced', NEW t \in Ports, NEW l \in Kinds, NEW r \in Regs,
                        regs'[t][l][r] # None
                 PROVE  /\ t \in Alive /\ t \in Listed(threads')
                        /\ \E q \in points : /\ q.kind = l /\ q.reg = r
                                             /\ q.id = regs'[t][l][r]
                                             /\ q.all \/ q.tid = t
                                             /\ ~q.disabled \/ rearmed'
        BY <1>1, <1>2 DEF NoStray
    <2>1. CASE regs'[t][l][r] = regs[t][l][r]
        BY <1>0, <1>2, <1>5, <2>1 DEF PointsSound, NoStray
    <2>2. CASE regs'[t][l][r] # regs[t][l][r]
        <3>1. t \in NewThreads /\ t \in Alive /\ regs'[t][l][r] = ForNew(regs[t])[l][r]
            BY <1>1, <2>2
        <3>2. \E p \in points : p.all /\ p.kind = l /\ p.reg = r /\ ForNew(regs[t])[l][r] = p.id
            <4>1. regs[t] \in [Kinds -> [Regs -> 0 .. MaxPoints]]
                BY <1>8
            <4>2. \/ ForNew(regs[t])[l][r] = regs[t][l][r]
                  \/ \E p \in points : /\ p.all /\ p.kind = l /\ p.reg = r
                                       /\ ForNew(regs[t])[l][r] = p.id
                BY ONLY <4>1, ForNewEffect, PointInv, AliveInv, l \in Kinds, r \in Regs
            <4> QED
                BY <2>2, <3>1, <4>2
        <3> QED
            BY <1>0, <1>6, <3>1, <3>2
    <2> QED
        BY <2>1, <2>2
<1>11. ArmedInv'
    <2> SUFFICES ASSUME ~raced', Len(alive) = born, NEW p \in points, p.all, ~p.disabled,
                        NEW t \in Alive, t \in Listed(threads')
                 PROVE  regs'[t][p.kind][p.reg] = p.id
        BY <1>1, <1>2 DEF ArmedInv, Armed
    <2>1. t \in Ports /\ p.kind \in Kinds /\ p.reg \in Regs
        BY <1>3, <1>7
    <2>2. CASE t \in NewThreads
        <3>1. ForNew(regs[t])[p.kind][p.reg] = p.id
            BY <1>8, <2>1, ForNewEffect
        <3> QED
            BY <1>1, <2>1, <2>2, <3>1
    <2>3. CASE t \notin NewThreads
        <3>1. PICK j \in DOMAIN snapshot : snapshot[j] = t
            BY <1>4
        <3>2. j = t /\ ~(j > Len(threads))
            BY <2>3, <3>1 DEF SnapshotInv, NewThreads
        <3>3. j \in Nat \ {0} /\ Len(threads) \in Nat /\ DOMAIN threads = 1 .. Len(threads)
            <4>1. DOMAIN snapshot = 1 .. Len(snapshot) /\ Len(snapshot) \in Nat
                BY PortPlaces DEF SnapshotInv
            <4>2. j \in Nat \ {0}
                BY <4>1
            <4> QED
                BY <4>2, Places DEF ListInv
        <3>4. j \in DOMAIN threads
            BY <3>2, <3>3
        <3>5. t \in Listed(threads)
            BY <1>3, <3>2, <3>4 DEF ListInv
        <3>6. Armed(p, t)
            BY <1>2, <3>5 DEF PointsSound, ArmedInv
        <3> QED
            BY <1>1, <2>1, <2>3, <3>6 DEF Armed
    <2> QED
        BY <2>2, <2>3
<1> QED
    BY <1>9, <1>10, <1>11 DEF PointsSound

\* An adjustment moves the points of a kind to their threads, and deletes
\* those whose thread is gone.
LEMMA AdjustKeeps ==
    ASSUME AliveInv, ListInv, CallInv, PointInv, PointsSound, NEW k \in Kinds, adjust(k),
           linking' = linking, alive' = alive, born' = born, threads' = threads, raced' = raced,
           \A p \in SetPoints : p.kind # k /\ ~Unadjusted(p)' => ~Unadjusted(p)
    PROVE  PointsSound'
<1>1. Alive' = Alive
    BY DEF Alive
<1>2. /\ Alive \subseteq Ports
      /\ \A i \in DOMAIN threads : threads[i].tid \in Ports => threads[i].port = threads[i].tid
      /\ \A i \in DOMAIN threads : threads[i].port \in Alive => threads[i].tid = threads[i].port
      /\ \A t : t \in Listed(threads) <=> \E i \in DOMAIN threads : threads[i].port = t
    BY Tids
<1>3. /\ points \subseteq Point /\ linking \subseteq Point /\ points \cap linking = {}
      /\ \A p, q \in SetPoints : p.kind = q.kind /\ p.reg = q.reg => p = q
    BY DEF PointInv
<1>4. \A p \in SetPoints : p.kind \in Kinds /\ p.reg \in Regs
    BY <1>3, PointNumbers DEF SetPoints
<1>5. \A p \in points : p \in Wrong(k) \cup Invalid(k) => p.kind = k /\ ~p.all
    BY DEF Wrong, Invalid
\* What becomes of the points.
<1>6. \A p \in points : p \notin Wrong(k) \cup Invalid(k) => p \in points'
    BY AdjustedPoints
<1>7. \A q \in points' : \E p \in points :
            /\ p \notin Invalid(k)
            /\ q = IF p \in Wrong(k) THEN Corrected(p) ELSE p
            /\ q.kind = p.kind /\ q.reg = p.reg /\ q.id = p.id
            /\ q.all = p.all /\ q.tid = p.tid /\ q.disabled = p.disabled
    BY AdjustedPoints
<1>0. (rearmed => rearmed') /\ (\A p \in Wrong(k) : p.disabled => rearmed')
    BY AdjustEffect DEF CallInv, HistoryInv
<1>8. ASSUME NEW p \in points, p \in Wrong(k)
      PROVE  /\ Correct(p) \in DOMAIN threads /\ threads[Correct(p)].tid = p.tid
             /\ Corrected(p).ID = Correct(p) /\ Corrected(p).tid = p.tid
             /\ Corrected(p).kind = p.kind /\ Corrected(p).reg = p.reg
             /\ Corrected(p).id = p.id /\ Corrected(p).all = p.all
             /\ Corrected(p).disabled = p.disabled /\ p.kind = k
    <2>1. p \in Point /\ p.kind = k
        BY <1>3, <1>5, <1>8
    <2> QED
        BY <1>8, <2>1, CorrectedPoint
<1>9. ASSUME NEW p \in points, p.kind = k, p \notin Wrong(k) \cup Invalid(k)
      PROVE  RecordAgrees(p)
    <2>1. CASE p.all
        BY <2>1 DEF RecordAgrees
    <2>2. CASE ~p.all
        <3>1. Correct(p) # 0 /\ threads[Found(p)].tid = p.tid /\ Found(p) = p.ID
            BY <1>9, <2>2 DEF Wrong, Invalid
        <3>2. Correct(p) \in DOMAIN threads
            BY <3>1, FromTID DEF Correct, ListInv
        <3>3. find_thread_from_ID(threads, p.ID) = IF p.ID \in DOMAIN threads THEN p.ID ELSE 0
            BY FromID DEF ListInv
        <3>4. p.ID \in DOMAIN threads
            BY <3>1, <3>2, <3>3 DEF Found
        <3> QED
            BY <3>1, <3>4 DEF RecordAgrees
    <2> QED
        BY <2>1, <2>2
\* What becomes of the registers.
<1>10. \A t \in Ports, l \in Kinds, r \in Regs : l # k => regs'[t][l][r] = regs[t][l][r]
    BY AdjustEffect
<1>11. \A t \in Ports, r \in Regs :
            (\A p \in points : ~(p.kind = k /\ p.reg = r)) => regs'[t][k][r] = regs[t][k][r]
    BY AdjustEffect
<1>12. \A p \in points, t \in Ports : p.kind = k =>
            /\ MovesTo(p, t) => regs'[t][k][p.reg] = p.id
            /\ ~MovesTo(p, t) => regs'[t][k][p.reg] \in {None, regs[t][k][p.reg]}
            /\ p \notin Wrong(k) \cup Invalid(k) => regs'[t][k][p.reg] = regs[t][k][p.reg]
    BY AdjustEffect
<1>13. ASSUME NEW p \in SetPoints, p \notin Wrong(k) \cup Invalid(k), NEW t \in Ports
       PROVE  /\ p \in SetPoints'
              /\ regs'[t][p.kind][p.reg] = regs[t][p.kind][p.reg]
    <2>1. p \in SetPoints'
        BY <1>6, <1>13 DEF SetPoints
    <2>2. CASE p.kind # k
        BY <1>4, <1>10, <2>1, <2>2
    <2>3. CASE p.kind = k /\ p \in points
        BY <1>12, <1>13, <2>1, <2>3
    <2>4. CASE p.kind = k /\ p \in linking
        <3>1. \A q \in points : ~(q.kind = k /\ q.reg = p.reg)
            BY <1>3, <2>4 DEF SetPoints
        <3> QED
            BY <1>4, <1>11, <2>1, <2>4, <3>1
    <2> QED
        BY <2>1, <2>2, <2>3, <2>4 DEF SetPoints
\* A point whose thread is there and listed is not deleted, and if it is
\* moved, then to that thread.
<1>14. ASSUME NEW p \in points, ~p.all, p.kind = k, NEW t \in Alive, t \in Listed(threads),
              p.tid = t
       PROVE  /\ p \notin Invalid(k)
              /\ p \in Wrong(k) => MovesTo(p, t)
    <2>1. PICK i \in DOMAIN threads : threads[i].port = t
        BY <1>2, <1>14
    <2>2. threads[i].tid = t
        BY <1>2, <2>1
    <2>3. /\ Correct(p) # 0 /\ Correct(p) \in DOMAIN threads /\ threads[Correct(p)].tid = t
        BY <1>14, <2>2, FromTID DEF Correct, ListInv
    <2>4. threads[Correct(p)].port = t
        BY <1>2, <2>3
    <2> QED
        BY <1>14, <2>3, <2>4 DEF Invalid, MovesTo
<1>15. SetPoints' = points' \cup linking
    BY DEF SetPoints
<1>16. PlacedInv'
    <2> SUFFICES ASSUME ~raced, NEW q \in points' \cup linking, ~q.all
                 PROVE  /\ q.tid \in Alive /\ ~q.disabled => regs'[q.tid][q.kind][q.reg] = q.id
                        /\ ~Unadjusted(q)' => RecordAgrees(q)'
                        /\ q.tid \in Alive => q.tid \in Listed(threads)
        BY <1>1, <1>15 DEF PlacedInv, Armed
    <2>1. \A p \in SetPoints : ~p.all =>
            /\ p.tid \in Alive /\ ~p.disabled => regs[p.tid][p.kind][p.reg] = p.id
            /\ ~Unadjusted(p) => RecordAgrees(p)
            /\ p.tid \in Alive => p.tid \in Listed(threads)
        BY DEF PointsSound, PlacedInv, Armed
    <2>2. \A p \in SetPoints : RecordAgrees(p) => RecordAgrees(p)'
        BY DEF RecordAgrees
    <2>3. ASSUME q \in SetPoints, q \notin Wrong(k) \cup Invalid(k)
          PROVE  /\ q.tid \in Alive /\ ~q.disabled => regs'[q.tid][q.kind][q.reg] = q.id
                 /\ ~Unadjusted(q)' => RecordAgrees(q)'
                 /\ q.tid \in Alive => q.tid \in Listed(threads)
        <3>1. q.tid \in Alive => /\ ~q.disabled => regs'[q.tid][q.kind][q.reg] = q.id
                                 /\ q.tid \in Listed(threads)
            BY <1>2, <1>13, <2>1, <2>3
        <3>2. ~Unadjusted(q)' => RecordAgrees(q)
            <4>1. CASE q.kind # k
                BY <2>1, <2>3, <4>1
            <4>2. CASE q.kind = k /\ q \in points
                BY <1>9, <2>3, <4>2
            <4>3. CASE q \in linking
                <5>1. ~Unadjusted(q)
                    BY <1>3, <4>3 DEF Unadjusted
                <5> QED
                    BY <2>1, <2>3, <5>1
            <4> QED
                BY <2>3, <4>1, <4>2, <4>3 DEF SetPoints
        <3> QED
            BY <2>2, <2>3, <3>1, <3>2
    <2>4. CASE q \in linking
        <3>1. q \notin Wrong(k) \cup Invalid(k)
            BY <1>3, <2>4 DEF Wrong, Invalid
        <3> QED
            BY <2>3, <2>4, <3>1 DEF SetPoints
    <2>5. CASE q \in points'
        <3>1. PICK p \in points : /\ p \notin Invalid(k)
                                  /\ q = IF p \in Wrong(k) THEN Corrected(p) ELSE p
                                  /\ q.all = p.all
            BY <1>7, <2>5
        <3>2. CASE p \notin Wrong(k)
            <4>1. q = p
                BY <3>1, <3>2
            <4> QED
                BY <2>3, <3>1, <3>2, <4>1 DEF SetPoints
        <3>3. CASE p \in Wrong(k)
            <4>1. /\ q.ID = Correct(p) /\ q.tid = p.tid /\ q.kind = p.kind /\ q.reg = p.reg
                  /\ q.id = p.id /\ p.kind = k
                  /\ Correct(p) \in DOMAIN threads /\ threads[Correct(p)].tid = p.tid
                BY <1>8, <3>1, <3>3
            <4>2. ~p.all /\ p \in SetPoints
                BY <3>1 DEF SetPoints
            <4>3. p.tid \in Alive => p.tid \in Listed(threads)
                BY <2>1, <4>2
            <4>4. p.tid \in Alive => MovesTo(p, p.tid)
                BY <1>14, <3>3, <4>1, <4>2, <4>3
            <4>5. p.tid \in Alive => regs'[p.tid][k][p.reg] = p.id
                BY <1>2, <1>12, <4>1, <4>4
            <4>6. RecordAgrees(q)'
                BY <4>1 DEF RecordAgrees
            <4> QED
                BY <4>1, <4>3, <4>5, <4>6
        <3> QED
            BY <3>2, <3>3
    <2> QED
        BY <2>4, <2>5
<1>17. NoStray'
    <2> SUFFICES ASSUME ~raced, NEW t \in Ports, NEW l \in Kinds, NEW r \in Regs,
                        regs'[t][l][r] # None
                 PROVE  /\ t \in Alive /\ t \in Listed(threads)
                        /\ \E q \in SetPoints' : /\ q.kind = l /\ q.reg = r
                                                 /\ q.id = regs'[t][l][r]
                                                 /\ q.all \/ q.tid = t
                                                 /\ ~q.disabled \/ rearmed'
        BY <1>1 DEF NoStray
    <2>1. regs[t][l][r] # None =>
            /\ t \in Alive /\ t \in Listed(threads)
            /\ \E p \in SetPoints : /\ p.kind = l /\ p.reg = r /\ p.id = regs[t][l][r]
                                    /\ p.all \/ p.tid = t
                                    /\ ~p.disabled \/ rearmed
        BY DEF PointsSound, NoStray
    <2>2. CASE \E p \in points : p.kind = l /\ p.reg = r /\ p \in Wrong(k) \cup Invalid(k)
        <3>1. PICK p \in points : p.kind = l /\ p.reg = r /\ p \in Wrong(k) \cup Invalid(k)
            BY <2>2
        <3>2. l = k /\ ~p.all /\ p \in SetPoints
            BY <1>5, <3>1 DEF SetPoints
        <3>3. MovesTo(p, t)
            <4> SUFFICES ASSUME ~MovesTo(p, t)
                         PROVE  FALSE
                OBVIOUS
            <4>1. regs'[t][l][r] = regs[t][l][r]
                BY <1>12, <3>1, <3>2
            <4>2. PICK q \in SetPoints : /\ q.kind = l /\ q.reg = r /\ (q.all \/ q.tid = t)
                                         /\ t \in Alive /\ t \in Listed(threads)
                BY <2>1, <4>1
            <4>3. q = p
                BY <1>3, <3>1, <3>2, <4>2
            <4> QED
                BY <1>14, <3>1, <3>2, <4>2, <4>3
        <3>4. regs'[t][l][r] = p.id
            BY <1>12, <3>1, <3>2, <3>3
        <3>5. p \in Wrong(k) /\ t \in Alive /\ threads[Correct(p)].port = t
            BY <3>2, <3>1, <3>3 DEF MovesTo
        <3>6. Correct(p) \in DOMAIN threads /\ p.tid = t /\ Corrected(p).tid = t
            BY <1>2, <1>8, <3>5
        <3>7. Corrected(p) \in SetPoints'
            <4>1. p \notin Invalid(k)
                BY <3>5 DEF Wrong, Invalid
            <4>2. Corrected(p) \in points'
                BY <3>5, <4>1, AdjustedPoints
            <4> QED
                BY <1>15, <4>2
        <3> QED
            BY <1>0, <1>2, <1>8, <3>1, <3>4, <3>5, <3>6, <3>7
    <2>3. CASE ~\E p \in points : p.kind = l /\ p.reg = r /\ p \in Wrong(k) \cup Invalid(k)
        <3>1. regs'[t][l][r] = regs[t][l][r]
            <4>1. CASE l # k
                BY <1>10, <4>1
            <4>2. CASE l = k /\ \E p \in points : p.kind = k /\ p.reg = r
                BY <1>12, <2>3, <4>2
            <4>3. CASE l = k /\ \A p \in points : ~(p.kind = k /\ p.reg = r)
                BY <1>11, <4>3
            <4> QED
                BY <4>1, <4>2, <4>3
        <3>2. PICK p \in SetPoints : /\ p.kind = l /\ p.reg = r /\ p.id = regs[t][l][r]
                                     /\ p.all \/ p.tid = t
                                     /\ ~p.disabled \/ rearmed
                                     /\ t \in Alive /\ t \in Listed(threads)
            BY <2>1, <3>1
        <3>3. p \notin Wrong(k) \cup Invalid(k)
            BY <2>3, <3>2 DEF Wrong, Invalid
        <3>4. p \in SetPoints'
            BY <1>13, <3>3
        <3> QED
            BY <1>0, <3>1, <3>2, <3>4
    <2> QED
        BY <2>2, <2>3
<1>18. ArmedInv'
    <2> SUFFICES ASSUME ~raced, Len(alive) = born, NEW q \in points' \cup linking, q.all, ~q.disabled,
                        NEW t \in Alive, t \in Listed(threads)
                 PROVE  regs'[t][q.kind][q.reg] = q.id
        BY <1>1, <1>15 DEF ArmedInv, Armed
    <2>1. q \in SetPoints /\ q \notin Wrong(k) \cup Invalid(k)
        <3>1. CASE q \in linking
            BY <1>3, <3>1 DEF SetPoints, Wrong, Invalid
        <3>2. CASE q \in points'
            <4>1. PICK p \in points : /\ p \notin Invalid(k)
                                      /\ q = IF p \in Wrong(k) THEN Corrected(p) ELSE p
                                      /\ q.all = p.all
                BY <1>7, <3>2
            <4>2. p \notin Wrong(k)
                BY <1>5, <4>1
            <4> QED
                BY <4>1, <4>2 DEF SetPoints
        <3> QED
            BY <3>1, <3>2
    <2>2. regs[t][q.kind][q.reg] = q.id
        BY <2>1 DEF PointsSound, ArmedInv, Armed
    <2> QED
        BY <1>2, <1>13, <2>1, <2>2
<1> QED
    BY <1>16, <1>17, <1>18 DEF PointsSound

\* The two adjustments of an update.
LEMMA AdjustSteps ==
    ASSUME AliveInv, ListInv, CallInv, PointInv, PointsSound,
           adjust_breakpoints \/ adjust_watchpoints
    PROVE  PointsSound'
<1>1. /\ linking' = linking /\ alive' = alive /\ born' = born /\ threads' = threads
      /\ raced' = raced /\ SameThreads(threads, threads')
    BY DEF adjust_breakpoints, adjust_watchpoints, SameThreads, ListInv
<1>2. \A p \in SetPoints : p.kind \in Kinds /\ p.kind \in {"BP", "WP"}
    BY PointNumbers, KindsAssumption DEF PointInv, SetPoints
<1>3. CASE adjust_breakpoints /\ "BP" \in Kinds
    <2>1. adjust("BP") /\ monitor = "focused" /\ monitor' = "bps_adjusted"
        BY <1>3 DEF adjust_breakpoints
    <2>2. \A p \in points : p.kind # "BP" => p \in points'
        <3>1. \A p \in points : p.kind # "BP" => p \notin Wrong("BP") \cup Invalid("BP")
            BY DEF Wrong, Invalid
        <3> QED
            BY <1>3, <2>1, <3>1, AdjustedPoints
    <2>3. \A p \in SetPoints : p.kind # "BP" /\ ~Unadjusted(p)' => ~Unadjusted(p)
        BY <1>2, <2>1, <2>2 DEF Unadjusted
    <2> QED
        BY <1>1, <1>3, <2>1, <2>3, AdjustKeeps
<1>4. CASE adjust_watchpoints /\ "WP" \in Kinds
    <2>1. adjust("WP") /\ monitor = "bps_adjusted"
        BY <1>4 DEF adjust_watchpoints
    <2>2. \A p \in SetPoints : p.kind # "WP" /\ ~Unadjusted(p)' => ~Unadjusted(p)
        BY <2>1 DEF Unadjusted
    <2> QED
        BY <1>1, <1>4, <2>1, <2>2, AdjustKeeps
<1>5. CASE \/ adjust_breakpoints /\ "BP" \notin Kinds
           \/ adjust_watchpoints /\ "WP" \notin Kinds
    <2>1. regs' = regs /\ points' = points /\ rearmed' = rearmed
        BY <1>5 DEF adjust_breakpoints, adjust_watchpoints
    <2>2. \A p \in SetPoints : ~Unadjusted(p)' => ~Unadjusted(p)
        BY <1>2, <1>5, <2>1 DEF adjust_breakpoints, adjust_watchpoints, Unadjusted
    <2> QED
        BY <1>1, <2>1, <2>2, QuietStep DEF SetPoints
<1> QED
    BY <1>3, <1>4, <1>5

----------------------------------------------------------------------------
(* The invariant holds of every behaviour, and what follows from it.       *)

\* cmdfunc_attach leaves one listed, focused thread and no points.
LEMMA InitIInv == Init => IInv
<1> SUFFICES ASSUME Init
             PROVE  IInv
    OBVIOUS
<1> DEFINE first == [port |-> 1, tid |-> 1, focused |-> 1, excinfo |-> 1]
<1>1. /\ alive = <<1>> /\ born = 1 /\ threads = <<first>> /\ points = {} /\ linking = {}
      /\ next_id = 1 /\ monitor = "waiting" /\ snapshot = <<>> /\ up = TRUE
      /\ clash = FALSE /\ rearmed = FALSE /\ raced = FALSE /\ regs = [t \in Ports |-> NoRegs]
      /\ size \in Sizes /\ call = [c \in Callers |-> Idle] /\ calls = 0 /\ selected = None
      /\ recorded = [p \in Ports |-> IF p = 1 THEN 1 ELSE 0]
    BY DEF Init
<1>2. 1 \in Ports
    BY ThreadsAssumption DEF Ports
<1>3. alive \in Seq(Ports) /\ Len(alive) = 1 /\ DOMAIN alive = {1} /\ alive[1] = 1 /\ Alive = {1}
    BY <1>1, <1>2 DEF Alive, ToSet
<1>4. first \in Machthread
    BY <1>2 DEF Machthread
<1>5. first.port = 1 /\ first.tid = 1 /\ first.focused = 1 /\ first.excinfo = 1
    OBVIOUS
<1> HIDE DEF first
<1>6. threads \in Seq(Machthread) /\ Len(threads) = 1 /\ DOMAIN threads = {1} /\ threads[1] = first
    BY <1>1, <1>4
<1>7. AliveInv
    BY <1>1, <1>2, <1>3 DEF AliveInv
<1>8. SnapshotInv /\ FetchInv
    <2>1. snapshot \in Seq(Ports) /\ DOMAIN snapshot = {}
        BY <1>1, EmptySeq
    <2> QED
        BY <1>1, <2>1 DEF SnapshotInv, FetchInv, Updating
<1>9. ListInv
    BY <1>1, <1>3, <1>5, <1>6 DEF ListInv
<1>10. CallInv /\ FocusInv /\ RecordInv
    <2>1. Idle \in CallRec /\ Idle.pc = "idle"
        BY DEF Idle, CallRec, PCs, None
    <2>2. \A c \in Callers : call[c] = Idle
        BY <1>1
    <2>3. "main" \in Callers /\ "server" \in Callers /\ "monitor" \in Callers
        BY DEF Callers
    <2>4. HeldInv
        BY <1>1, <2>1, <2>2, <2>3 DEF HeldInv, At
    <2>5. HistoryInv
        <3>1. recorded \in [Ports -> {0, 1, Unknown}]
            BY <1>1
        <3>2. selected \in Ports \cup {None} /\ selected <= born
            BY <1>1 DEF None
        <3> QED
            BY <1>1, <3>1, <3>2 DEF HistoryInv
    <2>6. /\ \A c, d \in Callers : Changing(c) /\ Changing(d) => c = d
          /\ \A c \in Callers : Stage(threads, c, call[c])
          /\ Followed(threads, call["server"])
        BY <2>1, <2>2, <2>3, StageOther DEF Changing, Followed
    <2>7. OneFocus(threads) /\ HasFocus(threads)
        BY <1>5, <1>6 DEF OneFocus, HasFocus
    <2>8. Owned
        BY <1>1, <2>7 DEF Owned
    <2>9. FocusInv
        BY <1>1, <2>6, <2>7, <2>8, FocusParts
    <2>10. RecordsKept
        BY <1>1, <1>2, <1>5, <1>6 DEF RecordsKept
    <2>11. Listed(threads) = {1}
        BY <1>5, <1>6 DEF Listed
    <2>12. \A p \in Ports : recorded[p] # 0 => p \in Listed(threads)
        BY <1>1, <2>11
    <2> QED
        BY <2>4, <2>5, <2>9, <2>10, <2>12 DEF CallInv, RecordInv
<1>11. \A t \in Ports, k \in Kinds, r \in Regs : regs[t][k][r] = None
    BY <1>1 DEF NoRegs
<1>12. PointInv
    <2>1. regs \in [Ports -> [Kinds -> [Regs -> 0 .. MaxPoints]]]
        BY <1>1, PointNumbers DEF NoRegs, None
    <2> QED
        BY <1>1, <2>1, PointNumbers DEF PointInv, SetPoints
<1>13. PlacedInv /\ NoStray /\ ArmedInv
    BY <1>1, <1>11 DEF PlacedInv, NoStray, ArmedInv, SetPoints
<1> QED
    BY <1>7, <1>8, <1>9, <1>10, <1>12, <1>13 DEF IInv

\* No step of the debuggee, of main, of the exception server or of the
\* thread monitor leaves the invariant.
LEMMA IInvStep ==
    ASSUME IInv, [Next]_vars
    PROVE  IInv'
<1> USE DEF IInv
<1>1. AliveInv'
    BY AliveEffect
<1>2. SnapshotInv'
    BY SnapshotStep
<1>3. ListInv'
    BY ListStep
<1>4. FetchInv'
    BY FetchStep
<1>5. CallInv' /\ FocusInv' /\ RecordInv'
    BY CallStep, FocusStep, RecordStep
<1>6. PointInv'
    BY PointStep
<1>7. PointsSound'
    <2>1. PointsSound
        BY DEF PointsSound
    <2>2. CASE Birth \/ \E n \in DOMAIN alive : Death(n)
        BY <2>1, <2>2, BirthKeeps, DeathKeeps
    <2>3. CASE PointSteps
        BY <2>1, <2>3, NewKeeps, DeleteKeeps, QuietSteps DEF PointSteps
    <2>4. CASE update_thread_list
        BY <2>1, <2>4, RebuildKeeps
    <2>5. CASE AdjustStep
        BY <2>1, <2>5, AdjustSteps DEF AdjustStep
    <2>6. CASE FocusSteps \/ get_threads \/ UNCHANGED vars
        BY <2>1, <2>6, QuietSteps
    <2>7. CASE StateSteps
        <3>1. SameThreads(threads, threads')
            BY <2>7, FocusOnly
        <3>2. CASE \E b \in BOOLEAN : set_state_all(b)
            BY <2>1, <2>7, <3>1, <3>2, StateFrame, StateKeeps
        <3>3. CASE regs' = regs /\ points' = points /\ raced' = raced
            <4>1. \A p \in SetPoints : ~Unadjusted(p)' => ~Unadjusted(p)
                BY <2>7, <3>3, StateFrame DEF Unadjusted
            <4> QED
                BY <2>1, <2>7, <3>1, <3>3, <4>1, StateFrame, QuietStep DEF SetPoints
        <3> QED
            BY <2>7, <3>2, <3>3, StateFrame
    <2> QED
        BY <2>2, <2>3, <2>4, <2>5, <2>6, <2>7, StepKinds
<1> QED
    BY <1>1, <1>2, <1>3, <1>4, <1>5, <1>6, <1>7 DEF PointsSound

\* The inductive invariant holds in every reachable state.
THEOREM ThreadsInductive == Spec => []IInv
<1>1. Init => IInv
    BY InitIInv
<1>2. IInv /\ [Next]_vars => IInv'
    BY IInvStep
<1> QED
    BY <1>1, <1>2, PTL DEF Spec

\* What the invariant says of the list and of its focus.
LEMMA InvGivesList == IInv => ThreadListOK
<1> SUFFICES ASSUME IInv
             PROVE  ThreadListOK
    OBVIOUS
<1>1. TypeOK
    BY DEF IInv, AliveInv, SnapshotInv, ListInv, CallInv, HeldInv, HistoryInv, CallRec, PCs,
        PointInv, TypeOK
<1>2. OneFocused
    <2> SUFFICES ASSUME ~clash
                 PROVE  /\ (\A c \in Callers : ~At(c, "clear")) =>
                            Cardinality({i \in DOMAIN threads : threads[i].focused = 1}) <= 1
                        /\ up /\ ~Updating /\ (\A c \in Callers : ~Changing(c)) =>
                            {i \in DOMAIN threads : threads[i].focused = 1} # {}
        BY DEF OneFocused
    <2> DEFINE F == {i \in DOMAIN threads : threads[i].focused = 1}
    <2>1. /\ (\A c \in Callers : ~At(c, "clear")) => OneFocus(threads)
          /\ Owned
        BY FocusParts DEF IInv
    <2>2. (\A c \in Callers : ~At(c, "clear")) => F = {} \/ \E i \in F : F = {i}
        BY <2>1 DEF OneFocus
    <2>3. F = {} \/ (\E i \in F : F = {i}) => Cardinality(F) = 0 \/ Cardinality(F) = 1
        <3> HIDE DEF F
        <3> QED
            BY FS_EmptySet, FS_Singleton
    <2>4. ASSUME up, ~Updating, \A c \in Callers : ~Changing(c)
          PROVE  F # {}
        <3>1. ~At("main", "look") /\ monitor \notin {"rebuilt", "unfocused"}
            BY <2>4 DEF Changing, At, Callers, Updating, IInv, SnapshotInv
        <3> QED
            BY <2>1, <2>4, <3>1 DEF Owned, HasFocus
    <2> QED
        BY <2>2, <2>3, <2>4
<1>3. ExceptionOnItsThread
    BY DEF IInv, FocusInv, ExceptionOnItsThread
<1> QED
    BY <1>1, <1>2, <1>3 DEF ThreadListOK

\* set_focused_thread, taken apart at its two lookups and its two writes, and
\* ops_threadupdate: as long as no two of main, the exception server and the
\* monitor change the focus at once, at most one thread has it, one has it
\* when nobody is changing it, and the server goes on with the thread that
\* raised the exception, however births, deaths, commands, exceptions and
\* updates interleave; the list is well formed.
THEOREM OneThreadFocused == Spec => []ThreadListOK
BY ThreadsInductive, InvGivesList, PTL

\* adjust_bps_and_wps: for any number of threads, registers and points, the
\* registers of the threads hold the points that are for them and no others
\* between updates, although each update renumbers the threads.
THEOREM PointsAreFollowed == Spec => []PointsFollowThreads
<1>1. IInv => NoneMisplaced
    <2> SUFFICES ASSUME IInv, ~Updating, ~raced, NEW p \in points, ~p.all
                 PROVE  RecordAgrees(p) /\ (p.tid \in Alive /\ ~p.disabled => Armed(p, p.tid))
        BY DEF NoneMisplaced, OnItsThread
    <2>1. ~Unadjusted(p)
        BY DEF Unadjusted, Updating
    <2> QED
        BY <2>1 DEF IInv, PlacedInv, SetPoints
<1>2. IInv => NoStrayRegister
    <2> SUFFICES ASSUME IInv
                 PROVE  NoStrayRegister
        OBVIOUS
    <2>1. Alive \subseteq Ports
        BY Tids DEF IInv
    <2> QED
        BY <2>1 DEF IInv, NoStray, NoStrayRegister, SetPoints
<1>3. IInv => PointsFollowThreads
    BY <1>1, <1>2 DEF PointsFollowThreads
<1> QED
    BY <1>3, ThreadsInductive, PTL

\* update_thread_list (thread.c:486): as long as no thread has died, every
\* listed thread has every point that is for all threads.
THEOREM EveryThreadIsArmed == Spec => []AllThreadsArmed
<1>1. IInv => AllThreadsArmed
    BY DEF IInv, ArmedInv, AllThreadsArmed, AllArmed, SetPoints
<1> QED
    BY <1>1, ThreadsInductive, PTL

\* update_thread_list and ops_threadupdate (thread.c:403, dbgops.c:381): what
\* exceptions and steps record for a thread is found in its struct through
\* any number of rebuilds, and the monitor takes the focus from no thread
\* that lives.
THEOREM UpdateLosesNothing == Spec => []RebuildLosesNothing
<1>1. IInv => RecordsKept
    BY DEF IInv, RecordInv
<1>2. IInv => SelectionKept
    BY DEF IInv, FocusInv, SelectionKept
<1>3. IInv => RebuildLosesNothing
    BY <1>1, <1>2 DEF RebuildLosesNothing
<1> QED
    BY <1>3, ThreadsInductive, PTL
============================================================================
