------------------------- MODULE BreakpointsProofs -------------------------
(***************************************************************************)
(* Proofs about Breakpoints, for every set of addresses and threads, every *)
(* number of breakpoint registers and every number of breakpoints.         *)
(*                                                                         *)
(* Every operation is one of three changes to the table (Create, Delete,   *)
(* SetState), so the inductive step is proved once for each of the three.  *)
(***************************************************************************)
EXTENDS Breakpoints, FiniteSetTheorems, WellFoundedInduction, TLAPS

----------------------------------------------------------------------------
(* Nodes are numbers up to allocs, so a nonempty set of nodes has a first  *)
(* and a last member, and Min and Max return them.                         *)

\* A nonempty finite set of integers has a least member, and Min is it.
LEMMA MinIsMember ==
    ASSUME NEW S \in SUBSET Int, IsFiniteSet(S), S # {}
    PROVE  Min(S) \in S /\ \A j \in S : Min(S) <= j
<1> DEFINE UpTo(k) == {j \in S : j <= k}
           T == {UpTo(k) : k \in S}
<1>1. T \subseteq FiniteSubsetsOf(S) /\ T # {}
    <2>1. \A k \in S : UpTo(k) \in SUBSET S /\ IsFiniteSet(UpTo(k))
        BY FS_Subset
    <2> QED
        BY <2>1 DEF FiniteSubsetsOf
<1>2. IsWellFoundedOn(StrictSubsetOrdering(S), FiniteSubsetsOf(S))
    BY FS_StrictSubsetOrderingWellFounded
<1>3. \E x \in T : \A y \in T : ~(<<y, x>> \in StrictSubsetOrdering(S))
    <2> HIDE DEF T
    <2> QED
        BY <1>1, <1>2, WFMin
<1>4. PICK k \in S : \A y \in T : ~(<<y, UpTo(k)>> \in StrictSubsetOrdering(S))
    BY <1>3
<1>5. ASSUME NEW j \in S, j < k
      PROVE  FALSE
    <2>1. UpTo(j) \in T /\ UpTo(j) \in SUBSET S /\ UpTo(k) \in SUBSET S
        OBVIOUS
    <2>2. UpTo(j) \subseteq UpTo(k) /\ k \in UpTo(k) /\ k \notin UpTo(j)
        <3>1. k \in Int /\ j \in Int /\ \A i \in S : i \in Int
            OBVIOUS
        <3>2. k <= k /\ ~(k <= j) /\ \A i \in S : i <= j => i <= k
            BY <1>5, <3>1
        <3> QED
            BY <3>2
    <2> HIDE DEF UpTo, T
    <2>3. <<UpTo(j), UpTo(k)>> \in StrictSubsetOrdering(S)
        BY <2>1, <2>2 DEF StrictSubsetOrdering
    <2> QED
        BY <1>4, <2>1, <2>3
<1>6. \A j \in S : k <= j
    BY <1>5
<1> QED
    BY <1>6 DEF Min

\* A nonempty finite set of integers has a greatest member, and Max is it.
LEMMA MaxIsMember ==
    ASSUME NEW S \in SUBSET Int, IsFiniteSet(S), S # {}
    PROVE  Max(S) \in S /\ \A j \in S : Max(S) >= j
<1> DEFINE From(k) == {j \in S : j >= k}
           T == {From(k) : k \in S}
<1>1. T \subseteq FiniteSubsetsOf(S) /\ T # {}
    <2>1. \A k \in S : From(k) \in SUBSET S /\ IsFiniteSet(From(k))
        BY FS_Subset
    <2> QED
        BY <2>1 DEF FiniteSubsetsOf
<1>2. IsWellFoundedOn(StrictSubsetOrdering(S), FiniteSubsetsOf(S))
    BY FS_StrictSubsetOrderingWellFounded
<1>3. \E x \in T : \A y \in T : ~(<<y, x>> \in StrictSubsetOrdering(S))
    <2> HIDE DEF T
    <2> QED
        BY <1>1, <1>2, WFMin
<1>4. PICK k \in S : \A y \in T : ~(<<y, From(k)>> \in StrictSubsetOrdering(S))
    BY <1>3
<1>5. ASSUME NEW j \in S, j > k
      PROVE  FALSE
    <2>1. From(j) \in T /\ From(j) \in SUBSET S /\ From(k) \in SUBSET S
        OBVIOUS
    <2>2. From(j) \subseteq From(k) /\ k \in From(k) /\ k \notin From(j)
        <3>1. k \in Int /\ j \in Int /\ \A i \in S : i \in Int
            OBVIOUS
        <3>2. k >= k /\ ~(k >= j) /\ \A i \in S : i >= j => i >= k
            BY <1>5, <3>1
        <3> QED
            BY <3>2
    <2> HIDE DEF From, T
    <2>3. <<From(j), From(k)>> \in StrictSubsetOrdering(S)
        BY <2>1, <2>2 DEF StrictSubsetOrdering
    <2> QED
        BY <1>4, <2>1, <2>3
<1>6. \A j \in S : k >= j
    BY <1>5
<1> QED
    BY <1>6 DEF Max

\* A set of nodes is a finite set of integers.
LEMMA NodesFinite ==
    ASSUME NEW n \in Nat, NEW S \in SUBSET (1 .. n)
    PROVE  S \in SUBSET Int /\ IsFiniteSet(S)
<1>1. 1 \in Int /\ n \in Int
    OBVIOUS
<1>2. IsFiniteSet(1 .. n)
    BY ONLY <1>1, FS_Interval
<1>3. IsFiniteSet(S)
    BY <1>2, FS_Subset
<1>4. S \in SUBSET Int
    OBVIOUS
<1> QED
    BY <1>3, <1>4

\* First returns a member, and NULL only for the empty set.
LEMMA FirstIsMember ==
    ASSUME NEW n \in Nat, NEW S \in SUBSET (1 .. n)
    PROVE  /\ S # {} => First(S) \in S /\ First(S) # NULL
           /\ S = {} => First(S) = NULL
<1>1. S # {} => Min(S) \in S
    BY NodesFinite, MinIsMember
<1>2. \A k \in S : k # 0
    OBVIOUS
<1> QED
    BY <1>1, <1>2 DEF First, NULL

\* A table: nodes 1..n, each with a breakpoint.
Table(b, n) == n \in Nat /\ DOMAIN b \subseteq 1 .. n /\ b \in [DOMAIN b -> Breakpoint]

\* A free register is a register that no breakpoint of the table has.
LEMMA ReadyReg ==
    ASSUME NEW b
    PROVE  \/ find_ready_bp_reg(b) = -1
           \/ find_ready_bp_reg(b) \in Regs /\ find_ready_bp_reg(b) \notin UsedRegs(b)
<1> DEFINE F == Regs \ UsedRegs(b)
<1>1. NumHW - 1 \in Int
    BY RegAssumption
<1>2. IsFiniteSet(Regs) /\ Regs \in SUBSET Int
    BY <1>1, FS_Interval DEF Regs
<1>3. F \in SUBSET Int /\ IsFiniteSet(F)
    BY <1>2, FS_Subset
<1>4. F # {} => Min(F) \in F
    BY <1>3, MinIsMember
<1> QED
    BY <1>4 DEF find_ready_bp_reg

----------------------------------------------------------------------------
(* What bp_set_state_internal does to one word and to one register.        *)

\* The last software breakpoint of S at an address, if there is one.
LEMMA LastSoftware ==
    ASSUME NEW b, NEW n, Table(b, n), NEW S \in SUBSET DOMAIN b, NEW l,
           SoftwareAt(b, S, l) # {}
    PROVE  Max(SoftwareAt(b, S, l)) \in SoftwareAt(b, S, l)
<1> DEFINE W == SoftwareAt(b, S, l)
<1>1. n \in Nat /\ W \in SUBSET (1 .. n)
    BY DEF SoftwareAt, Table
<1> HIDE DEF W
<1>2. W # {} => Max(W) \in W
    BY <1>1, NodesFinite, MaxIsMember
<1> QED
    BY <1>2 DEF W

\* The last hardware breakpoint of S on a register, if there is one.
LEMMA LastHardware ==
    ASSUME NEW b, NEW n, Table(b, n), NEW S \in SUBSET DOMAIN b, NEW t, NEW r,
           HardwareOn(b, S, t, r) # {}
    PROVE  Max(HardwareOn(b, S, t, r)) \in HardwareOn(b, S, t, r)
<1> DEFINE W == HardwareOn(b, S, t, r)
<1>1. n \in Nat /\ W \in SUBSET (1 .. n)
    BY DEF HardwareOn, Table
<1> HIDE DEF W
<1>2. W # {} => Max(W) \in W
    BY <1>1, NodesFinite, MaxIsMember
<1> QED
    BY <1>2 DEF W

\* The code and the registers keep their types.
LEMMA EffectTypes ==
    ASSUME NEW b, NEW n, Table(b, n), NEW S \in SUBSET DOMAIN b,
           NEW d \in {BP_ENABLED, BP_DISABLED},
           NEW m \in [Locations -> Instrs],
           NEW g \in [Threads -> [Regs -> Locations \cup {Off}]]
    PROVE  /\ MemAfter(b, S, d, m) \in [Locations -> Instrs]
           /\ RegsAfter(b, S, d, g) \in [Threads -> [Regs -> Locations \cup {Off}]]
<1>1. ASSUME NEW l \in Locations, SoftwareAt(b, S, l) # {}
      PROVE  b[Max(SoftwareAt(b, S, l))].old_instruction \in Instrs
    <2>1. Max(SoftwareAt(b, S, l)) \in SoftwareAt(b, S, l)
        BY <1>1, LastSoftware
    <2>2. SoftwareAt(b, S, l) \subseteq DOMAIN b
        BY DEF SoftwareAt
    <2> QED
        BY <2>1, <2>2 DEF Table, Breakpoint
<1>2. ASSUME NEW t \in Threads, NEW r \in Regs, HardwareOn(b, S, t, r) # {}
      PROVE  b[Max(HardwareOn(b, S, t, r))].location \in Locations
    <2>1. Max(HardwareOn(b, S, t, r)) \in HardwareOn(b, S, t, r)
        BY <1>2, LastHardware
    <2>2. HardwareOn(b, S, t, r) \subseteq DOMAIN b
        BY DEF HardwareOn
    <2> QED
        BY <2>1, <2>2 DEF Table, Breakpoint
<1>3. MemAfter(b, S, d, m) \in [Locations -> Instrs]
    BY <1>1, InstrAssumption DEF MemAfter
<1>4. RegsAfter(b, S, d, g) \in [Threads -> [Regs -> Locations \cup {Off}]]
    BY <1>2 DEF RegsAfter
<1> QED
    BY <1>3, <1>4

----------------------------------------------------------------------------
(* What is kept, as predicates on a table b of nodes 1..n, a memory m and  *)
(* the registers g, so that handlers that change a table several times     *)
(* (module Stepping) can use the lemmas for each change.  No conjunct is   *)
(* kept alone: the original instruction is read from a memory that only    *)
(* Intact vouches for, Intact needs what is written back to be the         *)
(* original, and a register matches the table only because no two          *)
(* breakpoints share it.                                                   *)

DistinctRegs(b) ==
    \A k \in DOMAIN b : b[k].hw =>
        /\ b[k].hw_bp_reg \in Regs
        /\ \A j \in DOMAIN b : b[j].hw /\ b[j].hw_bp_reg = b[k].hw_bp_reg => j = k

Original(b) == \A k \in DOMAIN b : b[k].old_instruction = Code[b[k].location]

Intact(b, m) ==
    \A l \in Locations :
        m[l] # Code[l] =>
            /\ m[l] = BRK
            /\ \E k \in DOMAIN b : /\ ~b[k].hw
                                   /\ b[k].disabled = BP_ENABLED
                                   /\ b[k].location = l

Matches(b, g) ==
    \A t \in Threads, r \in Regs, l \in Locations :
        (g[t][r] = l) <=>
            \E k \in DOMAIN b : /\ b[k].hw
                                /\ b[k].disabled = BP_ENABLED
                                /\ b[k].hw_bp_reg = r
                                /\ b[k].location = l
                                /\ t \in Targets(b[k])

Sound(b, m, g, n) ==
    /\ Table(b, n)
    /\ m \in [Locations -> Instrs]
    /\ g \in [Threads -> [Regs -> Locations \cup {Off}]]
    /\ DistinctRegs(b)
    /\ Original(b)
    /\ Intact(b, m)
    /\ Matches(b, g)

\* bp_set_state_internal on the breakpoints of S keeps a table sound.
LEMMA SetStateKeeps ==
    ASSUME NEW b, NEW m, NEW g, NEW n, Sound(b, m, g, n),
           NEW S \in SUBSET DOMAIN b, NEW d \in {BP_ENABLED, BP_DISABLED},
           NEW b2, b2 = TableAfter(b, S, d),
           NEW m2, m2 = MemAfter(b, S, d, m),
           NEW g2, g2 = RegsAfter(b, S, d, g)
    PROVE  Sound(b2, m2, g2, n)
<1> USE DEF Sound
<1>1. Table(b, n)
    OBVIOUS
<1>2. /\ DOMAIN b2 = DOMAIN b
      /\ \A k \in DOMAIN b :
            /\ b2[k].hw = b[k].hw
            /\ b2[k].hw_bp_reg = b[k].hw_bp_reg
            /\ b2[k].location = b[k].location
            /\ b2[k].old_instruction = b[k].old_instruction
            /\ b2[k].thread = b[k].thread
            /\ b2[k].disabled = IF k \in S THEN d ELSE b[k].disabled
            /\ b2[k] \in Breakpoint
    BY DEF Table, TableAfter, Breakpoint
<1>3. b2 \in [DOMAIN b2 -> Breakpoint]
    BY <1>2 DEF TableAfter
<1>4. /\ Table(b2, n)
      /\ m2 \in [Locations -> Instrs]
      /\ g2 \in [Threads -> [Regs -> Locations \cup {Off}]]
    <2>2. /\ m2 \in [Locations -> Instrs]
          /\ g2 \in [Threads -> [Regs -> Locations \cup {Off}]]
        BY <1>1, EffectTypes
    <2> QED
        BY <1>2, <1>3, <2>2 DEF Table
<1>5. DistinctRegs(b2) /\ Original(b2)
    BY <1>2 DEF DistinctRegs, Original
<1>6. ASSUME NEW l \in Locations, m2[l] # Code[l]
      PROVE  /\ m2[l] = BRK
             /\ \E k \in DOMAIN b2 : /\ ~b2[k].hw
                                     /\ b2[k].disabled = BP_ENABLED
                                     /\ b2[k].location = l
    <2> DEFINE W == SoftwareAt(b, S, l)
    <2>1. m2[l] = IF W = {} THEN m[l]
                    ELSE IF d = BP_DISABLED THEN b[Max(W)].old_instruction
                    ELSE BRK
        BY DEF MemAfter
    <2>2. CASE W = {}
        <3>1. m2[l] = m[l]
            BY <2>1, <2>2
        <3>2. PICK k \in DOMAIN b : /\ ~b[k].hw
                                    /\ b[k].disabled = BP_ENABLED
                                    /\ b[k].location = l
            BY <1>6, <3>1 DEF Intact
        <3>3. k \notin S
            BY <2>2, <3>2 DEF SoftwareAt
        <3> QED
            BY <1>2, <1>6, <3>1, <3>2, <3>3 DEF Intact
    <2>3. CASE W # {}
        <3>1. Max(W) \in W
            BY <1>1, <2>3, LastSoftware
        <3>2. /\ W \subseteq S
              /\ \A k \in W : ~b[k].hw /\ b[k].location = l
            BY DEF SoftwareAt
        <3> HIDE DEF W
        <3>3. b[Max(W)].old_instruction = Code[l]
            BY <3>1, <3>2 DEF Original
        <3>4. d = BP_ENABLED /\ m2[l] = BRK
            BY <1>6, <2>1, <2>3, <3>3
        <3> QED
            BY <1>2, <3>1, <3>2, <3>4
    <2> QED
        BY <2>2, <2>3
<1>7. Intact(b2, m2)
    BY <1>6 DEF Intact
<1>8. ASSUME NEW t \in Threads, NEW r \in Regs, NEW l \in Locations
      PROVE  (g2[t][r] = l) <=>
                \E k \in DOMAIN b2 : /\ b2[k].hw
                                     /\ b2[k].disabled = BP_ENABLED
                                     /\ b2[k].hw_bp_reg = r
                                     /\ b2[k].location = l
                                     /\ t \in Targets(b2[k])
    <2> DEFINE W == HardwareOn(b, S, t, r)
    <2>1. g2[t][r] = IF W = {} THEN g[t][r]
                        ELSE IF d = BP_DISABLED THEN Off
                        ELSE b[Max(W)].location
        BY DEF RegsAfter
    <2>2. \A k \in DOMAIN b : Targets(b2[k]) = Targets(b[k])
        BY <1>2 DEF Targets
    <2>3. (g[t][r] = l) <=>
                \E k \in DOMAIN b : /\ b[k].hw
                                    /\ b[k].disabled = BP_ENABLED
                                    /\ b[k].hw_bp_reg = r
                                    /\ b[k].location = l
                                    /\ t \in Targets(b[k])
        BY DEF Matches
    <2>4. CASE W = {}
        <3>1. \A k \in DOMAIN b : b[k].hw /\ b[k].hw_bp_reg = r /\ t \in Targets(b[k])
                                => k \notin S
            BY <2>4 DEF HardwareOn
        <3> QED
            BY <1>2, <2>1, <2>2, <2>3, <2>4, <3>1
    <2>5. CASE W # {}
        <3>1. Max(W) \in W
            BY <1>1, <2>5, LastHardware
        <3>2. /\ W \subseteq S
              /\ \A k \in W : b[k].hw /\ b[k].hw_bp_reg = r /\ t \in Targets(b[k])
            BY DEF HardwareOn
        <3> HIDE DEF W
        <3>3. \A k \in DOMAIN b : b[k].hw /\ b[k].hw_bp_reg = r => k = Max(W)
            BY <3>1, <3>2 DEF DistinctRegs
        <3>4. Off # l /\ BP_ENABLED # BP_DISABLED
            BY RegAssumption DEF BP_ENABLED, BP_DISABLED
        <3>5. Max(W) \in DOMAIN b /\ Max(W) \in S
            BY <3>1, <3>2
        <3> QED
            BY <1>2, <2>1, <2>2, <2>5, <3>1, <3>2, <3>3, <3>4, <3>5
    <2> QED
        BY <2>4, <2>5
<1>9. Matches(b2, g2)
    BY <1>8 DEF Matches
<1> QED
    BY <1>4, <1>5, <1>7, <1>9

\* Disabling and unlinking the breakpoints of S keeps a table sound.
LEMMA DeleteKeeps ==
    ASSUME NEW b, NEW m, NEW g, NEW n, Sound(b, m, g, n),
           NEW S \in SUBSET DOMAIN b,
           NEW b2, b2 = Unlink(b, S),
           NEW m2, m2 = MemAfter(b, S, BP_DISABLED, m),
           NEW g2, g2 = RegsAfter(b, S, BP_DISABLED, g)
    PROVE  Sound(b2, m2, g2, n)
<1> USE DEF Sound
<1>1. Table(b, n)
    OBVIOUS
<1>2. DOMAIN b2 = DOMAIN b \ S /\ \A k \in DOMAIN b2 : b2[k] = b[k]
    BY DEF Unlink
<1>3. /\ Table(b2, n)
      /\ m2 \in [Locations -> Instrs]
      /\ g2 \in [Threads -> [Regs -> Locations \cup {Off}]]
    <2>1. BP_DISABLED \in {BP_ENABLED, BP_DISABLED}
        OBVIOUS
    <2>2. /\ m2 \in [Locations -> Instrs]
          /\ g2 \in [Threads -> [Regs -> Locations \cup {Off}]]
        BY <1>1, <2>1, EffectTypes
    <2>3. b2 \in [DOMAIN b2 -> Breakpoint]
        BY <1>2 DEF Unlink, Table
    <2> QED
        BY <1>2, <2>2, <2>3 DEF Table
<1>4. DistinctRegs(b2) /\ Original(b2)
    BY <1>2 DEF DistinctRegs, Original
<1>5. ASSUME NEW l \in Locations, m2[l] # Code[l]
      PROVE  /\ m2[l] = BRK
             /\ \E k \in DOMAIN b2 : /\ ~b2[k].hw
                                     /\ b2[k].disabled = BP_ENABLED
                                     /\ b2[k].location = l
    <2> DEFINE W == SoftwareAt(b, S, l)
    <2>1. m2[l] = IF W = {} THEN m[l] ELSE b[Max(W)].old_instruction
        BY DEF MemAfter, BP_DISABLED
    <2>2. W = {}
        <3>1. SUFFICES ASSUME W # {} PROVE m2[l] = Code[l]
            BY <1>5
        <3>2. Max(W) \in W
            BY <1>1, <3>1, LastSoftware
        <3>3. W \subseteq S /\ \A k \in W : b[k].location = l
            BY DEF SoftwareAt
        <3> HIDE DEF W
        <3> QED
            BY <2>1, <3>1, <3>2, <3>3 DEF Original
    <2>3. PICK k \in DOMAIN b : /\ ~b[k].hw
                                /\ b[k].disabled = BP_ENABLED
                                /\ b[k].location = l
        BY <1>5, <2>1, <2>2 DEF Intact
    <2>4. k \notin S
        BY <2>2, <2>3 DEF SoftwareAt
    <2> QED
        BY <1>2, <1>5, <2>1, <2>2, <2>3, <2>4 DEF Intact
<1>6. Intact(b2, m2)
    BY <1>5 DEF Intact
<1>7. ASSUME NEW t \in Threads, NEW r \in Regs, NEW l \in Locations
      PROVE  (g2[t][r] = l) <=>
                \E k \in DOMAIN b2 : /\ b2[k].hw
                                     /\ b2[k].disabled = BP_ENABLED
                                     /\ b2[k].hw_bp_reg = r
                                     /\ b2[k].location = l
                                     /\ t \in Targets(b2[k])
    <2> DEFINE W == HardwareOn(b, S, t, r)
    <2>1. g2[t][r] = IF W = {} THEN g[t][r] ELSE Off
        BY DEF RegsAfter, BP_DISABLED
    <2>2. \A k \in DOMAIN b2 : Targets(b2[k]) = Targets(b[k])
        BY <1>2
    <2>3. (g[t][r] = l) <=>
                \E k \in DOMAIN b : /\ b[k].hw
                                    /\ b[k].disabled = BP_ENABLED
                                    /\ b[k].hw_bp_reg = r
                                    /\ b[k].location = l
                                    /\ t \in Targets(b[k])
        BY DEF Matches
    <2>4. CASE W = {}
        <3>1. \A k \in DOMAIN b : b[k].hw /\ b[k].hw_bp_reg = r /\ t \in Targets(b[k])
                                => k \notin S
            BY <2>4 DEF HardwareOn
        <3> QED
            BY <1>2, <2>1, <2>2, <2>3, <2>4, <3>1
    <2>5. CASE W # {}
        <3>1. PICK x \in W : TRUE
            BY <2>5
        <3>2. x \in S /\ x \in DOMAIN b /\ b[x].hw /\ b[x].hw_bp_reg = r
            BY <3>1 DEF HardwareOn
        <3>3. \A k \in DOMAIN b : b[k].hw /\ b[k].hw_bp_reg = r => k = x
            BY <3>2 DEF DistinctRegs
        <3>4. Off # l
            BY RegAssumption
        <3> QED
            BY <1>2, <2>1, <2>5, <3>2, <3>3, <3>4
    <2> QED
        BY <2>4, <2>5
<1>8. Matches(b2, g2)
    BY <1>7 DEF Matches
<1> QED
    BY <1>3, <1>4, <1>6, <1>8

\* What breakpoint_new returns: a breakpoint with a register of its own or
\* none, which remembers the debuggee's own instruction.
LEMMA NewBreakpoint ==
    ASSUME NEW b, NEW m, NEW g, NEW n, Sound(b, m, g, n),
           current_breakpoint_id \in Nat, NEW addr \in Locations,
           NEW temporary \in BOOLEAN, NEW stepping \in BOOLEAN,
           NEW thread \in Threads \cup {BP_ALL_THREADS},
           NEW bp, bp = breakpoint_new(b, m, addr, temporary, stepping, thread)
    PROVE  /\ bp \in Breakpoint
           /\ bp.hw => bp.hw_bp_reg \in Regs /\ bp.hw_bp_reg \notin UsedRegs(b)
           /\ bp.old_instruction = Code[bp.location]
           /\ bp.disabled = BP_ENABLED
           /\ bp.temporary = temporary
           /\ bp.id = current_breakpoint_id
<1> USE DEF Sound
<1> DEFINE reg == find_ready_bp_reg(b)
           dup == find_bp_with_address(b, addr)
           ishw == reg # -1
           old == IF dup = NULL THEN m[addr] ELSE b[dup].old_instruction
           D   == {k \in DOMAIN b : b[k].location = addr}
<1>1. reg = -1 \/ (reg \in Regs /\ reg \notin UsedRegs(b))
    BY ReadyReg
<1>2. -1 \notin Regs
    BY RegAssumption DEF Regs
<1>3. old = Code[addr]
    <2>1. D \in SUBSET (1 .. n) /\ n \in Nat
        BY DEF Table
    <2>2. dup = First(D)
        BY DEF find_bp_with_address
    <2>3. CASE D = {}
        <3>1. dup = NULL
            BY <2>1, <2>2, <2>3, FirstIsMember
        <3>2. m[addr] = Code[addr]
            BY <2>3 DEF Intact
        <3> QED
            BY <3>1, <3>2
    <2>4. CASE D # {}
        <3> HIDE DEF D, dup
        <3>1. dup \in D /\ dup # NULL
            BY <2>1, <2>2, <2>4, FirstIsMember
        <3>2. dup \in DOMAIN b /\ b[dup].location = addr
            BY <3>1 DEF D
        <3> QED
            BY <3>1, <3>2 DEF Original
    <2> QED
        BY <2>3, <2>4
<1>4. bp = [id |-> current_breakpoint_id, location |-> addr, old_instruction |-> old,
            disabled |-> BP_ENABLED, temporary |-> temporary,
            for_stepping |-> stepping, hw |-> ishw, hw_bp_reg |-> reg,
            thread |-> thread]
    BY DEF breakpoint_new
<1>5. old \in Instrs /\ current_breakpoint_id \in Nat
    BY <1>3, InstrAssumption
<1>6. reg \in Regs \cup {-1} /\ ishw \in BOOLEAN /\ (ishw => reg # -1)
    BY <1>1
<1> HIDE DEF reg, old, ishw
<1>7. BP_ENABLED \in {BP_ENABLED, BP_DISABLED}
    OBVIOUS
<1>8. bp \in Breakpoint
    BY <1>4, <1>5, <1>6, <1>7 DEF Breakpoint
<1>9. /\ bp.old_instruction = old
      /\ bp.location = addr
      /\ bp.disabled = BP_ENABLED
      /\ bp.id = current_breakpoint_id
      /\ bp.hw_bp_reg = reg
    BY <1>4
<1>10. bp.hw = ishw
    BY <1>4
<1>11. bp.temporary = temporary
    BY <1>4
<1> QED
    BY <1>1, <1>3, <1>6, <1>8, <1>9, <1>10, <1>11

\* Appending a new breakpoint and arming it keeps a table sound.
LEMMA CreateKeeps ==
    ASSUME NEW b, NEW m, NEW g, Sound(b, m, g, allocs), NEW bp \in Breakpoint,
           bp.hw => bp.hw_bp_reg \in Regs /\ bp.hw_bp_reg \notin UsedRegs(b),
           bp.old_instruction = Code[bp.location],
           bp.disabled = BP_ENABLED,
           NEW new, new = allocs + 1,
           NEW b2, b2 = Append(b, bp),
           NEW m2, m2 = MemAfter(b2, {new}, BP_ENABLED, m),
           NEW g2, g2 = RegsAfter(b2, {new}, BP_ENABLED, g)
    PROVE  Sound(b2, m2, g2, new)
<1> USE DEF Sound
<1>1. /\ new \in Nat /\ new \notin DOMAIN b
      /\ DOMAIN b2 = DOMAIN b \cup {new}
      /\ b2[new] = bp
      /\ \A k \in DOMAIN b : b2[k] = b[k]
    BY DEF Append, Table
<1>2. DOMAIN b2 \subseteq 1 .. new /\ b2 \in [DOMAIN b2 -> Breakpoint]
    BY <1>1 DEF Append, Table
<1>3. Table(b2, new)
    BY <1>1, <1>2 DEF Table
<1>4. /\ m2 \in [Locations -> Instrs]
      /\ g2 \in [Threads -> [Regs -> Locations \cup {Off}]]
    <2>1. {new} \in SUBSET DOMAIN b2 /\ BP_ENABLED \in {BP_ENABLED, BP_DISABLED}
        BY <1>1
    <2> QED
        BY <1>3, <2>1, EffectTypes
<1>5. DistinctRegs(b2)
    BY <1>1 DEF DistinctRegs, UsedRegs
<1>6. Original(b2)
    BY <1>1 DEF Original
<1>7. ASSUME NEW l \in Locations, m2[l] # Code[l]
      PROVE  /\ m2[l] = BRK
             /\ \E k \in DOMAIN b2 : /\ ~b2[k].hw
                                     /\ b2[k].disabled = BP_ENABLED
                                     /\ b2[k].location = l
    <2> DEFINE W == SoftwareAt(b2, {new}, l)
    <2>1. m2[l] = IF W = {} THEN m[l] ELSE BRK
        BY <1>1 DEF MemAfter, BP_ENABLED, BP_DISABLED
    <2>2. CASE W = {}
        <3>1. m2[l] = m[l]
            BY <2>1, <2>2
        <3> QED
            BY <1>1, <1>7, <3>1 DEF Intact
    <2>3. CASE W # {}
        <3>1. ~b2[new].hw /\ b2[new].location = l
            BY <2>3 DEF SoftwareAt
        <3> QED
            BY <1>1, <2>1, <2>3, <3>1
    <2> QED
        BY <2>2, <2>3
<1>8. Intact(b2, m2)
    BY <1>7 DEF Intact
<1>9. ASSUME NEW t \in Threads, NEW r \in Regs, NEW l \in Locations
      PROVE  (g2[t][r] = l) <=>
                \E k \in DOMAIN b2 : /\ b2[k].hw
                                     /\ b2[k].disabled = BP_ENABLED
                                     /\ b2[k].hw_bp_reg = r
                                     /\ b2[k].location = l
                                     /\ t \in Targets(b2[k])
    <2> DEFINE W == HardwareOn(b2, {new}, t, r)
    <2>1. g2[t][r] = IF W = {} THEN g[t][r] ELSE b2[Max(W)].location
        BY <1>1 DEF RegsAfter, BP_ENABLED, BP_DISABLED
    <2>2. (g[t][r] = l) <=>
                \E k \in DOMAIN b : /\ b[k].hw
                                    /\ b[k].disabled = BP_ENABLED
                                    /\ b[k].hw_bp_reg = r
                                    /\ b[k].location = l
                                    /\ t \in Targets(b[k])
        BY DEF Matches
    <2>3. \A k \in DOMAIN b : Targets(b2[k]) = Targets(b[k])
        BY <1>1
    <2>4. CASE W = {}
        <3>1. ~(b2[new].hw /\ b2[new].hw_bp_reg = r /\ t \in Targets(b2[new]))
            BY <2>4 DEF HardwareOn
        <3> QED
            BY <1>1, <2>1, <2>2, <2>3, <2>4, <3>1
    <2>5. CASE W # {}
        <3>1. b2[new].hw /\ b2[new].hw_bp_reg = r /\ t \in Targets(b2[new])
            BY <2>5 DEF HardwareOn
        <3>2. Max(W) = new
            <4>1. {new} \in SUBSET DOMAIN b2
                BY <1>1
            <4>2. Max(W) \in W
                BY <1>3, <2>5, <4>1, LastHardware
            <4>3. W \subseteq {new}
                BY DEF HardwareOn
            <4> QED
                BY <4>2, <4>3
        <3>3. \A k \in DOMAIN b : ~(b[k].hw /\ b[k].hw_bp_reg = r)
            BY <1>1, <3>1 DEF UsedRegs
        <3> HIDE DEF W
        <3> QED
            BY <1>1, <2>1, <2>5, <3>1, <3>2, <3>3
    <2> QED
        BY <2>4, <2>5
<1>10. Matches(b2, g2)
    BY <1>9 DEF Matches
<1> QED
    BY <1>3, <1>4, <1>5, <1>6, <1>8, <1>10

----------------------------------------------------------------------------
(* The inductive invariant.                                                *)

IInv == /\ TypeOK
        /\ HWRegsDistinct
        /\ OldInstructionIsOriginal
        /\ CodeIntact
        /\ RegistersMatchTable

\* The invariant says that the table is sound.
LEMMA InvariantIsSoundness ==
    IInv <=> /\ Sound(bps, mem, regs, allocs)
             /\ num_breakpoints \in Int /\ current_breakpoint_id \in Nat
BY DEF IInv, TypeOK, HWRegsDistinct, OldInstructionIsOriginal, CodeIntact,
       RegistersMatchTable, Live, Sound, Table, DistinctRegs, Original, Intact, Matches

\* The same of the state after a step.
LEMMA InvariantIsSoundnessAfter ==
    IInv' <=> /\ Sound(bps', mem', regs', allocs')
              /\ num_breakpoints' \in Int /\ current_breakpoint_id' \in Nat
BY DEF IInv, TypeOK, HWRegsDistinct, OldInstructionIsOriginal, CodeIntact,
       RegistersMatchTable, Live, Sound, Table, DistinctRegs, Original, Intact, Matches

\* SetState, the change behind breakpoint_disable, breakpoint_enable,
\* breakpoint_disable_all_except and breakpoint_enable_all_specific.
LEMMA SetStateStep ==
    ASSUME IInv, NEW S \in SUBSET Live, NEW d \in {BP_ENABLED, BP_DISABLED},
           SetState(S, d)
    PROVE  IInv'
<1>1. Sound(bps', mem', regs', allocs)
    BY InvariantIsSoundness, SetStateKeeps DEF SetState, Live
<1> QED
    BY <1>1, InvariantIsSoundness, InvariantIsSoundnessAfter DEF SetState

\* Delete, the change behind every deletion of one or several breakpoints.
LEMMA DeleteStep ==
    ASSUME IInv, NEW S \in SUBSET Live, Delete(S)
    PROVE  IInv'
<1>1. Sound(bps', mem', regs', allocs)
    BY InvariantIsSoundness, DeleteKeeps DEF Delete, Live
<1>2. Cardinality(S) \in Nat
    <2>1. S \in SUBSET (1 .. allocs) /\ allocs \in Nat
        BY DEF IInv, TypeOK
    <2>2. IsFiniteSet(S)
        BY <2>1, NodesFinite
    <2> QED
        BY <2>2, FS_CardinalityType
<1>3. num_breakpoints' \in Int
    BY <1>2 DEF Delete, IInv, TypeOK
<1> QED
    BY <1>1, <1>3, InvariantIsSoundness, InvariantIsSoundnessAfter DEF Delete

\* Create, the change behind breakpoint_at_address and set_stepping_breakpoint.
LEMMA CreateStep ==
    ASSUME IInv, NEW bp \in Breakpoint,
           bp.hw => bp.hw_bp_reg \in Regs /\ bp.hw_bp_reg \notin UsedRegs(bps),
           bp.old_instruction = Code[bp.location],
           bp.disabled = BP_ENABLED,
           Create(bp)
    PROVE  IInv'
<1>1. Sound(bps', mem', regs', allocs')
    BY InvariantIsSoundness, CreateKeeps DEF Create
<1>2. num_breakpoints' \in Int /\ current_breakpoint_id' \in Nat
    BY DEF Create, IInv, TypeOK
<1> QED
    BY <1>1, <1>2, InvariantIsSoundnessAfter

----------------------------------------------------------------------------
(* Every step is one of the three.                                         *)

\* Lookups by id return a node of the list, or NULL.
LEMMA FindById ==
    ASSUME TypeOK, NEW id, find_bp_with_id(bps, id) # NULL
    PROVE  find_bp_with_id(bps, id) \in Live
<1> DEFINE D == {k \in Live : bps[k].id = id}
<1>1. D \in SUBSET (1 .. allocs) /\ allocs \in Nat
    BY DEF TypeOK
<1>2. find_bp_with_id(bps, id) = First(D)
    BY DEF find_bp_with_id, Live
<1>3. D \subseteq Live
    OBVIOUS
<1> HIDE DEF D
<1> QED
    BY <1>1, <1>2, <1>3, FirstIsMember

\* A step of Next creates a breakpoint as breakpoint_new makes it, deletes
\* some, or sets the state of some.
LEMMA NextIsOneOfThree ==
    ASSUME IInv, Next
    PROVE  \/ \E addr \in Locations, thread \in Threads \cup {BP_ALL_THREADS} :
                    \/ breakpoint_at_address(addr, thread)
                    \/ set_stepping_breakpoint(addr, thread)
           \/ \E S \in SUBSET Live : Delete(S)
           \/ \E S \in SUBSET Live, d \in {BP_ENABLED, BP_DISABLED} : SetState(S, d)
<1> USE DEF IInv
<1>1. CASE \E k \in Live : breakpoint_hit(k) \/ breakpoint_delete_specific(k)
    BY <1>1 DEF breakpoint_hit, breakpoint_delete_specific
<1>2. CASE \E id \in Ids : breakpoint_delete(id)
    BY <1>2, FindById DEF breakpoint_delete
<1>3. CASE \E id \in Ids : breakpoint_disable(id) \/ breakpoint_enable(id)
    BY <1>3, FindById DEF breakpoint_disable, breakpoint_enable
<1>4. CASE breakpoint_delete_all
    BY <1>4 DEF breakpoint_delete_all
<1>5. CASE breakpoint_delete_all_specific("BP_COND_STEPPING")
    <2>1. Matching(bps, "BP_COND_STEPPING") \in SUBSET Live
        BY DEF Matching, Live
    <2> QED
        BY <1>5, <2>1 DEF breakpoint_delete_all_specific
<1>6. CASE breakpoint_disable_all_except("BP_COND_STEPPING")
    BY <1>6 DEF breakpoint_disable_all_except
<1>7. CASE breakpoint_enable_all_specific("BP_COND_NORMAL")
    <2>1. Matching(bps, "BP_COND_NORMAL") \in SUBSET Live
        BY DEF Matching, Live
    <2> QED
        BY <1>7, <2>1 DEF breakpoint_enable_all_specific
<1> QED
    BY <1>1, <1>2, <1>3, <1>4, <1>5, <1>6, <1>7 DEF Next

\* The invariant is inductive.
LEMMA IInvStep ==
    ASSUME IInv, [Next]_vars
    PROVE  IInv'
<1>1. CASE UNCHANGED vars
    BY <1>1 DEF IInv, TypeOK, HWRegsDistinct, OldInstructionIsOriginal, CodeIntact,
                RegistersMatchTable, Live, vars
<1>2. CASE Next
    <2>1. ASSUME NEW addr \in Locations, NEW thread \in Threads \cup {BP_ALL_THREADS},
                 NEW temporary \in BOOLEAN, NEW stepping \in BOOLEAN,
                 Create(breakpoint_new(bps, mem, addr, temporary, stepping, thread))
          PROVE  IInv'
        <3> DEFINE bp == breakpoint_new(bps, mem, addr, temporary, stepping, thread)
        <3>1. /\ bp \in Breakpoint
              /\ bp.hw => bp.hw_bp_reg \in Regs /\ bp.hw_bp_reg \notin UsedRegs(bps)
              /\ bp.old_instruction = Code[bp.location]
              /\ bp.disabled = BP_ENABLED
            BY NewBreakpoint, InvariantIsSoundness
        <3>2. Create(bp)
            BY <2>1
        <3> HIDE DEF bp
        <3> QED
            BY <3>1, <3>2, CreateStep
    <2>2. ASSUME NEW addr \in Locations, NEW thread \in Threads \cup {BP_ALL_THREADS},
                 \/ breakpoint_at_address(addr, thread)
                 \/ set_stepping_breakpoint(addr, thread)
          PROVE  IInv'
        <3>1. TRUE \in BOOLEAN /\ FALSE \in BOOLEAN
            OBVIOUS
        <3> QED
            BY <2>1, <2>2, <3>1 DEF breakpoint_at_address, set_stepping_breakpoint
    <2> QED
        BY <1>2, <2>2, NextIsOneOfThree, DeleteStep, SetStateStep
<1> QED
    BY <1>1, <1>2

\* Initially the list is empty, the code is the debuggee's own and every
\* register is off.
LEMMA IInvInit == Init => IInv
<1> SUFFICES ASSUME Init PROVE IInv
    OBVIOUS
<1>1. Live = {}
    BY DEF Init, Live
<1>2. \A t \in Threads, r \in Regs : regs[t][r] = Off
    BY DEF Init
<1>3. TypeOK
    BY <1>1, InstrAssumption DEF Init, TypeOK, Live
<1> QED
    BY <1>1, <1>2, <1>3, RegAssumption DEF IInv, Init, HWRegsDistinct,
        OldInstructionIsOriginal, CodeIntact, RegistersMatchTable

\* The inductive invariant holds in every reachable state of the table.
THEOREM Inductive == Spec => []IInv
<1>1. IInv /\ [Next]_vars => IInv'
    BY IInvStep
<1> QED
    BY IInvInit, <1>1, PTL DEF Spec

\* The variables of the breakpoint table keep their types.
THEOREM TypeCorrect == Spec => []TypeOK
BY Inductive, PTL DEF IInv

\* find_ready_bp_reg never gives one register to two breakpoints.
THEOREM RegistersNeverShared == Spec => []HWRegsDistinct
BY Inductive, PTL DEF IInv

\* breakpoint_new always remembers the debuggee's own instruction.
THEOREM OriginalInstructionKept == Spec => []OldInstructionIsOriginal
BY Inductive, PTL DEF IInv

\* The debuggee's code is its own, except under an enabled breakpoint.
THEOREM NoStrayBRK == Spec => []CodeIntact
BY Inductive, PTL DEF IInv

\* The breakpoint registers of every thread say what the table says.
THEOREM RegistersSayTable == Spec => []RegistersMatchTable
BY Inductive, PTL DEF IInv

\* When the last breakpoint is gone, so is every trace of the debugger.
THEOREM DetachLeavesNothing == Spec => []CleanWhenEmpty
<1>1. IInv => CleanWhenEmpty
    <2> SUFFICES ASSUME IInv, Live = {} PROVE /\ mem = Code
                                             /\ regs = [t \in Threads |-> [r \in Regs |-> Off]]
        BY DEF CleanWhenEmpty
    <2>1. \A l \in Locations : mem[l] = Code[l]
        BY DEF IInv, CodeIntact
    <2>2. \A t \in Threads, r \in Regs : regs[t][r] = Off
        BY DEF IInv, TypeOK, RegistersMatchTable
    <2>3. mem = Code
        BY <2>1, InstrAssumption DEF IInv, TypeOK
    <2>4. \A t \in Threads : regs[t] = [r \in Regs |-> Off]
        BY <2>2 DEF IInv, TypeOK
    <2> QED
        BY <2>3, <2>4 DEF IInv, TypeOK
<1> QED
    BY Inductive, <1>1, PTL

----------------------------------------------------------------------------
(* The ids and the counter, from the type invariant alone.                 *)

Counted == UserIdsDistinct /\ CountMatchesList

\* A new breakpoint takes the next id unless it is temporary, and is counted.
LEMMA CreateCounted ==
    ASSUME IInv, Counted, NEW bp, bp.id = current_breakpoint_id, Create(bp)
    PROVE  Counted'
<1> USE DEF IInv
<1> DEFINE new == allocs + 1
<1>1. /\ allocs' = new /\ new \notin Live
      /\ Live' = Live \cup {new}
      /\ bps'[new] = bp
      /\ \A k \in Live : bps'[k] = bps[k]
    BY DEF Create, Append, Live, TypeOK
<1>2. \A k \in Live : bps[k].id \in Nat
    BY DEF TypeOK, Breakpoint
<1>3. CASE bp.temporary
    <2>1. current_breakpoint_id' = current_breakpoint_id
        BY <1>3 DEF Create, TypeOK
    <2> QED
        <3>1. UserIdsDistinct'
            BY <1>1, <1>2, <1>3, <2>1 DEF UserIdsDistinct, Counted
        <3>2. CountMatchesList'
            <4>1. IsFiniteSet(Live)
                BY NodesFinite DEF TypeOK
            <4>2. Cardinality(Live') = Cardinality(Live) + 1
                BY <1>1, <4>1, FS_AddElement
            <4> QED
                BY <4>2 DEF Create, CountMatchesList, Counted
        <3> QED
            BY <3>1, <3>2 DEF Counted
<1>4. CASE ~bp.temporary
    <2>1. current_breakpoint_id' = current_breakpoint_id + 1
        BY <1>4 DEF Create, TypeOK
    <2> QED
        <3>1. UserIdsDistinct'
            BY <1>1, <1>2, <1>4, <2>1 DEF UserIdsDistinct, Counted, TypeOK
        <3>2. CountMatchesList'
            <4>1. IsFiniteSet(Live)
                BY NodesFinite DEF TypeOK
            <4>2. Cardinality(Live') = Cardinality(Live) + 1
                BY <1>1, <4>1, FS_AddElement
            <4> QED
                BY <4>2 DEF Create, CountMatchesList, Counted
        <3> QED
            BY <3>1, <3>2 DEF Counted
<1> QED
    BY <1>3, <1>4

\* Deleting uncounts exactly what it unlinks, and reuses no id.
LEMMA DeleteCounted ==
    ASSUME IInv, Counted, NEW S \in SUBSET Live, Delete(S)
    PROVE  Counted'
<1> USE DEF IInv
<1>1. Live' = Live \ S /\ \A k \in Live' : bps'[k] = bps[k]
    BY DEF Delete, Unlink, Live
<1>2. UserIdsDistinct'
    BY <1>1 DEF UserIdsDistinct, Counted, Delete
<1>3. CountMatchesList'
    <2>1. IsFiniteSet(Live)
        BY NodesFinite DEF TypeOK
    <2>2. Cardinality(Live \ S) = Cardinality(Live) - Cardinality(Live \cap S)
        BY <2>1, FS_Difference
    <2>3. Live \cap S = S
        OBVIOUS
    <2> QED
        BY <1>1, <2>2, <2>3 DEF Delete, CountMatchesList, Counted
<1> QED
    BY <1>2, <1>3 DEF Counted

\* The ids the user sees are distinct, and num_breakpoints is the list's length.
THEOREM IdsAndCount == Spec => [](UserIdsDistinct /\ CountMatchesList)
<1>1. Init => Counted
    <2> SUFFICES ASSUME Init PROVE Counted
        OBVIOUS
    <2>1. Live = {}
        BY DEF Init, Live
    <2>2. Cardinality({}) = 0
        BY FS_EmptySet
    <2> QED
        BY <2>1, <2>2 DEF Init, Counted, UserIdsDistinct, CountMatchesList
<1>2. ASSUME IInv, Counted, [Next]_vars
      PROVE  Counted'
    <2>1. CASE UNCHANGED vars
        BY <1>2, <2>1 DEF Counted, UserIdsDistinct, CountMatchesList, Live, vars
    <2>2. ASSUME NEW addr \in Locations, NEW thread \in Threads \cup {BP_ALL_THREADS},
                 NEW temporary \in BOOLEAN, NEW stepping \in BOOLEAN,
                 Create(breakpoint_new(bps, mem, addr, temporary, stepping, thread))
          PROVE  Counted'
        <3>1. breakpoint_new(bps, mem, addr, temporary, stepping, thread).id
                = current_breakpoint_id
            BY <1>2, NewBreakpoint, InvariantIsSoundness
        <3> QED
            BY <1>2, <2>2, <3>1, CreateCounted
    <2>3. ASSUME NEW addr \in Locations, NEW thread \in Threads \cup {BP_ALL_THREADS},
                 \/ breakpoint_at_address(addr, thread)
                 \/ set_stepping_breakpoint(addr, thread)
          PROVE  Counted'
        <3>1. TRUE \in BOOLEAN /\ FALSE \in BOOLEAN
            OBVIOUS
        <3> QED
            BY <2>2, <2>3, <3>1 DEF breakpoint_at_address, set_stepping_breakpoint
    <2>4. ASSUME NEW S \in SUBSET Live, NEW d \in {BP_ENABLED, BP_DISABLED}, SetState(S, d)
          PROVE  Counted'
        <3>1. /\ Live' = Live
              /\ \A k \in Live : /\ bps'[k].temporary = bps[k].temporary
                                 /\ bps'[k].id = bps[k].id
            BY <1>2, <2>4 DEF SetState, TableAfter, Live, IInv, TypeOK, Breakpoint
        <3> QED
            BY <1>2, <2>4, <3>1 DEF SetState, Counted, UserIdsDistinct, CountMatchesList
    <2> QED
        BY <1>2, <2>1, <2>3, <2>4, NextIsOneOfThree, DeleteCounted
<1>3. IInv /\ Counted /\ [Next]_vars => Counted'
    BY <1>2
<1> QED
    BY Inductive, <1>1, <1>3, PTL DEF Spec, Counted
============================================================================
