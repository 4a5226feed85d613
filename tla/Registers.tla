----------------------------- MODULE Registers -----------------------------
(***************************************************************************)
(* The registers of the focused thread (source/reg.c, source/cmd/regcmd.c, *)
(* the state functions of source/thread.c): what the thread has, the copy  *)
(* the debugger keeps of it, and the commands that show and change it.     *)
(*                                                                         *)
(* A vector register is two longs, or four bytes of half a long.  A value  *)
(* typed for a register is [t, v, b]: an integer ("int"), a number with a  *)
(* dot ("dec"), bytes in braces ("bytes") or none of them ("bad").         *)
(***************************************************************************)
EXTENDS Numbers, FiniteSets

CONSTANTS Runs,          \* register contents that a thread may be found with
          WriteNames,    \* names and values that are typed for `register write'
          WriteValues

VARIABLES
    attached,    \* there is a focused thread
    hw,          \* its registers
    cache,       \* the copy in its struct machthread
    ran,         \* history: it ran since both halves of the copy were fetched
    written      \* history: what each register written since it ran must show

registers == <<attached, hw, cache, ran, written>>

RegNames == {"x0", "w0", "pc", "q0", "d0", "s0", "fpsr"}

\* The part of the thread's state a register lives in.
File == [r \in RegNames |->
            CASE r \in {"x0", "w0"} -> "x0"
              [] r \in {"q0", "d0", "s0"} -> "v0"
              [] OTHER -> r]

States == [x0 : 0 .. Ones, pc : 0 .. Ones, fpsr : 0 .. Half - 1, v0 : (0 .. Ones) \X (0 .. Ones)]

ASSUME RunsAssumption == Runs \subseteq States /\ Runs # {}

ASSUME WriteAssumption ==
    \A val \in WriteValues : val.t \in {"int", "dec", "bytes", "bad"} /\ val.v \in Int /\ val.b \in Seq(0 .. Half - 1)

RegistersTypeOK ==
    /\ attached \in BOOLEAN /\ ran \in BOOLEAN
    /\ hw \in States /\ cache \in States
    /\ DOMAIN written = RegNames /\ \A r \in RegNames : Len(written[r]) <= 1

RegistersInit ==
    /\ attached = FALSE /\ ran = FALSE
    /\ hw = (CHOOSE s \in Runs : TRUE) /\ cache = hw
    /\ written = [r \in RegNames |-> <<>>]

----------------------------------------------------------------------------
(* thread.c                                                                *)

get_thread_state(s) == [s EXCEPT !.x0 = hw.x0, !.pc = hw.pc]
get_neon_state(s)   == [s EXCEPT !.v0 = hw.v0, !.fpsr = hw.fpsr]

\* Mutant: the vector registers are left as they were.
update_all_thread_states_NoNeon == cache' = get_thread_state(cache) /\ ran' = FALSE

\* Both halves are fetched, the debug state apart.
update_all_thread_states == cache' = get_neon_state(get_thread_state(cache)) /\ ran' = FALSE

----------------------------------------------------------------------------
(* reg.c                                                                   *)

\* The register a name is read as.  After the letter, strtol takes the digits
\* there are, so a name such as $sum is read as s0 (but cannot be written).
Registers == [x \in {"$x0", "$w0", "$pc", "$q0", "$d0", "$s0", "$sum", "$fpsr"} |->
    CASE x = "$x0" -> "x0" [] x = "$w0" -> "w0" [] x = "$pc" -> "pc" [] x = "$q0" -> "q0"
      [] x = "$d0" -> "d0" [] x \in {"$s0", "$sum"} -> "s0" [] x = "$fpsr" -> "fpsr"]

good_reg(name)  == name \in DOMAIN Registers
writable(name)  == good_reg(name) /\ name # "$sum"

\* The unsigned number that is printed; for a vector, its bytes in memory.
regtoa(s, r) ==
    CASE r \in {"x0", "pc", "fpsr"} -> s[r]
      [] r = "w0" -> s.x0 % Half
      [] r = "d0" -> s.v0[1]
      [] r = "s0" -> s.v0[1] % Half
      [] r = "q0" -> <<s.v0[1] % Half, s.v0[1] \div Half, s.v0[2] % Half, s.v0[2] \div Half>>

\* What `register view' prints: strtol reads the number back.
regtol(s, r) == IF r = "q0" THEN regtoa(s, r) ELSE strtol(regtoa(s, r))

\* The bits of a floating-point number: a sign and a magnitude.
FloatBits(n, width) == (Abs(n) % (width \div 2)) + (IF n < 0 THEN width \div 2 ELSE 0)

\* A signed number of the given width stored in an unsigned long or vector.
Extended(n, width) == IF n >= width \div 2 THEN n + Whole - width ELSE n
Vector(n, width)   == <<Extended(n, width), IF n >= width \div 2 THEN Ones ELSE 0>>

\* Bytes are taken from the end; when they run out the first is taken again.
ByteAt(b, i) == IF i < Len(b) THEN b[Len(b) - i] ELSE b[1]

\* The copy after an assignment; ok is FALSE when the text is refused.
setreg(name, val) ==
    LET r       == Registers[name]
        integer == val.t = "int"
        number  == val.t \in {"int", "dec"}
        long    == strtol(val.v) % Whole
        low     == strtol(val.v) % Half
        bytes   == [i \in 1 .. 4 |-> ByteAt(val.b, 4 - i)]
        refused == [ok |-> FALSE, s |-> cache]
        to(f, x) == [ok |-> TRUE, s |-> [cache EXCEPT ![f] = x]]
    IN  IF ~writable(name) THEN refused ELSE
        CASE r \in {"x0", "pc"} /\ integer -> to(r, long)
          [] r = "fpsr" /\ integer -> to(r, low)
          [] r = "w0" /\ integer ->
                to("x0", IF low >= Half \div 2 THEN Extended(low, Half) ELSE (cache.x0 \div Half) * Half + low)
          [] r = "d0" /\ number -> to("v0", Vector(FloatBits(val.v, Whole), Whole))
          [] r = "s0" /\ number -> to("v0", Vector(FloatBits(val.v, Half), Half))
          [] r = "q0" /\ val.t = "bytes" /\ val.b # <<>> ->
                to("v0", <<bytes[2] * Half + bytes[1], bytes[4] * Half + bytes[3]>>)
          [] OTHER -> refused

\* Mutant: only the general registers are written back.
StoreBack_ThreadOnly(s) == cache' = s /\ hw' = [hw EXCEPT !.x0 = s.x0, !.pc = s.pc]

\* The whole copy is written back, whatever the thread did since.
StoreBack(s) == cache' = s /\ hw' = s

\* What must be shown of a register that was written: the value, if it is one
\* that `register view' can print (the sign bit of a long cannot).
MustShow(r, val) ==
    CASE r \in {"x0", "pc"} -> IF val.v >= 0 THEN <<strtol(val.v)>> ELSE <<>>
      [] r \in {"w0", "fpsr"} -> <<strtol(val.v) % Half>>
      [] r = "s0" -> <<FloatBits(val.v, Half)>>
      [] r = "d0" -> IF val.v >= 0 THEN <<FloatBits(val.v, Whole)>> ELSE <<>>
      [] r = "q0" -> IF Len(val.b) = 4 THEN <<val.b>> ELSE <<>>

----------------------------------------------------------------------------
(* The commands and what else touches the registers.                       *)

\* Without arguments, the general registers.
cmdfunc_register_view_all ==
    /\ attached
    /\ cache' = get_thread_state(cache)
    /\ UNCHANGED <<attached, hw, ran, written>>

cmdfunc_register_view ==
    /\ attached
    /\ update_all_thread_states
    /\ UNCHANGED <<attached, hw, written>>

cmdfunc_register_write(name, val) ==
    /\ attached
    /\ \E r \in {setreg(name, val)} :
        IF r.ok
        THEN /\ StoreBack(r.s)
             /\ written' = [q \in RegNames |->
                    IF q = Registers[name] THEN MustShow(q, val)
                    ELSE IF File[q] = File[Registers[name]] THEN <<>> ELSE written[q]]
        ELSE UNCHANGED <<cache, hw, written>>
    /\ UNCHANGED <<attached, ran>>

\* The thread runs; all that it leaves in its registers is its own.
ThreadRuns(s) ==
    /\ attached
    /\ hw' = s /\ ran' = TRUE
    /\ written' = [r \in RegNames |-> <<>>]
    /\ UNCHANGED <<attached, cache>>

\* An exception fetches the general registers only.
handle_exception ==
    /\ attached
    /\ cache' = get_thread_state(cache)
    /\ UNCHANGED <<attached, hw, ran, written>>

\* The thread monitor's round, a second later at most.
ops_threadupdate ==
    /\ attached
    /\ update_all_thread_states
    /\ UNCHANGED <<attached, hw, written>>

\* A thread with registers s gets the focus; machthread_new fetches them.
cmdfunc_attach(s) ==
    /\ ~attached /\ attached' = TRUE
    /\ hw' = s /\ cache' = s /\ ran' = FALSE
    /\ UNCHANGED written

ops_detach ==
    /\ attached /\ attached' = FALSE
    /\ written' = [r \in RegNames |-> <<>>]
    /\ UNCHANGED <<hw, cache, ran>>

\* Any of them.
RegistersNext ==
    \/ \E x \in WriteNames, val \in WriteValues : cmdfunc_register_write(x, val)
    \/ cmdfunc_register_view
    \/ cmdfunc_register_view_all
    \/ \E s \in Runs : ThreadRuns(s) \/ cmdfunc_attach(s)
    \/ handle_exception
    \/ ops_threadupdate
    \/ ops_detach

RegistersSpec == RegistersInit /\ [][RegistersNext]_registers

----------------------------------------------------------------------------
\* A register that was written shows what was written to it until the thread
\* runs or a register that overlaps it is written: neither the writes of
\* other registers, which store the whole copy back, nor the conversions in
\* between (sign extension, bytes taken from the end, strtol of what was
\* printed) lose it.
ViewShowsWritten == \A r \in RegNames : written[r] # <<>> => <<regtol(hw, r)>> = written[r]

\* Writing one register leaves the others of the thread alone when it has not
\* run since both halves of the copy were fetched (a `register view' with
\* arguments, the thread monitor's round or an attach).  An exception fetches
\* only the general registers, and without that premise the write puts the
\* vector registers back to what they were before the thread ran.
WriteKeepsOthers ==
    [][ attached /\ ~ran /\ ~ran' => Cardinality({f \in DOMAIN hw : hw[f] # hw'[f]}) <= 1 ]_registers
=============================================================================
