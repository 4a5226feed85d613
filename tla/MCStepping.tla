----------------------------- MODULE MCStepping -----------------------------
(* A program that calls a function in a loop, for two threads or one.       *)
EXTENDS Stepping, TLC

CONSTANTS t1, t2, NOP

\* 1: nop   2: bl 4   3: b 1   4: ret   and, apart from it,   5: b 6   6: b 5
MCLocations == 1 .. 6
MCInstrs == {NOP, BL, B, RET, BRK}
MCCode == (1 :> NOP) @@ (2 :> BL) @@ (3 :> B) @@ (4 :> RET) @@ (5 :> B) @@ (6 :> B)
MCTarget == (2 :> 4) @@ (3 :> 1) @@ (5 :> 6) @@ (6 :> 5)
MCTwo == {t1, t2}
MCOne == {t1}
MCTogether == [t \in Threads |-> 1]
MCApart == [t \in Threads |-> IF t = t1 THEN 5 ELSE 1]
MCAll == {BP_ALL_THREADS}
MCUser == {t1, BP_ALL_THREADS}
=============================================================================
