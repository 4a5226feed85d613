--------------------------- MODULE MCBreakpoints ---------------------------
(* Small instances of Breakpoints for TLC.                                 *)
EXTENDS Breakpoints, TLC

CONSTANTS l1, l2, t1, t2, mov, add, brk

MCLocations == {l1, l2}
MCInstrs    == {mov, add, brk}
MCCode      == [l \in MCLocations |-> IF l = l1 THEN mov ELSE add]
MCThreads   == {t1, t2}

\* The two threads are interchangeable; the two locations hold different code.
Symmetry == Permutations(MCThreads)
============================================================================
