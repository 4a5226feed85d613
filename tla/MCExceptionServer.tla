------------------------- MODULE MCExceptionServer -------------------------
(* Small instances of ExceptionServer: two threads of the debuggee.        *)
EXTENDS ExceptionServer, TLC

CONSTANTS t1, t2

MCThreads == {t1, t2}

Symmetry == Permutations(MCThreads)
=============================================================================
