----------------------------- MODULE MCConsole -----------------------------
(* Instance of Console for TLC: a pipe that one long message almost fills. *)
EXTENDS Console
============================================================================
