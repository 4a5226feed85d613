----------------------------- MODULE MCSession -----------------------------
(* Instances of Session for TLC: two processes, two sessions.              *)
EXTENDS Session
============================================================================
