----------------------------- MODULE MCThreads -----------------------------
(* Instances of Threads for TLC.                                           *)
EXTENDS Threads

Bounds(t, d, p, c) == [threads |-> t, deaths |-> d, points |-> p, calls |-> c]

\* Two points on threads that come and go; one point while the focus moves,
\* with a third thread or a second change of the focus; two changes of the
\* focus among three threads, and among threads that come and go.
MCSizes == {Bounds(3, 2, 2, 0), Bounds(3, 1, 1, 1), Bounds(2, 0, 1, 2),
            Bounds(3, 0, 0, 2), Bounds(2, 1, 0, 2)}
============================================================================
