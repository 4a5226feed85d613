------------------------------- MODULE Output -------------------------------
(***************************************************************************)
(* What io_append and io_flush (source/dbgio.c) promise together: a        *)
(* message is shown whole, by itself, once, and in the order in which the  *)
(* messages were appended, whatever thread appended them.                  *)
(*                                                                         *)
(* The promise ends when a signal cuts a write or a read of the pipe       *)
(* short: the return values of write are only added up.                    *)
(***************************************************************************)
EXTENDS Sequences, Naturals

VARIABLES
    sent,      \* the messages appended, in order
    shown,     \* what io_flush has displayed, one entry for each call
    broken     \* a system call on the pipe was interrupted

vars == <<sent, shown, broken>>

Init ==
    /\ sent = <<>>
    /\ shown = <<>>
    /\ broken = FALSE

Append_message ==
    /\ Len(sent') = Len(sent) + 1
    /\ SubSeq(sent', 1, Len(sent)) = sent
    /\ UNCHANGED <<shown, broken>>

Show_next ==
    /\ Len(shown) < Len(sent)
    /\ shown' = Append(shown, sent[Len(shown) + 1])
    /\ UNCHANGED <<sent, broken>>

\* Nothing more is promised.
Break == broken'

Next == Append_message \/ Show_next \/ Break

Spec == Init /\ [][Next]_vars
=============================================================================
