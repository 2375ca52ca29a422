--------------------------- MODULE PlayerRequests ---------------------------
(***************************************************************************)
(* What the playback engine promises to the driver about its slow requests:*)
(* seeks that want an answer and resets are carried out in the order they  *)
(* were asked for, one at a time, none is lost or repeated; a seek is      *)
(* answered after it was carried out, and before a reset is.               *)
(***************************************************************************)
EXTENDS Naturals, Sequences

VARIABLES
    waiting,     \* the requests that have not been carried out, oldest first
    answering    \* a seek has been carried out and its answer is due

vars == <<waiting, answering>>

Request == {"Seek", "Reset"}

Init == waiting = <<>> /\ answering = FALSE

Ask(r) == waiting' = Append(waiting, r) /\ UNCHANGED answering

Carry(r) == waiting # <<>> /\ Head(waiting) = r /\ waiting' = Tail(waiting)

CarryOutSeek == Carry("Seek") /\ answering' = TRUE

\* Seeks that follow each other closely may share an answer.
Answer == answering /\ answering' = FALSE /\ UNCHANGED waiting

CarryOutReset == Carry("Reset") /\ ~answering /\ UNCHANGED answering

Next == (\E r \in Request : Ask(r)) \/ CarryOutSeek \/ Answer \/ CarryOutReset

Spec == Init /\ [][Next]_vars
=============================================================================
