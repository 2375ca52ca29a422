---------------------------- MODULE MCTunnelSink ----------------------------
(* Bounds of TunnelSink for TLC: numbers of three bits, of which a jump is   *)
(* large from 3 on, and what may happen to the packets.                      *)
EXTENDS TunnelSink, TLC

Packets7 == [e \in BoundedEvents |-> IF e = "packet" THEN 7 ELSE 0]
Packets5 == [Packets7 EXCEPT !["packet"] = 5]
Packets4 == [Packets7 EXCEPT !["packet"] = 4]
Packets6 == [Packets7 EXCEPT !["packet"] = 6]
Disturbances == {[Packets6 EXCEPT !["loss"] = 2],
                 [Packets5 EXCEPT !["loss"] = 1, !["delay"] = 1],
                 [Packets4 EXCEPT !["delay"] = 1, !["duplicate"] = 1]}
OneEach == {[Packets4 EXCEPT ![e] = 1] : e \in {"loss", "delay", "parseError"}}

\* Findings: nothing happens to the packets; one of them comes twice.
Undisturbed == {Packets4}
OneTwice == {[Packets5 EXCEPT !["duplicate"] = 1]}
=============================================================================
