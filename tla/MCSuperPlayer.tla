---------------------------- MODULE MCSuperPlayer ----------------------------
(* Bounds of SuperPlayer for TLC.                                            *)
EXTENDS SuperPlayer, TLC

Ids == {1, 2}
=============================================================================
