--------------------------- MODULE MCLiveSession ---------------------------
(* Bounds of LiveSession for TLC: what happens in a session.                 *)
EXTENDS LiveSession, TLC

Once == [e \in BoundedEvents |-> 1]
AllButOneOnce == {[Once EXCEPT !["select"] = 0], [Once EXCEPT !["fetchError"] = 0],
                  [Once EXCEPT !["seek"] = 0]}
SeekAndSelect == {[Once EXCEPT !["fetchError"] = 0, !["disconnect"] = 0]}
SelectOnly == {[e \in BoundedEvents |-> IF e = "select" THEN 1 ELSE 0]}
=============================================================================
