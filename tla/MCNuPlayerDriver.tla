-------------------------- MODULE MCNuPlayerDriver --------------------------
(* Bounds of NuPlayerDriver for TLC: how often, in a run, the client may    *)
(* call and the streams may end or fail.                                    *)
EXTENDS NuPlayerDriver, TLC

CONSTANTS control, surface

OneControl == {control}
OneSurface == {surface}

Never == [e \in BoundedEvents |-> 0]

\* One session: the playback the client controls comes to its end, or fails,
\* while the surface is set and the player reset.
SessionBudget == "source" :> 1 @@ "control" :> 3 @@ "surface" :> 1 @@ "reset" :> 1
                 @@ "endOfStream" :> 1 @@ "error" :> 1

\* Findings: playback comes to its end while a stopped player is prepared; a
\* source answers after the next one was set.
StoppedBudget == "source" :> 1 @@ "control" :> 3 @@ "endOfStream" :> 1 @@ Never
StaleBudget == "source" :> 2 @@ "control" :> 2 @@ "reset" :> 1 @@ Never
=============================================================================
