----------------------------- MODULE MCNuPlayer -----------------------------
(* Bounds of NuPlayer for TLC: how often, in a run, each call of the client *)
(* and each event of the environment may happen.                            *)
EXTENDS NuPlayer, TLC

Never == [e \in BoundedEvents |-> 0]

\* One data source, started and reset.
Session == "source" :> 1 @@ "start" :> 1 @@ "reset" :> 1 @@ Never

\* Two seeks, a change of the surface and a decoder error, all at once.
PlayBudget == "surface" :> 1 @@ "seek" :> 2 @@ "decoderError" :> 1 @@ Session
LiveBudget == "surface" :> 1 @@ "seek" :> 1 @@ "decoderError" :> 1 @@ Session

\* The client and the source's buffering pause the player, the streams change,
\* the window cannot be connected.
BufferingBudget == "start" :> 2 @@ "pause" :> 1 @@ "buffering" :> 1 @@ "streamsChanged" :> 1
                   @@ "surface" :> 1 @@ "surfaceError" :> 1 @@ Session

\* Offloaded audio is torn down by its pause timeout or by the HAL; preparing
\* may fail, and may ask for secure decoders.
OffloadBudget == "start" :> 3 @@ "pause" :> 2 @@ "tearDown" :> 2 @@ "discontinuity" :> 1
                 @@ "secure" :> 1 @@ "prepareError" :> 1 @@ Session

\* Findings: buffering ends in a reset, playback resumes in a seek, one window
\* cannot be connected, a second session begins paused, a pause timeout outlives
\* its pause.
ResumeInResetBudget == "surface" :> 1 @@ "buffering" :> 1 @@ Session
SeekResumedBudget == "surface" :> 1 @@ "seek" :> 1 @@ "start" :> 2 @@ "pause" :> 1 @@ Session
FirstSurfaceBudget == "surface" :> 1 @@ "surfaceError" :> 1 @@ Session
PauseTimeoutBudget == "source" :> 1 @@ "start" :> 2 @@ "pause" :> 1 @@ "tearDown" :> 2
                      @@ "streamsChanged" :> 1 @@ Never
SecondSessionBudget == "source" :> 2 @@ "start" :> 2 @@ "pause" :> 1 @@ Session
=============================================================================
