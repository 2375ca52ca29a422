----------------------------- MODULE MCRenderer -----------------------------
(* Bounds of Renderer for TLC: the sessions, the codecs' buffers, and how    *)
(* often a run may pause, seek, end a stream, change the format or lose the  *)
(* sink.                                                                     *)
EXTENDS Renderer, TLC

EverySession == {{"audio"}, {"video"}, {"audio", "video"}}
\* A stream on its own has two buffers, each of two has one.
Buffers1Or2 == [T \in TrackSets |-> [s \in Streams |-> IF T = {s} THEN 2 ELSE 1]]

Never == [e \in BoundedEvents |-> 0]
Once(E) == [e \in BoundedEvents |-> IF e \in E THEN 1 ELSE 0]

\* Playback with two disturbances; the only format is the first one.
TwoEvents == {Once({"format"} \cup E) :
                 E \in {{"pause", "endOfStream"}, {"seek", "endOfStream"},
                        {"pause", "seek"}, {"tearDown", "endOfStream"},
                        {"tearDown", "seek"}}}

\* Findings: the codec changes its format in the middle of the stream; one stream
\* ends at once.
BothTracks == {{"audio", "video"}}
AudioOnly  == {{"audio"}}
TwoFormats == {[Never EXCEPT !["format"] = 2]}
OneEnds    == {Once({"format", "endOfStream"})}
=============================================================================
