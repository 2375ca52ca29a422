-------------------------- MODULE MCGenericSource --------------------------
(* Bounds of GenericSource for TLC: readBuffer()'s maxBuffers, the streams,   *)
(* the kind of source, and what happens once in each session.                 *)
EXTENDS GenericSource, TLC

\* Audio is read ahead, video is not; Widevine reads both ahead.
Ahead == [k \in SourceKinds |-> [s \in Streams |-> IF s = "audio" \/ k = "widevine" THEN 2 ELSE 1]]

Session(k, S, E) ==
    [streams |-> S, kind |-> k, budget |-> [e \in BoundedEvents |-> IF e \in E THEN 1 ELSE 0]]

MixedSessions ==
    {Session("file", Streams, {"seek", "select"}),
     Session("file", Streams, {"select", "readError"}),
     Session("http", {"video"}, {"seek", "drain"}),
     Session("http", {"audio"}, {"seek", "drain", "pause"}),
     Session("widevine", Streams, {"videoFails"}),
     Session("widevine", {"video"}, {"seek", "videoFails"})}
CachePauses == {Session("http", {"audio"}, {"drain", "pause"})}
SeekFails == {Session("file", {"audio"}, {"seek", "readError"})}
\* A seek after the video decoder of a Widevine source has failed, and two changes of
\* the audio track.
SeekAfterStop == {Session("widevine", Streams, {"seek", "videoFails"})}
SelectAgain ==
    {[Session("file", {"audio"}, {}) EXCEPT !.budget = [@ EXCEPT !["select"] = 2]]}
=============================================================================
