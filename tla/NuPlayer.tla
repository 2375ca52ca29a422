------------------------------ MODULE NuPlayer ------------------------------
(***************************************************************************)
(* The playback engine of Am-NuPlayer: the AmNuPlayer looper (its pause,   *)
(* flush, shutdown, seek, surface and reset protocol and its list of       *)
(* deferred actions) composed with the two decoder loopers, the renderer   *)
(* looper and what the driver and the source may post to the player.       *)
(*                                                                         *)
(* Every looper is one FIFO queue.  One message is handled at a time; the  *)
(* loop of processDeferredActions is one step per action, during which the *)
(* player's looper takes no message (looper = "deferred") while the other  *)
(* loopers go on.                                                          *)
(***************************************************************************)
EXTENDS Naturals, Sequences, Queues

CONSTANTS
    Formats,      \* the streams the source has a format for
    CanOffload,   \* canOffloadStream(): compressed audio offload is possible
    Budget        \* how many times each bounded event may still happen

Streams == {"audio", "video"}

FlushStatus == {"NONE", "FLUSHING_DECODER", "FLUSHING_DECODER_SHUTDOWN",
                "SHUTTING_DOWN_DECODER", "FLUSHED", "SHUT_DOWN"}
\* Mutant: a decoder that is shutting down is taken for one that is gone.
SettledEarly == {"NONE", "FLUSHED", "SHUTTING_DOWN_DECODER", "SHUT_DOWN"}
Settled     == {"NONE", "FLUSHED", "SHUT_DOWN"}
FlushCommand == {"NONE", "FLUSH", "SHUTDOWN"}
Parties     == {"decoder", "renderer"}   \* the two indices of mFlushComplete

\* The events a run bounds: calls of the client, and what the environment does.
BoundedEvents == {"source", "start", "pause", "seek", "surface", "reset",
                  "prepareError", "secure", "buffering", "streamsChanged",
                  "decoderError", "surfaceError", "discontinuity", "tearDown"}

ASSUME FormatsAssumption == Formats \subseteq Streams
ASSUME CanOffloadAssumption == CanOffload \in BOOLEAN
ASSUME BudgetAssumption == Budget \in [BoundedEvents -> Nat]

-----------------------------------------------------------------------------
(* Messages, deferred actions and the objects they are for.                *)

PlayerWhat == {"SetDataSource", "Prepare", "Start", "Pause", "Seek", "Reset",
               "SetVideoNativeWindow", "ScanSources",
               "Prepared", "InstantiateSecureDecoders", "PauseOnBufferingStart",
               "ResumeOnBufferingEnd", "QueueDecoderShutdown",
               "InputDiscontinuity", "FlushCompleted", "ShutdownCompleted",
               "ResumeCompleted", "Error",
               "RendererFlushComplete", "AudioOffloadTearDown"}
DecoderNotify  == {"InputDiscontinuity", "FlushCompleted", "ShutdownCompleted",
                   "ResumeCompleted", "Error"}
RendererNotify == {"RendererFlushComplete", "AudioOffloadTearDown"}

\* An AMessage for the player.  gen is its "generation", flag the one Boolean
\* it carries: needNotify, "the window is not NULL", "err is OK",
\* "the tear down is due to an error", "both streams".
PlayerMessage == [what : PlayerWhat, stream : Streams, gen : Nat, flag : BOOLEAN]

Message(w, f) == [what |-> w, stream |-> "audio", gen |-> 0, flag |-> f]
Notification(w, s, g, f) == [what |-> w, stream |-> s, gen |-> g, flag |-> f]

\* struct Action and its subclasses: cmd is used by FlushDecoderAction only.
DeferredAction == [act : {"Flush", "Seek", "SetSurface", "ScanSources",
                          "ResumeDecoder", "Reset", "PostMessage"},
                   cmd : [Streams -> FlushCommand], flag : BOOLEAN]

NoCommand     == [s \in Streams |-> "NONE"]
ForAll(c)     == [s \in Streams |-> c]
ForOnly(s, c) == [t \in Streams |-> IF t = s THEN c ELSE "NONE"]
FlushAction(cmd) == [act |-> "Flush", cmd |-> cmd, flag |-> FALSE]
Action(a, f)     == [act |-> a, cmd |-> NoCommand, flag |-> f]

\* The decoder object of a stream, with its looper's queue.
DecoderMessage == [what : {"Configure", "Flush", "Resume", "Shutdown"}, flag : BOOLEAN]
DecoderState == [queue : Seq(DecoderMessage), paused : BOOLEAN,
                 resumePending : BOOLEAN, codec : BOOLEAN,
                 data : {"none", "fresh", "stale"}]

\* The renderer object, with its looper's queue.
RendererMessage == [what : {"Flush", "Pause", "Resume", "CloseAudioSink",
                            "DisableOffloadAudio", "AudioOffloadTearDown"},
                    stream : Streams]
RendererState == [queue : Seq(RendererMessage), flushing : [Streams -> BOOLEAN],
                  notifyComplete : [Streams -> BOOLEAN], paused : BOOLEAN,
                  hasAudio : BOOLEAN, offload : BOOLEAN, sink : BOOLEAN,
                  timeout : BOOLEAN, tornDown : BOOLEAN]

RendererMsg(w, s) == [what |-> w, stream |-> s]

NewRenderer(offload) ==
    [queue |-> <<>>, flushing |-> [s \in Streams |-> FALSE],
     notifyComplete |-> [s \in Streams |-> FALSE], paused |-> FALSE,
     hasAudio |-> FALSE, offload |-> offload, sink |-> FALSE, timeout |-> FALSE, tornDown |-> FALSE]

\* A Decoder starts paused, a DecoderPassThrough does not.
NewDecoder(passThrough) ==
    [queue |-> <<[what |-> "Configure", flag |-> FALSE]>>, paused |-> ~passThrough,
     resumePending |-> FALSE, codec |-> FALSE, data |-> "none"]

NoDecoder == [queue |-> <<>>, paused |-> TRUE, resumePending |-> FALSE,
              codec |-> FALSE, data |-> "none"]

Post(d, w, f) == [d EXCEPT !.queue = Append(@, [what |-> w, flag |-> f])]

-----------------------------------------------------------------------------
VARIABLES
    \* The driver, as far as the player's messages depend on it.
    driver,                  \* mState, coarsened
    mSeekInProgress,
    mSetSurfaceInProgress,
    \* AmNuPlayer
    playerQueue,
    looper,                  \* what the player's looper thread is doing
    mSource,                 \* "NULL", or what the source is doing
    mNativeWindow,           \* mNativeWindow != NULL
    mNewSurface,             \* the surface of mNativeWindow, of the window to come, or neither
    oldSource,               \* a source that was cleared is still preparing
    mStarted,
    mPaused,
    mPausedByClient,
    mOffloadAudio,
    mResumePending,
    mDecoder,                \* what m{Audio,Video}Decoder points to
    mDecoderGeneration,
    mRenderer,               \* mRenderer != NULL
    mRendererGeneration,
    mFlushing,
    mFlushComplete,
    mDeferredActions,
    mScanSourcesPending,
    mScanSourcesGeneration,
    scanTimer,               \* generations of the scan messages posted with a delay
    \* The other loopers, and the bounds.
    decoder,
    renderer,
    budget

driverVars  == <<driver, mSeekInProgress, mSetSurfaceInProgress>>
pauseVars   == <<mStarted, mPaused, mPausedByClient>>
scanVars    == <<mScanSourcesPending, mScanSourcesGeneration, scanTimer>>
flushVars   == <<mFlushing, mFlushComplete>>
objectVars  == <<mDecoder, mDecoderGeneration, mRenderer, mRendererGeneration>>
configVars  == <<mSource, oldSource, mNativeWindow, mNewSurface, mOffloadAudio>>
playerVarsButSurface ==
    <<looper, pauseVars, mSource, oldSource, mNativeWindow, mOffloadAudio,
      mResumePending, objectVars, flushVars, mDeferredActions, scanVars>>
playerVars  == <<playerVarsButSurface, mNewSurface>>
vars == <<driverVars, playerQueue, playerVars, decoder, renderer, budget>>

DriverStates == {"IDLE", "SET_DATASOURCE_PENDING", "UNPREPARED", "PREPARING",
                 "PREPARED", "RUNNING", "PAUSED", "RESET_IN_PROGRESS"}
\* How the process can die in the player's looper: a CHECK or
\* LOG_ALWAYS_FATAL that fails, a NULL pointer that is dereferenced.
AbortStates == {"abortFlushState", "abortShutdownState", "abortReset",
                "abortDriver", "abortSurface", "abortNullSource", "abortNullDecoder",
                "abortNullRenderer"}
\* "tearError" and "tearTimeout": blocked in the closeAudioSink() of a tear
\* down that is due to an error or to the pause timeout.
LooperStates == {"idle", "deferred", "tearError", "tearTimeout"} \cup AbortStates
SourceStates == {"NULL", "idle", "preparing", "awaiting", "buffering"}
DecoderKinds == {"NULL", "Decoder", "DecoderPassThrough"}

DriverTypeOK ==
    /\ driver \in DriverStates
    /\ mSeekInProgress \in BOOLEAN
    /\ mSetSurfaceInProgress \in BOOLEAN
QueueTypeOK == playerQueue \in Seq(PlayerMessage)
LooperTypeOK == looper \in LooperStates
PauseTypeOK ==
    /\ mStarted \in BOOLEAN
    /\ mPaused \in BOOLEAN
    /\ mPausedByClient \in BOOLEAN
ConfigTypeOK ==
    /\ mSource \in SourceStates
    /\ oldSource \in BOOLEAN
    /\ mNativeWindow \in BOOLEAN
    /\ mNewSurface \in {"other", "current", "pending"}
    /\ mOffloadAudio \in BOOLEAN
ResumeTypeOK == mResumePending \in BOOLEAN
ObjectTypeOK ==
    /\ mDecoder \in [Streams -> DecoderKinds]
    /\ mDecoderGeneration \in [Streams -> Nat]
    /\ mRenderer \in BOOLEAN
    /\ mRendererGeneration \in Nat
FlushTypeOK ==
    /\ mFlushing \in [Streams -> FlushStatus]
    /\ mFlushComplete \in [Streams -> [Parties -> BOOLEAN]]
DeferredTypeOK == mDeferredActions \in Seq(DeferredAction)
ScanTypeOK ==
    /\ mScanSourcesPending \in BOOLEAN
    /\ mScanSourcesGeneration \in Nat
    /\ scanTimer \in SUBSET Nat
DecoderTypeOK == decoder \in [Streams -> DecoderState]
RendererTypeOK == renderer \in RendererState
BudgetTypeOK == budget \in [BoundedEvents -> Nat]

\* Every variable keeps its type: a status stays in its enumeration and no
\* generation or budget goes below zero, whatever handler runs.
TypeOK ==
    /\ DriverTypeOK /\ QueueTypeOK /\ LooperTypeOK /\ PauseTypeOK /\ ConfigTypeOK
    /\ ResumeTypeOK /\ ObjectTypeOK /\ FlushTypeOK /\ DeferredTypeOK /\ ScanTypeOK
    /\ DecoderTypeOK /\ RendererTypeOK /\ BudgetTypeOK

Nothing == [s \in Streams |-> [p \in Parties |-> FALSE]]
AllNone == [s \in Streams |-> "NONE"]

Init ==
    /\ driver = "IDLE" /\ mSeekInProgress = FALSE /\ mSetSurfaceInProgress = FALSE
    /\ playerQueue = <<>> /\ looper = "idle"
    /\ mSource = "NULL" /\ oldSource = FALSE /\ mOffloadAudio = FALSE
    /\ mNativeWindow = FALSE /\ mNewSurface = "other"
    /\ mStarted = FALSE /\ mPaused = FALSE /\ mPausedByClient = FALSE
    /\ mResumePending = FALSE
    /\ mDecoder = [s \in Streams |-> "NULL"]
    /\ mDecoderGeneration = [s \in Streams |-> 0]
    /\ mRenderer = FALSE /\ mRendererGeneration = 0
    /\ mFlushing = AllNone /\ mFlushComplete = Nothing
    /\ mDeferredActions = <<>>
    /\ mScanSourcesPending = FALSE /\ mScanSourcesGeneration = 0 /\ scanTimer = {}
    /\ decoder = [s \in Streams |-> NoDecoder]
    /\ renderer = NewRenderer(FALSE)
    /\ budget = Budget

Spend(event) == budget[event] > 0 /\ budget' = [budget EXCEPT ![event] = @ - 1]

-----------------------------------------------------------------------------
(* What the driver posts: each call returns at once, or waits for a        *)
(* notification of the player while other threads may make other calls.    *)

Call(m) == /\ playerQueue' = Append(playerQueue, m)
           /\ UNCHANGED <<playerVarsButSurface, decoder, renderer>>

\* ok: the source object could be created.
ClientSetDataSource ==
    /\ driver = "IDLE"
    /\ Spend("source")
    /\ driver' = "SET_DATASOURCE_PENDING"
    /\ \E ok \in BOOLEAN : Call(Message("SetDataSource", ok))
    /\ UNCHANGED <<mNewSurface, mSeekInProgress, mSetSurfaceInProgress>>

ClientPrepare ==
    /\ driver = "UNPREPARED"
    /\ driver' = "PREPARING"
    /\ Call(Message("Prepare", FALSE))
    /\ UNCHANGED <<mNewSurface, mSeekInProgress, mSetSurfaceInProgress, budget>>

ClientStart ==
    /\ driver \in {"PREPARED", "PAUSED"}
    /\ Spend("start")
    /\ driver' = "RUNNING"
    /\ Call(Message("Start", FALSE))
    /\ UNCHANGED <<mNewSurface, mSeekInProgress, mSetSurfaceInProgress>>

\* pause(), stop(), and the pause() the driver issues at the end of playback.
ClientPause ==
    /\ driver = "RUNNING"
    /\ Spend("pause")
    /\ driver' = "PAUSED"
    /\ Call(Message("Pause", FALSE))
    /\ UNCHANGED <<mNewSurface, mSeekInProgress, mSetSurfaceInProgress>>

\* seekTo() wants a notification; the driver's own seek to loop does not.
ClientSeek ==
    /\ driver \in {"RUNNING", "PAUSED"}
    /\ Spend("seek")
    /\ \E needNotify \in BOOLEAN :
          /\ mSeekInProgress' = (mSeekInProgress \/ needNotify)
          /\ Call(Message("Seek", needNotify))
    /\ UNCHANGED <<mNewSurface, driver, mSetSurfaceInProgress>>

\* The new surface is remembered by the caller's thread, unless there is no window yet.
ClientSetSurface ==
    /\ ~mSetSurfaceInProgress
    /\ driver \notin {"SET_DATASOURCE_PENDING", "RESET_IN_PROGRESS"}
    /\ Spend("surface")
    /\ mSetSurfaceInProgress' = TRUE
    /\ \E window \in BOOLEAN :
          /\ mNewSurface' = IF window /\ mNativeWindow THEN "pending" ELSE mNewSurface
          /\ Call(Message("SetVideoNativeWindow", window))
    /\ UNCHANGED <<driver, mSeekInProgress>>

ClientReset ==
    /\ driver \notin {"IDLE", "SET_DATASOURCE_PENDING", "RESET_IN_PROGRESS"}
    /\ Spend("reset")
    /\ driver' = "RESET_IN_PROGRESS"
    /\ Call(Message("Reset", FALSE))
    /\ UNCHANGED <<mNewSurface, mSeekInProgress, mSetSurfaceInProgress>>

-----------------------------------------------------------------------------
(* What the source posts from its own looper, while it is the current one. *)

SourcePosts(m, state) ==
    /\ playerQueue' = Append(playerQueue, m)
    /\ mSource' = state
    /\ UNCHANGED <<driverVars, looper, pauseVars, oldSource, mNativeWindow, mNewSurface,
                   mOffloadAudio, mResumePending, objectVars, flushVars, mDeferredActions,
                   scanVars, decoder, renderer>>

SourcePrepared ==
    /\ mSource = "preparing"
    /\ SourcePosts(Message("Prepared", TRUE), "idle")
    /\ UNCHANGED budget

SourcePrepareError ==
    /\ mSource = "preparing"
    /\ Spend("prepareError")
    /\ SourcePosts(Message("Prepared", FALSE), "idle")

\* A Widevine source asks for its decoders and waits for the answer.
SourceInstantiateSecureDecoders ==
    /\ mSource = "preparing"
    /\ Spend("secure")
    /\ SourcePosts(Message("InstantiateSecureDecoders", FALSE), "awaiting")

SourcePauseOnBuffering ==
    /\ mSource = "idle"
    /\ Spend("buffering")
    /\ SourcePosts(Message("PauseOnBufferingStart", FALSE), "buffering")

SourceResumeOnBuffering ==
    /\ mSource = "buffering"
    /\ SourcePosts(Message("ResumeOnBufferingEnd", FALSE), "idle")
    /\ UNCHANGED budget

\* HTTPLiveSource: the streams of the new variant differ, decoders must go.
SourceQueueDecoderShutdown ==
    /\ mSource = "idle"
    /\ Spend("streamsChanged")
    /\ \E s \in Streams, both \in BOOLEAN :
          SourcePosts(Notification("QueueDecoderShutdown", s, 0, both), "idle")
-----------------------------------------------------------------------------
(* The player's looper takes a message.                                    *)

Received == Head(playerQueue)

Receive(w) ==
    /\ looper = "idle"
    /\ playerQueue # <<>>
    /\ Received.what = w
    /\ playerQueue' = Tail(playerQueue)

\* A notification of the current decoder of its stream.
ReceiveFromDecoder(w) ==
    /\ Receive(w)
    /\ Received.gen = mDecoderGeneration[Received.stream]

\* A CHECK: the process goes on only when the condition holds.
Check(condition, abort, next) == IF condition THEN next ELSE abort

\* Mutant: the actions of the new request come before those that wait.
DeferFirst(actions) ==
    /\ mDeferredActions' = actions \o mDeferredActions
    /\ looper' = "deferred"

\* Deferred actions are appended, then processDeferredActions() runs.
Defer(actions) ==
    /\ mDeferredActions' = mDeferredActions \o actions
    /\ looper' = "deferred"

PostScanSources(queue) ==
    IF mScanSourcesPending
    THEN playerQueue' = queue /\ UNCHANGED scanVars
    ELSE /\ playerQueue' = Append(queue,
                [Message("ScanSources", FALSE) EXCEPT !.gen = mScanSourcesGeneration])
         /\ mScanSourcesPending' = TRUE
         /\ UNCHANGED <<mScanSourcesGeneration, scanTimer>>

\* instantiateDecoder() for the streams in S; offload decides on pass through.
Instantiate(S, offload) ==
    LET kind(s) == IF s = "audio" /\ offload THEN "DecoderPassThrough" ELSE "Decoder"
    IN /\ mDecoder' = [s \in Streams |-> IF s \in S THEN kind(s) ELSE mDecoder[s]]
       /\ mDecoderGeneration' = [s \in Streams |-> IF s \in S
                    THEN mDecoderGeneration[s] + 1 ELSE mDecoderGeneration[s]]
       /\ decoder' = [s \in Streams |-> IF s \in S
                    THEN NewDecoder(kind(s) = "DecoderPassThrough") ELSE decoder[s]]

\* setHasMedia(), which instantiateDecoder() calls.
WithMedia(r, S) == [r EXCEPT !.hasAudio = @ \/ "audio" \in S]

OnSetDataSource ==
    /\ Receive("SetDataSource")
    /\ looper' = Check(mSource = "NULL" /\ driver = "SET_DATASOURCE_PENDING",
                       "abortDriver", "idle")
    /\ mSource' = IF Received.flag THEN "idle" ELSE "NULL"
    /\ driver' = IF Received.flag THEN "UNPREPARED" ELSE "IDLE"
    /\ UNCHANGED <<mSeekInProgress, mSetSurfaceInProgress, pauseVars, oldSource,
                   mNativeWindow, mNewSurface, mOffloadAudio, mResumePending, objectVars, flushVars,
                   mDeferredActions, scanVars, decoder, renderer, budget>>

OnPrepare ==
    /\ Receive("Prepare")
    /\ looper' = Check(mSource # "NULL", "abortNullSource", "idle")
    /\ mSource' = IF mSource = "NULL" THEN "NULL" ELSE "preparing"
    /\ UNCHANGED <<driverVars, pauseVars, oldSource, mNativeWindow, mNewSurface, mOffloadAudio,
                   mResumePending,
                   objectVars, flushVars, mDeferredActions, scanVars, decoder,
                   renderer, budget>>

\* The window, and the driver's wait for it.
InstallWindow(window) ==
    /\ mNativeWindow' = window
    /\ mNewSurface' = IF window /\ mNewSurface = "pending" THEN "current" ELSE "other"
    /\ mSetSurfaceInProgress' = FALSE

\* performSetSurface() at once: there is no source, or it has no video format yet.
OnSetVideoNativeWindowAtOnce ==
    /\ mSource = "NULL" \/ "video" \notin Formats \/ mDecoder["video"] = "NULL"
    /\ Receive("SetVideoNativeWindow")
    /\ InstallWindow(Received.flag)
    /\ looper' = Check(mSetSurfaceInProgress, "abortSurface", "idle")
    /\ UNCHANGED <<driver, mSeekInProgress, pauseVars, mSource, oldSource, mOffloadAudio,
                   mResumePending, objectVars, flushVars, mDeferredActions, scanVars,
                   decoder, renderer, budget>>

\* refresh: the screen is refreshed by a seek to the current position.
RefreshActions(refresh) ==
    (IF refresh THEN <<Action("Seek", FALSE)>> ELSE <<>>) \o <<Action("ScanSources", FALSE)>>

\* Mutant: only a new window is installed.
SurfaceActionsOfNewWindow(window, refresh) ==
    <<FlushAction([ForAll("FLUSH") EXCEPT !["video"] = "SHUTDOWN"])>>
    \o (IF window THEN <<Action("SetSurface", TRUE)>> \o RefreshActions(refresh) ELSE <<>>)
    \o <<Action("ResumeDecoder", FALSE)>>

SurfaceActions(window, refresh) ==
    <<FlushAction([ForAll("FLUSH") EXCEPT !["video"] = "SHUTDOWN"]),
      Action("SetSurface", window)>>
    \o (IF window THEN RefreshActions(refresh) ELSE <<>>)
    \o <<Action("ResumeDecoder", FALSE)>>

\* position: getCurrentPosition() knows the position to refresh the screen at.
OnSetVideoNativeWindow ==
    /\ mSource # "NULL" /\ "video" \in Formats
    /\ Receive("SetVideoNativeWindow")
    /\ \E position \in BOOLEAN :
          Defer(SurfaceActions(Received.flag, mStarted /\ position))
    /\ UNCHANGED <<driverVars, pauseVars, configVars, mResumePending, objectVars,
                   flushVars, scanVars, decoder, renderer, budget>>

\* Mutant: the decoders are flushed, as for a seek.
ResetActionsThatFlush == <<FlushAction(ForAll("FLUSH")), Action("Reset", FALSE)>>

ResetActions == <<FlushAction(ForAll("SHUTDOWN")), Action("Reset", FALSE)>>

OnReset ==
    /\ Receive("Reset")
    /\ Defer(ResetActions)
    /\ UNCHANGED <<driverVars, pauseVars, configVars, mResumePending, objectVars,
                   flushVars, scanVars, decoder, renderer, budget>>

\* Mutant: the decoders resume before the source has moved.
SeekActionsResumeFirst(needNotify) ==
    <<FlushAction(ForAll("FLUSH")), Action("ResumeDecoder", needNotify),
      Action("Seek", needNotify)>>

SeekActions(needNotify) ==
    <<FlushAction(ForAll("FLUSH")), Action("Seek", needNotify),
      Action("ResumeDecoder", needNotify)>>

OnSeek ==
    /\ Receive("Seek")
    /\ Defer(SeekActions(Received.flag))
    /\ UNCHANGED <<driverVars, pauseVars, configVars, mResumePending, objectVars,
                   flushVars, scanVars, decoder, renderer, budget>>

-----------------------------------------------------------------------------
(* Starting, pausing and resuming.                                         *)

\* onStart() leaves mPaused as it is.
OnStart ==
    /\ ~mStarted
    /\ looper = "idle" /\ playerQueue # <<>> /\ Received.what = "Start"
    /\ looper' = Check(mSource # "NULL", "abortNullSource", "idle")
    /\ mStarted' = TRUE
    /\ mOffloadAudio' = CanOffload
    /\ mRenderer' = TRUE
    /\ mRendererGeneration' = mRendererGeneration + 1
    /\ renderer' = NewRenderer(CanOffload)
    /\ PostScanSources(Tail(playerQueue))
    /\ mPausedByClient' = FALSE
    /\ UNCHANGED <<driverVars, mPaused, mSource, oldSource, mNativeWindow, mNewSurface, mResumePending,
                   mDecoder, mDecoderGeneration, flushVars, mDeferredActions,
                   decoder, budget>>

ToRenderer(r, w) == [r EXCEPT !.queue = Append(@, RendererMsg(w, "audio"))]

AudioDecoderStillNeeded == mFlushing["audio"] \notin {"SHUT_DOWN", "SHUTTING_DOWN_DECODER"}

MissingAudioDecoder == AudioDecoderStillNeeded /\ mDecoder["audio"] = "NULL"

\* onResume(), called when the player is paused: the audio decoder may have
\* been released by the pause timeout.
Resume ==
    /\ mPaused' = FALSE
    /\ looper' = Check(mSource # "NULL" \/ ~MissingAudioDecoder, "abortNullSource", "idle")
    /\ LET S == IF MissingAudioDecoder THEN Formats \cap {"audio"} ELSE {}
       IN /\ Instantiate(S, mOffloadAudio)
          /\ renderer' = IF mRenderer THEN ToRenderer(WithMedia(renderer, S), "Resume")
                         ELSE renderer

\* Mutant: a renderer with no audio decoder to feed it is not paused.
PauseAudio ==
    /\ mPaused' = TRUE
    /\ renderer' = IF mRenderer /\ mDecoder["audio"] # "NULL"
                   THEN ToRenderer(renderer, "Pause") ELSE renderer

Pause ==
    /\ mPaused' = TRUE
    /\ renderer' = IF mRenderer THEN ToRenderer(renderer, "Pause") ELSE renderer

OnStartResumes ==
    /\ mStarted
    /\ Receive("Start")
    /\ mPausedByClient' = FALSE
    /\ IF mPaused THEN Resume
                  ELSE UNCHANGED <<mPaused, looper, mDecoder, mDecoderGeneration,
                                   decoder, renderer>>
    /\ UNCHANGED <<driverVars, mStarted, configVars, mResumePending, mRenderer,
                   mRendererGeneration, flushVars, mDeferredActions, scanVars, budget>>

\* Mutant: the end of buffering resumes what the client has paused.
BufferingResumesAlways == mStarted /\ mPaused

\* "ignore if not playing"
BufferingResumes == mStarted /\ ~mPausedByClient /\ mPaused

OnResumeOnBufferingEnd ==
    /\ Receive("ResumeOnBufferingEnd")
    /\ IF BufferingResumes
       THEN Resume
       ELSE UNCHANGED <<mPaused, looper, mDecoder, mDecoderGeneration, decoder, renderer>>
    /\ UNCHANGED <<driverVars, mStarted, mPausedByClient, configVars, mResumePending,
                   mRenderer, mRendererGeneration, flushVars, mDeferredActions,
                   scanVars, budget>>

OnPause ==
    /\ Receive("Pause")
    /\ mPausedByClient' = TRUE
    /\ IF mPaused THEN UNCHANGED <<mPaused, renderer>> ELSE Pause
    /\ UNCHANGED <<driverVars, mStarted, looper, configVars, mResumePending, objectVars,
                   flushVars, mDeferredActions, scanVars, decoder, budget>>

OnPauseOnBufferingStart ==
    /\ Receive("PauseOnBufferingStart")
    /\ IF mStarted /\ ~mPausedByClient /\ ~mPaused
       THEN Pause
       ELSE UNCHANGED <<mPaused, renderer>>
    /\ UNCHANGED <<driverVars, mStarted, mPausedByClient, looper, configVars,
                   mResumePending, objectVars, flushVars, mDeferredActions, scanVars,
                   decoder, budget>>

-----------------------------------------------------------------------------
(* Looking for streams to decode.                                          *)

OnScanSourcesStale ==
    /\ Receive("ScanSources")
    /\ Received.gen # mScanSourcesGeneration
    /\ UNCHANGED <<driverVars, playerVars, decoder, renderer, budget>>

\* The frame rate is not known yet: the message is posted again with a delay.
OnScanSourcesWaits ==
    /\ Receive("ScanSources")
    /\ Received.gen = mScanSourcesGeneration
    /\ scanTimer' = scanTimer \cup {Received.gen}
    /\ UNCHANGED <<driverVars, looper, pauseVars, configVars, mResumePending, objectVars,
                   flushVars, mDeferredActions, mScanSourcesPending,
                   mScanSourcesGeneration, decoder, renderer, budget>>

\* Mutant: a sink that is opened again stays marked as torn down.
OpenOffloadSinkTornDown(r, opened) ==
    IF ~r.offload \/ r.sink THEN r
    ELSE IF opened THEN [r EXCEPT !.sink = TRUE] ELSE [r EXCEPT !.offload = FALSE]

\* openAudioSink() under offload: nothing to do for a sink that is open.
OpenOffloadSink(r, opened) ==
    IF ~r.offload \/ r.sink THEN r
    ELSE IF opened THEN [r EXCEPT !.sink = TRUE, !.tornDown = FALSE]
    ELSE [r EXCEPT !.offload = FALSE]

\* found: the streams getFormat() returns a format for by now; more:
\* feedMoreTSData() returns OK.  openAudioSink() returns when the renderer has
\* handled what was posted to it before.
OnScanSources ==
    /\ Receive("ScanSources")
    /\ Received.gen = mScanSourcesGeneration
    /\ \E found \in SUBSET Formats, opened \in BOOLEAN, more \in BOOLEAN :
         LET missing == {s \in found : /\ mDecoder[s] = "NULL"
                                       /\ s = "video" => mNativeWindow}
             tries   == CanOffload /\ "audio" \in missing
             offload == IF tries THEN renderer'.offload ELSE mOffloadAudio
             again   == /\ more
                        /\ \/ mDecoder'["audio"] = "NULL"
                           \/ mDecoder'["video"] = "NULL" /\ mNativeWindow
         IN /\ tries => renderer.queue = <<>>
            /\ looper' = Check(mSource # "NULL", "abortNullSource", "idle")
            /\ renderer' = WithMedia(IF tries
                 THEN OpenOffloadSink([renderer EXCEPT !.offload = @ \/ ~mOffloadAudio], opened)
                 ELSE renderer, missing)
            /\ mOffloadAudio' = offload
            /\ Instantiate(missing, offload)
            /\ mScanSourcesPending' = again
            /\ scanTimer' = IF again THEN scanTimer \cup {Received.gen} ELSE scanTimer
    /\ UNCHANGED <<driverVars, pauseVars, mSource, oldSource, mNativeWindow, mNewSurface,
                   mResumePending, mRenderer, mRendererGeneration, flushVars,
                   mDeferredActions, mScanSourcesGeneration, budget>>

ScanTimer ==
    \E gen \in scanTimer :
       /\ scanTimer' = scanTimer \ {gen}
       /\ playerQueue' = Append(playerQueue, [Message("ScanSources", FALSE) EXCEPT !.gen = gen])
       /\ UNCHANGED <<driverVars, looper, pauseVars, configVars, mResumePending, objectVars,
                      flushVars, mDeferredActions, mScanSourcesPending,
                      mScanSourcesGeneration, decoder, renderer, budget>>

-----------------------------------------------------------------------------
(* Notifications of the source.                                            *)

\* A source that was cleared while it was preparing still posts its answer.
OldSourcePrepared ==
    /\ oldSource
    /\ oldSource' = FALSE
    /\ \E ok \in BOOLEAN : playerQueue' = Append(playerQueue, Message("Prepared", ok))
    /\ UNCHANGED <<driverVars, looper, pauseVars, mSource, mNativeWindow, mNewSurface,
                   mOffloadAudio, mResumePending, objectVars, flushVars,
                   mDeferredActions, scanVars, decoder, renderer, budget>>

\* "We handled the reset, the source is gone."
OnSourceNotifyGone ==
    /\ \E w \in {"Prepared", "InstantiateSecureDecoders"} : Receive(w)
    /\ mSource = "NULL"
    /\ UNCHANGED <<driverVars, playerVars, decoder, renderer, budget>>

OnPrepared ==
    /\ Receive("Prepared")
    /\ mSource # "NULL"
    /\ driver' = IF driver = "PREPARING"
                 THEN IF Received.flag THEN "PREPARED" ELSE "UNPREPARED" ELSE driver
    /\ IF driver \notin {"PREPARING", "RESET_IN_PROGRESS", "IDLE"}
       THEN looper' = "abortDriver" /\ UNCHANGED mDeferredActions
       ELSE IF Received.flag THEN UNCHANGED <<looper, mDeferredActions>>
       ELSE Defer(<<FlushAction(ForAll("SHUTDOWN"))>>)
    /\ UNCHANGED <<mSeekInProgress, mSetSurfaceInProgress, pauseVars, configVars,
                   mResumePending, objectVars, flushVars, scanVars, decoder, renderer,
                   budget>>

\* Without a renderer the decoders are created, and instantiateDecoder() uses
\* mRenderer; with one, the source gets an error.
OnInstantiateSecureDecoders ==
    /\ Receive("InstantiateSecureDecoders")
    /\ mSource # "NULL"
    /\ LET wanted == {s \in Formats : /\ mDecoder[s] = "NULL"
                                      /\ s = "video" => mNativeWindow}
       IN looper' = Check(mRenderer \/ wanted = {}, "abortNullRenderer", "idle")
    /\ mSource' = "preparing"
    /\ UNCHANGED <<driverVars, pauseVars, oldSource, mNativeWindow, mNewSurface,
                   mOffloadAudio, mResumePending, objectVars, flushVars,
                   mDeferredActions, scanVars, decoder, renderer, budget>>

\* queueDecoderShutdown(); flag: both streams.
OnQueueDecoderShutdown ==
    /\ Receive("QueueDecoderShutdown")
    /\ Defer(<<FlushAction(IF Received.flag THEN ForAll("SHUTDOWN")
                           ELSE ForOnly(Received.stream, "SHUTDOWN")),
               Action("ScanSources", FALSE), Action("PostMessage", FALSE)>>)
    /\ UNCHANGED <<driverVars, pauseVars, configVars, mResumePending, objectVars,
                   flushVars, scanVars, decoder, renderer, budget>>

-----------------------------------------------------------------------------
(* Notifications of the decoders and of the renderer.                      *)

OnNotifyStale ==
    /\ \/ \E w \in DecoderNotify : Receive(w)
          /\ Received.gen # mDecoderGeneration[Received.stream]
       \/ \E w \in RendererNotify : Receive(w)
          /\ Received.gen # mRendererGeneration
    /\ UNCHANGED <<driverVars, playerVars, decoder, renderer, budget>>

OnInputDiscontinuity ==
    /\ ReceiveFromDecoder("InputDiscontinuity")
    /\ Defer(<<Action("ScanSources", FALSE)>>)
    /\ UNCHANGED <<driverVars, pauseVars, configVars, mResumePending, objectVars,
                   flushVars, scanVars, decoder, renderer, budget>>

\* Mutant: the deferred actions are left to the next message that runs them.
FinishFlushOnly(status, complete) ==
    /\ looper' = "idle"
    /\ IF \A s \in Streams : status[s] \in Settled
       THEN mFlushing' = AllNone /\ mFlushComplete' = Nothing
       ELSE mFlushing' = status /\ mFlushComplete' = complete

\* Both streams are settled: the deferred actions may go on.
FinishFlushIfPossible(status, complete) ==
    IF \A s \in Streams : status[s] \in Settled
    THEN /\ mFlushing' = AllNone
         /\ mFlushComplete' = Nothing
         /\ looper' = "deferred"
    ELSE /\ mFlushing' = status
         /\ mFlushComplete' = complete
         /\ looper' = "idle"

\* Both the decoder's flush and the renderer's must complete.
BothComplete(complete) == \A p \in Parties : complete[p]

HandleFlushComplete(s, party) ==
    LET complete == [mFlushComplete EXCEPT ![s][party] = TRUE]
        both     == BothComplete(complete[s])
        flushed  == both /\ mFlushing[s] = "FLUSHING_DECODER"
        shutdown == both /\ mFlushing[s] = "FLUSHING_DECODER_SHUTDOWN"
        status   == [mFlushing EXCEPT ![s] = IF flushed THEN "FLUSHED"
                                             ELSE IF shutdown THEN "SHUTTING_DOWN_DECODER"
                                             ELSE @]
    IN IF \/ both /\ party = "decoder" /\ ~flushed /\ ~shutdown
          \/ shutdown /\ mDecoder[s] = "NULL"
       THEN /\ looper' = IF shutdown THEN "abortNullDecoder" ELSE "abortFlushState"
            /\ UNCHANGED <<flushVars, decoder>>
       ELSE /\ decoder' = IF shutdown THEN [decoder EXCEPT ![s] = Post(@, "Shutdown", FALSE)]
                                      ELSE decoder
            /\ FinishFlushIfPossible(status, complete)

OnFlushCompleted ==
    /\ ReceiveFromDecoder("FlushCompleted")
    /\ HandleFlushComplete(Received.stream, "decoder")
    /\ UNCHANGED <<driverVars, pauseVars, configVars, mResumePending, objectVars,
                   mDeferredActions, scanVars, renderer, budget>>

OnRendererFlushComplete ==
    /\ Receive("RendererFlushComplete")
    /\ Received.gen = mRendererGeneration
    /\ HandleFlushComplete(Received.stream, "renderer")
    /\ UNCHANGED <<driverVars, pauseVars, configVars, mResumePending, objectVars,
                   mDeferredActions, scanVars, renderer, budget>>

OnShutdownCompleted ==
    /\ ReceiveFromDecoder("ShutdownCompleted")
    /\ LET s == Received.stream
       IN /\ mDecoder' = [mDecoder EXCEPT ![s] = "NULL"]
          /\ mDecoderGeneration' = [mDecoderGeneration EXCEPT ![s] = @ + 1]
          /\ decoder' = [decoder EXCEPT ![s] = NoDecoder]
          /\ IF mFlushing[s] = "SHUTTING_DOWN_DECODER"
             THEN FinishFlushIfPossible([mFlushing EXCEPT ![s] = "SHUT_DOWN"], mFlushComplete)
             ELSE looper' = "abortShutdownState" /\ UNCHANGED flushVars
    /\ UNCHANGED <<driverVars, pauseVars, configVars, mResumePending, mRenderer,
                   mRendererGeneration, mDeferredActions, scanVars, renderer, budget>>

\* finishResume(), which ends the driver's seek.
FinishResume(pending) ==
    /\ mResumePending' = FALSE
    /\ mSeekInProgress' = (mSeekInProgress /\ ~pending)

OnResumeCompleted ==
    /\ ReceiveFromDecoder("ResumeCompleted")
    /\ FinishResume(mResumePending)
    /\ UNCHANGED <<driver, mSetSurfaceInProgress, looper, pauseVars, configVars,
                   objectVars, flushVars, mDeferredActions, scanVars, decoder,
                   renderer, budget>>

\* The decoder of a surface that the second one is to replace.
SurfaceAbandoned == mNativeWindow /\ mNewSurface # "current"

OnErrorIgnored ==
    /\ ReceiveFromDecoder("Error")
    /\ Received.flag /\ SurfaceAbandoned
    /\ UNCHANGED <<driverVars, playerVars, decoder, renderer, budget>>

\* flag: the error is -19, the one of a window that cannot be connected.
ReceiveError ==
    /\ ReceiveFromDecoder("Error")
    /\ ~(Received.flag /\ SurfaceAbandoned)
    /\ UNCHANGED <<driverVars, pauseVars, configVars, mResumePending, objectVars,
                   scanVars, renderer, budget>>

OnErrorWhenNotFlushing ==
    /\ ReceiveError
    /\ mFlushing[Received.stream] = "NONE"
    /\ Defer(<<FlushAction(ForOnly(Received.stream, "SHUTDOWN"))>>)
    /\ UNCHANGED <<flushVars, decoder>>

\* "initiate shutdown after flush", or "wait for shutdown to complete"; a stream
\* that is shut down only asks whether the other one is settled, too.
OnErrorWhileFlushing ==
    /\ ReceiveError
    /\ mFlushing[Received.stream] \notin {"NONE", "FLUSHED"}
    /\ IF mFlushing[Received.stream] = "SHUT_DOWN"
       THEN FinishFlushIfPossible(mFlushing, mFlushComplete)
       ELSE /\ mFlushing' = [mFlushing EXCEPT ![Received.stream] =
                       IF @ = "FLUSHING_DECODER" THEN "FLUSHING_DECODER_SHUTDOWN" ELSE @]
            /\ UNCHANGED <<looper, mFlushComplete>>
    /\ UNCHANGED <<mDeferredActions, decoder>>

OnErrorWhenFlushed ==
    /\ ReceiveError
    /\ mFlushing[Received.stream] = "FLUSHED"
    /\ LET s == Received.stream
       IN /\ looper' = Check(mDecoder[s] # "NULL", "abortNullDecoder", "idle")
          /\ decoder' = [decoder EXCEPT ![s] = Post(@, "Shutdown", FALSE)]
          /\ mFlushing' = [mFlushing EXCEPT ![s] = "SHUTTING_DOWN_DECODER"]
    /\ UNCHANGED <<mFlushComplete, mDeferredActions>>

-----------------------------------------------------------------------------
(* The tear down of an offloaded audio stream.                             *)

RendererFlush(r, s, notify) ==
    [r EXCEPT !.notifyComplete[s] = @ \/ notify,
              !.flushing[s] = TRUE,
              !.queue = IF r.flushing[s] THEN @ ELSE Append(@, RendererMsg("Flush", s))]

\* The player's looper blocks in closeAudioSink().
OnAudioOffloadTearDown ==
    /\ Receive("AudioOffloadTearDown")
    /\ Received.gen = mRendererGeneration
    /\ looper' = IF Received.flag THEN "tearError" ELSE "tearTimeout"
    /\ renderer' = ToRenderer(renderer, "CloseAudioSink")
    /\ UNCHANGED <<driverVars, pauseVars, configVars, mResumePending, objectVars,
                   flushVars, mDeferredActions, scanVars, decoder, budget>>

\* What the source's seek leaves of the data a decoder has taken before.
Outdated(d) == [d EXCEPT !.data = IF @ = "none" THEN @ ELSE "stale"]

\* The sink is closed.  The audio decoder is released, both streams of the
\* renderer are flushed, the source seeks, and after an error a software
\* decoder takes over.
OnAudioSinkClosed ==
    /\ looper \in {"tearError", "tearTimeout"}
    /\ \A i \in DOMAIN renderer.queue : renderer.queue[i].what # "CloseAudioSink"
    /\ LET error    == looper = "tearError"
           audio    == RendererFlush(renderer, "audio", FALSE)
           flushed  == IF mDecoder["video"] = "NULL" THEN audio
                       ELSE RendererFlush(audio, "video", FALSE)
           software == error /\ "audio" \in Formats
       IN /\ renderer' = IF error THEN ToRenderer(WithMedia(flushed, Formats),
                                                  "DisableOffloadAudio")
                         ELSE flushed
          /\ mOffloadAudio' = (mOffloadAudio /\ ~error)
          /\ mDecoder' = [mDecoder EXCEPT !["audio"] = IF software THEN "Decoder" ELSE "NULL"]
          /\ mDecoderGeneration' = [mDecoderGeneration EXCEPT
                                      !["audio"] = @ + IF software THEN 2 ELSE 1]
          /\ decoder' = [decoder EXCEPT
                           !["audio"] = IF software THEN NewDecoder(FALSE) ELSE NoDecoder,
                           !["video"] = Outdated(@)]
    /\ looper' = "idle"
    /\ UNCHANGED <<driverVars, playerQueue, pauseVars, mSource, oldSource, mNativeWindow,
                   mNewSurface, mResumePending, mRenderer, mRendererGeneration,
                   flushVars, mDeferredActions, scanVars, budget>>

-----------------------------------------------------------------------------
(* processDeferredActions(): one action is executed at a time.             *)

NotFlushing == mFlushing = AllNone

DeferredDone ==
    /\ looper = "deferred"
    /\ mDeferredActions = <<>> \/ ~NotFlushing
    /\ looper' = "idle"
    /\ UNCHANGED <<driverVars, playerQueue, pauseVars, configVars, mResumePending,
                   objectVars, flushVars, mDeferredActions, scanVars, decoder, renderer,
                   budget>>

Next1 == Head(mDeferredActions)

Execute(a) ==
    /\ looper = "deferred"
    /\ mDeferredActions # <<>> /\ NotFlushing
    /\ Next1.act = a
    /\ mDeferredActions' = Tail(mDeferredActions)

\* Mutant: postScanSources() still believes that a scan is on its way.
ForgetScansButPending ==
    /\ mScanSourcesGeneration' = mScanSourcesGeneration + 1
    /\ UNCHANGED <<mScanSourcesPending, scanTimer>>

\* Mutant: the scan that is on its way is still taken.
ForgetPendingOnly ==
    /\ mScanSourcesPending' = FALSE
    /\ UNCHANGED <<mScanSourcesGeneration, scanTimer>>

\* Mutant: the generation is counted down.
ForgetScansBackwards ==
    /\ mScanSourcesGeneration' = mScanSourcesGeneration - 1
    /\ mScanSourcesPending' = FALSE
    /\ UNCHANGED scanTimer

\* The scan messages that are on their way are obsolete.
ForgetScans ==
    /\ mScanSourcesGeneration' = mScanSourcesGeneration + 1
    /\ mScanSourcesPending' = FALSE
    /\ UNCHANGED scanTimer

\* performDecoderFlush() and flushDecoder(): obsolete scans are dropped.
PerformDecoderFlush ==
    /\ Execute("Flush")
    /\ LET cmd(s) == Next1.cmd[s]
           F == {s \in Streams : cmd(s) # "NONE" /\ mDecoder[s] # "NULL"}
       IN /\ decoder' = [s \in Streams |-> IF s \in F THEN Post(decoder[s], "Flush", FALSE)
                                           ELSE decoder[s]]
          /\ mFlushing' = [s \in Streams |->
                IF s \notin F THEN mFlushing[s]
                ELSE IF cmd(s) = "SHUTDOWN" THEN "FLUSHING_DECODER_SHUTDOWN"
                ELSE "FLUSHING_DECODER"]
          /\ mFlushComplete' = [s \in Streams |->
                IF s \in F THEN [p \in Parties |-> p = "renderer" /\ ~mRenderer]
                ELSE mFlushComplete[s]]
          /\ IF F = {} THEN UNCHANGED scanVars ELSE ForgetScans
    /\ UNCHANGED <<driverVars, playerQueue, looper, pauseVars, configVars,
                   mResumePending, objectVars, renderer, budget>>

PerformSeek ==
    /\ Execute("Seek")
    /\ decoder' = IF mSource = "NULL" THEN decoder
                  ELSE [s \in Streams |-> Outdated(decoder[s])]
    /\ UNCHANGED <<driverVars, playerQueue, looper, pauseVars, configVars,
                   mResumePending, objectVars, flushVars, scanVars, renderer, budget>>

PerformSetSurface ==
    /\ Execute("SetSurface")
    /\ InstallWindow(Next1.flag)
    /\ looper' = Check(mSetSurfaceInProgress, "abortSurface", "deferred")
    /\ UNCHANGED <<driver, mSeekInProgress, playerQueue, pauseVars, mSource, oldSource,
                   mOffloadAudio, mResumePending, objectVars, flushVars, scanVars,
                   decoder, renderer, budget>>

\* Mutant: the video decoder is waited for even when there is none.
AwaitVideo(notify) ==
    /\ mResumePending' = (mResumePending \/ notify)
    /\ UNCHANGED mSeekInProgress

\* With no video decoder the seek is complete at once.
AwaitResume(notify) ==
    IF notify /\ mDecoder["video"] = "NULL" THEN FinishResume(TRUE)
    ELSE /\ mResumePending' = (mResumePending \/ notify)
         /\ UNCHANGED mSeekInProgress

PerformResumeDecoders ==
    /\ Execute("ResumeDecoder")
    /\ LET notify == Next1.flag
       IN /\ AwaitResume(notify)
          /\ decoder' = [s \in Streams |->
                IF mDecoder[s] = "NULL" THEN decoder[s]
                ELSE Post(decoder[s], "Resume", notify /\ s = "video")]
    /\ UNCHANGED <<driver, mSetSurfaceInProgress, playerQueue, looper, pauseVars,
                   configVars, objectVars, flushVars, scanVars, renderer, budget>>

PerformScanSources ==
    /\ Execute("ScanSources")
    /\ IF mStarted /\ (\E s \in Streams : mDecoder[s] = "NULL")
       THEN PostScanSources(playerQueue)
       ELSE UNCHANGED <<playerQueue, scanVars>>
    /\ UNCHANGED <<driverVars, looper, pauseVars, configVars, mResumePending, objectVars,
                   flushVars, decoder, renderer, budget>>

PerformPostMessage ==
    /\ Execute("PostMessage")
    /\ UNCHANGED <<driverVars, playerQueue, looper, pauseVars, configVars, mResumePending,
                   objectVars, flushVars, scanVars, decoder, renderer, budget>>

StopPlayer == mStarted' = FALSE

\* The pause state is left as it is.
PerformReset ==
    /\ Execute("Reset")
    /\ looper' = IF \E s \in Streams : mDecoder[s] # "NULL" THEN "abortReset"
                 ELSE Check(driver = "RESET_IN_PROGRESS", "abortDriver", "deferred")
    /\ ForgetScans
    /\ mRenderer' = FALSE
    /\ mRendererGeneration' = mRendererGeneration + 1
    /\ renderer' = NewRenderer(FALSE)
    /\ mSource' = "NULL"
    /\ oldSource' = (oldSource \/ mSource = "preparing")
    /\ driver' = "IDLE"
    /\ StopPlayer
    /\ UNCHANGED <<mSeekInProgress, mSetSurfaceInProgress, playerQueue, mPaused,
                   mPausedByClient, mNativeWindow, mNewSurface, mOffloadAudio,
                   mResumePending, mDecoder, mDecoderGeneration, flushVars, decoder,
                   budget>>

-----------------------------------------------------------------------------
(* The decoder loopers.  A decoder that the player has released is gone:   *)
(* its looper delivers no more messages to it.                             *)

Notify(s, w, f) == Notification(w, s, mDecoderGeneration[s], f)

DecoderReceives(s, w) ==
    /\ mDecoder[s] # "NULL"
    /\ decoder[s].queue # <<>>
    /\ Head(decoder[s].queue).what = w

\* d: the decoder after the step; notifies: what it posts to the player.
DecoderStep(s, d, notifies) ==
    /\ decoder' = [decoder EXCEPT ![s] = d]
    /\ playerQueue' = playerQueue \o notifies
    /\ UNCHANGED <<driverVars, playerVars>>

Handled(d) == [d EXCEPT !.queue = Tail(@)]

\* The outcome of a codec call: a failure is a bounded event.
CodecCall(ok) == IF ok THEN UNCHANGED budget ELSE Spend("decoderError")

DecoderConfigures(s) ==
    /\ mDecoder[s] = "Decoder"
    /\ DecoderReceives(s, "Configure")
    /\ LET d == Handled(decoder[s])
       IN \/ /\ CodecCall(TRUE)
             /\ DecoderStep(s, [d EXCEPT !.codec = TRUE, !.paused = FALSE,
                                         !.resumePending = FALSE], <<>>)
          \/ /\ CodecCall(FALSE)
             /\ DecoderStep(s, d, <<Notify(s, "Error", FALSE)>>)
          \/ /\ s = "video" /\ mNativeWindow
             /\ Spend("surfaceError")
             /\ DecoderStep(s, d, <<Notify(s, "Error", TRUE)>>)
    /\ UNCHANGED renderer

\* A pass through decoder asks for the sink again, which never fails.
PassThroughConfigures(s) ==
    /\ mDecoder[s] = "DecoderPassThrough"
    /\ DecoderReceives(s, "Configure")
    /\ \E opened \in BOOLEAN : renderer' = OpenOffloadSink(renderer, opened)
    /\ DecoderStep(s, [Handled(decoder[s]) EXCEPT !.codec = TRUE], <<>>)
    /\ UNCHANGED budget

\* Mutant: a flush that fails is not completed.
FlushAnswersUnlessFailed(s, ok) == <<Notify(s, IF ok THEN "FlushCompleted" ELSE "Error", FALSE)>>

FlushAnswers(s, ok) ==
    (IF ok THEN <<>> ELSE <<Notify(s, "Error", FALSE)>>) \o <<Notify(s, "FlushCompleted", FALSE)>>

\* onFlush(true): "finish with posting kWhatFlushCompleted" whatever the codec says.
DecoderFlushes(s) ==
    /\ DecoderReceives(s, "Flush")
    /\ renderer' = RendererFlush(renderer, s, TRUE)
    /\ \E ok \in BOOLEAN :
         /\ ok \/ (mDecoder[s] = "Decoder" /\ decoder[s].codec)
         /\ CodecCall(ok)
         /\ DecoderStep(s, [Handled(decoder[s]) EXCEPT !.data = "none", !.paused = TRUE],
                        FlushAnswers(s, ok))

DecoderResumes(s) ==
    /\ DecoderReceives(s, "Resume")
    /\ DecoderStep(s, [Handled(decoder[s]) EXCEPT !.paused = FALSE,
                          !.resumePending = @ \/ Head(decoder[s].queue).flag], <<>>)
    /\ UNCHANGED <<renderer, budget>>

\* notifyResumeCompleteIfNecessary()
ResumeCompletedIfPending(s) ==
    IF decoder[s].resumePending THEN <<Notify(s, "ResumeCompleted", FALSE)>> ELSE <<>>

DecoderShutsDown(s) ==
    /\ DecoderReceives(s, "Shutdown")
    /\ \E ok \in BOOLEAN :
         /\ ok \/ (mDecoder[s] = "Decoder" /\ decoder[s].codec)
         /\ CodecCall(ok)
         /\ DecoderStep(s, [Handled(decoder[s]) EXCEPT !.resumePending = FALSE,
                              !.codec = FALSE, !.data = "none",
                              !.paused = (mDecoder[s] = "Decoder") \/ @],
                        ResumeCompletedIfPending(s)
                        \o (IF ok THEN <<>> ELSE <<Notify(s, "Error", FALSE)>>)
                        \o <<Notify(s, "ShutdownCompleted", FALSE)>>)
    /\ UNCHANGED renderer

\* fetchInputData(): an access unit of the source's current position.
DecoderPulls(s) ==
    /\ mDecoder[s] # "NULL"
    /\ decoder[s].codec /\ ~decoder[s].paused /\ decoder[s].data = "none"
    /\ mSource \in {"idle", "buffering"}
    /\ DecoderStep(s, [decoder[s] EXCEPT !.data = "fresh"], <<>>)
    /\ UNCHANGED <<renderer, budget>>

\* handleAnOutputBuffer(): the first frame, or the end of the stream, ends a resume.
DecoderOutputs(s) ==
    /\ mDecoder[s] = "Decoder"
    /\ decoder[s].codec /\ decoder[s].data # "none" /\ decoder[s].resumePending
    /\ DecoderStep(s, [decoder[s] EXCEPT !.resumePending = FALSE],
                   ResumeCompletedIfPending(s))
    /\ UNCHANGED <<renderer, budget>>

\* A codec call of the input or output loop fails.
DecoderFails(s) ==
    /\ mDecoder[s] = "Decoder"
    /\ decoder[s].codec
    /\ CodecCall(FALSE)
    /\ DecoderStep(s, decoder[s], <<Notify(s, "Error", FALSE)>>)
    /\ UNCHANGED renderer

\* A pass through decoder reads a discontinuity; one of time flushes it.
PassThroughDiscontinuity(s) ==
    /\ mDecoder[s] = "DecoderPassThrough"
    /\ decoder[s].codec /\ ~decoder[s].paused
    /\ Spend("discontinuity")
    /\ \E timeChange \in BOOLEAN :
         /\ renderer' = IF timeChange THEN RendererFlush(renderer, s, FALSE) ELSE renderer
         /\ DecoderStep(s, [decoder[s] EXCEPT !.data = IF timeChange THEN "none" ELSE @],
                        <<Notify(s, "InputDiscontinuity", FALSE)>>)

-----------------------------------------------------------------------------
(* The renderer's looper, its pause timeout, and the audio HAL.            *)

RendererReceives(w) ==
    /\ mRenderer
    /\ renderer.queue # <<>>
    /\ Head(renderer.queue).what = w

RendererStep(r, notifies) ==
    /\ renderer' = r
    /\ playerQueue' = playerQueue \o notifies
    /\ UNCHANGED <<driverVars, playerVars, decoder>>

RendererHandled == [renderer EXCEPT !.queue = Tail(@)]

RendererNotifies(w, s, f) == <<Notification(w, s, mRendererGeneration, f)>>

RendererFlushes ==
    /\ RendererReceives("Flush")
    /\ LET s == Head(renderer.queue).stream
       IN RendererStep([RendererHandled EXCEPT !.flushing[s] = FALSE,
                                               !.notifyComplete[s] = FALSE],
                       IF renderer.notifyComplete[s]
                       THEN RendererNotifies("RendererFlushComplete", s, FALSE) ELSE <<>>)
    /\ UNCHANGED budget

HoldsSink == renderer.hasAudio /\ renderer.offload

RendererPauses ==
    /\ RendererReceives("Pause")
    /\ RendererStep([RendererHandled EXCEPT !.paused = TRUE,
                        !.timeout = @ \/ (~renderer.paused /\ HoldsSink)], <<>>)
    /\ UNCHANGED budget

RendererResumes ==
    /\ RendererReceives("Resume")
    /\ RendererStep([RendererHandled EXCEPT !.paused = FALSE,
                        !.timeout = @ /\ ~(renderer.paused /\ HoldsSink)], <<>>)
    /\ UNCHANGED budget

RendererClosesSink ==
    /\ RendererReceives("CloseAudioSink")
    /\ RendererStep([RendererHandled EXCEPT !.sink = FALSE], <<>>)
    /\ UNCHANGED budget

RendererDisablesOffload ==
    /\ RendererReceives("DisableOffloadAudio")
    /\ RendererStep([RendererHandled EXCEPT !.offload = FALSE], <<>>)
    /\ UNCHANGED budget

\* onAudioOffloadTearDown(), once until the sink is opened again.
TearDown(r, error) ==
    RendererStep([r EXCEPT !.tornDown = TRUE],
                 IF r.tornDown THEN <<>>
                 ELSE RendererNotifies("AudioOffloadTearDown", "audio", error))

RendererTearsDown ==
    /\ RendererReceives("AudioOffloadTearDown")
    /\ TearDown(RendererHandled, TRUE)
    /\ UNCHANGED budget

RendererPauseTimeout ==
    /\ mRenderer /\ renderer.timeout
    /\ Spend("tearDown")
    /\ TearDown([renderer EXCEPT !.timeout = FALSE], FALSE)

\* The callback of an offloaded sink.
HALTearsDown ==
    /\ mRenderer /\ renderer.offload /\ renderer.sink
    /\ Spend("tearDown")
    /\ RendererStep(ToRenderer(renderer, "AudioOffloadTearDown"), <<>>)

-----------------------------------------------------------------------------
ClientStep == \/ ClientSetDataSource \/ ClientPrepare \/ ClientStart \/ ClientPause
              \/ ClientSeek \/ ClientSetSurface \/ ClientReset

SourceStep == \/ SourcePrepared \/ SourcePrepareError \/ SourceInstantiateSecureDecoders
              \/ SourcePauseOnBuffering \/ SourceResumeOnBuffering
              \/ SourceQueueDecoderShutdown \/ OldSourcePrepared

MessageStep == \/ OnSetDataSource \/ OnPrepare \/ OnStart \/ OnStartResumes \/ OnPause
               \/ OnSeek \/ OnReset \/ OnSetVideoNativeWindowAtOnce \/ OnSetVideoNativeWindow
               \/ OnScanSourcesStale \/ OnScanSourcesWaits \/ OnScanSources
               \/ OnSourceNotifyGone \/ OnPrepared \/ OnInstantiateSecureDecoders
               \/ OnPauseOnBufferingStart \/ OnResumeOnBufferingEnd \/ OnQueueDecoderShutdown
               \/ OnNotifyStale \/ OnInputDiscontinuity \/ OnFlushCompleted
               \/ OnRendererFlushComplete \/ OnShutdownCompleted \/ OnResumeCompleted
               \/ OnErrorIgnored \/ OnErrorWhenNotFlushing \/ OnErrorWhileFlushing
               \/ OnErrorWhenFlushed \/ OnAudioOffloadTearDown

DeferredStep == \/ DeferredDone \/ PerformDecoderFlush \/ PerformSeek \/ PerformSetSurface
                \/ PerformResumeDecoders \/ PerformScanSources \/ PerformPostMessage
                \/ PerformReset

PlayerStep == MessageStep \/ DeferredStep \/ OnAudioSinkClosed

DecoderMessageStep(s) == \/ DecoderConfigures(s) \/ PassThroughConfigures(s)
                         \/ DecoderFlushes(s) \/ DecoderResumes(s) \/ DecoderShutsDown(s)

RendererLoop == \/ RendererFlushes \/ RendererPauses \/ RendererResumes
                \/ RendererClosesSink \/ RendererDisablesOffload \/ RendererTearsDown

Environment == \/ ScanTimer \/ RendererPauseTimeout \/ HALTearsDown
               \/ \E s \in Streams : DecoderFails(s) \/ PassThroughDiscontinuity(s)

Next == \/ ClientStep \/ SourceStep \/ PlayerStep \/ RendererLoop \/ Environment
        \/ \E s \in Streams : DecoderMessageStep(s) \/ DecoderPulls(s) \/ DecoderOutputs(s)

Spec == Init /\ [][Next]_vars

\* Every looper goes on taking its messages, a decoder that may take data gets
\* it and brings out a frame.  Nothing is assumed of the client, of errors or
\* of timers.
Fairness ==
    /\ WF_vars(PlayerStep)
    /\ WF_vars(RendererLoop)
    /\ \A s \in Streams : /\ WF_vars(DecoderMessageStep(s))
                          /\ WF_vars(DecoderPulls(s))
                          /\ WF_vars(DecoderOutputs(s))

FairSpec == Spec /\ Fairness

-----------------------------------------------------------------------------
(* Properties.                                                             *)

Alive == looper \notin AbortStates

\* A notification w of the current decoder of stream s waits for the player.
FromDecoder(s, w) ==
    \E i \in DOMAIN playerQueue :
       /\ playerQueue[i].what = w /\ playerQueue[i].stream = s
       /\ playerQueue[i].gen = mDecoderGeneration[s]

FromRenderer(s, w) ==
    \E i \in DOMAIN playerQueue :
       /\ playerQueue[i].what = w /\ playerQueue[i].stream = s
       /\ playerQueue[i].gen = mRendererGeneration

ToDecoder(s, w) == \E i \in DOMAIN decoder[s].queue : decoder[s].queue[i].what = w

\* A decoder completes a flush or a shutdown only in the state that waits for
\* it, and there is a decoder to shut down: no CHECK of handleFlushComplete()
\* or of kWhatShutdownCompleted can fail, whatever a decoder error turns a
\* flush into meanwhile.
FlushProtocolHolds ==
    looper \notin {"abortFlushState", "abortShutdownState", "abortNullDecoder"}

\* performReset() finds both decoders gone (its CHECKs), however the reset
\* meets errors, scans and surface changes.
ResetFindsNoDecoder == looper # "abortReset"

\* No handler meets a source or a renderer that performReset() has cleared.
NoUseAfterReset == looper # "abortNullSource"

\* A stream that is flushing or shutting down is still owed each answer it
\* waits for, by its decoder or by the renderer: the deferred actions behind
\* it can go on.  No answer is on its way to a stream that waits for none: it
\* would be taken for the answer of the next flush.
FlushIsAnswered ==
    Alive => \A s \in Streams :
      /\ mFlushing[s] \in {"FLUSHING_DECODER", "FLUSHING_DECODER_SHUTDOWN"} =>
           /\ ~mFlushComplete[s]["decoder"] =>
                ToDecoder(s, "Flush") \/ FromDecoder(s, "FlushCompleted")
           /\ ~mFlushComplete[s]["renderer"] =>
                \/ ToDecoder(s, "Flush") \/ renderer.notifyComplete[s]
                \/ FromRenderer(s, "RendererFlushComplete")
           /\ ~(mFlushComplete[s]["decoder"] /\ mFlushComplete[s]["renderer"])
      /\ mFlushing[s] = "SHUTTING_DOWN_DECODER" =>
           ToDecoder(s, "Shutdown") \/ FromDecoder(s, "ShutdownCompleted")
      /\ mFlushing[s] \in Settled =>
           /\ ~ToDecoder(s, "Flush") /\ ~FromDecoder(s, "FlushCompleted")
           /\ ~renderer.notifyComplete[s] /\ ~FromRenderer(s, "RendererFlushComplete")
           /\ ~ToDecoder(s, "Shutdown") /\ ~FromDecoder(s, "ShutdownCompleted")

\* mScanSourcesPending suppresses the next postScanSources(): it is true only
\* while a scan message that is not obsolete is really on its way.
PendingScanIsPosted ==
    mScanSourcesPending =>
      \/ mScanSourcesGeneration \in scanTimer
      \/ \E i \in DOMAIN playerQueue : /\ playerQueue[i].what = "ScanSources"
                                       /\ playerQueue[i].gen = mScanSourcesGeneration

\* "Don't resume it until source seek is done, otherwise it could start pulling
\* stale data too soon": no decoder holds data from before the last seek.
NoStaleData == \A s \in Streams : decoder[s].data # "stale"

\* "if mPausedByClient is true, mPaused is always true"
PausedByClientImpliesPaused == mPausedByClient => mPaused

\* "Actual pause state": once the renderer has taken its messages it is paused
\* exactly when the player is.
RendererFollowsPause ==
    Alive /\ mRenderer /\ (\A i \in DOMAIN renderer.queue :
                              renderer.queue[i].what \notin {"Pause", "Resume"})
      => renderer.paused = mPaused

\* A tear down of an open sink is not lost: onAudioOffloadTearDown() ignores
\* all but the first, so the player has been told, or is closing the sink.
TearDownIsHandled ==
    Alive /\ renderer.tornDown /\ renderer.sink =>
      \/ FromRenderer("audio", "AudioOffloadTearDown")
      \/ looper \in {"tearError", "tearTimeout"}

\* "Maximum time in paused state [...] When elapsed, the AudioSink is closed":
\* the pause timeout tears down a paused renderer only.
TimeoutOnlyWhilePaused ==
    [][RendererPauseTimeout /\ ~renderer.tornDown => renderer.paused]_vars

\* "AmNuPlayer will use the second surface to configure the decoder": the error
\* of a decoder that has lost its surface is ignored only while a second
\* surface is on its way.
AbandonedSurfaceIsReplaced ==
    Alive /\ playerQueue # <<>> /\ Received.what = "Error" /\ Received.flag
          /\ Received.gen = mDecoderGeneration["video"] /\ SurfaceAbandoned
      => mSetSurfaceInProgress

\* The player as an implementation of PlayerRequests: a request waits as a
\* message of the queue, then as an action deferred behind a flush.
WantAnswer  == {m \in PlayerMessage : m.what = "Reset" \/ (m.what = "Seek" /\ m.flag)}
RequestActs == {a \in DeferredAction : a.act = "Reset" \/ (a.act = "Seek" /\ a.flag)}
ActsIn(q)   == [i \in DOMAIN q |-> q[i].act]
Waiting == ActsIn(Kept(mDeferredActions, RequestActs)) \o KindsIn(Kept(playerQueue, WantAnswer))
Answering ==
    \/ mResumePending
    \/ mDeferredActions # <<>> /\ Head(mDeferredActions).act = "ResumeDecoder"
                               /\ Head(mDeferredActions).flag

Requests == INSTANCE PlayerRequests WITH waiting <- Waiting, answering <- Answering

\* Seeks and resets are carried out in the order of the client's calls, none
\* is lost, repeated or overtaken by what errors, surfaces and the source put
\* among the deferred actions, and a reset leaves no seek unanswered.
RequestsInOrder == Requests!Spec

\* A reset ends: resetAsync() is answered by notifyResetComplete() (reset() waits
\* for it under no timeout), whatever errors, seeks and surfaces it meets.
ResetCompletes == driver = "RESET_IN_PROGRESS" ~> driver = "IDLE"

\* A seek ends: the client gets its MEDIA_SEEK_COMPLETE from finishResume(),
\* although the decoder that was to answer may fail or be shut down.
SeekCompletes == mSeekInProgress ~> ~mSeekInProgress

\* A change of the surface ends: setVideoSurfaceTexture() waits, under no
\* timeout, for notifySetSurfaceComplete(), which a flush comes before.
SurfaceCompletes == mSetSurfaceInProgress ~> ~mSetSurfaceInProgress
=============================================================================
