--------------------------- MODULE NuPlayerDriver ---------------------------
(***************************************************************************)
(* AmNuPlayerDriver: the threads of the client, which call it and wait in  *)
(* it, and the player's looper, which calls it back, under the one lock    *)
(* mLock.                                                                  *)
(*                                                                         *)
(* A step is what a thread does from one moment at which mLock is free to  *)
(* the next: a call up to its return, up to a wait for mCondition, or up   *)
(* to notifyListener_l(), which frees mLock while the client is told.  A   *)
(* thread that waits sleeps until mCondition is broadcast.                 *)
(*                                                                         *)
(* The player is what the driver sees of it: it takes the requests in the  *)
(* order they were posted, carries the slow ones out later, answers.       *)
(***************************************************************************)
EXTENDS Naturals, Sequences

CONSTANTS
    Controls,     \* threads that control playback
    Surfaces,     \* threads that only set the surface
    Budget        \* how many times each bounded event may still happen

Threads == Controls \cup Surfaces

\* "control" is any of prepare, start, stop, pause and seekTo.
BoundedEvents == {"source", "control", "surface", "reset", "endOfStream", "error"}

ASSUME ThreadsAssumption == Controls \cap Surfaces = {}
ASSUME BudgetAssumption == Budget \in [BoundedEvents -> Nat]

State == {"IDLE", "SET_DATASOURCE_PENDING", "UNPREPARED", "PREPARING", "PREPARED",
          "RUNNING", "PAUSED", "RESET_IN_PROGRESS", "STOPPED",
          "STOPPED_AND_PREPARING", "STOPPED_AND_PREPARED"}

\* Where a thread waits for mCondition, and the state it waits to end.
WaitsOn == [inSetDataSource |-> "SET_DATASOURCE_PENDING", inPrepare |-> "PREPARING",
            inStart |-> "PREPARING", inStoppedPrepare |-> "STOPPED_AND_PREPARING",
            inReset |-> "RESET_IN_PROGRESS"]
Waits == DOMAIN WaitsOn \cup {"inSetSurface"}

\* Where a thread is while notifyListener_l() has freed mLock.
Telling == {"resetPrepared", "resetStopped", "pausing", "seeking", "seekingEnd"}

\* needNotify, or "the data source is good".
Message == [what : {"SetDataSource", "Prepare", "SetSurface", "Start", "Pause", "Seek",
                    "Reset", "PlaybackComplete", "Outdated"}, flag : BOOLEAN]
M(w, f) == [what |-> w, flag |-> f]

VARIABLES
    mState, mIsAsyncPrepare, mSetSurfaceInProgress, mSeekInProgress, mAtEOS,
    mStartupSeek,     \* mStartupSeekTimeUs >= 0
    mDuration,        \* mDurationUs > 0
    pc,               \* where each thread of the client is
    woken,            \* the threads mCondition was broadcast to, that have not yet looked
    requests,         \* what was posted to the player
    deferred,         \* requests the player has put behind a flush
    source,           \* the player's source: "NULL", "idle" or "preparing"
    oldSource,        \* a source that was cleared is still preparing
    playing,          \* started, not paused by the client
    resumePending,    \* a seek that wants an answer was carried out
    atEnd,            \* the streams have been played to their end
    looper,           \* the player's looper: "idle", telling the client, or dead
    budget

flagVars   == <<mIsAsyncPrepare, mSetSurfaceInProgress, mSeekInProgress, mAtEOS,
                mStartupSeek, mDuration>>
threadVars == <<pc, woken>>
engineVars == <<deferred, source, oldSource, playing, resumePending, atEnd, looper>>
playerVars == <<requests, engineVars>>
vars == <<mState, flagVars, threadVars, playerVars, budget>>

DriverTypeOK ==
    /\ mState \in State
    /\ mIsAsyncPrepare \in BOOLEAN /\ mSetSurfaceInProgress \in BOOLEAN
    /\ mSeekInProgress \in BOOLEAN /\ mAtEOS \in BOOLEAN
    /\ mStartupSeek \in BOOLEAN /\ mDuration \in BOOLEAN

ThreadTypeOK ==
    /\ pc \in [Threads -> {"idle"} \cup Waits \cup Telling]
    /\ woken \in SUBSET {t \in Threads : pc[t] \in Waits}

QueueTypeOK == requests \in Seq(Message) /\ deferred \in Seq(Message)

EngineTypeOK ==
    /\ source \in {"NULL", "idle", "preparing"} /\ oldSource \in BOOLEAN
    /\ playing \in BOOLEAN /\ resumePending \in BOOLEAN /\ atEnd \in BOOLEAN
    /\ looper \in {"idle", "prepared", "abort"}

BudgetTypeOK == budget \in [BoundedEvents -> Nat]

\* Every variable keeps its type; a thread that was woken is one that waits.
TypeOK == DriverTypeOK /\ ThreadTypeOK /\ QueueTypeOK /\ EngineTypeOK /\ BudgetTypeOK

Init ==
    /\ mState = "IDLE" /\ mIsAsyncPrepare = FALSE /\ mSetSurfaceInProgress = FALSE
    /\ mSeekInProgress = FALSE /\ mAtEOS = FALSE
    /\ mStartupSeek = FALSE /\ mDuration = FALSE
    /\ pc = [t \in Threads |-> "idle"] /\ woken = {}
    /\ requests = <<>> /\ deferred = <<>>
    /\ source = "NULL" /\ oldSource = FALSE /\ playing = FALSE
    /\ resumePending = FALSE /\ atEnd = FALSE /\ looper = "idle"
    /\ budget = Budget

Spend(event) == budget[event] > 0 /\ budget' = [budget EXCEPT ![event] = @ - 1]

Post(messages) == requests' = requests \o messages

Goes(t, place) == pc' = [pc EXCEPT ![t] = place]

\* A thread begins a call it has a budget for.
Calls(t, event) == pc[t] = "idle" /\ Spend(event) /\ UNCHANGED <<woken, engineVars>>

\* mCondition.broadcast()
Broadcast == woken' = {t \in Threads : pc[t] \in Waits}

-----------------------------------------------------------------------------
(* The calls of the client.                                                *)

SetDataSource(t) ==
    /\ Calls(t, "source")
    /\ mState = "IDLE" /\ mState' = "SET_DATASOURCE_PENDING"
    /\ \E ok \in BOOLEAN : Post(<<M("SetDataSource", ok)>>)
    /\ Goes(t, "inSetDataSource")
    /\ UNCHANGED flagVars

SetVideoSurfaceTexture(t) ==
    /\ Calls(t, "surface")
    /\ ~mSetSurfaceInProgress
    /\ mState \notin {"SET_DATASOURCE_PENDING", "RESET_IN_PROGRESS"}
    /\ mSetSurfaceInProgress' = TRUE
    /\ Post(<<M("SetSurface", FALSE)>>)
    /\ Goes(t, "inSetSurface")
    /\ UNCHANGED <<mState, mIsAsyncPrepare, mSeekInProgress, mAtEOS, mStartupSeek, mDuration>>

\* prepare_l() and prepareAsync(): stopped "is really just paused", handled as
\* a seek to the start.
Prepares(t, async, place, stoppedPlace) ==
    /\ mIsAsyncPrepare' = async
    /\ \/ /\ mState = "UNPREPARED" /\ mState' = "PREPARING"
          /\ Post(<<M("Prepare", FALSE)>>)
          /\ Goes(t, place)
          /\ UNCHANGED mAtEOS
       \/ /\ mState = "STOPPED" /\ mState' = "STOPPED_AND_PREPARING"
          /\ mAtEOS' = FALSE
          /\ Post(<<M("Seek", TRUE)>>)
          /\ Goes(t, stoppedPlace)
    /\ UNCHANGED <<mSetSurfaceInProgress, mSeekInProgress, mStartupSeek, mDuration>>

Prepare(t)      == Calls(t, "control") /\ Prepares(t, FALSE, "inPrepare", "inStoppedPrepare")
PrepareAsync(t) == Calls(t, "control") /\ Prepares(t, TRUE, "idle", "idle")

\* The player starts, and seeks if the client has sought before or if playback
\* was complete.
StartPlayer(t, restarts) ==
    /\ mState' = "RUNNING" /\ mAtEOS' = FALSE /\ mStartupSeek' = FALSE
    /\ Post(<<M("Start", FALSE)>>
            \o (IF mStartupSeek \/ (restarts /\ mAtEOS) THEN <<M("Seek", FALSE)>> ELSE <<>>))
    /\ Goes(t, "idle")
    /\ UNCHANGED <<mIsAsyncPrepare, mSetSurfaceInProgress, mSeekInProgress, mDuration>>

Start(t) ==
    /\ Calls(t, "control")
    /\ \/ /\ mState = "UNPREPARED"
          /\ Prepares(t, FALSE, "inStart", "inStart")
       \/ /\ mState \in {"PAUSED", "STOPPED_AND_PREPARED", "PREPARED"}
          /\ StartPlayer(t, mState # "PREPARED")
       \/ /\ mState = "RUNNING" /\ mAtEOS
          /\ mAtEOS' = FALSE
          /\ Post(<<M("Seek", FALSE)>>)
          /\ UNCHANGED <<mState, mIsAsyncPrepare, mSetSurfaceInProgress, mSeekInProgress,
                         mStartupSeek, mDuration, pc>>

Stop(t) ==
    /\ Calls(t, "control")
    /\ mState \in {"RUNNING", "PAUSED", "PREPARED", "STOPPED_AND_PREPARING",
                   "STOPPED_AND_PREPARED"}
    /\ mState' = "STOPPED"
    /\ Post(IF mState = "RUNNING" THEN <<M("Pause", FALSE)>> ELSE <<>>)
    /\ UNCHANGED <<flagVars, pc>>

\* The client is told before the player is paused.
Pause(t) ==
    /\ Calls(t, "control")
    /\ mState = "RUNNING" /\ mState' = "PAUSED"
    /\ Goes(t, "pausing")
    /\ UNCHANGED <<flagVars, requests>>

PauseAfterTelling(t) ==
    /\ pc[t] = "pausing" /\ Goes(t, "idle")
    /\ Post(<<M("Pause", FALSE)>>)
    /\ UNCHANGED <<mState, flagVars, woken, engineVars, budget>>

\* MEDIA_PLAYBACK_COMPLETE in notifyListener_l(): the driver loops, or pauses.
PlaybackCompletes(queue) ==
    \/ /\ mState # "RESET_IN_PROGRESS"      \* mLooping or mAutoLoop
       /\ requests' = Append(queue, M("Seek", FALSE))
       /\ UNCHANGED <<mState, mAtEOS>>
    \/ /\ mState # "RESET_IN_PROGRESS"
       /\ requests' = Append(queue, M("Pause", FALSE))
       /\ mState' = "PAUSED" /\ mAtEOS' = TRUE
    \/ /\ mState = "RESET_IN_PROGRESS"
       /\ requests' = queue
       /\ mAtEOS' = TRUE /\ UNCHANGED mState

\* A seek before playback "will actually happen when starting playback".
SeekToBeforeStart(t) ==
    /\ Calls(t, "control")
    /\ mState \in {"PREPARED", "STOPPED_AND_PREPARED"}
    /\ mStartupSeek' = TRUE
    /\ UNCHANGED <<mState, mIsAsyncPrepare, mSetSurfaceInProgress, mSeekInProgress, mAtEOS,
                   mDuration, pc, requests>>

\* The client is told of the pause before the player gets the request.
SeekTo(t) ==
    /\ Calls(t, "control")
    /\ mState \in {"RUNNING", "PAUSED"}
    /\ mAtEOS' = FALSE /\ mSeekInProgress' = TRUE
    /\ Goes(t, "seeking")
    /\ UNCHANGED <<mState, mIsAsyncPrepare, mSetSurfaceInProgress, mStartupSeek, mDuration,
                   requests>>

SeekToAfterTelling(t) ==
    /\ pc[t] = "seeking" /\ Goes(t, "idle")
    /\ Post(<<M("Seek", TRUE)>>)
    /\ UNCHANGED <<mState, flagVars, woken, engineVars, budget>>

\* "0.5 sec to end, need to quit play", in whatever state; the client seeks
\* only when it has been told that the player is prepared.
SeekToEnd(t) ==
    /\ Calls(t, "control")
    /\ mDuration
    /\ mState \in {"PREPARED", "RUNNING", "PAUSED", "STOPPED_AND_PREPARED"}
    /\ Goes(t, "seekingEnd")
    /\ UNCHANGED <<mState, flagVars, requests>>

SeekToEndAfterTelling(t) ==
    /\ pc[t] = "seekingEnd" /\ Goes(t, "idle")
    /\ PlaybackCompletes(requests)
    /\ UNCHANGED <<mIsAsyncPrepare, mSetSurfaceInProgress, mSeekInProgress, mStartupSeek,
                   mDuration, woken, engineVars, budget>>

\* The last part of reset(), up to the wait.
AsksForReset(t) ==
    /\ mState' = "RESET_IN_PROGRESS"
    /\ Post(<<M("Reset", FALSE)>>)
    /\ Goes(t, "inReset")

TellsStopped(t) == Goes(t, "resetStopped") /\ UNCHANGED <<mState, requests>>

\* The client is told that a player that is preparing is prepared, then that a
\* player that is not stopped has stopped.
Reset(t) ==
    /\ pc[t] = "idle" /\ Spend("reset")
    /\ mState \notin {"IDLE", "SET_DATASOURCE_PENDING", "RESET_IN_PROGRESS"}
    /\ looper' = IF mState = "PREPARING" /\ ~mIsAsyncPrepare THEN "abort" ELSE looper
    /\ IF mState = "PREPARING" THEN Goes(t, "resetPrepared") /\ UNCHANGED <<mState, requests>>
       ELSE IF mState = "STOPPED" THEN AsksForReset(t)
       ELSE TellsStopped(t)
    /\ UNCHANGED <<flagVars, woken, deferred, source, oldSource, playing, resumePending,
                   atEnd>>

ResetAfterTelling(t) ==
    /\ \/ pc[t] = "resetPrepared" /\ mState # "STOPPED" /\ TellsStopped(t)
       \/ pc[t] = "resetPrepared" /\ mState = "STOPPED" /\ AsksForReset(t)
       \/ pc[t] = "resetStopped" /\ AsksForReset(t)
    /\ UNCHANGED <<flagVars, woken, engineVars, budget>>

-----------------------------------------------------------------------------
(* A thread that was woken looks whether what it waits for has happened.   *)

Blocked(t) == IF pc[t] = "inSetSurface" THEN mSetSurfaceInProgress
              ELSE mState = WaitsOn[pc[t]]

Wakes(t) ==
    /\ t \in woken /\ woken' = woken \ {t}
    /\ UNCHANGED <<engineVars, budget>>

SleepsAgain(t) ==
    /\ Wakes(t)
    /\ Blocked(t)
    /\ UNCHANGED <<mState, flagVars, pc, requests>>

Returns(t) ==
    /\ Wakes(t)
    /\ ~Blocked(t)
    /\ pc[t] \notin {"inReset", "inStart"}
    /\ Goes(t, "idle")
    /\ UNCHANGED <<mState, flagVars, requests>>

ReturnsFromReset(t) ==
    /\ Wakes(t)
    /\ ~Blocked(t)
    /\ pc[t] = "inReset" /\ Goes(t, "idle")
    /\ mDuration' = FALSE /\ mStartupSeek' = FALSE
    /\ UNCHANGED <<mState, mIsAsyncPrepare, mSetSurfaceInProgress, mSeekInProgress, mAtEOS,
                   requests>>

\* start() has prepared the player, or gives up.
StartGoesOn(t) ==
    /\ Wakes(t)
    /\ ~Blocked(t)
    /\ pc[t] = "inStart"
    /\ IF mState = "PREPARED" THEN StartPlayer(t, TRUE)
       ELSE Goes(t, "idle") /\ UNCHANGED <<mState, flagVars, requests>>

-----------------------------------------------------------------------------
(* The player, and its callbacks.                                          *)

Alive == looper # "abort"

\* The player's looper takes a request.
Takes(w) ==
    /\ looper = "idle"
    /\ requests # <<>> /\ Head(requests).what = w
    /\ UNCHANGED <<oldSource, resumePending, budget>>

\* A CHECK of the callback.
Check(condition) == looper' = IF condition THEN looper ELSE "abort"

\* notifySetDataSourceCompleted()
TakesSetDataSource ==
    /\ Takes("SetDataSource")
    /\ requests' = Tail(requests)
    /\ source' = IF Head(requests).flag THEN "idle" ELSE "NULL"
    /\ Check(mState = "SET_DATASOURCE_PENDING")
    /\ mState' = IF Head(requests).flag THEN "UNPREPARED" ELSE "IDLE"
    /\ Broadcast
    /\ UNCHANGED <<flagVars, pc, deferred, playing, atEnd>>

TakesPrepare ==
    /\ Takes("Prepare")
    /\ requests' = Tail(requests)
    /\ Check(source # "NULL")
    /\ source' = "preparing"
    /\ UNCHANGED <<mState, flagVars, threadVars, deferred, playing, atEnd>>

TakesStart ==
    /\ Takes("Start")
    /\ requests' = Tail(requests)
    /\ Check(source # "NULL")
    /\ playing' = TRUE
    /\ UNCHANGED <<mState, flagVars, threadVars, deferred, source, atEnd>>

TakesPause ==
    /\ Takes("Pause")
    /\ requests' = Tail(requests)
    /\ playing' = FALSE
    /\ UNCHANGED <<mState, flagVars, threadVars, deferred, source, atEnd, looper>>

\* Seeks, surfaces and resets are put behind a flush.
TakesSlowRequest ==
    /\ \E w \in {"Seek", "SetSurface", "Reset"} : Takes(w)
    /\ requests' = Tail(requests)
    /\ deferred' = Append(deferred, Head(requests))
    /\ UNCHANGED <<mState, flagVars, threadVars, source, playing, atEnd, looper>>

\* Mutant: the driver pauses, the player plays on.
TakesPlaybackCompleteSilently ==
    /\ Takes("PlaybackComplete")
    /\ requests' = Tail(requests)
    /\ mState' = (IF mState = "RESET_IN_PROGRESS" THEN mState ELSE "PAUSED") /\ mAtEOS' = TRUE
    /\ UNCHANGED <<mIsAsyncPrepare, mSetSurfaceInProgress, mSeekInProgress, mStartupSeek,
                   mDuration, threadVars, deferred, source, playing, atEnd, looper>>

TakesPlaybackComplete ==
    /\ Takes("PlaybackComplete")
    /\ PlaybackCompletes(Tail(requests))
    /\ UNCHANGED <<mIsAsyncPrepare, mSetSurfaceInProgress, mSeekInProgress, mStartupSeek,
                   mDuration, threadVars, deferred, source, playing, atEnd, looper>>

\* A deferred request is carried out.
Carries(w) ==
    /\ looper = "idle"
    /\ deferred # <<>> /\ Head(deferred).what = w
    /\ deferred' = Tail(deferred)
    /\ UNCHANGED budget

CarriesOutSeek ==
    /\ Carries("Seek")
    /\ resumePending' = (resumePending \/ Head(deferred).flag)
    /\ atEnd' = FALSE
    /\ UNCHANGED <<mState, flagVars, threadVars, requests, source, oldSource, playing, looper>>

\* Mutant: the position stays frozen.
AnswersSeekOnly ==
    /\ looper = "idle" /\ resumePending
    /\ resumePending' = FALSE
    /\ IF mState = "STOPPED_AND_PREPARING"
       THEN mState' = "STOPPED_AND_PREPARED" /\ Broadcast
       ELSE UNCHANGED <<mState, woken>>
    /\ UNCHANGED <<flagVars, pc, requests, deferred, source, oldSource, playing, atEnd, looper,
                   budget>>

\* notifySeekComplete(), once for seeks that follow each other closely.
AnswersSeek ==
    /\ looper = "idle" /\ resumePending
    /\ resumePending' = FALSE
    /\ mSeekInProgress' = FALSE
    /\ IF mState = "STOPPED_AND_PREPARING"
       THEN mState' = "STOPPED_AND_PREPARED" /\ Broadcast
       ELSE UNCHANGED <<mState, woken>>
    /\ UNCHANGED <<mIsAsyncPrepare, mSetSurfaceInProgress, mAtEOS, mStartupSeek, mDuration, pc,
                   requests, deferred, source, oldSource, playing, atEnd, looper, budget>>

\* Mutant: the surface is set, the client is not woken.
SurfaceCompletesSilently ==
    /\ Check(mSetSurfaceInProgress)
    /\ mSetSurfaceInProgress' = FALSE
    /\ UNCHANGED <<mState, mIsAsyncPrepare, mSeekInProgress, mAtEOS, mStartupSeek, mDuration,
                   threadVars, source, oldSource, playing, resumePending, atEnd, budget>>

\* notifySetSurfaceComplete()
SurfaceCompletes ==
    /\ Check(mSetSurfaceInProgress)
    /\ mSetSurfaceInProgress' = FALSE
    /\ Broadcast
    /\ UNCHANGED <<mState, mIsAsyncPrepare, mSeekInProgress, mAtEOS, mStartupSeek, mDuration,
                   pc, source, oldSource, playing, resumePending, atEnd, budget>>

CarriesOutSetSurface ==
    /\ Carries("SetSurface")
    /\ SurfaceCompletes
    /\ UNCHANGED requests

\* With no video decoder the surface is set at once.
TakesSetSurface ==
    /\ Takes("SetSurface")
    /\ requests' = Tail(requests)
    /\ SurfaceCompletes
    /\ UNCHANGED deferred

\* The message of a renderer that is gone is told from those of its successor.
Outdate(messages) ==
    [i \in DOMAIN messages |-> IF messages[i].what = "PlaybackComplete"
                               THEN M("Outdated", FALSE) ELSE messages[i]]

TakesOutdated ==
    /\ Takes("Outdated")
    /\ requests' = Tail(requests)
    /\ UNCHANGED <<mState, flagVars, threadVars, deferred, source, playing, atEnd, looper>>

\* notifyResetComplete(), and the renderer is gone.
\* The shutdown of the decoders has answered a seek.
CarriesOutReset ==
    /\ Carries("Reset")
    /\ ~resumePending
    /\ requests' = Outdate(requests)
    /\ source' = "NULL" /\ playing' = FALSE /\ atEnd' = FALSE
    /\ oldSource' = (oldSource \/ source = "preparing")
    /\ Check(mState = "RESET_IN_PROGRESS")
    /\ mState' = "IDLE"
    /\ Broadcast
    /\ UNCHANGED <<flagVars, pc, resumePending>>

\* Mutant: a stale answer is not expected.
PrepareCompletesChecked(ok) ==
    /\ Check(mState = "PREPARING")
    /\ mState' = IF ok THEN "PREPARED" ELSE "UNPREPARED"
    /\ mAtEOS' = (mAtEOS \/ (~ok /\ mIsAsyncPrepare))
    /\ Broadcast

\* notifyPrepareCompleted(): the client is told of an asynchronous one before
\* mCondition is broadcast.
PrepareCompletes(ok) ==
    IF mState # "PREPARING"
    THEN /\ Check(mState \in {"RESET_IN_PROGRESS", "IDLE"})
         /\ UNCHANGED <<mState, mAtEOS, woken>>
    ELSE /\ mState' = IF ok THEN "PREPARED" ELSE "UNPREPARED"
         /\ mAtEOS' = (mAtEOS \/ (~ok /\ mIsAsyncPrepare))
         /\ IF mIsAsyncPrepare THEN looper' = "prepared" /\ UNCHANGED woken
                               ELSE Broadcast /\ UNCHANGED looper

\* The source has prepared; its duration may be known.
SourcePrepared ==
    /\ looper = "idle" /\ source = "preparing" /\ source' = "idle"
    /\ \E ok \in BOOLEAN, known \in BOOLEAN :
         /\ IF ok THEN UNCHANGED budget ELSE Spend("error")
         /\ mDuration' = (mDuration \/ known)
         /\ PrepareCompletes(ok)
    /\ UNCHANGED <<mIsAsyncPrepare, mSetSurfaceInProgress, mSeekInProgress, mStartupSeek, pc,
                   requests, deferred, oldSource, playing, resumePending, atEnd>>

\* A source that was cleared while preparing answers: there must be no source.
OldSourcePrepared ==
    /\ looper = "idle" /\ oldSource /\ oldSource' = FALSE
    /\ IF source = "NULL" THEN UNCHANGED <<mState, mAtEOS, woken, looper>>
                          ELSE PrepareCompletes(TRUE)
    /\ UNCHANGED <<mIsAsyncPrepare, mSetSurfaceInProgress, mSeekInProgress, mStartupSeek,
                   mDuration, pc, requests, deferred, source, playing, resumePending, atEnd,
                   budget>>

AfterTellingPrepared ==
    /\ looper = "prepared" /\ looper' = "idle"
    /\ Broadcast
    /\ UNCHANGED <<mState, flagVars, pc, requests, deferred, source, oldSource, playing,
                   resumePending, atEnd, budget>>

-----------------------------------------------------------------------------
(* What happens to the player.                                             *)

\* The renderer has played the streams to their end.
EndOfStream ==
    /\ playing /\ Spend("endOfStream")
    /\ atEnd' = TRUE
    /\ requests' = Append(requests, M("PlaybackComplete", FALSE))
    /\ UNCHANGED <<mState, flagVars, threadVars, deferred, source, oldSource, playing,
                   resumePending, looper>>

\* MEDIA_ERROR
DecoderError ==
    /\ looper = "idle" /\ playing /\ Spend("error")
    /\ mAtEOS' = TRUE
    /\ UNCHANGED <<mState, mIsAsyncPrepare, mSetSurfaceInProgress, mSeekInProgress,
                   mStartupSeek, mDuration, threadVars, playerVars>>

-----------------------------------------------------------------------------
\* A thread's call, and its steps once it has called.
CallStep(t) ==
    \/ SetDataSource(t) \/ Prepare(t) \/ PrepareAsync(t) \/ Start(t) \/ Stop(t) \/ Pause(t)
    \/ SeekToBeforeStart(t) \/ SeekTo(t) \/ SeekToEnd(t) \/ Reset(t)

GoOn(t) ==
    \/ PauseAfterTelling(t) \/ SeekToAfterTelling(t) \/ SeekToEndAfterTelling(t)
    \/ ResetAfterTelling(t) \/ SleepsAgain(t) \/ Returns(t) \/ ReturnsFromReset(t)
    \/ StartGoesOn(t)

EngineStep ==
    \/ TakesSetDataSource \/ TakesPrepare \/ TakesStart \/ TakesPause \/ TakesSlowRequest
    \/ TakesPlaybackComplete \/ TakesOutdated \/ TakesSetSurface
    \/ CarriesOutSeek \/ CarriesOutSetSurface \/ CarriesOutReset \/ AnswersSeek
    \/ SourcePrepared \/ OldSourcePrepared \/ AfterTellingPrepared

Next ==
    /\ Alive
    /\ \/ \E t \in Controls : CallStep(t)
       \/ \E t \in Threads : SetVideoSurfaceTexture(t) \/ GoOn(t)
       \/ EngineStep \/ EndOfStream \/ DecoderError

Spec == Init /\ [][Next]_vars

\* A thread that may run runs, and the player goes on; nothing is assumed of
\* the client's calls, of errors and of the streams.
Fairness == WF_vars(Alive /\ EngineStep) /\ \A t \in Threads : WF_vars(Alive /\ GoOn(t))

FairSpec == Spec /\ Fairness

-----------------------------------------------------------------------------
(* Properties.                                                             *)

\* No CHECK fails: the player calls back only what the driver waits for, in
\* whatever state the other threads have brought it to while mLock was free.
CallbacksExpected == Alive

\* Once the player has taken all requests it plays exactly when the driver
\* believes it is running: no pause or start is lost to an end of playback that
\* comes while mLock is free.  When nothing is deferred either it has been sought
\* elsewhere after the end: a start then plays from the beginning.
DriverFollowsPlayer ==
    /\ Alive /\ mState # "RESET_IN_PROGRESS" /\ requests = <<>>
    /\ \A t \in Threads : pc[t] # "pausing"
    => /\ (mState = "RUNNING") = playing
       /\ playing /\ deferred = <<>> => ~atEnd

\* While mSeekInProgress freezes the position the client sees, a seek is on
\* its way, also over a reset, which does not clear it.
SeekInProgressEnds ==
    mSeekInProgress =>
      \/ resumePending
      \/ \E i \in DOMAIN requests : requests[i] = M("Seek", TRUE)
      \/ \E i \in DOMAIN deferred : deferred[i] = M("Seek", TRUE)
      \/ \E t \in Threads : pc[t] = "seeking"

\* A blocking call comes back: what it waits for happens and mCondition is
\* broadcast after it, whatever the other threads do.
CallsReturn ==
    \A t \in Threads :
      pc[t] \in Waits \ {"inStoppedPrepare"} ~> pc[t] \notin Waits \ {"inStoppedPrepare"}

\* "Success or failure information is only communicated through our result
\* code": prepare() of a stopped player comes back with one.
PrepareReturns ==
    \A t \in Threads : pc[t] = "inStoppedPrepare" ~> pc[t] # "inStoppedPrepare"
=============================================================================
