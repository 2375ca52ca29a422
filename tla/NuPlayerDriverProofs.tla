------------------------ MODULE NuPlayerDriverProofs ------------------------
(* Theorems about NuPlayerDriver, for every set of threads and every budget. *)
EXTENDS NuPlayerDriver, Integers, TLAPS

-----------------------------------------------------------------------------
(* Messages and queues.                                                     *)

LEMMA MessageTypes ==
    /\ \A w \in {"Prepare", "SetSurface", "Start", "Pause", "Seek", "Reset", "PlaybackComplete",
                 "Outdated"} : M(w, FALSE) \in Message
    /\ M("Seek", TRUE) \in Message
    /\ M("SetDataSource", TRUE) \in Message /\ M("SetDataSource", FALSE) \in Message
  BY DEF M, Message

LEMMA ConcatenationType ==
    ASSUME NEW s \in Seq(Message), NEW t \in Seq(Message)
    PROVE  s \o t \in Seq(Message)
  OBVIOUS

LEMMA OneMessage ==
    ASSUME NEW m \in Message
    PROVE  <<m>> \in Seq(Message) /\ <<>> \in Seq(Message)
  OBVIOUS

LEMMA TailType ==
    ASSUME NEW s \in Seq(Message), s # <<>>
    PROVE  Head(s) \in Message /\ Tail(s) \in Seq(Message)
  OBVIOUS

LEMMA OutdateType ==
    ASSUME NEW s \in Seq(Message)
    PROVE  Outdate(s) \in Seq(Message)
<1> DEFINE gone == M("Outdated", FALSE)
<1>1. gone \in Message
  BY MessageTypes
<1>2. Outdate(s) = [i \in 1..Len(s) |-> IF s[i].what = "PlaybackComplete" THEN gone ELSE s[i]]
  BY DEF Outdate
<1> QED
  <2> HIDE DEF gone
  <2> QED  BY <1>1, <1>2

-----------------------------------------------------------------------------
(* What calls and callbacks have in common.                                 *)

LEMMA Places ==
    /\ Waits = {"inSetDataSource", "inPrepare", "inStart", "inStoppedPrepare", "inReset",
                "inSetSurface"}
    /\ Telling = {"resetPrepared", "resetStopped", "pausing", "seeking", "seekingEnd"}
    /\ "idle" \notin Waits /\ Telling \cap Waits = {}
  BY DEF Waits, WaitsOn, Telling

Place == {"idle"} \cup Waits \cup Telling

LEMMA SpendType ==
    ASSUME TypeOK, NEW event \in BoundedEvents, Spend(event)
    PROVE  BudgetTypeOK'
  BY DEF TypeOK, BudgetTypeOK, Spend

LEMMA Frame ==
    ASSUME TypeOK
    PROVE  /\ UNCHANGED <<mState, flagVars>> => DriverTypeOK'
           /\ UNCHANGED threadVars => ThreadTypeOK'
           /\ UNCHANGED <<requests, deferred>> => QueueTypeOK'
           /\ UNCHANGED engineVars => EngineTypeOK'
           /\ UNCHANGED budget => BudgetTypeOK'
  BY DEF TypeOK, DriverTypeOK, ThreadTypeOK, QueueTypeOK, EngineTypeOK, BudgetTypeOK, flagVars, threadVars,
    engineVars

\* A thread that is awake goes on.
LEMMA GoesType ==
    ASSUME TypeOK, NEW t \in Threads, NEW place \in Place, Goes(t, place),
           (pc[t] \notin Waits /\ woken' = woken) \/ woken' = woken \ {t}
    PROVE  ThreadTypeOK'
<1>1. pc' \in [Threads -> Place]
  BY DEF TypeOK, ThreadTypeOK, Goes, Place
<1>2. woken' \subseteq woken /\ t \notin woken'
  BY DEF TypeOK, ThreadTypeOK
<1>3. \A u \in Threads \ {t} : pc'[u] = pc[u]
  BY DEF TypeOK, ThreadTypeOK, Goes
<1> QED BY <1>1, <1>2, <1>3 DEF TypeOK, ThreadTypeOK, Place

LEMMA BroadcastType ==
    ASSUME TypeOK, Broadcast, UNCHANGED pc
    PROVE  ThreadTypeOK'
  BY DEF TypeOK, ThreadTypeOK, Broadcast

LEMMA PostType ==
    ASSUME TypeOK, NEW messages \in Seq(Message), Post(messages), UNCHANGED deferred
    PROVE  QueueTypeOK'
  BY ConcatenationType DEF TypeOK, QueueTypeOK, Post

LEMMA CallType ==
    ASSUME TypeOK, NEW t \in Threads, NEW event \in BoundedEvents, Calls(t, event)
    PROVE  /\ pc[t] \notin Waits /\ woken' = woken /\ UNCHANGED deferred
           /\ EngineTypeOK' /\ BudgetTypeOK'
  BY Places, SpendType, Frame DEF Calls, engineVars

-----------------------------------------------------------------------------
(* Type correctness: the calls of the client.                               *)

LEMMA SetDataSourceType ==
    ASSUME TypeOK, NEW t \in Threads, SetDataSource(t)
    PROVE  TypeOK'
<1>1. Calls(t, "source") /\ "source" \in BoundedEvents
  BY DEF SetDataSource, BoundedEvents
<1>2. DriverTypeOK'
  BY DEF SetDataSource, TypeOK, DriverTypeOK, State, flagVars
<1>3. ThreadTypeOK'
  BY <1>1, CallType, GoesType, Places DEF SetDataSource, Place
<1>4. PICK ok \in BOOLEAN : Post(<<M("SetDataSource", ok)>>)
  BY Zenon DEF SetDataSource
<1>5. <<M("SetDataSource", ok)>> \in Seq(Message)
  BY MessageTypes, OneMessage
<1> QED BY <1>1, <1>2, <1>3, <1>4, <1>5, CallType, PostType DEF TypeOK

LEMMA SetVideoSurfaceTextureType ==
    ASSUME TypeOK, NEW t \in Threads, SetVideoSurfaceTexture(t)
    PROVE  TypeOK'
<1>1. Calls(t, "surface") /\ "surface" \in BoundedEvents
  BY DEF SetVideoSurfaceTexture, BoundedEvents
<1>2. DriverTypeOK'
  BY DEF SetVideoSurfaceTexture, TypeOK, DriverTypeOK
<1>3. ThreadTypeOK'
  BY <1>1, CallType, GoesType, Places DEF SetVideoSurfaceTexture, Place
<1>4. QueueTypeOK'
  BY <1>1, CallType, PostType, MessageTypes, OneMessage DEF SetVideoSurfaceTexture
<1> QED BY <1>1, <1>2, <1>3, <1>4, CallType DEF TypeOK

LEMMA PreparesType ==
    ASSUME TypeOK, NEW t \in Threads, NEW async \in BOOLEAN, NEW place \in Place,
           NEW stoppedPlace \in Place, Calls(t, "control"),
           Prepares(t, async, place, stoppedPlace)
    PROVE  TypeOK'
<1>1. "control" \in BoundedEvents
  BY DEF BoundedEvents
<1>2. DriverTypeOK'
  BY DEF Prepares, TypeOK, DriverTypeOK, State
<1>3. ThreadTypeOK'
  BY <1>1, CallType, GoesType DEF Prepares
<1>4. QueueTypeOK'
  BY <1>1, CallType, PostType, MessageTypes, OneMessage DEF Prepares
<1> QED BY <1>1, <1>2, <1>3, <1>4, CallType DEF TypeOK

LEMMA StartPlayerType ==
    ASSUME TypeOK, NEW t \in Threads, NEW restarts \in BOOLEAN, StartPlayer(t, restarts),
           UNCHANGED deferred,
           (pc[t] \notin Waits /\ woken' = woken) \/ woken' = woken \ {t}
    PROVE  DriverTypeOK' /\ ThreadTypeOK' /\ QueueTypeOK'
<1>1. DriverTypeOK'
  BY DEF StartPlayer, TypeOK, DriverTypeOK, State
<1>2. ThreadTypeOK'
  BY GoesType DEF StartPlayer, Place
<1>3. QueueTypeOK'
  <2>1. <<M("Start", FALSE)>> \o <<M("Seek", FALSE)>> \in Seq(Message)
    BY MessageTypes, OneMessage, ConcatenationType
  <2>2. <<M("Start", FALSE)>> \o <<>> \in Seq(Message)
    BY MessageTypes, OneMessage, ConcatenationType
  <2> QED BY <2>1, <2>2, PostType DEF StartPlayer
<1> QED BY <1>1, <1>2, <1>3

LEMMA StartType ==
    ASSUME TypeOK, NEW t \in Threads, Start(t)
    PROVE  TypeOK'
<1>1. Calls(t, "control") /\ "control" \in BoundedEvents
  BY DEF Start, BoundedEvents
<1>2. CASE Prepares(t, FALSE, "inStart", "inStart")
  BY <1>1, <1>2, PreparesType, Places DEF Place
<1>3. CASE StartPlayer(t, mState # "PREPARED")
  <2>1. (mState # "PREPARED") \in BOOLEAN
    OBVIOUS
  <2> QED BY <1>1, <1>3, <2>1, CallType, StartPlayerType DEF TypeOK
<1>4. CASE /\ mAtEOS' = FALSE
           /\ Post(<<M("Seek", FALSE)>>)
           /\ UNCHANGED <<mState, mIsAsyncPrepare, mSetSurfaceInProgress, mSeekInProgress,
                          mStartupSeek, mDuration, pc>>
  <2>1. DriverTypeOK'
    BY <1>4 DEF TypeOK, DriverTypeOK
  <2>2. ThreadTypeOK'
    BY <1>1, <1>4, CallType, Frame DEF threadVars
  <2>3. QueueTypeOK'
    BY <1>1, <1>4, CallType, PostType, MessageTypes, OneMessage
  <2> QED BY <1>1, <2>1, <2>2, <2>3, CallType DEF TypeOK
<1> QED BY <1>2, <1>3, <1>4 DEF Start

LEMMA StopType ==
    ASSUME TypeOK, NEW t \in Threads, Stop(t)
    PROVE  TypeOK'
<1>1. Calls(t, "control") /\ "control" \in BoundedEvents
  BY DEF Stop, BoundedEvents
<1>2. DriverTypeOK'
  BY DEF Stop, TypeOK, DriverTypeOK, State, flagVars
<1>3. ThreadTypeOK'
  BY <1>1, CallType, Frame DEF Stop, threadVars
<1>4. QueueTypeOK'
  BY <1>1, CallType, PostType, MessageTypes, OneMessage DEF Stop
<1> QED BY <1>1, <1>2, <1>3, <1>4, CallType DEF TypeOK

\* The calls that tell the client first, and a seek before playback.
LEMMA TellsFirstType ==
    ASSUME TypeOK, NEW t \in Threads,
           Pause(t) \/ SeekTo(t) \/ SeekToEnd(t) \/ SeekToBeforeStart(t)
    PROVE  TypeOK'
<1>1. Calls(t, "control") /\ "control" \in BoundedEvents
  BY DEF Pause, SeekTo, SeekToEnd, SeekToBeforeStart, BoundedEvents
<1>2. DriverTypeOK'
  BY DEF Pause, SeekTo, SeekToEnd, SeekToBeforeStart, TypeOK, DriverTypeOK, State, flagVars
<1>3. ThreadTypeOK'
  <2>1. CASE SeekToBeforeStart(t)
    BY <1>1, <2>1, CallType, Frame DEF SeekToBeforeStart, threadVars
  <2>2. CASE \E place \in Telling : Goes(t, place)
    BY <1>1, <2>2, CallType, GoesType DEF Place
  <2> QED BY <2>1, <2>2, Places DEF Pause, SeekTo, SeekToEnd
<1>4. QueueTypeOK'
  BY <1>1, CallType, Frame DEF Pause, SeekTo, SeekToEnd, SeekToBeforeStart
<1> QED BY <1>1, <1>2, <1>3, <1>4, CallType DEF TypeOK

\* A thread that goes on leaves the player and the budget alone.
LEMMA GoOnFrame ==
    ASSUME TypeOK, UNCHANGED <<engineVars, budget>>
    PROVE  UNCHANGED deferred /\ EngineTypeOK' /\ BudgetTypeOK'
  BY Frame DEF engineVars

LEMMA PauseAfterTellingType ==
    ASSUME TypeOK, NEW t \in Threads, PauseAfterTelling(t) \/ SeekToAfterTelling(t)
    PROVE  TypeOK'
<1>1. UNCHANGED <<engineVars, budget>>
  BY DEF PauseAfterTelling, SeekToAfterTelling
<1>2. DriverTypeOK'
  BY Frame DEF PauseAfterTelling, SeekToAfterTelling
<1>3. ThreadTypeOK'
  BY GoesType, Places DEF PauseAfterTelling, SeekToAfterTelling, Place
<1>4. QueueTypeOK'
  BY <1>1, GoOnFrame, PostType, MessageTypes, OneMessage DEF PauseAfterTelling, SeekToAfterTelling
<1> QED BY <1>1, <1>2, <1>3, <1>4, GoOnFrame DEF TypeOK

LEMMA PlaybackCompletesType ==
    ASSUME TypeOK, NEW queue \in Seq(Message), PlaybackCompletes(queue), UNCHANGED deferred,
           UNCHANGED <<mIsAsyncPrepare, mSetSurfaceInProgress, mSeekInProgress, mStartupSeek,
                       mDuration>>
    PROVE  DriverTypeOK' /\ QueueTypeOK'
<1>1. DriverTypeOK'
  BY DEF PlaybackCompletes, TypeOK, DriverTypeOK, State
<1>2. \A m \in Message : Append(queue, m) \in Seq(Message)
  OBVIOUS
<1>3. QueueTypeOK'
  BY <1>2, MessageTypes DEF PlaybackCompletes, TypeOK, QueueTypeOK
<1> QED BY <1>1, <1>3

LEMMA SeekToEndAfterTellingType ==
    ASSUME TypeOK, NEW t \in Threads, SeekToEndAfterTelling(t)
    PROVE  TypeOK'
<1>1. UNCHANGED <<engineVars, budget>>
  BY DEF SeekToEndAfterTelling
<1>2. DriverTypeOK' /\ QueueTypeOK'
  BY <1>1, GoOnFrame, PlaybackCompletesType DEF SeekToEndAfterTelling, TypeOK, QueueTypeOK
<1>3. ThreadTypeOK'
  BY GoesType, Places DEF SeekToEndAfterTelling, Place
<1> QED BY <1>1, <1>2, <1>3, GoOnFrame DEF TypeOK

\* reset() asks the player, or tells the client first.
LEMMA AsksOrTellsType ==
    ASSUME TypeOK, NEW t \in Threads, pc[t] \notin Waits, UNCHANGED <<flagVars, woken, deferred>>,
           \/ AsksForReset(t) \/ TellsStopped(t)
           \/ Goes(t, "resetPrepared") /\ UNCHANGED <<mState, requests>>
    PROVE  DriverTypeOK' /\ ThreadTypeOK' /\ QueueTypeOK'
<1>1. DriverTypeOK'
  BY DEF AsksForReset, TellsStopped, TypeOK, DriverTypeOK, State, flagVars
<1>2. ThreadTypeOK'
  BY GoesType, Places DEF AsksForReset, TellsStopped, Place
<1>3. QueueTypeOK'
  BY PostType, MessageTypes, OneMessage, Frame DEF AsksForReset, TellsStopped
<1> QED BY <1>1, <1>2, <1>3

LEMMA ResetType ==
    ASSUME TypeOK, NEW t \in Threads, Reset(t)
    PROVE  TypeOK'
<1>1. BudgetTypeOK'
  BY SpendType DEF Reset, BoundedEvents
<1>2. EngineTypeOK'
  BY DEF Reset, TypeOK, EngineTypeOK
<1>3. DriverTypeOK' /\ ThreadTypeOK' /\ QueueTypeOK'
  BY AsksOrTellsType, Places DEF Reset
<1> QED BY <1>1, <1>2, <1>3 DEF TypeOK

LEMMA ResetAfterTellingType ==
    ASSUME TypeOK, NEW t \in Threads, ResetAfterTelling(t)
    PROVE  TypeOK'
<1>1. UNCHANGED <<engineVars, budget>>
  BY DEF ResetAfterTelling
<1>2. DriverTypeOK' /\ ThreadTypeOK' /\ QueueTypeOK'
  BY <1>1, GoOnFrame, AsksOrTellsType, Places DEF ResetAfterTelling
<1> QED BY <1>1, <1>2, GoOnFrame DEF TypeOK

LEMMA WakesType ==
    ASSUME TypeOK, NEW t \in Threads,
           SleepsAgain(t) \/ Returns(t) \/ ReturnsFromReset(t) \/ StartGoesOn(t)
    PROVE  TypeOK'
<1>1. UNCHANGED <<engineVars, budget>> /\ woken' = woken \ {t}
  BY DEF SleepsAgain, Returns, ReturnsFromReset, StartGoesOn, Wakes
<1>2. CASE StartGoesOn(t) /\ StartPlayer(t, TRUE)
  BY <1>1, <1>2, GoOnFrame, StartPlayerType DEF TypeOK
<1>3. CASE Goes(t, "idle") /\ UNCHANGED requests /\ UNCHANGED mState
           /\ UNCHANGED <<mIsAsyncPrepare, mSetSurfaceInProgress, mSeekInProgress, mAtEOS>>
           /\ mDuration' \in {mDuration, FALSE} /\ mStartupSeek' \in {mStartupSeek, FALSE}
  <2>1. DriverTypeOK'
    BY <1>3 DEF TypeOK, DriverTypeOK
  <2>2. ThreadTypeOK' /\ QueueTypeOK'
    BY <1>1, <1>3, GoOnFrame, GoesType, Frame DEF Place
  <2> QED BY <1>1, <2>1, <2>2, GoOnFrame DEF TypeOK
<1>4. CASE SleepsAgain(t)
  <2>1. ThreadTypeOK'
    BY <1>1, <1>4 DEF SleepsAgain, TypeOK, ThreadTypeOK
  <2> QED BY <1>1, <1>4, <2>1, GoOnFrame, Frame DEF SleepsAgain, TypeOK
<1> QED BY <1>2, <1>3, <1>4 DEF Returns, ReturnsFromReset, StartGoesOn, flagVars

-----------------------------------------------------------------------------
(* Type correctness: the player and its callbacks.                          *)

LEMMA TakesType ==
    ASSUME TypeOK, NEW w, Takes(w), requests' = Tail(requests), UNCHANGED deferred
    PROVE  QueueTypeOK' /\ BudgetTypeOK' /\ Head(requests) \in Message
  BY TailType, Frame DEF Takes, TypeOK, QueueTypeOK

\* A request that concerns the player only.
LEMMA PlainTakesType ==
    ASSUME TypeOK, TakesPrepare \/ TakesStart \/ TakesPause \/ TakesOutdated
    PROVE  TypeOK'
<1>1. QueueTypeOK' /\ BudgetTypeOK'
  BY TakesType DEF TakesPrepare, TakesStart, TakesPause, TakesOutdated
<1>2. EngineTypeOK'
  BY DEF TakesPrepare, TakesStart, TakesPause, TakesOutdated, Takes, Check, TypeOK, EngineTypeOK
<1>3. DriverTypeOK' /\ ThreadTypeOK'
  BY Frame DEF TakesPrepare, TakesStart, TakesPause, TakesOutdated
<1> QED BY <1>1, <1>2, <1>3 DEF TypeOK

LEMMA TakesSetDataSourceType ==
    ASSUME TypeOK, TakesSetDataSource
    PROVE  TypeOK'
<1>1. QueueTypeOK' /\ BudgetTypeOK'
  BY TakesType DEF TakesSetDataSource
<1>2. EngineTypeOK'
  BY DEF TakesSetDataSource, Takes, Check, TypeOK, EngineTypeOK
<1>3. DriverTypeOK'
  BY DEF TakesSetDataSource, TypeOK, DriverTypeOK, State, flagVars
<1>4. ThreadTypeOK'
  BY BroadcastType DEF TakesSetDataSource
<1> QED BY <1>1, <1>2, <1>3, <1>4 DEF TypeOK

LEMMA TakesSlowRequestType ==
    ASSUME TypeOK, TakesSlowRequest
    PROVE  TypeOK'
<1>1. QueueTypeOK'
  <2>1. Head(requests) \in Message /\ Tail(requests) \in Seq(Message)
    BY TailType DEF TakesSlowRequest, Takes, TypeOK, QueueTypeOK
  <2> QED BY <2>1 DEF TakesSlowRequest, TypeOK, QueueTypeOK
<1>2. EngineTypeOK' /\ BudgetTypeOK' /\ DriverTypeOK' /\ ThreadTypeOK'
  BY Frame DEF TakesSlowRequest, Takes, TypeOK, EngineTypeOK
<1> QED BY <1>1, <1>2 DEF TypeOK

LEMMA TakesPlaybackCompleteType ==
    ASSUME TypeOK, TakesPlaybackComplete
    PROVE  TypeOK'
<1>1. Tail(requests) \in Seq(Message)
  BY TailType DEF TakesPlaybackComplete, Takes, TypeOK, QueueTypeOK
<1>2. DriverTypeOK' /\ QueueTypeOK'
  BY <1>1, PlaybackCompletesType DEF TakesPlaybackComplete
<1>3. EngineTypeOK' /\ BudgetTypeOK' /\ ThreadTypeOK'
  BY Frame DEF TakesPlaybackComplete, Takes, TypeOK, EngineTypeOK
<1> QED BY <1>2, <1>3 DEF TypeOK

LEMMA CarriesType ==
    ASSUME TypeOK, NEW w, Carries(w)
    PROVE  deferred' \in Seq(Message) /\ BudgetTypeOK'
  BY TailType, Frame DEF Carries, TypeOK, QueueTypeOK

LEMMA CarriesOutSeekType ==
    ASSUME TypeOK, CarriesOutSeek
    PROVE  TypeOK'
<1>1. QueueTypeOK' /\ BudgetTypeOK'
  BY CarriesType DEF CarriesOutSeek, TypeOK, QueueTypeOK
<1>2. EngineTypeOK'
  BY DEF CarriesOutSeek, TypeOK, EngineTypeOK
<1>3. DriverTypeOK' /\ ThreadTypeOK'
  BY Frame DEF CarriesOutSeek
<1> QED BY <1>1, <1>2, <1>3 DEF TypeOK

LEMMA AnswersSeekType ==
    ASSUME TypeOK, AnswersSeek
    PROVE  TypeOK'
<1>1. QueueTypeOK' /\ BudgetTypeOK'
  BY Frame DEF AnswersSeek
<1>2. EngineTypeOK'
  BY DEF AnswersSeek, TypeOK, EngineTypeOK
<1>3. DriverTypeOK'
  BY DEF AnswersSeek, TypeOK, DriverTypeOK, State
<1>4. ThreadTypeOK'
  BY BroadcastType, Frame DEF AnswersSeek, threadVars
<1> QED BY <1>1, <1>2, <1>3, <1>4 DEF TypeOK

LEMMA SurfaceType ==
    ASSUME TypeOK, CarriesOutSetSurface \/ TakesSetSurface
    PROVE  TypeOK'
<1>1. SurfaceCompletes
  BY DEF CarriesOutSetSurface, TakesSetSurface
<1>2. QueueTypeOK' /\ BudgetTypeOK'
  BY CarriesType, TakesType DEF CarriesOutSetSurface, TakesSetSurface, TypeOK, QueueTypeOK
<1>3. EngineTypeOK'
  BY <1>1 DEF SurfaceCompletes, Check, TypeOK, EngineTypeOK
<1>4. DriverTypeOK'
  BY <1>1 DEF SurfaceCompletes, TypeOK, DriverTypeOK
<1>5. ThreadTypeOK'
  BY <1>1, BroadcastType DEF SurfaceCompletes
<1> QED BY <1>2, <1>3, <1>4, <1>5 DEF TypeOK

LEMMA CarriesOutResetType ==
    ASSUME TypeOK, CarriesOutReset
    PROVE  TypeOK'
<1>1. QueueTypeOK' /\ BudgetTypeOK'
  BY CarriesType, OutdateType DEF CarriesOutReset, TypeOK, QueueTypeOK
<1>2. EngineTypeOK'
  BY DEF CarriesOutReset, Check, TypeOK, EngineTypeOK
<1>3. DriverTypeOK'
  BY DEF CarriesOutReset, TypeOK, DriverTypeOK, State, flagVars
<1>4. ThreadTypeOK'
  BY BroadcastType DEF CarriesOutReset
<1> QED BY <1>1, <1>2, <1>3, <1>4 DEF TypeOK

LEMMA PrepareCompletesType ==
    ASSUME TypeOK, NEW ok \in BOOLEAN, PrepareCompletes(ok) , UNCHANGED pc
    PROVE  /\ ThreadTypeOK' /\ mState' \in State /\ mAtEOS' \in BOOLEAN
           /\ looper' \in {looper, "prepared", "abort"}
<1>1. CASE mState # "PREPARING"
  BY <1>1, Frame DEF PrepareCompletes, Check, TypeOK, DriverTypeOK, threadVars
<1>2. CASE mState = "PREPARING"
  <2>1. mState' \in State /\ mAtEOS' \in BOOLEAN
    BY <1>2 DEF PrepareCompletes, State
  <2>2. ThreadTypeOK' /\ looper' \in {looper, "prepared", "abort"}
    BY <1>2, BroadcastType, Frame DEF PrepareCompletes, threadVars
  <2> QED BY <2>1, <2>2
<1> QED BY <1>1, <1>2

LEMMA SourcePreparedType ==
    ASSUME TypeOK, SourcePrepared
    PROVE  TypeOK'
<1>1. PICK ok \in BOOLEAN, known \in BOOLEAN :
        /\ IF ok THEN UNCHANGED budget ELSE Spend("error")
        /\ mDuration' = (mDuration \/ known)
        /\ PrepareCompletes(ok)
  BY Zenon DEF SourcePrepared
<1>2. ThreadTypeOK' /\ mState' \in State /\ mAtEOS' \in BOOLEAN
        /\ looper' \in {looper, "prepared", "abort"}
  BY <1>1, PrepareCompletesType DEF SourcePrepared
<1>3. BudgetTypeOK'
  BY <1>1, SpendType, Frame DEF BoundedEvents
<1>4. QueueTypeOK'
  BY Frame DEF SourcePrepared
<1>5. DriverTypeOK'
  BY <1>1, <1>2 DEF SourcePrepared, TypeOK, DriverTypeOK
<1>6. EngineTypeOK'
  BY <1>2 DEF SourcePrepared, TypeOK, EngineTypeOK
<1> QED BY <1>2, <1>3, <1>4, <1>5, <1>6 DEF TypeOK

LEMMA OldSourcePreparedType ==
    ASSUME TypeOK, OldSourcePrepared
    PROVE  TypeOK'
<1>1. ThreadTypeOK' /\ mState' \in State /\ mAtEOS' \in BOOLEAN
        /\ looper' \in {looper, "prepared", "abort"}
  <2>1. CASE source = "NULL"
    BY <2>1, Frame DEF OldSourcePrepared, TypeOK, DriverTypeOK, threadVars
  <2>2. CASE source # "NULL"
    BY <2>2, PrepareCompletesType DEF OldSourcePrepared
  <2> QED BY <2>1, <2>2
<1>2. BudgetTypeOK' /\ QueueTypeOK'
  BY Frame DEF OldSourcePrepared
<1>3. DriverTypeOK'
  BY <1>1 DEF OldSourcePrepared, TypeOK, DriverTypeOK
<1>4. EngineTypeOK'
  BY <1>1 DEF OldSourcePrepared, TypeOK, EngineTypeOK
<1> QED BY <1>1, <1>2, <1>3, <1>4 DEF TypeOK

LEMMA AfterTellingPreparedType ==
    ASSUME TypeOK, AfterTellingPrepared
    PROVE  TypeOK'
<1>1. DriverTypeOK' /\ QueueTypeOK' /\ BudgetTypeOK'
  BY Frame DEF AfterTellingPrepared
<1>2. EngineTypeOK'
  BY DEF AfterTellingPrepared, TypeOK, EngineTypeOK
<1>3. ThreadTypeOK'
  BY BroadcastType DEF AfterTellingPrepared
<1> QED BY <1>1, <1>2, <1>3 DEF TypeOK

LEMMA StreamType ==
    ASSUME TypeOK, EndOfStream \/ DecoderError
    PROVE  TypeOK'
<1>1. BudgetTypeOK'
  BY SpendType DEF EndOfStream, DecoderError, BoundedEvents
<1>2. ThreadTypeOK'
  BY Frame DEF EndOfStream, DecoderError
<1>3. DriverTypeOK'
  BY Frame DEF EndOfStream, DecoderError, TypeOK, DriverTypeOK
<1>4. EngineTypeOK'
  BY DEF EndOfStream, DecoderError, playerVars, engineVars, TypeOK, EngineTypeOK
<1>5. QueueTypeOK'
  <2>1. \A m \in Message : Append(requests, m) \in Seq(Message)
    BY DEF TypeOK, QueueTypeOK
  <2> QED BY <2>1, MessageTypes, Frame
       DEF EndOfStream, DecoderError, playerVars, engineVars, TypeOK, QueueTypeOK
<1> QED BY <1>1, <1>2, <1>3, <1>4, <1>5 DEF TypeOK

LEMMA InitType == Init => TypeOK
<1> SUFFICES ASSUME Init
             PROVE  TypeOK
  OBVIOUS
<1>1. <<>> \in Seq(Message)
  OBVIOUS
<1> QED BY <1>1, BudgetAssumption
     DEF Init, TypeOK, DriverTypeOK, ThreadTypeOK, QueueTypeOK, EngineTypeOK, BudgetTypeOK, State

LEMMA NextType == TypeOK /\ [Next]_vars => TypeOK'
<1> SUFFICES ASSUME TypeOK, [Next]_vars
             PROVE  TypeOK'
  OBVIOUS
<1>1. CASE \E t \in Controls : CallStep(t)
  <2>1. PICK t \in Threads : CallStep(t)
    BY <1>1 DEF Threads
  <2> QED BY <2>1, SetDataSourceType, PreparesType, StartType, StopType, TellsFirstType, ResetType,
       Places DEF CallStep, Prepare, PrepareAsync, Place
<1>2. CASE \E t \in Threads : SetVideoSurfaceTexture(t) \/ GoOn(t)
  BY <1>2, SetVideoSurfaceTextureType, PauseAfterTellingType, SeekToEndAfterTellingType,
    ResetAfterTellingType, WakesType DEF GoOn
<1>3. CASE EngineStep
  BY <1>3, PlainTakesType, TakesSetDataSourceType, TakesSlowRequestType, TakesPlaybackCompleteType,
    CarriesOutSeekType, AnswersSeekType, SurfaceType, CarriesOutResetType, SourcePreparedType,
    OldSourcePreparedType, AfterTellingPreparedType DEF EngineStep
<1>4. CASE EndOfStream \/ DecoderError
  BY <1>4, StreamType
<1>5. CASE UNCHANGED vars
  BY <1>5, Frame DEF vars, playerVars, engineVars, TypeOK
<1> QED BY <1>1, <1>2, <1>3, <1>4, <1>5 DEF Next

\* Whatever several threads call, and wherever they meet the player's looper
\* while mLock is free, every variable keeps its type; mCondition wakes only
\* threads that wait for it.
THEOREM DriverTypeCorrect == Spec => []TypeOK
<1>1. Init => TypeOK
  BY InitType
<1>2. TypeOK /\ [Next]_vars => TypeOK'
  BY NextType
<1> QED BY <1>1, <1>2, PTL DEF Spec

-----------------------------------------------------------------------------
(* A seek in progress is on its way.                                        *)

Holds(queue) == \E i \in DOMAIN queue : queue[i] = M("Seek", TRUE)

LEMMA HoldsLemma ==
    ASSUME NEW q \in Seq(Message), NEW r \in Seq(Message)
    PROVE  /\ Holds(q) \/ Holds(r) => Holds(q \o r)
           /\ Holds(q) => Holds(Outdate(q))
           /\ \A m : Holds(q) => Holds(Append(q, m))
           /\ q # <<>> /\ Holds(q) /\ Head(q) # M("Seek", TRUE) => Holds(Tail(q))
           /\ Holds(Append(q, M("Seek", TRUE))) /\ Holds(q \o <<M("Seek", TRUE)>>)
<1> DEFINE seek == M("Seek", TRUE)
<1>1. seek.what = "Seek"
  BY DEF M
<1>2. Holds(q) => Holds(Outdate(q))
  BY <1>1 DEF Holds, Outdate
<1> HIDE DEF seek
<1> DEFINE has(s) == \E i \in DOMAIN s : s[i] = seek
<1>3. has(q) => has(q \o r)
  OBVIOUS
<1>4. has(r) => has(q \o r)
  <2> SUFFICES ASSUME NEW i \in DOMAIN r, r[i] = seek
               PROVE  has(q \o r)
    OBVIOUS
  <2>1. Len(q) + i \in DOMAIN (q \o r) /\ (q \o r)[Len(q) + i] = seek
    OBVIOUS
  <2> QED BY <2>1
<1>5. \A m : has(q) => has(Append(q, m))
  OBVIOUS
<1>6. q # <<>> /\ has(q) /\ Head(q) # seek => has(Tail(q))
  <2> SUFFICES ASSUME q # <<>>, NEW i \in DOMAIN q, q[i] = seek, Head(q) # seek
               PROVE  has(Tail(q))
    OBVIOUS
  <2>1. i - 1 \in DOMAIN Tail(q) /\ Tail(q)[i - 1] = seek
    OBVIOUS
  <2> QED BY <2>1
<1>7. has(Append(q, seek)) /\ has(q \o <<seek>>)
  <2>1. Len(q) + 1 \in DOMAIN Append(q, seek) /\ Append(q, seek)[Len(q) + 1] = seek
    OBVIOUS
  <2>2. Len(q) + 1 \in DOMAIN (q \o <<seek>>) /\ (q \o <<seek>>)[Len(q) + 1] = seek
    OBVIOUS
  <2> QED BY <2>1, <2>2
<1> QED BY <1>2, <1>3, <1>4, <1>5, <1>6, <1>7 DEF Holds, seek

Restated ==
    mSeekInProgress => \/ resumePending \/ Holds(requests) \/ Holds(deferred)
                       \/ \E t \in Threads : pc[t] = "seeking"

LEMMA Restatement == SeekInProgressEnds <=> Restated
  BY DEF SeekInProgressEnds, Restated, Holds

\* A step that begins no seek and drops none.
LEMMA SeekStays ==
    ASSUME Restated, mSeekInProgress' => mSeekInProgress,
           resumePending => resumePending',
           Holds(requests) => Holds(requests'), Holds(deferred) => Holds(deferred'),
           \A u \in Threads : pc[u] = "seeking" => pc'[u] = "seeking"
    PROVE  Restated'
  BY Zenon DEF Restated

\* A thread that goes on from anywhere but a seek.
LEMMA GoesKeeps ==
    ASSUME TypeOK, NEW t \in Threads, pc[t] # "seeking", NEW place, Goes(t, place)
    PROVE  \A u \in Threads : pc[u] = "seeking" => pc'[u] = "seeking"
  BY DEF Goes, TypeOK, ThreadTypeOK

LEMMA PostKeeps ==
    ASSUME TypeOK, NEW messages \in Seq(Message), Post(messages)
    PROVE  Holds(requests) => Holds(requests')
  BY HoldsLemma DEF Post, TypeOK, QueueTypeOK

LEMMA CompletesKeeps ==
    ASSUME NEW queue \in Seq(Message), PlaybackCompletes(queue)
    PROVE  Holds(queue) => Holds(requests')
  BY HoldsLemma DEF PlaybackCompletes

LEMMA StartPlayerKeeps ==
    ASSUME TypeOK, Restated, NEW t \in Threads, NEW restarts \in BOOLEAN,
           StartPlayer(t, restarts), pc[t] # "seeking", UNCHANGED engineVars
    PROVE  Restated'
<1>1. Holds(requests) => Holds(requests')
  <2>1. <<M("Start", FALSE)>> \o <<M("Seek", FALSE)>> \in Seq(Message)
    BY MessageTypes, OneMessage, ConcatenationType
  <2>2. <<M("Start", FALSE)>> \o <<>> \in Seq(Message)
    BY MessageTypes, OneMessage, ConcatenationType
  <2> QED BY <2>1, <2>2, PostKeeps DEF StartPlayer
<1> QED BY <1>1, GoesKeeps, SeekStays DEF StartPlayer, engineVars

LEMMA CallKeeps ==
    ASSUME TypeOK, Restated, NEW t \in Threads, CallStep(t) \/ SetVideoSurfaceTexture(t)
    PROVE  Restated'
<1>1. pc[t] = "idle" /\ UNCHANGED <<deferred, resumePending>>
  BY DEF CallStep, SetVideoSurfaceTexture, SetDataSource, Prepare, PrepareAsync, Start, Stop, Pause,
    SeekToBeforeStart, SeekTo, SeekToEnd, Reset, Calls, engineVars
<1>2. CASE SeekTo(t)
  <2>1. pc'[t] = "seeking"
    BY <1>2 DEF SeekTo, Goes, TypeOK, ThreadTypeOK
  <2> QED BY <2>1 DEF Restated
<1>3. CASE Start(t) /\ StartPlayer(t, mState # "PREPARED")
  <2>1. (mState # "PREPARED") \in BOOLEAN /\ UNCHANGED engineVars
    BY <1>3 DEF Start, Calls
  <2> QED BY <1>1, <1>3, <2>1, StartPlayerKeeps
<1> DEFINE Quiet == /\ mSeekInProgress' = mSeekInProgress
                    /\ UNCHANGED requests \/ \E messages \in Seq(Message) : Post(messages)
                    /\ UNCHANGED pc \/ \E place \in Place : Goes(t, place)
<1>4. CASE Quiet
  <2>1. Holds(requests) => Holds(requests')
    BY <1>4, PostKeeps
  <2>2. \A u \in Threads : pc[u] = "seeking" => pc'[u] = "seeking"
    BY <1>1, <1>4, GoesKeeps
  <2> QED BY <1>1, <1>4, <2>1, <2>2, SeekStays
<1>5. ASSUME NEW async \in BOOLEAN, NEW place \in Place, NEW stoppedPlace \in Place,
             Prepares(t, async, place, stoppedPlace)
      PROVE  Quiet
  BY <1>5, MessageTypes, OneMessage DEF Prepares
<1>6. CASE SetDataSource(t)
  <2>1. PICK ok \in BOOLEAN : Post(<<M("SetDataSource", ok)>>)
    BY <1>6, Zenon DEF SetDataSource
  <2>2. <<M("SetDataSource", ok)>> \in Seq(Message)
    BY MessageTypes, OneMessage
  <2>3. Quiet
    BY <1>6, <2>1, <2>2, Places DEF SetDataSource, flagVars, Place
  <2> QED BY <1>4, <2>3
<1>7. CASE SetVideoSurfaceTexture(t) \/ Stop(t) \/ Pause(t) \/ SeekToBeforeStart(t) \/ SeekToEnd(t)
           \/ Reset(t)
  <2>1. Quiet
    BY <1>7, MessageTypes, OneMessage, Places DEF SetVideoSurfaceTexture, Stop, Pause, SeekToBeforeStart,
      SeekToEnd, Reset, AsksForReset, TellsStopped, flagVars, Place
  <2> QED BY <1>4, <2>1
<1>8. CASE Prepare(t) \/ PrepareAsync(t)
  BY <1>4, <1>5, <1>8, Places DEF Prepare, PrepareAsync, Place
<1>9. CASE Prepares(t, FALSE, "inStart", "inStart")
  BY <1>4, <1>5, <1>9, Places DEF Place
<1>10. CASE Start(t) /\ Post(<<M("Seek", FALSE)>>) /\ UNCHANGED <<mSeekInProgress, pc>>
  BY <1>4, <1>10, MessageTypes, OneMessage
<1> HIDE DEF Quiet
<1>11. CASE Start(t)
  <2>1. \/ Prepares(t, FALSE, "inStart", "inStart") \/ StartPlayer(t, mState # "PREPARED")
        \/ (Post(<<M("Seek", FALSE)>>) /\ UNCHANGED <<mSeekInProgress, pc>>)
    BY <1>11, Zenon DEF Start
  <2> QED BY <1>3, <1>9, <1>10, <1>11, <2>1, Zenon
<1> QED BY <1>2, <1>6, <1>7, <1>8, <1>11 DEF CallStep

LEMMA GoOnKeeps ==
    ASSUME TypeOK, Restated, NEW t \in Threads, GoOn(t)
    PROVE  Restated'
<1>1. UNCHANGED engineVars
  BY DEF GoOn, PauseAfterTelling, SeekToAfterTelling, SeekToEndAfterTelling, ResetAfterTelling, SleepsAgain,
    Returns, ReturnsFromReset, StartGoesOn, Wakes
<1>2. CASE SeekToAfterTelling(t)
  <2>1. Holds(requests')
    BY <1>2, HoldsLemma DEF SeekToAfterTelling, Post, TypeOK, QueueTypeOK
  <2> QED BY <2>1 DEF Restated
<1>3. pc[t] = "seeking" => SeekToAfterTelling(t)
  BY Places DEF GoOn, PauseAfterTelling, SeekToAfterTelling, SeekToEndAfterTelling, ResetAfterTelling,
    SleepsAgain, Returns, ReturnsFromReset, StartGoesOn, Wakes, TypeOK, ThreadTypeOK
<1>4. CASE StartGoesOn(t) /\ StartPlayer(t, TRUE)
  BY <1>1, <1>2, <1>3, <1>4, StartPlayerKeeps
<1>5. CASE SeekToEndAfterTelling(t)
  <2>1. Holds(requests) => Holds(requests')
    BY <1>5, CompletesKeeps DEF SeekToEndAfterTelling, TypeOK, QueueTypeOK
  <2> QED
    BY <1>1, <1>2, <1>3, <1>5, <2>1, GoesKeeps, SeekStays DEF SeekToEndAfterTelling, engineVars
<1>6. CASE PauseAfterTelling(t) \/ ResetAfterTelling(t)
  <2>1. Holds(requests) => Holds(requests')
    BY <1>6, PostKeeps, MessageTypes, OneMessage DEF PauseAfterTelling, ResetAfterTelling, AsksForReset,
      TellsStopped
  <2>2. (\E place : Goes(t, place)) /\ UNCHANGED mSeekInProgress
    BY <1>6 DEF PauseAfterTelling, ResetAfterTelling, AsksForReset, TellsStopped, flagVars
  <2> QED BY <1>1, <1>2, <1>3, <1>6, <2>1, <2>2, GoesKeeps, SeekStays DEF engineVars
<1>7. CASE SleepsAgain(t) \/ Returns(t) \/ ReturnsFromReset(t)
  BY <1>1, <1>2, <1>3, <1>7, GoesKeeps, SeekStays DEF SleepsAgain, Returns, ReturnsFromReset, flagVars,
    engineVars
<1>8. CASE StartGoesOn(t) /\ Goes(t, "idle") /\ UNCHANGED <<mState, flagVars, requests>>
  BY <1>1, <1>2, <1>3, <1>8, GoesKeeps, SeekStays DEF flagVars, engineVars
<1> QED BY <1>2, <1>4, <1>5, <1>6, <1>7, <1>8 DEF GoOn, StartGoesOn

LEMMA EngineKeeps ==
    ASSUME TypeOK, Restated, EngineStep
    PROVE  Restated'
<1>1. requests \in Seq(Message) /\ deferred \in Seq(Message)
  BY DEF TypeOK, QueueTypeOK
<1>2. CASE AnswersSeek
  BY <1>2 DEF AnswersSeek, Restated
<1>3. UNCHANGED pc
  BY DEF EngineStep, TakesSetDataSource, TakesPrepare, TakesStart, TakesPause, TakesSlowRequest,
    TakesPlaybackComplete, TakesOutdated, TakesSetSurface, SurfaceCompletes, CarriesOutSeek,
    CarriesOutSetSurface, CarriesOutReset, AnswersSeek, SourcePrepared, OldSourcePrepared,
    AfterTellingPrepared, threadVars
<1>4. ASSUME NEW w, w # "Seek", Takes(w), requests' = Tail(requests), UNCHANGED deferred,
             UNCHANGED mSeekInProgress
      PROVE  Restated'
  <2>1. Head(requests) # M("Seek", TRUE)
    BY <1>4 DEF Takes, M
  <2> QED BY <1>1, <1>3, <1>4, <2>1, HoldsLemma, SeekStays DEF Takes
<1>5. ASSUME NEW w, w # "Seek", Carries(w), Holds(requests) => Holds(requests'),
             UNCHANGED <<mSeekInProgress, resumePending>>
      PROVE  Restated'
  <2>1. Head(deferred) # M("Seek", TRUE)
    BY <1>5 DEF Carries, M
  <2> QED BY <1>1, <1>3, <1>5, <2>1, HoldsLemma, SeekStays DEF Carries
<1>6. CASE TakesSetDataSource \/ TakesPrepare \/ TakesStart \/ TakesPause \/ TakesOutdated
           \/ TakesSetSurface
  BY <1>4, <1>6 DEF TakesSetDataSource, TakesPrepare, TakesStart, TakesPause, TakesOutdated, TakesSetSurface,
    SurfaceCompletes, flagVars
<1>7. CASE TakesSlowRequest
  <2>1. Head(requests) \in Message /\ requests # <<>> /\ requests' = Tail(requests)
           /\ deferred' = Append(deferred, Head(requests))
           /\ UNCHANGED <<mSeekInProgress, resumePending>>
    BY <1>1, <1>7, TailType DEF TakesSlowRequest, Takes, flagVars
  <2>2. CASE Head(requests) = M("Seek", TRUE)
    BY <1>1, <2>1, <2>2, HoldsLemma DEF Restated
  <2>3. CASE Head(requests) # M("Seek", TRUE)
    BY <1>1, <1>3, <2>1, <2>3, HoldsLemma, SeekStays
  <2> QED BY <2>2, <2>3
<1>8. CASE TakesPlaybackComplete
  <2>1. Takes("PlaybackComplete") /\ PlaybackCompletes(Tail(requests))
          /\ UNCHANGED <<mSeekInProgress, deferred>>
    BY <1>8 DEF TakesPlaybackComplete
  <2>2. Head(requests) # M("Seek", TRUE) /\ requests # <<>> /\ Tail(requests) \in Seq(Message)
    BY <1>1, <2>1, TailType DEF Takes, M
  <2>3. Holds(requests) => Holds(requests')
    BY <1>1, <2>1, <2>2, CompletesKeeps, HoldsLemma
  <2> QED BY <1>3, <2>1, <2>3, SeekStays DEF Takes
<1>9. CASE CarriesOutSeek
  <2>1. CASE Head(deferred) = M("Seek", TRUE)
    <3>1. Head(deferred).flag = TRUE
      BY <2>1 DEF M
    <3>2. resumePending'
      BY <1>9, <3>1 DEF CarriesOutSeek
    <3> QED BY <3>2 DEF Restated
  <2>2. CASE Head(deferred) # M("Seek", TRUE)
    <3>1. Holds(deferred) => Holds(deferred')
      BY <1>1, <1>9, <2>2, HoldsLemma DEF CarriesOutSeek, Carries
    <3> QED BY <1>3, <1>9, <3>1, SeekStays DEF CarriesOutSeek, flagVars
  <2> QED BY <2>1, <2>2
<1>10. CASE CarriesOutSetSurface
  BY <1>5, <1>10 DEF CarriesOutSetSurface, SurfaceCompletes
<1>11. CASE CarriesOutReset
  <2>1. Carries("Reset") /\ requests' = Outdate(requests)
          /\ UNCHANGED <<mSeekInProgress, resumePending>>
    BY <1>11 DEF CarriesOutReset, flagVars
  <2>2. Holds(requests) => Holds(requests')
    BY <1>1, <2>1, HoldsLemma
  <2> QED BY <1>5, <2>1, <2>2
<1>12. CASE SourcePrepared \/ OldSourcePrepared \/ AfterTellingPrepared
  <2>1. UNCHANGED <<mSeekInProgress, requests, deferred, resumePending>>
    BY <1>12 DEF SourcePrepared, OldSourcePrepared, AfterTellingPrepared, flagVars
  <2> QED BY <1>3, <2>1, SeekStays
<1> QED BY <1>2, <1>6, <1>7, <1>8, <1>9, <1>10, <1>11, <1>12 DEF EngineStep

\* The position the client sees does not stay frozen: while mSeekInProgress is
\* set a seek that will clear it is on its way, for any number of threads that
\* seek, reset and play, and wherever the looper comes between the telling of
\* the client and the request to the player.
THEOREM SeekInProgress == Spec => []SeekInProgressEnds
<1>1. Init => Restated
  BY DEF Init, Restated
<1>2. TypeOK /\ Restated /\ [Next]_vars => Restated'
  <2> SUFFICES ASSUME TypeOK, Restated, [Next]_vars
               PROVE  Restated'
    OBVIOUS
  <2>1. CASE \E t \in Threads : CallStep(t) \/ SetVideoSurfaceTexture(t)
    BY <2>1, CallKeeps
  <2>2. CASE \E t \in Threads : GoOn(t)
    BY <2>2, GoOnKeeps
  <2>3. CASE EngineStep
    BY <2>3, EngineKeeps
  <2>4. CASE EndOfStream
    <3>1. Holds(requests) => Holds(requests')
      BY <2>4, HoldsLemma DEF EndOfStream, TypeOK, QueueTypeOK
    <3> QED BY <2>4, <3>1, SeekStays DEF EndOfStream, flagVars, threadVars
  <2>5. CASE DecoderError \/ UNCHANGED vars
    BY <2>5, SeekStays DEF DecoderError, vars, flagVars, threadVars, playerVars, engineVars
  <2> QED BY <2>1, <2>2, <2>3, <2>4, <2>5 DEF Next, Threads
<1>3. Restated => SeekInProgressEnds
  BY Restatement
<1> QED BY <1>1, <1>2, <1>3, DriverTypeCorrect, PTL DEF Spec

-----------------------------------------------------------------------------
(* The callbacks and the states they find: what is said of the queues.      *)

\* There is a request of this kind; there is at most one; in both queues together.
Has(q, w) == \E i \in DOMAIN q : q[i].what = w
Few(q, w) == \A i, j \in DOMAIN q : q[i].what = w /\ q[j].what = w => i = j
OnceAtMost(w) == Few(requests, w) /\ Few(deferred, w) /\ ~(Has(requests, w) /\ Has(deferred, w))

\* What is behind a reset does not need the source.
SessionRequests == {"SetDataSource", "Prepare", "Start"}
ResetIsLast(q) ==
    \A i, j \in DOMAIN q : i < j /\ q[i].what = "Reset" => q[j].what \notin SessionRequests

-----------------------------------------------------------------------------
(* The inductive invariant of the CHECKs: what the state of the driver says *)
(* of the requests on their way, of the player and of the other threads.    *)

\* States without a source; states after playback was first started; states in
\* which the client has been told that the player is prepared.
Unset   == {"IDLE", "SET_DATASOURCE_PENDING"}
Started == {"RUNNING", "PAUSED", "STOPPED", "STOPPED_AND_PREPARING", "STOPPED_AND_PREPARED"}
Live    == {"PREPARED"} \cup Started

\* There is a source exactly when one has been set; it is being set at most once.
SourceInv ==
    /\ source = "NULL" <=> mState \in Unset
    /\ Has(requests, "SetDataSource") => mState = "SET_DATASOURCE_PENDING"
    /\ Few(requests, "SetDataSource")

\* One reset is on its way, and nothing that needs the source comes after it.
ResetInv ==
    /\ Has(requests, "Reset") \/ Has(deferred, "Reset") => mState = "RESET_IN_PROGRESS"
    /\ OnceAtMost("Reset")
    /\ ResetIsLast(requests)
    /\ Has(deferred, "Reset") => ~Has(requests, "Prepare") /\ ~Has(requests, "Start")

\* The source prepares once; a thread waits for it when the client asked to.
PrepareInv ==
    /\ source = "preparing" \/ Has(requests, "Prepare") => mState \in {"PREPARING", "RESET_IN_PROGRESS"}
    /\ Few(requests, "Prepare")
    /\ source = "preparing" => ~Has(requests, "Prepare")
    /\ mState = "PREPARING" /\ ~mIsAsyncPrepare => \A t \in Controls : pc[t] \in {"inPrepare", "inStart"}

\* Only a player that was started plays, or comes to the end of the streams.
StartedInv ==
    playing \/ atEnd \/ Has(requests, "Start") \/ Has(requests, "PlaybackComplete")
        => mState \in Started \cup {"RESET_IN_PROGRESS"}

\* One surface is being set.
SurfaceInv ==
    /\ Has(requests, "SetSurface") \/ Has(deferred, "SetSurface") => mSetSurfaceInProgress
    /\ OnceAtMost("SetSurface")

\* What a thread tells the client is still so when it holds mLock again.
ThreadInv ==
    /\ \A t \in Controls :
          /\ pc[t] \in {"resetPrepared", "resetStopped"} => mState \notin Unset \cup {"RESET_IN_PROGRESS"}
          /\ pc[t] \in {"pausing", "seeking", "seekingEnd"} => mState \in Live
          /\ pc[t] = "pausing" => mState = "PAUSED"
    /\ \A t \in Surfaces : pc[t] \in {"idle", "inSetSurface"}

CheckInv ==
    Alive /\ SourceInv /\ ResetInv /\ PrepareInv /\ StartedInv /\ SurfaceInv /\ ThreadInv

\* What the player will be doing when it has taken all requests.
Undecided(q) == ~Has(q, "Start") /\ ~Has(q, "Pause")
StartsLast(q) ==
    \E i \in DOMAIN q : /\ q[i].what = "Start"
                        /\ \A j \in DOMAIN q : j > i => q[j].what \notin {"Start", "Pause"}
WillPlay == StartsLast(requests) \/ (playing /\ Undecided(requests))

\* It has been, or will be, sought elsewhere; or the driver waits for a seek to do so.
EndIsAhead == Has(requests, "PlaybackComplete") \/ Has(requests, "Seek") \/ Has(deferred, "Seek")
EndIsKnown == mState # "RUNNING" /\ (mAtEOS \/ \E t \in Controls : pc[t] = "seeking")

\* The inductive invariant of DriverFollowsPlayer: what was posted last decides
\* what the driver believes, and the end of the streams is on its way to it, will
\* be undone by a seek, or is known.
FollowInv ==
    mState # "RESET_IN_PROGRESS" =>
        /\ (\A t \in Controls : pc[t] # "pausing") => (WillPlay <=> mState = "RUNNING")
        /\ atEnd => EndIsAhead \/ EndIsKnown

\* A source that was cleared while preparing answers before the next one is set:
\* otherwise the driver takes its answer for that of the next one.
StaleAnswerFindsNone == oldSource => source = "NULL"

\* One thread controls playback, as the lock of MediaPlayer around its calls makes
\* it; any number of others set the surface.
OneControls == \A t, u \in Controls : t = u

-----------------------------------------------------------------------------
(* What queues hold as requests are posted and taken.                       *)

LEMMA HasPosted ==
    ASSUME NEW q \in Seq(Message), NEW r \in Seq(Message)
    PROVE  /\ \A w : Has(q \o r, w) <=> Has(q, w) \/ Has(r, w)
           /\ \A w : Few(q, w) /\ Few(r, w) /\ ~(Has(q, w) /\ Has(r, w)) => Few(q \o r, w)
           /\ ResetIsLast(q) /\ ResetIsLast(r)
                /\ (Has(q, "Reset") => \A w \in SessionRequests : ~Has(r, w))
              => ResetIsLast(q \o r)
<1> DEFINE both == q \o r
           n == Len(q)
<1>1. /\ \A i \in DOMAIN both :
            \/ i \in DOMAIN q /\ both[i] = q[i]
            \/ i \notin DOMAIN q /\ i - n \in DOMAIN r /\ both[i] = r[i - n]
      /\ \A i \in DOMAIN q : i \in DOMAIN both /\ both[i] = q[i]
      /\ \A k \in DOMAIN r : n + k \in DOMAIN both /\ both[n + k] = r[k]
      /\ n \in Nat /\ DOMAIN q = 1 .. n /\ DOMAIN r \subseteq Nat /\ DOMAIN both \subseteq Nat
  OBVIOUS
<1> HIDE DEF both
<1>2. \A w : Has(both, w) <=> Has(q, w) \/ Has(r, w)
  BY <1>1 DEF Has
<1> HIDE DEF n
<1>3. ASSUME NEW w, Few(q, w), Few(r, w), ~(Has(q, w) /\ Has(r, w)),
             NEW i \in DOMAIN both, NEW j \in DOMAIN both, both[i].what = w, both[j].what = w
      PROVE  i = j
  <2>1. CASE i \in DOMAIN q
    <3>1. both[i] = q[i] /\ j \in DOMAIN q /\ both[j] = q[j]
      BY <1>1, <1>3, <2>1 DEF Has
    <3> QED BY <1>3, <2>1, <3>1 DEF Few
  <2>2. CASE i \notin DOMAIN q
    <3>1. /\ i - n \in DOMAIN r /\ both[i] = r[i - n]
          /\ j \notin DOMAIN q /\ j - n \in DOMAIN r /\ both[j] = r[j - n]
      BY <1>1, <1>3, <2>2 DEF Has
    <3>2. i - n = j - n
      BY <1>3, <3>1 DEF Few
    <3> QED BY <1>1, <3>2
  <2> QED BY <2>1, <2>2
<1>4. ASSUME ResetIsLast(q), ResetIsLast(r), Has(q, "Reset") => \A w \in SessionRequests : ~Has(r, w),
             NEW i \in DOMAIN both, NEW j \in DOMAIN both, i < j, both[i].what = "Reset"
      PROVE  both[j].what \notin SessionRequests
  <2>1. CASE j \in DOMAIN q
    <3>1. i \in DOMAIN q /\ both[i] = q[i] /\ both[j] = q[j]
      BY <1>1, <1>4, <2>1
    <3> QED BY <1>4, <2>1, <3>1 DEF ResetIsLast
  <2>2. CASE j \notin DOMAIN q /\ i \in DOMAIN q
    <3>1. both[i] = q[i] /\ j - n \in DOMAIN r /\ both[j] = r[j - n]
      BY <1>1, <2>2
    <3>2. Has(q, "Reset")
      BY <1>4, <2>2, <3>1 DEF Has
    <3> QED BY <1>4, <3>1, <3>2 DEF Has
  <2>3. CASE j \notin DOMAIN q /\ i \notin DOMAIN q
    <3>1. /\ i - n \in DOMAIN r /\ both[i] = r[i - n] /\ j - n \in DOMAIN r /\ both[j] = r[j - n]
          /\ i - n < j - n
      BY <1>1, <1>4, <2>3
    <3> QED BY <1>4, <3>1 DEF ResetIsLast
  <2> QED BY <2>1, <2>2, <2>3
<1>5. \A w : Few(q, w) /\ Few(r, w) /\ ~(Has(q, w) /\ Has(r, w)) => Few(both, w)
  BY <1>3 DEF Few
<1>6. ResetIsLast(q) /\ ResetIsLast(r)
         /\ (Has(q, "Reset") => \A w \in SessionRequests : ~Has(r, w)) => ResetIsLast(both)
  BY <1>4 DEF ResetIsLast
<1> QED BY <1>2, <1>5, <1>6 DEF both

LEMMA HasOne ==
    ASSUME NEW m \in Message
    PROVE  /\ \A w : Has(<<m>>, w) <=> w = m.what
           /\ \A w : Few(<<m>>, w) /\ ~Has(<<>>, w) /\ Few(<<>>, w)
           /\ ResetIsLast(<<m>>) /\ ResetIsLast(<<>>)
           /\ \A q \in Seq(Message) : Append(q, m) = q \o <<m>>
<1>1. /\ DOMAIN <<m>> = {1} /\ <<m>>[1] = m /\ DOMAIN <<>> = {}
      /\ \A q \in Seq(Message) : Append(q, m) = q \o <<m>>
  OBVIOUS
<1> DEFINE s == <<m>>
<1>2. DOMAIN s = {1} /\ s[1] = m
  BY <1>1
<1> HIDE DEF s
<1>3. ~(1 < 1)
  OBVIOUS
<1>4. /\ \A w : Has(s, w) <=> w = m.what
      /\ \A w : Few(s, w)
      /\ ResetIsLast(s)
  BY <1>2, <1>3 DEF Has, Few, ResetIsLast
<1>5. ResetIsLast(<<>>) /\ \A w : ~Has(<<>>, w) /\ Few(<<>>, w)
  BY <1>1 DEF Has, Few, ResetIsLast
<1> QED BY <1>1, <1>4, <1>5 DEF s

LEMMA HasTaken ==
    ASSUME NEW q \in Seq(Message), q # <<>>
    PROVE  /\ \A w : Has(q, w) <=> w = Head(q).what \/ Has(Tail(q), w)
           /\ \A w : Few(q, w) => Few(Tail(q), w) /\ ~(w = Head(q).what /\ Has(Tail(q), w))
           /\ ResetIsLast(q) => /\ ResetIsLast(Tail(q))
                                /\ Head(q).what = "Reset" => \A w \in SessionRequests : ~Has(Tail(q), w)
<1> DEFINE t == Tail(q)
           h == Head(q)
<1>1. /\ \A i \in DOMAIN t : i + 1 \in DOMAIN q /\ t[i] = q[i + 1] /\ 1 < i + 1
      /\ 1 \in DOMAIN q /\ q[1] = h
      /\ \A i \in DOMAIN q : i = 1 \/ (i - 1 \in DOMAIN t /\ t[i - 1] = q[i])
      /\ DOMAIN t \subseteq Nat
  OBVIOUS
<1> HIDE DEF t, h
<1>2. \A w : Has(q, w) <=> w = h.what \/ Has(t, w)
  BY <1>1 DEF Has
<1>3. \A w : Few(q, w) => Few(t, w)
  BY <1>1 DEF Few
<1>4. ASSUME NEW w, Few(q, w), w = h.what, Has(t, w)
      PROVE  FALSE
  <2>1. PICK i \in DOMAIN t : t[i].what = w
    BY <1>4 DEF Has
  <2>2. i + 1 \in DOMAIN q /\ q[i + 1].what = w /\ q[1].what = w /\ 1 < i + 1
    BY <1>1, <1>4, <2>1
  <2>3. i + 1 = 1
    BY <1>1, <1>4, <2>2 DEF Few
  <2> QED BY <1>1, <2>3
<1>5. ResetIsLast(q) => ResetIsLast(t)
  <2> SUFFICES ASSUME ResetIsLast(q), NEW i \in DOMAIN t, NEW j \in DOMAIN t, i < j, t[i].what = "Reset"
               PROVE  t[j].what \notin SessionRequests
    BY DEF ResetIsLast
  <2>1. i + 1 \in DOMAIN q /\ j + 1 \in DOMAIN q /\ i + 1 < j + 1 /\ t[i] = q[i + 1] /\ t[j] = q[j + 1]
    BY <1>1
  <2> QED BY <2>1 DEF ResetIsLast
<1>6. ASSUME ResetIsLast(q), h.what = "Reset", NEW w \in SessionRequests, Has(t, w)
      PROVE  FALSE
  <2>1. PICK i \in DOMAIN t : t[i].what = w
    BY <1>6 DEF Has
  <2>2. i + 1 \in DOMAIN q /\ q[i + 1].what = w /\ q[1].what = "Reset" /\ 1 < i + 1
    BY <1>1, <1>6, <2>1
  <2> QED BY <1>1, <1>6, <2>2 DEF ResetIsLast
<1> QED BY <1>2, <1>3, <1>4, <1>5, <1>6 DEF t, h

LEMMA HasOutdated ==
    ASSUME NEW q \in Seq(Message)
    PROVE  /\ \A w : w \notin {"PlaybackComplete", "Outdated"} =>
                 /\ Has(Outdate(q), w) <=> Has(q, w)
                 /\ Few(q, w) => Few(Outdate(q), w)
           /\ ~Has(Outdate(q), "PlaybackComplete")
           /\ ResetIsLast(q) => ResetIsLast(Outdate(q))
           /\ Outdate(q) \in Seq(Message)
<1> DEFINE o == Outdate(q)
<1>1. /\ DOMAIN o = DOMAIN q
      /\ \A i \in DOMAIN q : \/ q[i].what # "PlaybackComplete" /\ o[i] = q[i]
                             \/ q[i].what = "PlaybackComplete" /\ o[i].what = "Outdated"
  BY DEF Outdate, M
<1> HIDE DEF o
<1>2. \A i \in DOMAIN q : o[i].what \in SessionRequests \cup {"Reset"} => o[i] = q[i]
  BY <1>1 DEF SessionRequests
<1>3. \A w : w \notin {"PlaybackComplete", "Outdated"} =>
         (Has(o, w) <=> Has(q, w)) /\ (Few(q, w) => Few(o, w))
  BY <1>1 DEF Has, Few
<1>4. ~Has(o, "PlaybackComplete")
  BY <1>1 DEF Has
<1>5. ResetIsLast(q) => ResetIsLast(o)
  BY <1>1, <1>2 DEF ResetIsLast
<1> QED BY <1>3, <1>4, <1>5, OutdateType DEF o

-----------------------------------------------------------------------------
(* Steps that change little: no message that matters is posted.             *)

\* What the checks depend on is posted by few steps.
Telltale == {"SetDataSource", "Prepare", "Start", "Reset", "PlaybackComplete", "SetSurface"}

NoMore(q, r) ==
    \A w \in Telltale : (Has(r, w) => Has(q, w)) /\ (Few(q, w) => Few(r, w))
NothingPosted ==
    /\ NoMore(requests, requests') /\ NoMore(deferred, deferred')
    /\ (ResetIsLast(requests) => ResetIsLast(requests'))

\* The session goes on, with its source.
SessionGoesOn ==
    /\ mState' = mState \/ (mState \in Live /\ mState' \in Started)
    /\ source' = source
    /\ playing' => playing
    /\ atEnd' => atEnd
    /\ mSetSurfaceInProgress' = mSetSurfaceInProgress
    /\ mState' = "PREPARING" =>
          /\ mIsAsyncPrepare' = mIsAsyncPrepare
          /\ \A t \in Controls : pc[t] \in {"inPrepare", "inStart"} => pc'[t] \in {"inPrepare", "inStart"}
    /\ Alive => Alive'

LEMMA CalmStep ==
    ASSUME CheckInv, NothingPosted, SessionGoesOn, ThreadInv'
    PROVE  CheckInv'
<1>1. /\ mState' = mState \/ (mState \in Live /\ mState' \in Started)
      /\ source' = source /\ (playing' => playing) /\ (atEnd' => atEnd)
      /\ mSetSurfaceInProgress' = mSetSurfaceInProgress
      /\ Alive'
  BY DEF CheckInv, SessionGoesOn
<1>2. /\ \A w \in Telltale : Has(requests', w) => Has(requests, w)
      /\ \A w \in Telltale : Has(deferred', w) => Has(deferred, w)
      /\ \A w \in Telltale : Few(requests, w) => Few(requests', w)
      /\ \A w \in Telltale : Few(deferred, w) => Few(deferred', w)
  BY DEF NothingPosted, NoMore
<1>3. SourceInv'
  BY <1>1, <1>2 DEF CheckInv, SourceInv, Telltale, Unset, Live, Started
<1>4. ResetInv'
  <2>1. ResetIsLast(requests')
    BY DEF NothingPosted, CheckInv, ResetInv
  <2>2. mState = "RESET_IN_PROGRESS" => mState' = "RESET_IN_PROGRESS"
    BY <1>1 DEF Live, Started
  <2> QED BY <1>2, <2>1, <2>2 DEF CheckInv, ResetInv, OnceAtMost, Telltale
<1>5. PrepareInv'
  <2>1. mState' = "PREPARING" => mState = "PREPARING"
    BY <1>1 DEF Live, Started
  <2>2. mState' = "PREPARING" /\ ~mIsAsyncPrepare' => \A t \in Controls : pc'[t] \in {"inPrepare", "inStart"}
    BY <2>1 DEF CheckInv, PrepareInv, SessionGoesOn
  <2>3. mState \in {"PREPARING", "RESET_IN_PROGRESS"} => mState' = mState
    BY <1>1 DEF Live, Started
  <2> QED BY <1>1, <1>2, <2>2, <2>3 DEF CheckInv, PrepareInv, Telltale
<1>6. StartedInv'
  <2>1. mState \in Started \cup {"RESET_IN_PROGRESS"} => mState' \in Started \cup {"RESET_IN_PROGRESS"}
    BY <1>1
  <2> QED BY <1>1, <1>2, <2>1 DEF CheckInv, StartedInv, Telltale
<1>7. SurfaceInv'
  BY <1>1, <1>2 DEF CheckInv, SurfaceInv, OnceAtMost, Telltale
<1> QED BY <1>1, <1>3, <1>4, <1>5, <1>6, <1>7 DEF CheckInv

LEMMA QueuesLeft ==
    ASSUME UNCHANGED <<requests, deferred>>
    PROVE  NothingPosted
  BY DEF NothingPosted, NoMore

LEMMA QueuesAre ==
    ASSUME TypeOK
    PROVE  /\ requests \in Seq(Message) /\ deferred \in Seq(Message)
           /\ pc \in [Threads -> Place]
  BY DEF TypeOK, QueueTypeOK, ThreadTypeOK, Place

\* A message of no consequence is posted.
LEMMA OtherPosted ==
    ASSUME TypeOK, NEW m \in Message, m.what \notin Telltale, requests' = requests \o <<m>>,
           UNCHANGED deferred
    PROVE  NothingPosted
<1> DEFINE r == <<m>>
<1>1. /\ r \in Seq(Message) /\ requests \in Seq(Message) /\ requests' = requests \o r
      /\ \A w : (Has(r, w) <=> w = m.what) /\ Few(r, w)
      /\ ResetIsLast(r)
  BY HasOne, OneMessage, QueuesAre
<1> HIDE DEF r
<1>2. /\ \A w : Has(requests', w) <=> Has(requests, w) \/ Has(r, w)
      /\ \A w : Few(requests, w) /\ Few(r, w) /\ ~(Has(requests, w) /\ Has(r, w)) => Few(requests', w)
      /\ (ResetIsLast(requests) /\ ResetIsLast(r)
            /\ (Has(requests, "Reset") => \A w \in SessionRequests : ~Has(r, w)))
           => ResetIsLast(requests')
  BY <1>1, HasPosted
<1>3. \A w \in Telltale : ~Has(r, w)
  BY <1>1
<1>4. SessionRequests \subseteq Telltale
  BY DEF SessionRequests, Telltale
<1> QED BY <1>1, <1>2, <1>3, <1>4 DEF NothingPosted, NoMore

LEMMA RequestTaken ==
    ASSUME TypeOK, requests # <<>>, requests' = Tail(requests), UNCHANGED deferred
    PROVE  NothingPosted
<1>1. requests \in Seq(Message)
  BY QueuesAre
<1> QED BY <1>1, HasTaken DEF NothingPosted, NoMore

\* A telling thread is known by its place: nothing disturbs it from outside but the
\* player, which may pause at the end of the streams, and the end of a seek.
LEMMA ThreadsStay ==
    ASSUME ThreadInv, UNCHANGED pc,
           \/ mState' = mState
           \/ mState \in Unset \cup {"RESET_IN_PROGRESS"}
           \/ /\ mState' \notin Unset \cup {"RESET_IN_PROGRESS"}
              /\ mState \in Live => mState' \in Live
              /\ mState = "PAUSED" => mState' = "PAUSED"
    PROVE  ThreadInv'
<1>1. mState \in Live => mState \notin Unset \cup {"RESET_IN_PROGRESS"}
  BY DEF Live, Started, Unset
<1> QED BY <1>1 DEF ThreadInv

\* The one thread that controls playback moves.
LEMMA ThreadMoves ==
    ASSUME TypeOK, OneControls, ThreadInv, NEW t \in Controls, NEW place \in Place, Goes(t, place),
           place \in {"resetPrepared", "resetStopped"} => mState' \notin Unset \cup {"RESET_IN_PROGRESS"},
           place \in {"pausing", "seeking", "seekingEnd"} => mState' \in Live,
           place = "pausing" => mState' = "PAUSED"
    PROVE  ThreadInv'
<1>1. t \in Threads /\ pc \in [Threads -> Place]
  BY QueuesAre DEF Threads
<1>2. pc'[t] = place /\ \A u \in Threads \ {t} : pc'[u] = pc[u]
  BY <1>1 DEF Goes
<1>3. \A u \in Controls : u = t
  BY DEF OneControls
<1>4. \A u \in Surfaces : u \in Threads \ {t}
  BY ThreadsAssumption DEF Threads
<1> QED BY <1>2, <1>3, <1>4 DEF ThreadInv

\* A thread goes to, or returns from, a wait or a call that it is not telling of.
LEMMA ThreadReturns ==
    ASSUME TypeOK, ThreadInv, UNCHANGED mState, NEW t \in Threads, NEW place \in {"idle", "inSetSurface"},
           Goes(t, place)
    PROVE  ThreadInv'
<1>1. pc \in [Threads -> Place]
  BY QueuesAre
<1>2. pc'[t] = place /\ \A u \in Threads \ {t} : pc'[u] = pc[u]
  BY <1>1 DEF Goes
<1>3. Controls \subseteq Threads /\ Surfaces \subseteq Threads
  BY DEF Threads
<1>4. ASSUME NEW u \in Controls
      PROVE  (/\ pc[u] \in {"resetPrepared", "resetStopped"} => mState \notin Unset \cup {"RESET_IN_PROGRESS"}
              /\ pc[u] \in {"pausing", "seeking", "seekingEnd"} => mState \in Live
              /\ pc[u] = "pausing" => mState = "PAUSED")'
  BY <1>2, <1>3, <1>4 DEF ThreadInv
<1>5. ASSUME NEW u \in Surfaces
      PROVE  pc'[u] \in {"idle", "inSetSurface"}
  BY <1>2, <1>3, <1>5 DEF ThreadInv
<1> QED BY <1>4, <1>5 DEF ThreadInv

-----------------------------------------------------------------------------
(* The calls keep what is said of queues, states and threads.               *)

LEMMA Posted ==
    ASSUME TypeOK, NEW m \in Message, requests' = requests \o <<m>>
    PROVE  /\ \A w : Has(requests', w) <=> Has(requests, w) \/ w = m.what
           /\ \A w : Few(requests, w) /\ ~(w = m.what /\ Has(requests, w)) => Few(requests', w)
           /\ (ResetIsLast(requests) /\ (Has(requests, "Reset") => m.what \notin SessionRequests))
                 => ResetIsLast(requests')
<1> DEFINE r == <<m>>
<1>1. /\ r \in Seq(Message) /\ requests \in Seq(Message) /\ requests' = requests \o r
      /\ \A w : (Has(r, w) <=> w = m.what) /\ Few(r, w)
      /\ ResetIsLast(r)
  BY HasOne, OneMessage, QueuesAre
<1> HIDE DEF r
<1> QED BY <1>1, HasPosted

LEMMA Whats ==
    /\ \A w, f : M(w, f).what = w
    /\ \A w \in {"Prepare", "SetSurface", "Start", "Pause", "Seek", "Reset", "PlaybackComplete"} :
          M(w, FALSE) \in Message
    /\ M("Seek", TRUE) \in Message
    /\ \A f \in BOOLEAN : M("SetDataSource", f) \in Message
  BY DEF M, Message

LEMMA SetDataSourceChecks ==
    ASSUME TypeOK, OneControls, CheckInv, NEW t \in Controls, SetDataSource(t)
    PROVE  CheckInv'
<1>1. PICK ok \in BOOLEAN : Post(<<M("SetDataSource", ok)>>)
  BY Zenon DEF SetDataSource
<1>2. /\ mState = "IDLE" /\ mState' = "SET_DATASOURCE_PENDING"
      /\ UNCHANGED <<deferred, source, playing, atEnd, looper>>
      /\ UNCHANGED mSetSurfaceInProgress
      /\ Goes(t, "inSetDataSource")
  BY DEF SetDataSource, Calls, engineVars, flagVars
<1> DEFINE m == M("SetDataSource", ok)
<1>3. m \in Message /\ m.what = "SetDataSource" /\ requests' = requests \o <<m>>
  BY <1>1, Whats DEF Post
<1> HIDE DEF m
<1>4. /\ \A w : Has(requests', w) <=> Has(requests, w) \/ w = "SetDataSource"
      /\ \A w : Few(requests, w) /\ ~(w = "SetDataSource" /\ Has(requests, w)) => Few(requests', w)
      /\ (ResetIsLast(requests) /\ ~Has(requests, "Reset")) => ResetIsLast(requests')
  BY <1>3, Posted
<1>5. SourceInv'
  BY <1>2, <1>4 DEF CheckInv, SourceInv, Unset
<1>6. ResetInv'
  BY <1>2, <1>4 DEF CheckInv, ResetInv, OnceAtMost
<1>7. PrepareInv'
  BY <1>2, <1>4 DEF CheckInv, PrepareInv
<1>8. StartedInv'
  BY <1>2, <1>4 DEF CheckInv, StartedInv, Started
<1>9. SurfaceInv'
  BY <1>2, <1>4 DEF CheckInv, SurfaceInv, OnceAtMost
<1>10. ThreadInv'
  BY <1>2, ThreadMoves, Places DEF CheckInv, Place
<1> QED BY <1>2, <1>5, <1>6, <1>7, <1>8, <1>9, <1>10 DEF CheckInv, Alive

LEMMA SurfaceChecks ==
    ASSUME TypeOK, CheckInv, NEW t \in Threads, SetVideoSurfaceTexture(t)
    PROVE  CheckInv'
<1>1. /\ UNCHANGED <<mState, mIsAsyncPrepare, deferred, source, playing, atEnd, looper>>
      /\ ~mSetSurfaceInProgress /\ mSetSurfaceInProgress'
      /\ Goes(t, "inSetSurface") /\ pc[t] = "idle"
      /\ requests' = requests \o <<M("SetSurface", FALSE)>>
  BY DEF SetVideoSurfaceTexture, Calls, engineVars, Post
<1> DEFINE m == M("SetSurface", FALSE)
<1>2. m \in Message /\ m.what = "SetSurface" /\ requests' = requests \o <<m>>
  BY <1>1, Whats
<1> HIDE DEF m
<1>3. /\ \A w : Has(requests', w) <=> Has(requests, w) \/ w = "SetSurface"
      /\ \A w : Few(requests, w) /\ ~(w = "SetSurface" /\ Has(requests, w)) => Few(requests', w)
      /\ ResetIsLast(requests) => ResetIsLast(requests')
  BY <1>2, Posted DEF SessionRequests
<1>4. SourceInv'
  BY <1>1, <1>3 DEF CheckInv, SourceInv
<1>5. ResetInv'
  BY <1>1, <1>3 DEF CheckInv, ResetInv, OnceAtMost
<1>6. PrepareInv'
  <2>1. ASSUME mState = "PREPARING", ~mIsAsyncPrepare, NEW u \in Controls
        PROVE  pc'[u] \in {"inPrepare", "inStart"}
    <3>1. pc[u] \in {"inPrepare", "inStart"}
      BY <2>1 DEF CheckInv, PrepareInv
    <3>2. u # t /\ u \in Threads
      BY <1>1, <3>1 DEF Threads
    <3> QED BY <1>1, <3>1, <3>2, QueuesAre DEF Goes
  <2> QED BY <1>1, <1>3, <2>1 DEF CheckInv, PrepareInv
<1>7. StartedInv'
  BY <1>1, <1>3 DEF CheckInv, StartedInv
<1>8. SurfaceInv'
  BY <1>1, <1>3 DEF CheckInv, SurfaceInv, OnceAtMost
<1>9. ThreadInv'
  BY <1>1, ThreadReturns DEF CheckInv
<1> QED BY <1>1, <1>4, <1>5, <1>6, <1>7, <1>8, <1>9 DEF CheckInv, Alive

\* A thread that controls playback moves, and the session goes on.
LEMMA CalmMove ==
    ASSUME TypeOK, OneControls, CheckInv, NothingPosted, NEW t \in Controls, NEW place \in Place,
           Goes(t, place), pc[t] \notin {"inPrepare", "inStart"},
           UNCHANGED <<source, playing, atEnd, looper, mSetSurfaceInProgress>>,
           mState' = mState \/ (mState \in Live /\ mState' \in Started),
           mState' = "PREPARING" => mIsAsyncPrepare' = mIsAsyncPrepare,
           place \in {"resetPrepared", "resetStopped"} => mState' \notin Unset \cup {"RESET_IN_PROGRESS"},
           place \in {"pausing", "seeking", "seekingEnd"} => mState' \in Live,
           place = "pausing" => mState' = "PAUSED"
    PROVE  CheckInv'
<1>1. ThreadInv'
  BY ThreadMoves DEF CheckInv
<1>2. SessionGoesOn
  BY DEF SessionGoesOn, Alive, OneControls
<1> QED BY <1>1, <1>2, CalmStep

\* The thread that controls playback stays where it is, at rest.
LEMMA StaysIdle ==
    ASSUME TypeOK, NEW t \in Controls, pc[t] = "idle", UNCHANGED pc
    PROVE  Goes(t, "idle")
<1>1. pc \in [Threads -> Place] /\ t \in Threads
  BY QueuesAre DEF Threads
<1> QED BY <1>1 DEF Goes

LEMMA SeekOrPausePosted ==
    ASSUME TypeOK, UNCHANGED deferred,
           \/ Post(<<M("Seek", TRUE)>>) \/ Post(<<M("Seek", FALSE)>>) \/ Post(<<M("Pause", FALSE)>>)
           \/ Post(<<>>)
    PROVE  NothingPosted
<1>1. CASE Post(<<>>)
  <2>1. requests' = requests
    BY <1>1, QueuesAre DEF Post
  <2> QED BY <2>1, QueuesLeft
<1>2. ASSUME NEW w \in {"Seek", "Pause"}, NEW f \in BOOLEAN, M(w, f) \in Message, Post(<<M(w, f)>>)
      PROVE  NothingPosted
  <2> DEFINE m == M(w, f)
  <2>1. m \in Message /\ m.what \notin Telltale /\ requests' = requests \o <<m>>
    BY <1>2, Whats DEF Post, Telltale
  <2> HIDE DEF m
  <2> QED BY <2>1, OtherPosted
<1> QED BY <1>1, <1>2, Whats

LEMMA PreparesChecks ==
    ASSUME TypeOK, OneControls, CheckInv, NEW t \in Controls, NEW async \in BOOLEAN,
           NEW place \in {"idle", "inPrepare", "inStart"}, NEW stoppedPlace \in {"idle", "inStart", "inStoppedPrepare"},
           Calls(t, "control"), Prepares(t, async, place, stoppedPlace),
           ~async => place \in {"inPrepare", "inStart"}
    PROVE  CheckInv'
<1>1. /\ pc[t] = "idle"
      /\ UNCHANGED <<deferred, source, playing, atEnd, looper, mSetSurfaceInProgress>>
      /\ mIsAsyncPrepare' = async
  BY DEF Calls, engineVars, Prepares
<1>2. CASE /\ mState = "STOPPED" /\ mState' = "STOPPED_AND_PREPARING"
           /\ Post(<<M("Seek", TRUE)>>)
           /\ Goes(t, stoppedPlace)
  <2>1. NothingPosted
    BY <1>1, <1>2, SeekOrPausePosted
  <2>2. stoppedPlace \in Place
    BY Places DEF Place
  <2> QED BY <1>1, <1>2, <2>1, <2>2, CalmMove DEF Live, Started
<1>3. CASE /\ mState = "UNPREPARED" /\ mState' = "PREPARING"
           /\ Post(<<M("Prepare", FALSE)>>)
           /\ Goes(t, place)
  <2> DEFINE m == M("Prepare", FALSE)
  <2>1. m \in Message /\ m.what = "Prepare" /\ requests' = requests \o <<m>>
    BY <1>3, Whats DEF Post
  <2> HIDE DEF m
  <2>2. /\ \A w : Has(requests', w) <=> Has(requests, w) \/ w = "Prepare"
        /\ \A w : Few(requests, w) /\ ~(w = "Prepare" /\ Has(requests, w)) => Few(requests', w)
        /\ (ResetIsLast(requests) /\ ~Has(requests, "Reset")) => ResetIsLast(requests')
    BY <2>1, Posted
  <2>3. SourceInv'
    BY <1>1, <1>3, <2>2 DEF CheckInv, SourceInv, Unset
  <2>4. ResetInv'
    BY <1>1, <1>3, <2>2 DEF CheckInv, ResetInv, OnceAtMost
  <2>5. PrepareInv'
    <3>1. ~async => \A u \in Controls : pc'[u] \in {"inPrepare", "inStart"}
      BY <1>3, QueuesAre DEF OneControls, Goes, Threads
    <3> QED BY <1>1, <1>3, <2>2, <3>1 DEF CheckInv, PrepareInv
  <2>6. StartedInv'
    BY <1>1, <1>3, <2>2 DEF CheckInv, StartedInv, Started
  <2>7. SurfaceInv'
    BY <1>1, <1>3, <2>2 DEF CheckInv, SurfaceInv, OnceAtMost
  <2>8. ThreadInv'
    BY <1>3, ThreadMoves, Places DEF CheckInv, Place
  <2> QED BY <1>1, <2>3, <2>4, <2>5, <2>6, <2>7, <2>8 DEF CheckInv, Alive
<1> QED BY <1>2, <1>3, Zenon DEF Prepares

\* What StartPlayer() posts.
LEMMA StartPosted ==
    ASSUME TypeOK, NEW restarts \in BOOLEAN,
           Post(<<M("Start", FALSE)>>
                \o (IF mStartupSeek \/ (restarts /\ mAtEOS) THEN <<M("Seek", FALSE)>> ELSE <<>>))
    PROVE  \E s \in Seq(Message) :
              /\ s = <<M("Start", FALSE)>> \/ s = <<M("Start", FALSE)>> \o <<M("Seek", FALSE)>>
              /\ requests' = requests \o s
              /\ \A w \in Telltale : Has(s, w) <=> w = "Start"
              /\ \A w \in Telltale : Few(s, w)
              /\ ResetIsLast(s)
<1> DEFINE a == <<M("Start", FALSE)>>
           b == <<M("Seek", FALSE)>>
<1>1. /\ a \in Seq(Message) /\ b \in Seq(Message)
      /\ \A w : (Has(a, w) <=> w = "Start") /\ Few(a, w)
      /\ \A w : (Has(b, w) <=> w = "Seek") /\ Few(b, w)
      /\ ResetIsLast(a) /\ ResetIsLast(b)
  <2> DEFINE start == M("Start", FALSE)
             seek == M("Seek", FALSE)
  <2>1. /\ start \in Message /\ start.what = "Start"
        /\ seek \in Message /\ seek.what = "Seek"
    BY Whats
  <2>2. a = <<start>> /\ b = <<seek>>
    OBVIOUS
  <2> HIDE DEF start, seek, a, b
  <2>3. a \in Seq(Message) /\ b \in Seq(Message)
    BY <2>1, <2>2
  <2>4. /\ \A w : (Has(<<start>>, w) <=> w = "Start") /\ Few(<<start>>, w)
        /\ ResetIsLast(<<start>>)
    BY <2>1, HasOne
  <2>5. /\ \A w : (Has(<<seek>>, w) <=> w = "Seek") /\ Few(<<seek>>, w)
        /\ ResetIsLast(<<seek>>)
    BY <2>1, HasOne
  <2> QED BY <2>2, <2>3, <2>4, <2>5
<1>2. requests' = requests \o (a \o b) \/ requests' = requests \o (a \o <<>>)
  BY DEF Post
<1> HIDE DEF a, b
<1>3. a \o <<>> = a /\ a \o b \in Seq(Message)
  BY <1>1
<1>4. /\ \A w \in Telltale : (Has(a \o b, w) <=> w = "Start") /\ Few(a \o b, w)
      /\ ResetIsLast(a \o b)
  BY <1>1, HasPosted DEF Telltale
<1> QED BY <1>1, <1>2, <1>3, <1>4 DEF a, b

LEMMA StartPlayerChecks ==
    ASSUME TypeOK, OneControls, CheckInv, NEW t \in Controls, NEW restarts \in BOOLEAN,
           StartPlayer(t, restarts), mState \in {"PAUSED", "STOPPED_AND_PREPARED", "PREPARED"},
           UNCHANGED engineVars
    PROVE  CheckInv'
<1>1. /\ UNCHANGED <<deferred, source, playing, atEnd, looper, mSetSurfaceInProgress>>
      /\ mState' = "RUNNING" /\ Goes(t, "idle")
  BY DEF engineVars, StartPlayer
<1>2. PICK s \in Seq(Message) :
         /\ requests' = requests \o s
         /\ \A w \in Telltale : Has(s, w) <=> w = "Start"
         /\ \A w \in Telltale : Few(s, w)
         /\ ResetIsLast(s)
  BY StartPosted DEF StartPlayer
<1>3. /\ \A w \in Telltale : Has(requests', w) <=> Has(requests, w) \/ w = "Start"
      /\ \A w \in Telltale : w # "Start" => (Few(requests, w) => Few(requests', w))
      /\ (ResetIsLast(requests) /\ ~Has(requests, "Reset")) => ResetIsLast(requests')
  BY <1>2, HasPosted, QueuesAre
<1>4. SourceInv'
  BY <1>1, <1>3 DEF CheckInv, SourceInv, Unset, Telltale
<1>5. ResetInv'
  BY <1>1, <1>3 DEF CheckInv, ResetInv, OnceAtMost, Telltale
<1>6. PrepareInv'
  BY <1>1, <1>3 DEF CheckInv, PrepareInv, Telltale
<1>7. StartedInv'
  BY <1>1 DEF StartedInv, Started
<1>8. SurfaceInv'
  BY <1>1, <1>3 DEF CheckInv, SurfaceInv, OnceAtMost, Telltale
<1>9. ThreadInv'
  BY <1>1, ThreadMoves DEF CheckInv, Place
<1> QED BY <1>1, <1>4, <1>5, <1>6, <1>7, <1>8, <1>9 DEF CheckInv, Alive

LEMMA AsksForResetChecks ==
    ASSUME TypeOK, OneControls, CheckInv, NEW t \in Controls, AsksForReset(t),
           mState \notin Unset \cup {"RESET_IN_PROGRESS"},
           UNCHANGED <<deferred, source, playing, atEnd, looper, mSetSurfaceInProgress>>
    PROVE  CheckInv'
<1>1. mState' = "RESET_IN_PROGRESS" /\ Goes(t, "inReset")
  BY DEF AsksForReset
<1> DEFINE m == M("Reset", FALSE)
<1>2. m \in Message /\ m.what = "Reset" /\ requests' = requests \o <<m>>
  BY Whats DEF Post, AsksForReset
<1> HIDE DEF m
<1>3. /\ \A w : Has(requests', w) <=> Has(requests, w) \/ w = "Reset"
      /\ \A w : Few(requests, w) /\ ~(w = "Reset" /\ Has(requests, w)) => Few(requests', w)
      /\ ResetIsLast(requests) => ResetIsLast(requests')
  BY <1>2, Posted DEF SessionRequests
<1>4. SourceInv'
  BY <1>1, <1>3 DEF CheckInv, SourceInv, Unset
<1>5. ResetInv'
  BY <1>1, <1>3 DEF CheckInv, ResetInv, OnceAtMost
<1>6. PrepareInv'
  BY <1>1, <1>3 DEF CheckInv, PrepareInv
<1>7. StartedInv'
  BY <1>1 DEF StartedInv
<1>8. SurfaceInv'
  BY <1>1, <1>3 DEF CheckInv, SurfaceInv, OnceAtMost
<1>9. ThreadInv'
  BY <1>1, ThreadMoves, Places DEF CheckInv, Place
<1> QED BY <1>4, <1>5, <1>6, <1>7, <1>8, <1>9 DEF CheckInv, Alive

LEMMA CallChecks ==
    ASSUME TypeOK, OneControls, CheckInv, NEW t \in Controls, CallStep(t)
    PROVE  CheckInv'
<1>1. pc[t] = "idle" /\ UNCHANGED <<deferred, source, playing, atEnd>>
  BY DEF CallStep, SetDataSource, Prepare, PrepareAsync, Start, Stop, Pause, SeekToBeforeStart, SeekTo,
    SeekToEnd, Reset, Calls, engineVars
<1>2. CASE Prepare(t)
  BY <1>2, PreparesChecks DEF Prepare
<1>3. CASE PrepareAsync(t)
  BY <1>3, PreparesChecks DEF PrepareAsync
<1>4. CASE Start(t)
  <2>1. Calls(t, "control") /\ UNCHANGED <<engineVars, looper, deferred>>
    BY <1>4 DEF Start, Calls, engineVars
  <2>2. CASE Prepares(t, FALSE, "inStart", "inStart")
    BY <2>1, <2>2, PreparesChecks
  <2>3. CASE mState \in {"PAUSED", "STOPPED_AND_PREPARED", "PREPARED"} /\ StartPlayer(t, mState # "PREPARED")
    <3>1. (mState # "PREPARED") \in BOOLEAN
      OBVIOUS
    <3> QED BY <2>1, <2>3, <3>1, StartPlayerChecks
  <2>4. CASE /\ Post(<<M("Seek", FALSE)>>)
             /\ UNCHANGED <<mState, mIsAsyncPrepare, mSetSurfaceInProgress, pc>>
    <3>1. NothingPosted
      BY <2>1, <2>4, SeekOrPausePosted
    <3> QED BY <1>1, <2>1, <2>4, <3>1, StaysIdle, CalmMove DEF Place
  <2>5. \/ Prepares(t, FALSE, "inStart", "inStart")
        \/ mState \in {"PAUSED", "STOPPED_AND_PREPARED", "PREPARED"} /\ StartPlayer(t, mState # "PREPARED")
        \/ /\ Post(<<M("Seek", FALSE)>>)
           /\ UNCHANGED <<mState, mIsAsyncPrepare, mSetSurfaceInProgress, pc>>
    BY <1>4, Zenon DEF Start
  <2> QED BY <2>2, <2>3, <2>4, <2>5
<1>5. CASE Stop(t)
  <2>1. /\ mState \in Live /\ mState' = "STOPPED"
        /\ UNCHANGED <<looper, mSetSurfaceInProgress, pc>>
        /\ Post(<<M("Pause", FALSE)>>) \/ Post(<<>>)
    BY <1>5 DEF Stop, Calls, engineVars, flagVars, Live, Started
  <2>2. NothingPosted
    BY <1>1, <2>1, SeekOrPausePosted
  <2> QED BY <1>1, <2>1, <2>2, StaysIdle, CalmMove DEF Place, Live, Started
<1>6. CASE Pause(t)
  <2>1. /\ mState = "RUNNING" /\ mState' = "PAUSED"
        /\ UNCHANGED <<looper, mSetSurfaceInProgress, requests>>
        /\ Goes(t, "pausing")
    BY <1>6 DEF Pause, Calls, engineVars, flagVars
  <2> QED BY <1>1, <2>1, QueuesLeft, CalmMove, Places DEF Place, Live, Started
<1>7. CASE SeekToBeforeStart(t)
  <2>1. UNCHANGED <<mState, mIsAsyncPrepare, looper, mSetSurfaceInProgress, requests, pc>>
    BY <1>7 DEF SeekToBeforeStart, Calls, engineVars
  <2> QED BY <1>1, <2>1, QueuesLeft, StaysIdle, CalmMove DEF Place
<1>8. CASE SeekTo(t) \/ SeekToEnd(t)
  <2>1. /\ UNCHANGED <<mState, mIsAsyncPrepare, looper, mSetSurfaceInProgress, requests>>
        /\ mState \in Live
        /\ \E place \in {"seeking", "seekingEnd"} : Goes(t, place)
    BY <1>8 DEF SeekTo, SeekToEnd, Calls, engineVars, flagVars, Live, Started
  <2>2. PICK place \in {"seeking", "seekingEnd"} : Goes(t, place)
    BY <2>1
  <2> QED BY <1>1, <2>1, <2>2, QueuesLeft, CalmMove, Places DEF Place
<1>9. CASE Reset(t)
  <2>1. ~(mState = "PREPARING" /\ ~mIsAsyncPrepare)
    BY <1>1 DEF CheckInv, PrepareInv
  <2>2. UNCHANGED <<looper, mSetSurfaceInProgress, mIsAsyncPrepare>> /\ mState \notin Unset \cup {"RESET_IN_PROGRESS"}
    BY <1>9, <2>1 DEF Reset, flagVars, Unset
  <2>3. \/ AsksForReset(t)
        \/ Goes(t, "resetPrepared") /\ UNCHANGED <<mState, requests>>
        \/ Goes(t, "resetStopped") /\ UNCHANGED <<mState, requests>>
    BY <1>9 DEF Reset, TellsStopped
  <2> QED BY <1>1, <2>2, <2>3, AsksForResetChecks, QueuesLeft, CalmMove, Places DEF Place
<1> QED BY <1>2, <1>3, <1>4, <1>5, <1>6, <1>7, <1>8, <1>9, SetDataSourceChecks DEF CallStep

\* At the end of playback the driver pauses, when it may.
LEMMA CompletesPosts ==
    ASSUME TypeOK, NEW queue \in Seq(Message), PlaybackCompletes(queue)
    PROVE  NoMore(queue, requests') /\ (ResetIsLast(queue) => ResetIsLast(requests'))
<1>1. CASE requests' = queue
  BY <1>1 DEF NoMore
<1>2. ASSUME NEW m \in Message, m.what \notin Telltale, requests' = Append(queue, m)
      PROVE  NoMore(queue, requests') /\ (ResetIsLast(queue) => ResetIsLast(requests'))
  <2> DEFINE r == <<m>>
  <2>1. /\ r \in Seq(Message) /\ requests' = queue \o r
        /\ \A w : (Has(r, w) <=> w = m.what) /\ Few(r, w)
        /\ ResetIsLast(r)
    BY <1>2, HasOne, OneMessage
  <2> HIDE DEF r
  <2> QED BY <1>2, <2>1, HasPosted DEF NoMore, SessionRequests, Telltale
<1>3. /\ M("Seek", FALSE) \in Message /\ M("Seek", FALSE).what \notin Telltale
      /\ M("Pause", FALSE) \in Message /\ M("Pause", FALSE).what \notin Telltale
  BY DEF M, Message, Telltale
<1> QED BY <1>1, <1>2, <1>3 DEF PlaybackCompletes

LEMMA GoOnChecks ==
    ASSUME TypeOK, OneControls, CheckInv, NEW t \in Threads, GoOn(t)
    PROVE  CheckInv'
<1>1. UNCHANGED <<engineVars, deferred, source, playing, atEnd, looper>>
  BY DEF GoOn, PauseAfterTelling, SeekToAfterTelling, SeekToEndAfterTelling, ResetAfterTelling, SleepsAgain,
    Returns, ReturnsFromReset, StartGoesOn, Wakes, engineVars
<1>2. pc[t] \notin {"idle", "inSetSurface"} => t \in Controls
  BY DEF CheckInv, ThreadInv, Threads
<1>3. CASE PauseAfterTelling(t) \/ SeekToAfterTelling(t)
  <2>1. /\ UNCHANGED <<mState, mIsAsyncPrepare, mSetSurfaceInProgress>>
        /\ pc[t] \in {"pausing", "seeking"} /\ Goes(t, "idle")
        /\ Post(<<M("Pause", FALSE)>>) \/ Post(<<M("Seek", TRUE)>>)
    BY <1>3 DEF PauseAfterTelling, SeekToAfterTelling, flagVars
  <2>2. NothingPosted
    BY <1>1, <2>1, SeekOrPausePosted
  <2> QED BY <1>1, <1>2, <2>1, <2>2, CalmMove DEF Place
<1>4. CASE SeekToEndAfterTelling(t)
  <2>1. /\ UNCHANGED <<mIsAsyncPrepare, mSetSurfaceInProgress>>
        /\ pc[t] = "seekingEnd" /\ Goes(t, "idle")
        /\ PlaybackCompletes(requests)
    BY <1>4 DEF SeekToEndAfterTelling
  <2>2. NothingPosted
    BY <1>1, <2>1, CompletesPosts, QueuesAre DEF NothingPosted, NoMore
  <2>3. t \in Controls /\ mState \in Live
    BY <1>2, <2>1 DEF CheckInv, ThreadInv
  <2>4. mState' = mState \/ mState' = "PAUSED"
    BY <2>1 DEF PlaybackCompletes
  <2> QED BY <1>1, <2>1, <2>2, <2>3, <2>4, CalmMove DEF Place, Started
<1>5. CASE ResetAfterTelling(t)
  <2>1. /\ UNCHANGED <<mIsAsyncPrepare, mSetSurfaceInProgress>>
        /\ pc[t] \in {"resetPrepared", "resetStopped"}
        /\ AsksForReset(t) \/ (Goes(t, "resetStopped") /\ UNCHANGED <<mState, requests>>)
    BY <1>5 DEF ResetAfterTelling, TellsStopped, flagVars
  <2>2. t \in Controls /\ mState \notin Unset \cup {"RESET_IN_PROGRESS"}
    BY <1>2, <2>1 DEF CheckInv, ThreadInv
  <2> QED BY <1>1, <2>1, <2>2, AsksForResetChecks, QueuesLeft, CalmMove, Places DEF Place
<1>6. CASE SleepsAgain(t)
  <2>1. UNCHANGED <<mState, flagVars, pc, requests>>
    BY <1>6 DEF SleepsAgain
  <2> QED
    BY <1>1, <2>1, ThreadsStay, QueuesLeft, CalmStep DEF CheckInv, SessionGoesOn, flagVars, Alive
<1>7. CASE Returns(t) \/ ReturnsFromReset(t) \/ (StartGoesOn(t) /\ ~(mState = "PREPARED"))
  <2>1. /\ UNCHANGED <<mState, mIsAsyncPrepare, mSetSurfaceInProgress, requests>>
        /\ Goes(t, "idle") /\ ~Blocked(t) /\ t \in woken
    BY <1>7 DEF Returns, ReturnsFromReset, StartGoesOn, Wakes, flagVars
  <2>2. mState = "PREPARING" => pc[t] \notin {"inPrepare", "inStart"}
    BY <2>1 DEF Blocked, WaitsOn
  <2>3. ThreadInv'
    BY <2>1, ThreadReturns DEF CheckInv
  <2>4. SessionGoesOn
    BY <1>1, <2>1, <2>2, QueuesAre DEF SessionGoesOn, Alive, Goes, Threads
  <2> QED BY <1>1, <2>1, <2>3, <2>4, QueuesLeft, CalmStep
<1>8. CASE StartGoesOn(t) /\ mState = "PREPARED"
  <2>1. StartPlayer(t, TRUE) /\ pc[t] = "inStart"
    BY <1>8 DEF StartGoesOn
  <2> QED BY <1>1, <1>2, <1>8, <2>1, StartPlayerChecks
<1> QED BY <1>3, <1>4, <1>5, <1>6, <1>7, <1>8 DEF GoOn

-----------------------------------------------------------------------------
(* The player and its callbacks keep it.                                    *)

\* A request is taken from the queue.
LEMMA Taken ==
    ASSUME TypeOK, NEW w, Takes(w), requests' = Tail(requests)
    PROVE  /\ \A v : Has(requests, v) <=> v = w \/ Has(requests', v)
           /\ \A v : Few(requests, v) => Few(requests', v)
           /\ Few(requests, w) => ~Has(requests', w)
           /\ ResetIsLast(requests) => ResetIsLast(requests')
           /\ ResetIsLast(requests) /\ w = "Reset" => \A v \in SessionRequests : ~Has(requests', v)
  BY HasTaken, QueuesAre DEF Takes

LEMMA CarriedOut ==
    ASSUME TypeOK, NEW w, Carries(w)
    PROVE  /\ \A v : Has(deferred, v) <=> v = w \/ Has(deferred', v)
           /\ \A v : Few(deferred, v) => Few(deferred', v)
           /\ Few(deferred, w) => ~Has(deferred', w)
           /\ ResetIsLast(deferred) => ResetIsLast(deferred')
  BY HasTaken, QueuesAre DEF Carries

LEMMA TakesSetDataSourceChecks ==
    ASSUME TypeOK, CheckInv, TakesSetDataSource
    PROVE  CheckInv'
<1>1. /\ UNCHANGED <<mSetSurfaceInProgress, mIsAsyncPrepare, deferred, playing, atEnd, pc>>
      /\ Takes("SetDataSource") /\ requests' = Tail(requests)
      /\ looper' = IF mState = "SET_DATASOURCE_PENDING" THEN looper ELSE "abort"
      /\ \/ source' = "idle" /\ mState' = "UNPREPARED"
         \/ source' = "NULL" /\ mState' = "IDLE"
  BY DEF TakesSetDataSource, flagVars, Check
<1>2. /\ \A v : Has(requests, v) <=> v = "SetDataSource" \/ Has(requests', v)
      /\ \A v : Few(requests, v) => Few(requests', v)
      /\ Few(requests, "SetDataSource") => ~Has(requests', "SetDataSource")
      /\ ResetIsLast(requests) => ResetIsLast(requests')
  BY <1>1, Taken
<1>3. mState = "SET_DATASOURCE_PENDING"
  BY <1>2 DEF CheckInv, SourceInv
<1>4. SourceInv'
  BY <1>1, <1>2 DEF CheckInv, SourceInv, Unset
<1>5. ResetInv'
  BY <1>1, <1>2, <1>3 DEF CheckInv, ResetInv, OnceAtMost
<1>6. PrepareInv'
  BY <1>1, <1>2, <1>3 DEF CheckInv, PrepareInv
<1>7. StartedInv'
  BY <1>1, <1>2, <1>3 DEF CheckInv, StartedInv, Started
<1>8. SurfaceInv'
  BY <1>1, <1>2 DEF CheckInv, SurfaceInv, OnceAtMost
<1>9. ThreadInv'
  BY <1>1, <1>3, ThreadsStay DEF CheckInv, Unset
<1> QED BY <1>1, <1>3, <1>4, <1>5, <1>6, <1>7, <1>8, <1>9 DEF CheckInv, Alive

\* A request that the player acts on: prepare, start.
LEMMA PlainTakesChecks ==
    ASSUME TypeOK, CheckInv, TakesPrepare \/ TakesStart
    PROVE  CheckInv'
<1> PICK w \in {"Prepare", "Start"} : (w = "Prepare" /\ TakesPrepare) \/ (w = "Start" /\ TakesStart)
  OBVIOUS
<1>1. /\ UNCHANGED <<mState, mSetSurfaceInProgress, mIsAsyncPrepare, deferred, atEnd, pc>>
      /\ Takes(w) /\ requests' = Tail(requests)
      /\ looper' = IF source # "NULL" THEN looper ELSE "abort"
      /\ w = "Prepare" => source' = "preparing" /\ UNCHANGED playing
      /\ w = "Start" => UNCHANGED source
  BY DEF TakesPrepare, TakesStart, flagVars, threadVars, Check
<1>2. /\ \A v : Has(requests, v) <=> v = w \/ Has(requests', v)
      /\ \A v : Few(requests, v) => Few(requests', v)
      /\ Few(requests, w) => ~Has(requests', w)
      /\ ResetIsLast(requests) => ResetIsLast(requests')
  BY <1>1, Taken
<1>3. /\ w = "Prepare" => mState \in {"PREPARING", "RESET_IN_PROGRESS"}
      /\ w = "Start" => mState \in Started \cup {"RESET_IN_PROGRESS"}
  BY <1>2 DEF CheckInv, PrepareInv, StartedInv
<1>4. source # "NULL"
  BY <1>3 DEF CheckInv, SourceInv, Unset, Started
<1>5. SourceInv'
  BY <1>1, <1>2, <1>4 DEF CheckInv, SourceInv
<1>6. ResetInv'
  BY <1>1, <1>2 DEF CheckInv, ResetInv, OnceAtMost
<1>7. PrepareInv'
  BY <1>1, <1>2, <1>3 DEF CheckInv, PrepareInv
<1>8. StartedInv'
  BY <1>1, <1>2, <1>3 DEF CheckInv, StartedInv
<1>9. SurfaceInv'
  BY <1>1, <1>2 DEF CheckInv, SurfaceInv, OnceAtMost
<1>10. ThreadInv'
  BY <1>1, ThreadsStay DEF CheckInv
<1> QED BY <1>1, <1>4, <1>5, <1>6, <1>7, <1>8, <1>9, <1>10 DEF CheckInv, Alive

LEMMA TakesSlowRequestChecks ==
    ASSUME TypeOK, CheckInv, TakesSlowRequest
    PROVE  CheckInv'
<1>1. PICK w \in {"Seek", "SetSurface", "Reset"} : Takes(w)
  BY DEF TakesSlowRequest
<1>2. /\ UNCHANGED <<mState, mSetSurfaceInProgress, mIsAsyncPrepare, source, playing, atEnd, looper, pc>>
      /\ requests' = Tail(requests) /\ deferred' = Append(deferred, Head(requests))
  BY DEF TakesSlowRequest, flagVars, threadVars
<1>3. /\ \A v : Has(requests, v) <=> v = w \/ Has(requests', v)
      /\ \A v : Few(requests, v) => Few(requests', v)
      /\ Few(requests, w) => ~Has(requests', w)
      /\ ResetIsLast(requests) => ResetIsLast(requests')
      /\ ResetIsLast(requests) /\ w = "Reset" => \A v \in SessionRequests : ~Has(requests', v)
  BY <1>1, <1>2, Taken
<1>4. /\ \A v : Has(deferred', v) <=> Has(deferred, v) \/ v = w
      /\ \A v : Few(deferred, v) /\ ~(Has(deferred, v) /\ v = w) => Few(deferred', v)
  <2> DEFINE m == Head(requests)
             r == <<m>>
  <2>1. m \in Message /\ m.what = w
    BY <1>1, TailType, QueuesAre DEF Takes
  <2> HIDE DEF m
  <2>2. /\ r \in Seq(Message) /\ Append(deferred, m) = deferred \o r
        /\ \A v : (Has(r, v) <=> v = w) /\ Few(r, v)
    BY <2>1, HasOne, OneMessage, QueuesAre
  <2>3. deferred' = deferred \o r
    BY <1>2, <2>2 DEF m
  <2> HIDE DEF r
  <2> QED BY <2>2, <2>3, HasPosted, QueuesAre
<1>5. SourceInv'
  BY <1>2, <1>3 DEF CheckInv, SourceInv
<1>6. ResetInv'
  <2>1. OnceAtMost("Reset")'
    BY <1>3, <1>4 DEF CheckInv, ResetInv, OnceAtMost
  <2>2. Has(deferred', "Reset") => ~Has(requests', "Prepare") /\ ~Has(requests', "Start")
    BY <1>3, <1>4 DEF CheckInv, ResetInv, SessionRequests
  <2> QED BY <1>2, <1>3, <1>4, <2>1, <2>2 DEF CheckInv, ResetInv
<1>7. PrepareInv'
  BY <1>2, <1>3 DEF CheckInv, PrepareInv
<1>8. StartedInv'
  BY <1>2, <1>3 DEF CheckInv, StartedInv
<1>9. SurfaceInv'
  <2>1. OnceAtMost("SetSurface")'
    BY <1>3, <1>4 DEF CheckInv, SurfaceInv, OnceAtMost
  <2> QED BY <1>2, <1>3, <1>4, <2>1 DEF CheckInv, SurfaceInv
<1>10. ThreadInv'
  BY <1>2, ThreadsStay DEF CheckInv
<1> QED BY <1>2, <1>5, <1>6, <1>7, <1>8, <1>9, <1>10 DEF CheckInv, Alive

\* The surface is set, at once or after a flush.
LEMMA SurfaceCompletesChecks ==
    ASSUME TypeOK, CheckInv, TakesSetSurface \/ CarriesOutSetSurface
    PROVE  CheckInv'
<1>1. /\ UNCHANGED <<mState, mIsAsyncPrepare, source, playing, atEnd, pc>>
      /\ ~mSetSurfaceInProgress'
      /\ looper' = IF mSetSurfaceInProgress THEN looper ELSE "abort"
  BY DEF TakesSetSurface, CarriesOutSetSurface, SurfaceCompletes, Check, Takes, Carries
<1>2. \/ Takes("SetSurface") /\ requests' = Tail(requests) /\ UNCHANGED deferred
      \/ Carries("SetSurface") /\ UNCHANGED requests
  BY DEF TakesSetSurface, CarriesOutSetSurface
<1>3. /\ NothingPosted
      /\ Has(requests, "SetSurface") \/ Has(deferred, "SetSurface")
      /\ OnceAtMost("SetSurface") => ~Has(requests', "SetSurface") /\ ~Has(deferred', "SetSurface")
  BY <1>2, Taken, CarriedOut DEF NothingPosted, NoMore, OnceAtMost
<1>4. mSetSurfaceInProgress /\ UNCHANGED looper
  BY <1>1, <1>3 DEF CheckInv, SurfaceInv
<1>5. SourceInv'
  BY <1>1, <1>3 DEF CheckInv, SourceInv, NothingPosted, NoMore, Telltale
<1>6. ResetInv'
  BY <1>1, <1>3 DEF CheckInv, ResetInv, OnceAtMost, NothingPosted, NoMore, Telltale
<1>7. PrepareInv'
  BY <1>1, <1>3 DEF CheckInv, PrepareInv, NothingPosted, NoMore, Telltale
<1>8. StartedInv'
  BY <1>1, <1>3 DEF CheckInv, StartedInv, NothingPosted, NoMore, Telltale
<1>9. SurfaceInv'
  BY <1>1, <1>3 DEF CheckInv, SurfaceInv, OnceAtMost, NothingPosted, NoMore, Telltale
<1>10. ThreadInv'
  BY <1>1, ThreadsStay DEF CheckInv
<1> QED BY <1>4, <1>5, <1>6, <1>7, <1>8, <1>9, <1>10 DEF CheckInv, Alive

LEMMA CarriesOutResetChecks ==
    ASSUME TypeOK, CheckInv, CarriesOutReset
    PROVE  CheckInv'
<1>1. /\ UNCHANGED <<mIsAsyncPrepare, mSetSurfaceInProgress, pc>>
      /\ Carries("Reset") /\ requests' = Outdate(requests)
      /\ source' = "NULL" /\ ~playing' /\ ~atEnd' /\ mState' = "IDLE"
      /\ looper' = IF mState = "RESET_IN_PROGRESS" THEN looper ELSE "abort"
  BY DEF CarriesOutReset, Check, flagVars
<1>2. /\ \A w : w \notin {"PlaybackComplete", "Outdated"} =>
            (Has(requests', w) <=> Has(requests, w)) /\ (Few(requests, w) => Few(requests', w))
      /\ ~Has(requests', "PlaybackComplete")
      /\ ResetIsLast(requests) => ResetIsLast(requests')
  BY <1>1, HasOutdated, QueuesAre
<1>3. /\ \A v : Has(deferred, v) <=> v = "Reset" \/ Has(deferred', v)
      /\ \A v : Few(deferred, v) => Few(deferred', v)
      /\ Few(deferred, "Reset") => ~Has(deferred', "Reset")
  BY <1>1, CarriedOut
<1>4. mState = "RESET_IN_PROGRESS"
  BY <1>3 DEF CheckInv, ResetInv
<1>5. SourceInv'
  BY <1>1, <1>2, <1>4 DEF CheckInv, SourceInv, Unset
<1>6. ResetInv'
  BY <1>1, <1>2, <1>3 DEF CheckInv, ResetInv, OnceAtMost
<1>7. PrepareInv'
  BY <1>1, <1>2, <1>3 DEF CheckInv, PrepareInv, ResetInv
<1>8. StartedInv'
  BY <1>1, <1>2, <1>3 DEF CheckInv, StartedInv, ResetInv
<1>9. SurfaceInv'
  BY <1>1, <1>2, <1>3 DEF CheckInv, SurfaceInv, OnceAtMost
<1>10. ThreadInv'
  BY <1>1, <1>4, ThreadsStay DEF CheckInv
<1> QED BY <1>1, <1>4, <1>5, <1>6, <1>7, <1>8, <1>9, <1>10 DEF CheckInv, Alive

LEMMA SourcePreparedChecks ==
    ASSUME TypeOK, CheckInv, SourcePrepared
    PROVE  CheckInv'
<1>1. /\ UNCHANGED <<mIsAsyncPrepare, mSetSurfaceInProgress, requests, deferred, playing, atEnd, pc>>
      /\ source = "preparing" /\ source' = "idle" /\ looper = "idle"
  BY DEF SourcePrepared
<1>2. PICK ok \in BOOLEAN : PrepareCompletes(ok)
  BY Zenon DEF SourcePrepared
<1>3. mState \in {"PREPARING", "RESET_IN_PROGRESS"} /\ ~Has(requests, "Prepare")
  BY <1>1 DEF CheckInv, PrepareInv
<1>4. /\ mState = "RESET_IN_PROGRESS" => mState' = mState
      /\ mState = "PREPARING" => mState' \in {"PREPARED", "UNPREPARED"}
      /\ Alive'
  BY <1>1, <1>2, <1>3 DEF PrepareCompletes, Check, Alive
<1>5. SourceInv'
  BY <1>1, <1>3, <1>4 DEF CheckInv, SourceInv, Unset
<1>6. ResetInv'
  BY <1>1, <1>3, <1>4 DEF CheckInv, ResetInv, OnceAtMost
<1>7. PrepareInv'
  BY <1>1, <1>3, <1>4 DEF CheckInv, PrepareInv
<1>8. StartedInv'
  BY <1>1, <1>3, <1>4 DEF CheckInv, StartedInv, Started
<1>9. SurfaceInv'
  BY <1>1 DEF CheckInv, SurfaceInv, OnceAtMost
<1>10. ThreadInv'
  BY <1>1, <1>3, <1>4, ThreadsStay DEF CheckInv, Live, Started, Unset
<1> QED BY <1>4, <1>5, <1>6, <1>7, <1>8, <1>9, <1>10 DEF CheckInv

LEMMA EndOfStreamChecks ==
    ASSUME TypeOK, CheckInv, EndOfStream
    PROVE  CheckInv'
<1>1. /\ UNCHANGED <<mState, mIsAsyncPrepare, mSetSurfaceInProgress, deferred, source, playing, looper, pc>>
      /\ playing
      /\ requests' = Append(requests, M("PlaybackComplete", FALSE))
  BY DEF EndOfStream, flagVars, threadVars
<1> DEFINE m == M("PlaybackComplete", FALSE)
<1>2. m \in Message /\ m.what = "PlaybackComplete" /\ requests' = Append(requests, m)
  BY <1>1, Whats
<1> HIDE DEF m
<1>3. requests' = requests \o <<m>>
  BY <1>2, HasOne, QueuesAre
<1>4. /\ \A w : Has(requests', w) <=> Has(requests, w) \/ w = "PlaybackComplete"
      /\ \A w : Few(requests, w) /\ ~(w = "PlaybackComplete" /\ Has(requests, w)) => Few(requests', w)
      /\ ResetIsLast(requests) => ResetIsLast(requests')
  BY <1>2, <1>3, Posted DEF SessionRequests
<1>5. SourceInv'
  BY <1>1, <1>4 DEF CheckInv, SourceInv
<1>6. ResetInv'
  BY <1>1, <1>4 DEF CheckInv, ResetInv, OnceAtMost
<1>7. PrepareInv'
  BY <1>1, <1>4 DEF CheckInv, PrepareInv
<1>8. StartedInv'
  BY <1>1, <1>4 DEF CheckInv, StartedInv
<1>9. SurfaceInv'
  BY <1>1, <1>4 DEF CheckInv, SurfaceInv, OnceAtMost
<1>10. ThreadInv'
  BY <1>1, ThreadsStay DEF CheckInv
<1> QED BY <1>1, <1>5, <1>6, <1>7, <1>8, <1>9, <1>10 DEF CheckInv, Alive

\* Engine steps after which the session goes on.
LEMMA EngineGoesOn ==
    ASSUME CheckInv, NothingPosted,
           UNCHANGED <<pc, source, playing, looper, mSetSurfaceInProgress, mIsAsyncPrepare>>,
           atEnd' => atEnd,
           \/ mState' = mState
           \/ mState \in Started /\ mState' = "PAUSED"
           \/ mState = "STOPPED_AND_PREPARING" /\ mState' = "STOPPED_AND_PREPARED"
    PROVE  CheckInv'
<1>1. ThreadInv'
  BY ThreadsStay DEF CheckInv, Live, Started, Unset
<1>2. SessionGoesOn
  BY DEF SessionGoesOn, Live, Started, Alive
<1> QED BY <1>1, <1>2, CalmStep

LEMMA EngineChecks ==
    ASSUME TypeOK, StaleAnswerFindsNone, CheckInv, EngineStep
    PROVE  CheckInv'
<1>1. CASE TakesPause
  <2>1. /\ UNCHANGED <<mState, pc, source, looper, mSetSurfaceInProgress, mIsAsyncPrepare, atEnd, deferred>>
        /\ Takes("Pause") /\ requests' = Tail(requests) /\ ~playing'
    BY <1>1 DEF TakesPause, flagVars, threadVars
  <2>2. NothingPosted
    BY <2>1, RequestTaken DEF Takes
  <2>3. SessionGoesOn
    BY <2>1 DEF SessionGoesOn, Alive
  <2> QED BY <2>1, <2>2, <2>3, ThreadsStay, CalmStep DEF CheckInv
<1>2. CASE TakesOutdated
  <2>1. /\ UNCHANGED <<mState, pc, source, playing, looper, mSetSurfaceInProgress, mIsAsyncPrepare, atEnd>>
        /\ UNCHANGED deferred
        /\ Takes("Outdated") /\ requests' = Tail(requests)
    BY <1>2 DEF TakesOutdated, flagVars, threadVars
  <2>2. NothingPosted
    BY <2>1, RequestTaken DEF Takes
  <2> QED BY <2>1, <2>2, EngineGoesOn
<1>3. CASE TakesPlaybackComplete
  <2>1. /\ UNCHANGED <<pc, source, playing, looper, mSetSurfaceInProgress, mIsAsyncPrepare, atEnd>>
        /\ UNCHANGED deferred
        /\ Takes("PlaybackComplete") /\ PlaybackCompletes(Tail(requests))
    BY <1>3 DEF TakesPlaybackComplete, threadVars
  <2> DEFINE queue == Tail(requests)
  <2>2. /\ queue \in Seq(Message) /\ requests # <<>> /\ Has(requests, "PlaybackComplete")
        /\ \A w : Has(queue, w) => Has(requests, w)
        /\ \A w : Few(requests, w) => Few(queue, w)
        /\ ResetIsLast(requests) => ResetIsLast(queue)
    BY <2>1, TailType, QueuesAre, HasTaken DEF Takes
  <2>3. PlaybackCompletes(queue)
    BY <2>1
  <2>4. mState' = mState \/ (mState # "RESET_IN_PROGRESS" /\ mState' = "PAUSED")
    BY <2>1 DEF PlaybackCompletes
  <2> HIDE DEF queue
  <2>5. NoMore(queue, requests') /\ (ResetIsLast(queue) => ResetIsLast(requests'))
    BY <2>2, <2>3, CompletesPosts
  <2>6. NothingPosted
    BY <2>1, <2>2, <2>5 DEF NothingPosted, NoMore
  <2>7. mState \in Started \cup {"RESET_IN_PROGRESS"}
    BY <2>2 DEF CheckInv, StartedInv
  <2> QED BY <2>1, <2>4, <2>6, <2>7, EngineGoesOn
<1>4. CASE CarriesOutSeek
  <2>1. /\ UNCHANGED <<mState, pc, source, playing, looper, mSetSurfaceInProgress, mIsAsyncPrepare>>
        /\ UNCHANGED requests /\ ~atEnd' /\ Carries("Seek")
    BY <1>4 DEF CarriesOutSeek, flagVars, threadVars
  <2>2. NothingPosted
    BY <2>1, CarriedOut DEF NothingPosted, NoMore
  <2> QED BY <2>1, <2>2, EngineGoesOn
<1>5. CASE AnswersSeek
  <2>1. /\ UNCHANGED <<pc, source, playing, looper, mSetSurfaceInProgress, mIsAsyncPrepare, atEnd>>
        /\ UNCHANGED <<requests, deferred>>
        /\ mState' = mState \/ (mState = "STOPPED_AND_PREPARING" /\ mState' = "STOPPED_AND_PREPARED")
    BY <1>5 DEF AnswersSeek
  <2> QED BY <2>1, QueuesLeft, EngineGoesOn DEF Started
<1>6. CASE OldSourcePrepared
  <2>1. source = "NULL"
    BY <1>6 DEF OldSourcePrepared, StaleAnswerFindsNone
  <2>2. /\ UNCHANGED <<pc, source, playing, looper, mSetSurfaceInProgress, mIsAsyncPrepare, atEnd>>
        /\ UNCHANGED <<mState, requests, deferred>>
    BY <1>6, <2>1 DEF OldSourcePrepared
  <2> QED BY <2>2, QueuesLeft, EngineGoesOn
<1>7. CASE AfterTellingPrepared
  <2>1. /\ UNCHANGED <<mState, pc, source, playing, mSetSurfaceInProgress, mIsAsyncPrepare, atEnd>>
        /\ UNCHANGED <<requests, deferred>> /\ looper' = "idle"
    BY <1>7 DEF AfterTellingPrepared, flagVars
  <2>2. SessionGoesOn
    BY <2>1 DEF SessionGoesOn, Alive
  <2> QED BY <2>1, <2>2, QueuesLeft, ThreadsStay, CalmStep DEF CheckInv
<1> QED BY <1>1, <1>2, <1>3, <1>4, <1>5, <1>6, <1>7, TakesSetDataSourceChecks, PlainTakesChecks,
     TakesSlowRequestChecks, SurfaceCompletesChecks, CarriesOutResetChecks, SourcePreparedChecks
     DEF EngineStep

LEMMA CheckInit == Init => CheckInv
<1> SUFFICES ASSUME Init
             PROVE  CheckInv
  OBVIOUS
<1>1. requests = <<>> /\ deferred = <<>> /\ Controls \subseteq Threads /\ Surfaces \subseteq Threads
  BY DEF Init, Threads
<1>2. (\A w : ~Has(requests, w) /\ ~Has(deferred, w) /\ Few(requests, w) /\ Few(deferred, w))
         /\ ResetIsLast(requests)
  BY <1>1 DEF Has, Few, ResetIsLast
<1>3. SourceInv /\ ResetInv /\ PrepareInv /\ StartedInv /\ SurfaceInv
  BY <1>2 DEF Init, SourceInv, ResetInv, PrepareInv, StartedInv, SurfaceInv, OnceAtMost, Unset
<1>4. \A t \in Threads : pc[t] = "idle"
  BY DEF Init
<1>5. ThreadInv
  BY <1>1, <1>4 DEF ThreadInv
<1> QED BY <1>3, <1>5 DEF CheckInv, Alive, Init

LEMMA CheckStep ==
    ASSUME TypeOK, OneControls, StaleAnswerFindsNone, CheckInv, [Next]_vars
    PROVE  CheckInv'
<1>1. CASE \E t \in Controls : CallStep(t)
  BY <1>1, CallChecks
<1>2. CASE \E t \in Threads : SetVideoSurfaceTexture(t) \/ GoOn(t)
  BY <1>2, SurfaceChecks, GoOnChecks
<1>3. CASE EngineStep
  BY <1>3, EngineChecks
<1>4. CASE EndOfStream
  BY <1>4, EndOfStreamChecks
<1>5. CASE DecoderError \/ UNCHANGED vars
  <2>1. /\ UNCHANGED <<mState, pc, source, playing, looper, mSetSurfaceInProgress, mIsAsyncPrepare, atEnd>>
        /\ UNCHANGED <<requests, deferred>>
    BY <1>5 DEF DecoderError, vars, flagVars, threadVars, playerVars, engineVars
  <2> QED BY <2>1, QueuesLeft, EngineGoesOn
<1> QED BY <1>1, <1>2, <1>3, <1>4, <1>5 DEF Next

\* While the answer of a source that was cleared finds no source, no CHECK of a
\* callback fails: the driver waits for what the player tells it, whatever the
\* thread that controls playback and those that set surfaces have called since.
THEOREM CallbacksFindTheirState ==
    OneControls => (Spec /\ []StaleAnswerFindsNone => []CallbacksExpected)
<1> SUFFICES ASSUME OneControls
             PROVE  Spec /\ []StaleAnswerFindsNone => []CallbacksExpected
  OBVIOUS
<1>1. Init => CheckInv
  BY CheckInit
<1>2. TypeOK /\ StaleAnswerFindsNone /\ CheckInv /\ [Next]_vars => CheckInv'
  BY CheckStep
<1>3. CheckInv => CallbacksExpected
  BY DEF CheckInv, CallbacksExpected
<1> QED BY <1>1, <1>2, <1>3, DriverTypeCorrect, PTL DEF Spec

\* One data source in a run: the answer of one that was cleared finds none.
OnceInv ==
    /\ budget["source"] <= 1
    /\ mState # "IDLE" \/ oldSource => budget["source"] = 0
    /\ oldSource => mState = "IDLE"

LEMMA OnceFindsNone ==
    ASSUME CheckInv, OnceInv
    PROVE  StaleAnswerFindsNone
  BY DEF CheckInv, SourceInv, OnceInv, StaleAnswerFindsNone, Unset

LEMMA OnceStep ==
    ASSUME TypeOK, CheckInv, OnceInv, [Next]_vars
    PROVE  OnceInv'
<1> DEFINE left == budget["source"]
<1>1. left \in Nat /\ "source" \in BoundedEvents
  BY DEF TypeOK, BudgetTypeOK, BoundedEvents
<1>2. /\ \A e \in BoundedEvents : Spend(e) => left' \in Nat /\ left' <= left
      /\ Spend("source") => left # 0 /\ left' = left - 1
      /\ UNCHANGED budget => left' = left
  BY <1>1 DEF TypeOK, BudgetTypeOK, Spend
<1> HIDE DEF left
<1>3. /\ left <= 1
      /\ mState # "IDLE" \/ oldSource => left = 0
      /\ oldSource => mState = "IDLE"
  BY DEF OnceInv, left
<1> SUFFICES /\ left' <= 1
             /\ mState' # "IDLE" \/ oldSource' => left' = 0
             /\ oldSource' => mState' = "IDLE"
  BY DEF OnceInv, left
<1>4. ASSUME left' = left \/ (left' \in Nat /\ left' <= left), mState = "IDLE" => mState' = "IDLE",
             oldSource' => oldSource
      PROVE  /\ left' <= 1
             /\ mState' # "IDLE" \/ oldSource' => left' = 0
             /\ oldSource' => mState' = "IDLE"
  BY <1>1, <1>3, <1>4
<1>5. ASSUME NEW t \in Controls, CallStep(t) \/ SetVideoSurfaceTexture(t) \/ GoOn(t)
      PROVE  /\ left' <= 1
             /\ mState' # "IDLE" \/ oldSource' => left' = 0
             /\ oldSource' => mState' = "IDLE"
  <2>1. CASE SetDataSource(t)
    <3>1. Spend("source") /\ oldSource' = oldSource
      BY <2>1 DEF SetDataSource, Calls, engineVars
    <3> QED BY <1>1, <1>2, <1>3, <3>1
  <2>2. CASE SetVideoSurfaceTexture(t) \/ GoOn(t) \/ (CallStep(t) /\ ~SetDataSource(t))
    <3>1. UNCHANGED budget \/ \E e \in BoundedEvents : Spend(e)
      BY <2>2 DEF BoundedEvents, CallStep, Prepare, PrepareAsync, Start, Stop, Pause, SeekToBeforeStart,
        SeekTo, SeekToEnd, Reset, Calls, SetVideoSurfaceTexture, GoOn, PauseAfterTelling, SeekToAfterTelling,
        SeekToEndAfterTelling, ResetAfterTelling, SleepsAgain, Returns, ReturnsFromReset, StartGoesOn, Wakes
    <3>2. oldSource' = oldSource
      BY <2>2 DEF CallStep, Prepare, PrepareAsync, Start, Stop, Pause, engineVars, SeekToBeforeStart, SeekTo,
        SeekToEnd, Reset, Calls, SetVideoSurfaceTexture, GoOn, PauseAfterTelling, SeekToAfterTelling,
        SeekToEndAfterTelling, ResetAfterTelling, SleepsAgain, Returns, ReturnsFromReset, StartGoesOn, Wakes
    <3>3. mState = "IDLE" => pc[t] \notin {"resetPrepared", "resetStopped", "seekingEnd"}
      BY DEF CheckInv, ThreadInv, Live, Started, Unset
    <3>4. mState = "IDLE" => mState' = "IDLE"
      BY <2>2, <3>3 DEF CallStep, Prepare, PrepareAsync, Prepares, Start, StartPlayer, Stop, Pause,
        SeekToBeforeStart, SeekTo, SeekToEnd, Reset, SetVideoSurfaceTexture, GoOn, PauseAfterTelling,
        SeekToAfterTelling, SeekToEndAfterTelling, ResetAfterTelling, SleepsAgain, Returns, ReturnsFromReset,
        StartGoesOn
    <3> QED BY <1>2, <1>4, <3>1, <3>2, <3>4
  <2> QED BY <1>5, <2>1, <2>2
<1>6. ASSUME NEW t \in Surfaces, SetVideoSurfaceTexture(t) \/ GoOn(t)
      PROVE  /\ left' <= 1
             /\ mState' # "IDLE" \/ oldSource' => left' = 0
             /\ oldSource' => mState' = "IDLE"
  <2>1. pc[t] \in {"idle", "inSetSurface"}
    BY DEF CheckInv, ThreadInv
  <2>2. CASE SetVideoSurfaceTexture(t)
    <3>1. UNCHANGED <<mState, oldSource>> /\ Spend("surface") /\ "surface" \in BoundedEvents
      BY <2>2 DEF SetVideoSurfaceTexture, Calls, engineVars, BoundedEvents
    <3> QED BY <1>2, <1>4, <3>1
  <2>3. CASE GoOn(t)
    <3>1. UNCHANGED <<mState, oldSource, budget>>
      BY <2>1, <2>3 DEF GoOn, PauseAfterTelling, SeekToAfterTelling, SeekToEndAfterTelling, ResetAfterTelling,
        SleepsAgain, Returns, ReturnsFromReset, StartGoesOn, Wakes, engineVars
    <3> QED BY <1>2, <1>4, <3>1
  <2> QED BY <1>6, <2>2, <2>3
<1>7. CASE TakesSetDataSource
  <2>1. Takes("SetDataSource") /\ requests' = Tail(requests) /\ UNCHANGED <<oldSource, budget>>
    BY <1>7 DEF TakesSetDataSource, Takes
  <2>2. mState = "SET_DATASOURCE_PENDING"
    BY <2>1, Taken DEF CheckInv, SourceInv
  <2> QED BY <1>2, <1>3, <2>1, <2>2
<1>8. CASE CarriesOutReset
  <2>1. Carries("Reset") /\ mState' = "IDLE" /\ UNCHANGED budget
    BY <1>8 DEF CarriesOutReset, Carries
  <2>2. mState = "RESET_IN_PROGRESS"
    BY <2>1, CarriedOut DEF CheckInv, ResetInv
  <2> QED BY <1>2, <1>3, <2>1, <2>2
<1>9. CASE TakesPlaybackComplete
  <2>1. Takes("PlaybackComplete") /\ UNCHANGED <<oldSource, budget>>
    BY <1>9 DEF TakesPlaybackComplete, Takes
  <2>2. Has(requests, "PlaybackComplete")
    BY <2>1, HasTaken, QueuesAre DEF Takes
  <2>3. mState # "IDLE"
    BY <2>2 DEF CheckInv, StartedInv, Started
  <2> QED BY <1>2, <1>4, <2>1, <2>3
<1>10. CASE SourcePrepared
  <2>1. oldSource' = oldSource /\ (UNCHANGED budget \/ (Spend("error") /\ "error" \in BoundedEvents))
    BY <1>10 DEF SourcePrepared, BoundedEvents
  <2>2. mState # "IDLE"
    BY <1>10 DEF SourcePrepared, CheckInv, PrepareInv
  <2> QED BY <1>2, <1>4, <2>1, <2>2
<1>11. CASE OldSourcePrepared
  <2>1. source = "NULL"
    BY <1>11, OnceFindsNone DEF OldSourcePrepared, StaleAnswerFindsNone
  <2>2. UNCHANGED <<mState, budget>> /\ ~oldSource'
    BY <1>11, <2>1 DEF OldSourcePrepared
  <2> QED BY <1>2, <1>4, <2>2
<1>12. CASE \/ TakesPrepare \/ TakesStart \/ TakesPause \/ TakesSlowRequest \/ TakesOutdated
            \/ TakesSetSurface \/ CarriesOutSeek \/ CarriesOutSetSurface \/ AnswersSeek
            \/ AfterTellingPrepared \/ DecoderError \/ UNCHANGED vars \/ EndOfStream
  <2>1. /\ oldSource' = oldSource /\ (mState = "IDLE" => mState' = "IDLE")
        /\ UNCHANGED budget \/ \E e \in BoundedEvents : Spend(e)
    BY <1>12 DEF TakesPrepare, TakesStart, TakesPause, TakesSlowRequest, TakesOutdated, BoundedEvents,
      TakesSetSurface, CarriesOutSeek, CarriesOutSetSurface, AnswersSeek, SurfaceCompletes,
      AfterTellingPrepared, DecoderError, vars, EndOfStream, Takes, Carries, playerVars, engineVars
  <2> QED BY <1>2, <1>4, <2>1
<1> QED BY <1>5, <1>6, <1>7, <1>8, <1>9, <1>10, <1>11, <1>12 DEF Next, EngineStep, Threads

\* As long as one data source is set the answer of a source that was cleared
\* finds none, and no CHECK of a callback fails, without any condition.
THEOREM CallbacksOfOneSource ==
    OneControls /\ Budget["source"] <= 1 => (Spec => []CallbacksExpected)
<1> SUFFICES ASSUME OneControls, Budget["source"] <= 1
             PROVE  Spec => []CallbacksExpected
  OBVIOUS
<1>1. Init => CheckInv /\ OnceInv
  BY CheckInit DEF Init, OnceInv
<1>2. TypeOK /\ CheckInv /\ OnceInv /\ [Next]_vars => CheckInv' /\ OnceInv'
  BY CheckStep, OnceStep, OnceFindsNone
<1>3. CheckInv => CallbacksExpected
  BY DEF CheckInv, CallbacksExpected
<1> QED BY <1>1, <1>2, <1>3, DriverTypeCorrect, PTL DEF Spec

-----------------------------------------------------------------------------
(* The player follows the driver.                                           *)

\* What is posted last decides.
LEMMA LastPosted ==
    ASSUME NEW q \in Seq(Message), NEW m \in Message
    PROVE  LET r == q \o <<m>>
           IN  /\ m.what = "Start" => StartsLast(r)
               /\ m.what = "Pause" => ~StartsLast(r) /\ ~Undecided(r)
               /\ m.what \notin {"Start", "Pause"} =>
                     (StartsLast(r) <=> StartsLast(q)) /\ (Undecided(r) <=> Undecided(q))
<1> DEFINE r == q \o <<m>>
           n == Len(q) + 1
<1>1. /\ DOMAIN r = DOMAIN q \cup {n} /\ n \notin DOMAIN q /\ r[n] = m
      /\ \A i \in DOMAIN q : r[i] = q[i] /\ i < n
      /\ \A i \in DOMAIN r : ~(i > n)
      /\ n \in Nat /\ DOMAIN q \subseteq Nat
  OBVIOUS
<1> HIDE DEF r, n
<1>2. m.what = "Start" => StartsLast(r)
  BY <1>1 DEF StartsLast
<1>3. m.what = "Pause" => ~Undecided(r)
  BY <1>1 DEF Undecided, Has
<1>4. ASSUME m.what = "Pause", StartsLast(r)
      PROVE  FALSE
  <2>1. PICK i \in DOMAIN r : r[i].what = "Start" /\ \A j \in DOMAIN r : j > i => r[j].what \notin {"Start", "Pause"}
    BY <1>4 DEF StartsLast
  <2>2. i # n /\ i < n /\ n \in DOMAIN r
    BY <1>1, <1>4, <2>1
  <2>3. n > i
    BY <1>1, <2>1, <2>2
  <2> QED BY <1>1, <1>4, <2>1, <2>2, <2>3
<1>5. ASSUME m.what \notin {"Start", "Pause"}
      PROVE  (StartsLast(r) <=> StartsLast(q)) /\ (Undecided(r) <=> Undecided(q))
  <2>1. Undecided(r) <=> Undecided(q)
    BY <1>1, <1>5 DEF Undecided, Has
  <2>2. StartsLast(r) => StartsLast(q)
    BY <1>1, <1>5 DEF StartsLast
  <2>3. StartsLast(q) => StartsLast(r)
    BY <1>1, <1>5 DEF StartsLast
  <2> QED BY <2>1, <2>2, <2>3
<1> QED BY <1>2, <1>3, <1>4, <1>5 DEF r

\* What is taken first is what the player does until the next.
LEMMA LastTaken ==
    ASSUME NEW q \in Seq(Message), q # <<>>
    PROVE  LET w == Head(q).what
               t == Tail(q)
           IN  /\ w = "Start" => ~Undecided(q) /\ (StartsLast(q) <=> StartsLast(t) \/ Undecided(t))
               /\ w = "Pause" => ~Undecided(q) /\ (StartsLast(q) <=> StartsLast(t))
               /\ w \notin {"Start", "Pause"} =>
                     (StartsLast(q) <=> StartsLast(t)) /\ (Undecided(q) <=> Undecided(t))
<1> DEFINE t == Tail(q)
           h == Head(q)
<1>1. /\ \A i \in DOMAIN t : i + 1 \in DOMAIN q /\ t[i] = q[i + 1]
      /\ \A i \in DOMAIN q : i = 1 \/ (i - 1 \in DOMAIN t /\ t[i - 1] = q[i])
      /\ 1 \in DOMAIN q /\ q[1] = h
      /\ DOMAIN t \subseteq Nat /\ DOMAIN q \subseteq Nat
      /\ \A i \in DOMAIN t : i >= 1
  OBVIOUS
<1> HIDE DEF t, h
<1>2. /\ h.what \in {"Start", "Pause"} => ~Undecided(q)
      /\ h.what \notin {"Start", "Pause"} => (Undecided(q) <=> Undecided(t))
  BY <1>1 DEF Undecided, Has
<1>3. ASSUME StartsLast(t)
      PROVE  StartsLast(q)
  <2>1. PICK i \in DOMAIN t : t[i].what = "Start" /\ \A j \in DOMAIN t : j > i => t[j].what \notin {"Start", "Pause"}
    BY <1>3 DEF StartsLast
  <2>2. i + 1 \in DOMAIN q /\ q[i + 1].what = "Start"
    BY <1>1, <2>1
  <2>3. ASSUME NEW j \in DOMAIN q, j > i + 1
        PROVE  q[j].what \notin {"Start", "Pause"}
    <3>1. j # 1 /\ j - 1 \in DOMAIN t /\ t[j - 1] = q[j] /\ j - 1 > i
      BY <1>1, <2>1, <2>3
    <3> QED BY <2>1, <3>1
  <2> QED BY <2>2, <2>3 DEF StartsLast
<1>4. ASSUME StartsLast(q)
      PROVE  StartsLast(t) \/ (h.what = "Start" /\ Undecided(t))
  <2>1. PICK i \in DOMAIN q : q[i].what = "Start" /\ \A j \in DOMAIN q : j > i => q[j].what \notin {"Start", "Pause"}
    BY <1>4 DEF StartsLast
  <2>2. CASE i = 1
    <3>1. \A j \in DOMAIN t : t[j].what \notin {"Start", "Pause"}
      <4> TAKE j \in DOMAIN t
      <4>1. j + 1 \in DOMAIN q /\ t[j] = q[j + 1] /\ j + 1 > i
        BY <1>1, <2>2
      <4> QED BY <2>1, <4>1
    <3> QED BY <1>1, <2>1, <2>2, <3>1 DEF Undecided, Has
  <2>3. CASE i # 1
    <3>1. i - 1 \in DOMAIN t /\ t[i - 1].what = "Start"
      BY <1>1, <2>1, <2>3
    <3>2. ASSUME NEW j \in DOMAIN t, j > i - 1
          PROVE  t[j].what \notin {"Start", "Pause"}
      <4>1. j + 1 \in DOMAIN q /\ t[j] = q[j + 1] /\ j + 1 > i
        BY <1>1, <2>1, <3>2
      <4> QED BY <2>1, <4>1
    <3> QED BY <3>1, <3>2 DEF StartsLast
  <2> QED BY <2>2, <2>3
<1>5. ASSUME h.what = "Start", Undecided(t)
      PROVE  StartsLast(q)
  <2>1. ASSUME NEW j \in DOMAIN q, j > 1
        PROVE  q[j].what \notin {"Start", "Pause"}
    <3>1. j # 1
      BY <1>1, <2>1
    <3>2. j - 1 \in DOMAIN t /\ t[j - 1] = q[j]
      BY <1>1, <3>1
    <3> QED BY <1>5, <3>2 DEF Undecided, Has
  <2> QED BY <1>1, <1>5, <2>1 DEF StartsLast
<1> QED BY <1>2, <1>3, <1>4, <1>5 DEF t, h

\* A queue without a start.
LEMMA NoStart ==
    ASSUME NEW q, ~Has(q, "Start")
    PROVE  ~StartsLast(q)
  BY DEF StartsLast, Has

-----------------------------------------------------------------------------
\* A step that neither starts nor pauses, and after which the end of the streams
\* is known to the driver as before.
WillPlaySame == WillPlay' <=> WillPlay
AheadStays == EndIsAhead => EndIsAhead'

LEMMA FollowKept ==
    ASSUME FollowInv, WillPlaySame, mState' # "RESET_IN_PROGRESS" => mState # "RESET_IN_PROGRESS",
           mState' # "RESET_IN_PROGRESS" => (mState' = "RUNNING" <=> mState = "RUNNING"),
           atEnd' => atEnd /\ AheadStays /\ (mAtEOS => mAtEOS'),
           \A t \in Controls : pc[t] \in {"pausing", "seeking"} => pc'[t] = pc[t]
    PROVE  FollowInv'
<1> SUFFICES ASSUME mState' # "RESET_IN_PROGRESS"
             PROVE  /\ (\A t \in Controls : pc'[t] # "pausing") => (WillPlay' <=> mState' = "RUNNING")
                    /\ atEnd' => EndIsAhead' \/ EndIsKnown'
  BY DEF FollowInv
<1>1. /\ (\A t \in Controls : pc[t] # "pausing") => (WillPlay <=> mState = "RUNNING")
      /\ atEnd => EndIsAhead \/ EndIsKnown
  BY DEF FollowInv
<1>2. (\A t \in Controls : pc'[t] # "pausing") => (\A t \in Controls : pc[t] # "pausing")
  OBVIOUS
<1>3. ASSUME atEnd', EndIsKnown
      PROVE  EndIsKnown'
  BY <1>3 DEF EndIsKnown
<1> QED BY <1>1, <1>2, <1>3 DEF WillPlaySame, AheadStays

LEMMA PlainQueues ==
    ASSUME UNCHANGED <<requests, playing>>
    PROVE  WillPlaySame /\ (UNCHANGED deferred => AheadStays)
  BY DEF WillPlaySame, WillPlay, AheadStays, EndIsAhead

\* A request that neither starts nor pauses is posted.
LEMMA PlainPosted ==
    ASSUME TypeOK, NEW m \in Message, m.what \notin {"Start", "Pause"}, requests' = requests \o <<m>>,
           UNCHANGED <<playing, deferred>>
    PROVE  /\ WillPlaySame /\ AheadStays
           /\ m.what \in {"Seek", "PlaybackComplete"} => EndIsAhead'
<1>1. \A w : Has(requests', w) <=> Has(requests, w) \/ w = m.what
  BY Posted
<1>2. (StartsLast(requests') <=> StartsLast(requests)) /\ (Undecided(requests') <=> Undecided(requests))
  BY LastPosted, QueuesAre
<1> QED BY <1>1, <1>2 DEF WillPlaySame, WillPlay, AheadStays, EndIsAhead

LEMMA PausePosted ==
    ASSUME TypeOK, requests' = requests \o <<M("Pause", FALSE)>>, UNCHANGED <<playing, deferred>>
    PROVE  ~WillPlay' /\ AheadStays
<1> DEFINE m == M("Pause", FALSE)
<1>1. m \in Message /\ m.what = "Pause" /\ requests' = requests \o <<m>>
  BY Whats
<1> HIDE DEF m
<1>2. \A w : Has(requests', w) <=> Has(requests, w) \/ w = m.what
  BY <1>1, Posted
<1>3. ~StartsLast(requests') /\ ~Undecided(requests')
  BY <1>1, LastPosted, QueuesAre
<1> QED BY <1>2, <1>3 DEF WillPlay, AheadStays, EndIsAhead

\* The thread that controls playback goes on from anywhere but a telling.
LEMMA NotTelling ==
    ASSUME TypeOK, OneControls, NEW t \in Controls, pc[t] \notin {"pausing", "seeking"}
    PROVE  /\ \A u \in Controls : pc[u] \in {"pausing", "seeking"} => pc'[u] = pc[u]
           /\ \A u \in Controls : pc[u] # "pausing" /\ pc[u] # "seeking"
  BY DEF OneControls

LEMMA SeekPosted ==
    ASSUME TypeOK, NEW f \in BOOLEAN, Post(<<M("Seek", f)>>), UNCHANGED <<playing, deferred>>
    PROVE  WillPlaySame /\ AheadStays /\ EndIsAhead'
<1> DEFINE m == M("Seek", f)
<1>1. m \in Message /\ m.what = "Seek" /\ requests' = requests \o <<m>>
  BY Whats DEF Post, M, Message
<1> HIDE DEF m
<1> QED BY <1>1, PlainPosted

\* Playback starts, or starts again from the beginning.
LEMMA StartPlayerFollows ==
    ASSUME TypeOK, OneControls, CheckInv, FollowInv, NEW t \in Controls, NEW restarts \in BOOLEAN,
           StartPlayer(t, restarts), mState \in {"PAUSED", "STOPPED_AND_PREPARED", "PREPARED"},
           mState # "PREPARED" => restarts, pc[t] \notin {"pausing", "seeking"},
           UNCHANGED engineVars
    PROVE  FollowInv'
<1> DEFINE a == <<M("Start", FALSE)>>
           b == <<M("Seek", FALSE)>>
           q == requests \o a
<1>1. /\ UNCHANGED <<deferred, playing, atEnd>> /\ mState' = "RUNNING"
      /\ \/ requests' = requests \o (a \o b)
         \/ requests' = requests \o (a \o <<>>) /\ ~(mStartupSeek \/ (restarts /\ mAtEOS))
  BY DEF engineVars, StartPlayer, Post
<1>2. /\ a \in Seq(Message) /\ b \in Seq(Message) /\ requests \in Seq(Message)
      /\ q \in Seq(Message)
  <2>1. a \in Seq(Message) /\ b \in Seq(Message) /\ requests \in Seq(Message)
    BY Whats, OneMessage, QueuesAre
  <2> QED BY <2>1, ConcatenationType
<1>3. StartsLast(q) /\ \A w : Has(q, w) <=> Has(requests, w) \/ w = "Start"
  <2> DEFINE m == M("Start", FALSE)
  <2>1. m \in Message /\ m.what = "Start"
    BY Whats
  <2> HIDE DEF m
  <2>2. StartsLast(requests \o <<m>>) /\ \A w : Has(<<m>>, w) <=> w = "Start"
    BY <2>1, LastPosted, HasOne, QueuesAre
  <2>3. \A w : Has(requests \o <<m>>, w) <=> Has(requests, w) \/ Has(<<m>>, w)
    BY <2>1, HasPosted, QueuesAre, OneMessage
  <2> QED BY <2>2, <2>3 DEF m
<1>4. StartsLast(q \o b) /\ \A w : Has(q \o b, w) <=> Has(q, w) \/ w = "Seek"
  <2> DEFINE m == M("Seek", FALSE)
  <2>1. m \in Message /\ m.what = "Seek"
    BY Whats
  <2> HIDE DEF m, q
  <2>2. StartsLast(q \o <<m>>) /\ \A w : Has(<<m>>, w) <=> w = "Seek"
    BY <1>2, <1>3, <2>1, LastPosted, HasOne
  <2>3. \A w : Has(q \o <<m>>, w) <=> Has(q, w) \/ Has(<<m>>, w)
    BY <1>2, <2>1, HasPosted, OneMessage
  <2> QED BY <2>2, <2>3 DEF m
<1>5. requests \o (a \o b) = q \o b /\ requests \o (a \o <<>>) = q
  <2> HIDE DEF a, b
  <2> QED BY <1>2
<1>6. WillPlay'
  BY <1>1, <1>3, <1>4, <1>5 DEF WillPlay
<1>7. ASSUME atEnd
      PROVE  EndIsAhead'
  <2>1. restarts /\ mState # "RESET_IN_PROGRESS"
    BY <1>7 DEF CheckInv, StartedInv, Started
  <2>2. EndIsAhead \/ mAtEOS
    BY <1>7, <2>1, NotTelling DEF FollowInv, EndIsKnown
  <2> QED BY <1>1, <1>3, <1>4, <1>5, <2>1, <2>2 DEF EndIsAhead
<1> QED BY <1>1, <1>6, <1>7 DEF FollowInv

LEMMA PreparesFollows ==
    ASSUME TypeOK, OneControls, CheckInv, FollowInv, NEW t \in Controls, NEW async \in BOOLEAN,
           NEW place, NEW stoppedPlace, Calls(t, "control"), Prepares(t, async, place, stoppedPlace)
    PROVE  FollowInv'
<1>1. pc[t] = "idle" /\ UNCHANGED <<deferred, playing, atEnd>>
  BY DEF Calls, engineVars
<1>2. CASE mState = "UNPREPARED" /\ mState' = "PREPARING" /\ Post(<<M("Prepare", FALSE)>>) /\ UNCHANGED mAtEOS
  <2> DEFINE m == M("Prepare", FALSE)
  <2>1. m \in Message /\ m.what = "Prepare" /\ requests' = requests \o <<m>>
    BY <1>2, Whats DEF Post
  <2> HIDE DEF m
  <2> QED BY <1>1, <1>2, <2>1, PlainPosted, NotTelling, FollowKept
<1>3. CASE mState = "STOPPED" /\ mState' = "STOPPED_AND_PREPARING" /\ Post(<<M("Seek", TRUE)>>)
  <2>1. WillPlaySame /\ EndIsAhead'
    BY <1>1, <1>3, SeekPosted
  <2> QED BY <1>1, <1>3, <2>1, NotTelling DEF FollowInv, WillPlaySame
<1> QED BY <1>2, <1>3, Zenon DEF Prepares

LEMMA CallFollows ==
    ASSUME TypeOK, OneControls, CheckInv, FollowInv, NEW t \in Controls, CallStep(t)
    PROVE  FollowInv'
<1>1. pc[t] = "idle" /\ UNCHANGED <<deferred, playing, atEnd>>
  BY DEF CallStep, SetDataSource, Prepare, PrepareAsync, Start, Stop, Pause, SeekToBeforeStart, SeekTo,
    SeekToEnd, Reset, Calls, engineVars
<1>2. \A u \in Controls : pc[u] # "pausing" /\ pc[u] # "seeking"
  BY <1>1, NotTelling
<1>3. CASE SetDataSource(t)
  <2>1. PICK ok \in BOOLEAN : Post(<<M("SetDataSource", ok)>>)
    BY <1>3, Zenon DEF SetDataSource
  <2>2. mState = "IDLE" /\ mState' = "SET_DATASOURCE_PENDING" /\ UNCHANGED mAtEOS
    BY <1>3 DEF SetDataSource, flagVars
  <2> DEFINE m == M("SetDataSource", ok)
  <2>3. m \in Message /\ m.what = "SetDataSource" /\ requests' = requests \o <<m>>
    BY <2>1, Whats DEF Post
  <2> HIDE DEF m
  <2> QED BY <1>1, <1>2, <2>2, <2>3, PlainPosted, FollowKept
<1>4. CASE Prepare(t) \/ PrepareAsync(t)
  BY <1>4, PreparesFollows DEF Prepare, PrepareAsync
<1>5. CASE Start(t)
  <2>1. Calls(t, "control") /\ UNCHANGED engineVars
    BY <1>5 DEF Start, Calls
  <2>2. CASE Prepares(t, FALSE, "inStart", "inStart")
    BY <2>1, <2>2, PreparesFollows
  <2>3. CASE mState \in {"PAUSED", "STOPPED_AND_PREPARED", "PREPARED"} /\ StartPlayer(t, mState # "PREPARED")
    <3>1. (mState # "PREPARED") \in BOOLEAN
      OBVIOUS
    <3> QED BY <1>1, <2>1, <2>3, <3>1, StartPlayerFollows
  <2>4. CASE mState = "RUNNING" /\ Post(<<M("Seek", FALSE)>>) /\ UNCHANGED <<mState, pc>>
    <3>1. WillPlaySame /\ EndIsAhead'
      BY <1>1, <2>4, SeekPosted
    <3> QED BY <1>1, <2>4, <3>1 DEF FollowInv, WillPlaySame
  <2>5. \/ Prepares(t, FALSE, "inStart", "inStart")
        \/ mState \in {"PAUSED", "STOPPED_AND_PREPARED", "PREPARED"} /\ StartPlayer(t, mState # "PREPARED")
        \/ mState = "RUNNING" /\ Post(<<M("Seek", FALSE)>>) /\ UNCHANGED <<mState, pc>>
    BY <1>5, Zenon DEF Start
  <2> QED BY <2>2, <2>3, <2>4, <2>5
<1>6. CASE Stop(t)
  <2>1. /\ mState # "RESET_IN_PROGRESS" /\ mState' = "STOPPED" /\ UNCHANGED mAtEOS
        /\ UNCHANGED pc
        /\ \/ mState = "RUNNING" /\ Post(<<M("Pause", FALSE)>>)
           \/ mState # "RUNNING" /\ Post(<<>>)
    BY <1>6 DEF Stop, flagVars
  <2>2. CASE mState = "RUNNING" /\ Post(<<M("Pause", FALSE)>>)
    <3>1. ~WillPlay' /\ AheadStays
      BY <1>1, <2>2, PausePosted DEF Post
    <3>2. atEnd => EndIsAhead
      BY <2>2 DEF FollowInv, EndIsKnown
    <3> QED BY <1>1, <2>1, <3>1, <3>2 DEF FollowInv, AheadStays
  <2>3. CASE mState # "RUNNING" /\ Post(<<>>)
    <3>1. requests' = requests
      BY <2>3, QueuesAre DEF Post
    <3> QED BY <1>1, <2>1, <2>3, <3>1, PlainQueues, FollowKept
  <2> QED BY <2>1, <2>2, <2>3
<1>7. CASE Pause(t)
  <2>1. /\ mState = "RUNNING" /\ mState' = "PAUSED" /\ UNCHANGED mAtEOS
        /\ UNCHANGED requests /\ Goes(t, "pausing")
    BY <1>7 DEF Pause, flagVars
  <2>2. pc'[t] = "pausing"
    BY <2>1, QueuesAre DEF Goes, Threads
  <2>3. atEnd' => EndIsAhead'
    BY <1>1, <2>1 DEF FollowInv, EndIsKnown, EndIsAhead
  <2> QED BY <2>2, <2>3 DEF FollowInv
<1>8. CASE SeekToBeforeStart(t) \/ SeekToEnd(t)
  <2>1. UNCHANGED <<mState, mAtEOS, requests>>
    BY <1>8 DEF SeekToBeforeStart, SeekToEnd, flagVars
  <2> QED BY <1>1, <1>2, <2>1, PlainQueues, FollowKept
<1>9. CASE SeekTo(t)
  <2>1. /\ mState # "RESET_IN_PROGRESS" /\ UNCHANGED <<mState, requests>>
        /\ Goes(t, "seeking")
    BY <1>9 DEF SeekTo
  <2>2. pc'[t] = "seeking"
    BY <2>1, QueuesAre DEF Goes, Threads
  <2>3. WillPlay' <=> WillPlay
    BY <1>1, <2>1, PlainQueues DEF WillPlaySame
  <2>4. atEnd' => EndIsAhead' \/ EndIsKnown'
    BY <1>1, <2>1, <2>2 DEF FollowInv, EndIsKnown, EndIsAhead
  <2> QED BY <1>2, <2>1, <2>3, <2>4 DEF FollowInv
<1>10. CASE Reset(t)
  <2>1. \/ mState' = "RESET_IN_PROGRESS"
        \/ UNCHANGED <<mState, mAtEOS, requests>>
    BY <1>10 DEF Reset, AsksForReset, TellsStopped, flagVars
  <2>2. CASE mState' = "RESET_IN_PROGRESS"
    BY <2>2 DEF FollowInv
  <2>3. CASE UNCHANGED <<mState, mAtEOS, requests>>
    BY <1>1, <1>2, <2>3, PlainQueues, FollowKept
  <2> QED BY <2>1, <2>2, <2>3
<1> QED BY <1>3, <1>4, <1>5, <1>6, <1>7, <1>8, <1>9, <1>10 DEF CallStep

\* The end of the streams: the driver loops, pauses, or is being reset.
LEMMA CompletesFollows ==
    ASSUME TypeOK, NEW queue \in Seq(Message), PlaybackCompletes(queue), UNCHANGED <<playing, deferred>>,
           mState # "RESET_IN_PROGRESS"
    PROVE  \/ /\ UNCHANGED mState /\ EndIsAhead'
              /\ StartsLast(requests') <=> StartsLast(queue)
              /\ Undecided(requests') <=> Undecided(queue)
           \/ mState' = "PAUSED" /\ mAtEOS' /\ ~WillPlay'
<1> DEFINE s == M("Seek", FALSE)
           p == M("Pause", FALSE)
<1>1. s \in Message /\ p \in Message /\ s.what = "Seek" /\ p.what = "Pause"
  BY Whats
<1>2. \/ requests' = Append(queue, s) /\ UNCHANGED mState
      \/ requests' = Append(queue, p) /\ mState' = "PAUSED" /\ mAtEOS' = TRUE
  BY DEF PlaybackCompletes
<1> HIDE DEF s, p
<1>3. CASE requests' = Append(queue, s) /\ UNCHANGED mState
  <2>1. requests' = queue \o <<s>> /\ <<s>> \in Seq(Message)
    BY <1>1, <1>3, HasOne, OneMessage
  <2>2. /\ StartsLast(requests') <=> StartsLast(queue)
        /\ Undecided(requests') <=> Undecided(queue)
    BY <1>1, <2>1, LastPosted
  <2>3. Has(requests', "Seek")
    BY <1>1, <2>1, HasOne, HasPosted
  <2> QED BY <1>3, <2>2, <2>3 DEF EndIsAhead
<1>4. CASE requests' = Append(queue, p) /\ mState' = "PAUSED" /\ mAtEOS' = TRUE
  <2>1. requests' = queue \o <<p>>
    BY <1>1, <1>4, HasOne
  <2>2. ~StartsLast(requests') /\ ~Undecided(requests')
    BY <1>1, <2>1, LastPosted
  <2> QED BY <1>4, <2>2 DEF WillPlay
<1> QED BY <1>2, <1>3, <1>4

LEMMA GoOnFollows ==
    ASSUME TypeOK, OneControls, CheckInv, FollowInv, NEW t \in Threads, GoOn(t)
    PROVE  FollowInv'
<1>1. UNCHANGED <<engineVars, deferred, playing, atEnd>>
  BY DEF GoOn, PauseAfterTelling, SeekToAfterTelling, SeekToEndAfterTelling, ResetAfterTelling, SleepsAgain,
    Returns, ReturnsFromReset, StartGoesOn, Wakes, engineVars
<1>2. pc[t] \notin {"idle", "inSetSurface"} => t \in Controls
  BY DEF CheckInv, ThreadInv, Threads
<1>3. CASE PauseAfterTelling(t)
  <2>1. /\ UNCHANGED <<mState, mAtEOS>> /\ pc[t] = "pausing" /\ Post(<<M("Pause", FALSE)>>)
    BY <1>3 DEF PauseAfterTelling, flagVars
  <2>2. t \in Controls /\ mState = "PAUSED"
    BY <1>2, <2>1 DEF CheckInv, ThreadInv
  <2>3. ~WillPlay' /\ AheadStays
    BY <1>1, <2>1, PausePosted DEF Post
  <2>4. \A u \in Controls : pc[u] # "seeking"
    BY <2>1, <2>2 DEF OneControls
  <2> QED BY <1>1, <2>1, <2>2, <2>3, <2>4 DEF FollowInv, AheadStays, EndIsKnown
<1>4. CASE SeekToAfterTelling(t)
  <2>1. UNCHANGED mState /\ pc[t] = "seeking" /\ Post(<<M("Seek", TRUE)>>)
    BY <1>4 DEF SeekToAfterTelling
  <2>2. t \in Controls
    BY <1>2, <2>1
  <2>3. WillPlaySame /\ EndIsAhead'
    BY <1>1, <2>1, SeekPosted
  <2>4. \A u \in Controls : pc[u] # "pausing"
    BY <2>1, <2>2 DEF OneControls
  <2> QED BY <1>1, <2>1, <2>3, <2>4 DEF FollowInv, WillPlaySame
<1>5. CASE SeekToEndAfterTelling(t)
  <2>1. pc[t] = "seekingEnd" /\ PlaybackCompletes(requests)
    BY <1>5 DEF SeekToEndAfterTelling
  <2>2. t \in Controls /\ mState # "RESET_IN_PROGRESS"
    BY <1>2, <2>1 DEF CheckInv, ThreadInv, Live, Started
  <2>3. \A u \in Controls : pc[u] # "pausing"
    BY <2>1, <2>2, NotTelling
  <2>4. \/ /\ UNCHANGED mState /\ EndIsAhead'
           /\ StartsLast(requests') <=> StartsLast(requests)
           /\ Undecided(requests') <=> Undecided(requests)
        \/ mState' = "PAUSED" /\ mAtEOS' /\ ~WillPlay'
    BY <1>1, <2>1, <2>2, CompletesFollows, QueuesAre
  <2>5. CASE /\ UNCHANGED mState /\ EndIsAhead'
             /\ StartsLast(requests') <=> StartsLast(requests)
             /\ Undecided(requests') <=> Undecided(requests)
    <3>1. WillPlay' <=> WillPlay
      BY <1>1, <2>5 DEF WillPlay
    <3> QED BY <2>2, <2>3, <2>5, <3>1 DEF FollowInv
  <2>6. CASE mState' = "PAUSED" /\ mAtEOS' /\ ~WillPlay'
    BY <2>6 DEF FollowInv, EndIsKnown
  <2> QED BY <2>4, <2>5, <2>6
<1>6. CASE ResetAfterTelling(t)
  <2>1. pc[t] \in {"resetPrepared", "resetStopped"}
    BY <1>6 DEF ResetAfterTelling
  <2>2. \/ mState' = "RESET_IN_PROGRESS"
        \/ UNCHANGED <<mState, mAtEOS, requests>>
    BY <1>6 DEF ResetAfterTelling, AsksForReset, TellsStopped, flagVars
  <2>3. CASE mState' = "RESET_IN_PROGRESS"
    BY <2>3 DEF FollowInv
  <2>4. CASE UNCHANGED <<mState, mAtEOS, requests>>
    BY <1>1, <1>2, <2>1, <2>4, NotTelling, PlainQueues, FollowKept
  <2> QED BY <2>2, <2>3, <2>4
<1>7. CASE SleepsAgain(t)
  <2>1. UNCHANGED <<mState, mAtEOS, requests, pc>>
    BY <1>7 DEF SleepsAgain, flagVars
  <2> QED BY <1>1, <2>1, PlainQueues, FollowKept
<1>8. CASE Returns(t) \/ ReturnsFromReset(t) \/ (StartGoesOn(t) /\ ~(mState = "PREPARED"))
  <2>1. UNCHANGED <<mState, mAtEOS, requests>> /\ Goes(t, "idle") /\ t \in woken
    BY <1>8 DEF Returns, ReturnsFromReset, StartGoesOn, Wakes, flagVars
  <2>2. pc[t] \in Waits
    BY <2>1 DEF TypeOK, ThreadTypeOK
  <2>3. \A u \in Controls : pc[u] \in {"pausing", "seeking"} => pc'[u] = pc[u]
    BY <2>1, <2>2, QueuesAre, Places DEF Goes, Threads
  <2> QED BY <1>1, <2>1, <2>3, PlainQueues, FollowKept
<1>9. CASE StartGoesOn(t) /\ mState = "PREPARED"
  <2>1. StartPlayer(t, TRUE) /\ pc[t] = "inStart"
    BY <1>9 DEF StartGoesOn
  <2> QED BY <1>1, <1>2, <1>9, <2>1, StartPlayerFollows
<1> QED BY <1>3, <1>4, <1>5, <1>6, <1>7, <1>8, <1>9 DEF GoOn

LEMMA SurfaceFollows ==
    ASSUME TypeOK, FollowInv, NEW t \in Threads, SetVideoSurfaceTexture(t)
    PROVE  FollowInv'
<1>1. /\ UNCHANGED <<mState, mAtEOS, deferred, playing, atEnd>>
      /\ Goes(t, "inSetSurface") /\ pc[t] = "idle"
      /\ requests' = requests \o <<M("SetSurface", FALSE)>>
  BY DEF SetVideoSurfaceTexture, Calls, engineVars, Post
<1> DEFINE m == M("SetSurface", FALSE)
<1>2. m \in Message /\ m.what = "SetSurface" /\ requests' = requests \o <<m>>
  BY <1>1, Whats
<1> HIDE DEF m
<1>3. \A u \in Controls : pc[u] \in {"pausing", "seeking"} => pc'[u] = pc[u]
  BY <1>1, QueuesAre DEF Goes, Threads
<1> QED BY <1>1, <1>2, <1>3, PlainPosted, FollowKept

LEMMA EndOfStreamFollows ==
    ASSUME TypeOK, FollowInv, EndOfStream
    PROVE  FollowInv'
<1>1. /\ UNCHANGED <<mState, mAtEOS, deferred, playing, pc>>
      /\ requests' = Append(requests, M("PlaybackComplete", FALSE))
  BY DEF EndOfStream, flagVars, threadVars
<1> DEFINE m == M("PlaybackComplete", FALSE)
<1>2. m \in Message /\ m.what = "PlaybackComplete" /\ requests' = Append(requests, m)
  BY <1>1, Whats
<1> HIDE DEF m
<1>3. requests' = requests \o <<m>>
  BY <1>2, HasOne, QueuesAre
<1>4. WillPlaySame /\ EndIsAhead'
  BY <1>1, <1>2, <1>3, PlainPosted
<1> QED BY <1>1, <1>4 DEF FollowInv, WillPlaySame

\* A request is taken that does not end playback.
LEMMA TakenFollows ==
    ASSUME TypeOK, FollowInv, NEW w, w \notin {"PlaybackComplete"}, Takes(w), requests' = Tail(requests),
           w = "Start" => playing', w = "Pause" => ~playing', w \notin {"Start", "Pause"} => UNCHANGED playing,
           \A v : Has(deferred, v) => Has(deferred', v) , w = "Seek" => Has(deferred', "Seek"),
           UNCHANGED <<pc, mAtEOS, atEnd>>,
           mState' # "RESET_IN_PROGRESS" => mState # "RESET_IN_PROGRESS",
           mState' # "RESET_IN_PROGRESS" => (mState' = "RUNNING" <=> mState = "RUNNING")
    PROVE  FollowInv'
<1>1. /\ w = "Start" => ~Undecided(requests) /\ (StartsLast(requests) <=> StartsLast(requests') \/ Undecided(requests'))
      /\ w = "Pause" => ~Undecided(requests) /\ (StartsLast(requests) <=> StartsLast(requests'))
      /\ w \notin {"Start", "Pause"} =>
            (StartsLast(requests) <=> StartsLast(requests')) /\ (Undecided(requests) <=> Undecided(requests'))
  BY LastTaken, QueuesAre DEF Takes
<1>2. WillPlaySame
  BY <1>1 DEF WillPlaySame, WillPlay
<1>3. \A v : Has(requests, v) <=> v = w \/ Has(requests', v)
  BY Taken
<1>4. AheadStays
  BY <1>3 DEF AheadStays, EndIsAhead
<1> QED BY <1>2, <1>4, FollowKept

LEMMA EngineFollows ==
    ASSUME TypeOK, StaleAnswerFindsNone, CheckInv, FollowInv, EngineStep
    PROVE  FollowInv'
<1>1. CASE TakesSetDataSource
  <2>1. /\ UNCHANGED <<deferred, playing, atEnd, pc, mAtEOS>>
        /\ Takes("SetDataSource") /\ requests' = Tail(requests)
        /\ mState' \in {"UNPREPARED", "IDLE"}
    BY <1>1 DEF TakesSetDataSource, flagVars
  <2>2. mState = "SET_DATASOURCE_PENDING"
    BY <2>1, Taken DEF CheckInv, SourceInv
  <2> QED BY <2>1, <2>2, TakenFollows
<1>2. CASE TakesPrepare \/ TakesOutdated
  <2>1. UNCHANGED <<mState, deferred, playing, atEnd, pc, mAtEOS>> /\ requests' = Tail(requests)
    BY <1>2 DEF TakesPrepare, TakesOutdated, flagVars, threadVars
  <2>2. Takes("Prepare") \/ Takes("Outdated")
    BY <1>2 DEF TakesPrepare, TakesOutdated
  <2> QED BY <2>1, <2>2, TakenFollows
<1>3. CASE TakesStart
  <2>1. /\ UNCHANGED <<mState, deferred, atEnd, pc, mAtEOS>> /\ playing'
        /\ Takes("Start") /\ requests' = Tail(requests)
    BY <1>3 DEF TakesStart, flagVars, threadVars
  <2> QED BY <2>1, TakenFollows
<1>4. CASE TakesPause
  <2>1. /\ UNCHANGED <<mState, deferred, atEnd, pc, mAtEOS>> /\ ~playing'
        /\ Takes("Pause") /\ requests' = Tail(requests)
    BY <1>4 DEF TakesPause, flagVars, threadVars
  <2> QED BY <2>1, TakenFollows
<1>5. CASE TakesSlowRequest
  <2>1. PICK w \in {"Seek", "SetSurface", "Reset"} : Takes(w)
    BY <1>5 DEF TakesSlowRequest
  <2>2. /\ UNCHANGED <<mState, playing, atEnd, pc, mAtEOS>>
        /\ requests' = Tail(requests) /\ deferred' = Append(deferred, Head(requests))
    BY <1>5 DEF TakesSlowRequest, flagVars, threadVars
  <2>3. \A v : Has(deferred', v) <=> Has(deferred, v) \/ v = w
    <3> DEFINE m == Head(requests)
               r == <<m>>
    <3>1. m \in Message /\ m.what = w
      BY <2>1, TailType, QueuesAre DEF Takes
    <3> HIDE DEF m
    <3>2. /\ r \in Seq(Message) /\ Append(deferred, m) = deferred \o r
          /\ \A v : Has(r, v) <=> v = w
      BY <3>1, HasOne, OneMessage, QueuesAre
    <3>3. deferred' = deferred \o r
      BY <2>2, <3>2 DEF m
    <3> HIDE DEF r
    <3> QED BY <3>2, <3>3, HasPosted, QueuesAre
  <2> QED BY <2>1, <2>2, <2>3, TakenFollows
<1>6. CASE TakesPlaybackComplete
  <2>1. /\ UNCHANGED <<pc, playing, atEnd, deferred>>
        /\ Takes("PlaybackComplete") /\ PlaybackCompletes(Tail(requests))
    BY <1>6 DEF TakesPlaybackComplete, threadVars
  <2>2. CASE mState = "RESET_IN_PROGRESS"
    <3>1. mState' = mState
      BY <2>1, <2>2 DEF PlaybackCompletes
    <3> QED BY <2>2, <3>1 DEF FollowInv
  <2>3. CASE mState # "RESET_IN_PROGRESS"
    <3> DEFINE queue == Tail(requests)
    <3>1. /\ queue \in Seq(Message) /\ requests # <<>> /\ PlaybackCompletes(queue)
          /\ StartsLast(requests) <=> StartsLast(queue)
          /\ Undecided(requests) <=> Undecided(queue)
      BY <2>1, TailType, QueuesAre, LastTaken DEF Takes
    <3> HIDE DEF queue
    <3>2. \/ /\ UNCHANGED mState /\ EndIsAhead'
             /\ StartsLast(requests') <=> StartsLast(queue)
             /\ Undecided(requests') <=> Undecided(queue)
          \/ mState' = "PAUSED" /\ mAtEOS' /\ ~WillPlay'
      BY <2>1, <2>3, <3>1, CompletesFollows
    <3>3. CASE /\ UNCHANGED mState /\ EndIsAhead'
               /\ StartsLast(requests') <=> StartsLast(queue)
               /\ Undecided(requests') <=> Undecided(queue)
      <4>1. WillPlay' <=> WillPlay
        BY <2>1, <3>1, <3>3 DEF WillPlay
      <4> QED BY <2>1, <2>3, <3>3, <4>1 DEF FollowInv
    <3>4. CASE mState' = "PAUSED" /\ mAtEOS' /\ ~WillPlay'
      BY <3>4 DEF FollowInv, EndIsKnown
    <3> QED BY <3>2, <3>3, <3>4
  <2> QED BY <2>2, <2>3
<1>7. CASE TakesSetSurface
  <2>1. /\ UNCHANGED <<mState, deferred, playing, atEnd, pc, mAtEOS>>
        /\ Takes("SetSurface") /\ requests' = Tail(requests)
    BY <1>7 DEF TakesSetSurface, SurfaceCompletes
  <2> QED BY <2>1, TakenFollows
<1>8. CASE CarriesOutSetSurface
  <2>1. /\ UNCHANGED <<mState, requests, playing, atEnd, pc, mAtEOS>>
        /\ Carries("SetSurface")
    BY <1>8 DEF CarriesOutSetSurface, SurfaceCompletes
  <2>2. AheadStays
    BY <2>1, CarriedOut DEF AheadStays, EndIsAhead
  <2> QED BY <2>1, <2>2, PlainQueues, FollowKept
<1>9. CASE CarriesOutSeek
  <2>1. UNCHANGED <<mState, requests, playing, pc>> /\ ~atEnd'
    BY <1>9 DEF CarriesOutSeek, threadVars
  <2> QED BY <2>1, PlainQueues, FollowKept
<1>10. CASE CarriesOutReset
  <2>1. /\ Carries("Reset") /\ requests' = Outdate(requests)
        /\ ~playing' /\ ~atEnd' /\ mState' = "IDLE"
    BY <1>10 DEF CarriesOutReset
  <2>2. ~Has(requests, "Start")
    BY <2>1, CarriedOut DEF CheckInv, ResetInv
  <2>3. ~Has(requests', "Start")
    BY <2>1, <2>2, HasOutdated, QueuesAre
  <2> QED BY <2>1, <2>3, NoStart DEF FollowInv, WillPlay
<1>11. CASE AnswersSeek
  <2>1. /\ UNCHANGED <<requests, deferred, playing, atEnd, pc, mAtEOS>>
        /\ mState' = mState \/ (mState = "STOPPED_AND_PREPARING" /\ mState' = "STOPPED_AND_PREPARED")
    BY <1>11 DEF AnswersSeek
  <2> QED BY <2>1, PlainQueues, FollowKept
<1>12. CASE SourcePrepared
  <2>1. /\ UNCHANGED <<requests, deferred, playing, atEnd, pc>> /\ source = "preparing"
    BY <1>12 DEF SourcePrepared
  <2>2. PICK ok \in BOOLEAN : PrepareCompletes(ok)
    BY <1>12, Zenon DEF SourcePrepared
  <2>3. mState \in {"PREPARING", "RESET_IN_PROGRESS"}
    BY <2>1 DEF CheckInv, PrepareInv
  <2>4. /\ mState = "RESET_IN_PROGRESS" => mState' = mState
        /\ mState = "PREPARING" => mState' \in {"PREPARED", "UNPREPARED"}
        /\ mAtEOS => mAtEOS'
    BY <2>2, <2>3 DEF PrepareCompletes
  <2> QED BY <2>1, <2>3, <2>4, PlainQueues, FollowKept
<1>13. CASE OldSourcePrepared
  <2>1. source = "NULL"
    BY <1>13 DEF OldSourcePrepared, StaleAnswerFindsNone
  <2>2. UNCHANGED <<mState, mAtEOS, requests, deferred, playing, atEnd, pc>>
    BY <1>13, <2>1 DEF OldSourcePrepared
  <2> QED BY <2>2, PlainQueues, FollowKept
<1>14. CASE AfterTellingPrepared
  <2>1. UNCHANGED <<mState, mAtEOS, requests, deferred, playing, atEnd, pc>>
    BY <1>14 DEF AfterTellingPrepared, flagVars
  <2> QED BY <2>1, PlainQueues, FollowKept
<1> QED BY <1>1, <1>2, <1>3, <1>4, <1>5, <1>6, <1>7, <1>8, <1>9, <1>10, <1>11, <1>12, <1>13, <1>14
     DEF EngineStep

LEMMA FollowStep ==
    ASSUME TypeOK, OneControls, StaleAnswerFindsNone, CheckInv, FollowInv, [Next]_vars
    PROVE  FollowInv'
<1>1. CASE DecoderError \/ UNCHANGED vars
  <2>1. /\ UNCHANGED <<mState, requests, deferred, playing, atEnd, pc>>
        /\ mAtEOS => mAtEOS'
    BY <1>1 DEF DecoderError, vars, flagVars, threadVars, playerVars, engineVars
  <2> QED BY <2>1, PlainQueues, FollowKept
<1> QED
  BY <1>1, CallFollows, GoOnFollows, SurfaceFollows, EngineFollows, EndOfStreamFollows DEF Next

LEMMA FollowInit == Init => FollowInv
<1> SUFFICES ASSUME Init
             PROVE  FollowInv
  OBVIOUS
<1>1. ~StartsLast(requests) /\ ~playing /\ ~atEnd /\ mState = "IDLE"
  BY DEF Init, StartsLast
<1> QED BY <1>1 DEF FollowInv, WillPlay

LEMMA FollowImplies ==
    ASSUME TypeOK, CheckInv, FollowInv
    PROVE  DriverFollowsPlayer
<1> SUFFICES ASSUME mState # "RESET_IN_PROGRESS", requests = <<>>, \A t \in Threads : pc[t] # "pausing"
             PROVE  /\ (mState = "RUNNING") = playing
                    /\ playing /\ deferred = <<>> => ~atEnd
  BY DEF DriverFollowsPlayer
<1>1. Undecided(requests) /\ ~StartsLast(requests) /\ \A w : ~Has(requests, w)
  BY DEF Undecided, Has, StartsLast
<1>2. playing <=> mState = "RUNNING"
  BY <1>1 DEF FollowInv, WillPlay, Threads
<1>3. (mState = "RUNNING") = playing
  BY <1>2 DEF TypeOK, EngineTypeOK
<1>4. deferred = <<>> => ~Has(deferred, "Seek")
  BY DEF Has
<1> QED BY <1>1, <1>2, <1>3, <1>4 DEF FollowInv, EndIsAhead, EndIsKnown

\* While the answer of a source that was cleared finds no source: the player
\* plays, once it has taken what was posted, exactly when the driver believes it
\* runs, and it has not played to an end from which nothing will take it.  The
\* driver posts its pause after the lock was free, the player's looper pauses or
\* loops at the end of the streams: neither loses what the other has asked for.
THEOREM PlayerIsFollowed ==
    OneControls => (Spec /\ []StaleAnswerFindsNone => []DriverFollowsPlayer)
<1> SUFFICES ASSUME OneControls
             PROVE  Spec /\ []StaleAnswerFindsNone => []DriverFollowsPlayer
  OBVIOUS
<1>1. Init => CheckInv /\ FollowInv
  BY CheckInit, FollowInit
<1>2. TypeOK /\ StaleAnswerFindsNone /\ CheckInv /\ FollowInv /\ [Next]_vars => CheckInv' /\ FollowInv'
  BY CheckStep, FollowStep
<1>3. TypeOK /\ CheckInv /\ FollowInv => DriverFollowsPlayer
  BY FollowImplies
<1> QED BY <1>1, <1>2, <1>3, DriverTypeCorrect, PTL DEF Spec

\* With one data source both hold without a condition.
THEOREM OneSourceIsFollowed ==
    OneControls /\ Budget["source"] <= 1 => (Spec => []DriverFollowsPlayer)
<1> SUFFICES ASSUME OneControls, Budget["source"] <= 1
             PROVE  Spec => []DriverFollowsPlayer
  OBVIOUS
<1>1. Init => CheckInv /\ OnceInv /\ FollowInv
  BY CheckInit, FollowInit DEF Init, OnceInv
<1>2. TypeOK /\ CheckInv /\ OnceInv /\ FollowInv /\ [Next]_vars => CheckInv' /\ OnceInv' /\ FollowInv'
  BY CheckStep, OnceStep, OnceFindsNone, FollowStep
<1>3. TypeOK /\ CheckInv /\ FollowInv => DriverFollowsPlayer
  BY FollowImplies
<1> QED BY <1>1, <1>2, <1>3, DriverTypeCorrect, PTL DEF Spec
=============================================================================
