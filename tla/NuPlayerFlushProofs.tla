------------------------- MODULE NuPlayerFlushProofs -------------------------
(* The flush and shutdown handshake of the player with its decoders and its   *)
(* renderer, proved for every set of formats and every budget: each answer    *)
(* that is waited for is owed once, by one party, and none comes unasked; and *)
(* the resets, which wait for that handshake.                                 *)
EXTENDS NuPlayerProofs

-----------------------------------------------------------------------------
(* The inductive invariant of the handshake.                                *)

\* What is on its way to the player: no notification is of a decoder, a renderer
\* or a scan that is yet to come, and the answers to a flush carry no flag.
Answers == {"FlushCompleted", "ShutdownCompleted", "RendererFlushComplete"}
Sent == {m \in PlayerMessage :
            /\ m.what \in DecoderNotify => m.gen <= mDecoderGeneration[m.stream]
            /\ m.what \in RendererNotify =>
                 m.gen <= mRendererGeneration /\ (m.gen = mRendererGeneration => mRenderer)
            /\ m.what = "ScanSources" => m.gen <= mScanSourcesGeneration
            /\ m.what \in Answers => m.flag = FALSE}
Orders == {d \in DecoderMessage : d.what \in {"Flush", "Shutdown"} => d.flag = FALSE}
NothingAhead ==
    /\ playerQueue \in Seq(Sent)
    /\ \A s \in Streams : decoder[s].queue \in Seq(Orders)
    /\ \A g \in scanTimer : g <= mScanSourcesGeneration

\* How often an order is on its way to a decoder, and an answer on its way back.
Order(w) == [what |-> w, flag |-> FALSE]
Ordered(s, w) == Occurrences(decoder[s].queue, Order(w))
Answer(s, w) == Notify(s, w, FALSE)
Answered(s, w) == Occurrences(playerQueue, Answer(s, w))
RendererAnswer(s) == Notification("RendererFlushComplete", s, mRendererGeneration, FALSE)
RendererAnswered(s) == Occurrences(playerQueue, RendererAnswer(s))
Wanted(s) == IF renderer.notifyComplete[s] THEN 1 ELSE 0

\* Of a stream in the given state: f flushes ordered, c completed, n asked of the
\* renderer, r answered by it, d shutdowns ordered, x completed.
Flushing == {"FLUSHING_DECODER", "FLUSHING_DECODER_SHUTDOWN"}
Balance(status, complete, f, c, n, r, d, x) ==
    /\ status \in Flushing =>
         /\ f + c = IF complete["decoder"] THEN 0 ELSE 1
         /\ f + n + r = IF complete["renderer"] THEN 0 ELSE 1
         /\ ~(complete["decoder"] /\ complete["renderer"])
         /\ d = 0 /\ x = 0
    /\ status \notin Flushing =>
         /\ f = 0 /\ c = 0 /\ n = 0 /\ r = 0
         /\ d + x = IF status = "SHUTTING_DOWN_DECODER" THEN 1 ELSE 0

Balanced(s) ==
    Balance(mFlushing[s], mFlushComplete[s], Ordered(s, "Flush"), Answered(s, "FlushCompleted"),
            Wanted(s), RendererAnswered(s), Ordered(s, "Shutdown"),
            Answered(s, "ShutdownCompleted"))

\* A decoder has a renderer; the state of a stream that is waited for has a decoder.
DecodersExist ==
    /\ \A s \in Streams :
        /\ mDecoder[s] # "NULL" => mRenderer
        /\ mDecoder[s] = "NULL" => decoder[s] = NoDecoder /\ mFlushing[s] \in {"NONE", "SHUT_DOWN"}
        /\ mFlushing[s] = "SHUT_DOWN" => mDecoder[s] = "NULL"
    /\ looper \in {"tearError", "tearTimeout"} => mRenderer

\* A flush is over when both streams are settled.
FlushEnds == NotFlushing \/ \E s \in Streams : mFlushing[s] \notin Settled

\* No scan is under way before the start, after a reset and during a flush.
OtherMessages == {m \in PlayerMessage : m.what = "ScanSources" => m.gen # mScanSourcesGeneration}
NoScan == mScanSourcesGeneration \notin scanTimer /\ playerQueue \in Seq(OtherMessages)
ScansHaveTheirTime == ~mStarted \/ ~NotFlushing => NoScan

HandshakeInv ==
    /\ \A s \in Streams : Balanced(s)
    /\ DecodersExist
    /\ FlushEnds
    /\ ScansHaveTheirTime

FlushInv ==
    /\ NothingAhead
    /\ mRenderer = mStarted
    /\ Alive => HandshakeInv
-----------------------------------------------------------------------------
(* What leaves the handshake alone.                                         *)

\* Neither an order nor an answer of the handshake, nor a scan.
Quiet == {m \in Sent : m.what \notin Answers \cup {"ScanSources"}}

QueueQuiet ==
    /\ playerQueue' \in Seq(Sent)
    /\ \A s \in Streams :
          /\ Occurrences(playerQueue', Answer(s, "FlushCompleted")) = Answered(s, "FlushCompleted")
          /\ Occurrences(playerQueue', Answer(s, "ShutdownCompleted"))
               = Answered(s, "ShutdownCompleted")
          /\ Occurrences(playerQueue', RendererAnswer(s)) = RendererAnswered(s)

DecodersQuiet ==
    \A s \in Streams :
       /\ decoder'[s].queue \in Seq(Orders)
       /\ Occurrences(decoder'[s].queue, Order("Flush")) = Ordered(s, "Flush")
       /\ Occurrences(decoder'[s].queue, Order("Shutdown")) = Ordered(s, "Shutdown")
       /\ mDecoder[s] = "NULL" /\ decoder[s] = NoDecoder => decoder'[s] = NoDecoder

LEMMA AnswerFacts ==
    ASSUME NEW s \in Streams
    PROVE  /\ Answer(s, "FlushCompleted").what = "FlushCompleted"
           /\ Answer(s, "ShutdownCompleted").what = "ShutdownCompleted"
           /\ \A w : Answer(s, w).stream = s /\ Answer(s, w).gen = mDecoderGeneration[s]
           /\ RendererAnswer(s).what = "RendererFlushComplete"
           /\ RendererAnswer(s).gen = mRendererGeneration /\ RendererAnswer(s).stream = s
           /\ Order("Flush").what = "Flush" /\ Order("Shutdown").what = "Shutdown"
  BY DEF Answer, Notify, Notification, RendererAnswer, Order

LEMMA SentType ==
    /\ Quiet \subseteq Sent /\ Sent \subseteq PlayerMessage /\ OtherMessages \subseteq PlayerMessage
  BY DEF Quiet, Sent, OtherMessages

\* Posting messages that are not of the handshake.
LEMMA QuietPosts ==
    ASSUME NothingAhead, NEW r \in Seq(Quiet), playerQueue' = playerQueue \o r
    PROVE  QueueQuiet /\ (playerQueue \in Seq(OtherMessages) => playerQueue' \in Seq(OtherMessages))
<1>1. playerQueue \in Seq(Sent) /\ r \in Seq(Sent)
  BY SentType DEF NothingAhead
<1>2. ASSUME NEW x, x.what \in Answers
      PROVE  Occurrences(playerQueue', x) = Occurrences(playerQueue, x)
  <2>1. \A i \in DOMAIN r : r[i] \in Quiet
    OBVIOUS
  <2>2. \A i \in DOMAIN r : r[i] # x
    BY <1>2, <2>1 DEF Quiet
  <2>3. Occurrences(r, x) = 0
    BY <2>2, OccurrencesType
  <2>4. Occurrences(playerQueue, x) \in Nat
    BY <1>1, OccurrencesType
  <2>5. Occurrences(playerQueue \o r, x) = Occurrences(playerQueue, x) + Occurrences(r, x)
    BY <1>1, OccurrencesConcat
  <2> QED BY <2>3, <2>4, <2>5
<1>3. playerQueue' \in Seq(Sent)
  BY <1>1
<1>4. playerQueue \in Seq(OtherMessages) => playerQueue' \in Seq(OtherMessages)
  <2>1. Quiet \subseteq OtherMessages
    BY DEF Quiet, Sent, OtherMessages
  <2>2. r \in Seq(OtherMessages)
    BY <2>1
  <2> QED BY <2>2
<1>5. ASSUME NEW s \in Streams
      PROVE  /\ Occurrences(playerQueue', Answer(s, "FlushCompleted")) = Answered(s, "FlushCompleted")
             /\ Occurrences(playerQueue', Answer(s, "ShutdownCompleted"))
                  = Answered(s, "ShutdownCompleted")
             /\ Occurrences(playerQueue', RendererAnswer(s)) = RendererAnswered(s)
  <2>1. /\ Answer(s, "FlushCompleted").what \in Answers
        /\ Answer(s, "ShutdownCompleted").what \in Answers
        /\ RendererAnswer(s).what \in Answers
    BY AnswerFacts DEF Answers
  <2> QED BY <1>2, <2>1 DEF Answered, RendererAnswered
<1> QED BY <1>3, <1>4, <1>5 DEF QueueQuiet

LEMMA QuietPost ==
    ASSUME NothingAhead, NEW m \in Quiet, playerQueue' = Append(playerQueue, m)
    PROVE  QueueQuiet /\ (playerQueue \in Seq(OtherMessages) => playerQueue' \in Seq(OtherMessages))
<1> DEFINE r == <<m>>
<1>1. r \in Seq(Quiet)
  OBVIOUS
<1>2. playerQueue' = playerQueue \o r
  BY SentType DEF NothingAhead
<1> HIDE DEF r
<1> QED BY <1>1, <1>2, QuietPosts

LEMMA QuietQueue ==
    ASSUME NothingAhead, UNCHANGED playerQueue
    PROVE  QueueQuiet /\ (playerQueue \in Seq(OtherMessages) => playerQueue' \in Seq(OtherMessages))
  BY DEF NothingAhead, QueueQuiet, Answered, RendererAnswered

\* Taking a message that is not of the handshake, or is of a decoder or a
\* renderer that is gone.
LEMMA QuietTakes ==
    ASSUME NothingAhead, NEW w, Receive(w),
           w \in {"FlushCompleted", "ShutdownCompleted"}
             => Received.gen # mDecoderGeneration[Received.stream],
           w = "RendererFlushComplete" => Received.gen # mRendererGeneration
    PROVE  /\ QueueQuiet /\ Received \in Sent /\ Received.what = w
           /\ (playerQueue \in Seq(OtherMessages) => playerQueue' \in Seq(OtherMessages))
<1>1. /\ playerQueue \in Seq(Sent) /\ playerQueue # <<>> /\ Received = Head(playerQueue)
      /\ Received.what = w /\ playerQueue' = Tail(playerQueue)
  BY DEF NothingAhead, Receive, Received
<1>2. playerQueue' \in Seq(Sent) /\ Received \in Sent
  BY <1>1
<1>3. playerQueue \in Seq(OtherMessages) => playerQueue' \in Seq(OtherMessages)
  BY <1>1
<1>4. ASSUME NEW x, x # Received
      PROVE  Occurrences(playerQueue', x) = Occurrences(playerQueue, x)
  <2>1. Occurrences(playerQueue', x) \in Nat
    BY <1>2, OccurrencesType
  <2>2. Occurrences(playerQueue, x)
          = Occurrences(Tail(playerQueue), x) + (IF Head(playerQueue) = x THEN 1 ELSE 0)
    BY <1>1, OccurrencesTail
  <2>3. Head(playerQueue) # x
    BY <1>1, <1>4
  <2> QED BY <1>1, <2>1, <2>2, <2>3
<1>5. ASSUME NEW s \in Streams
      PROVE  /\ Occurrences(playerQueue', Answer(s, "FlushCompleted")) = Answered(s, "FlushCompleted")
             /\ Occurrences(playerQueue', Answer(s, "ShutdownCompleted"))
                  = Answered(s, "ShutdownCompleted")
             /\ Occurrences(playerQueue', RendererAnswer(s)) = RendererAnswered(s)
  <2>1. /\ Answer(s, "FlushCompleted") # Received
        /\ Answer(s, "ShutdownCompleted") # Received
        /\ RendererAnswer(s) # Received
    BY <1>1, AnswerFacts
  <2> QED BY <1>4, <2>1 DEF Answered, RendererAnswered
<1> QED BY <1>1, <1>2, <1>3, <1>5 DEF QueueQuiet

\* A stream whose part of the handshake does not change stays balanced.
LEMMA SameBalance ==
    ASSUME NEW s \in Streams, Balanced(s),
           mFlushing'[s] = mFlushing[s], mFlushComplete'[s] = mFlushComplete[s],
           Ordered(s, "Flush")' = Ordered(s, "Flush"),
           Ordered(s, "Shutdown")' = Ordered(s, "Shutdown"),
           Answered(s, "FlushCompleted")' = Answered(s, "FlushCompleted"),
           Answered(s, "ShutdownCompleted")' = Answered(s, "ShutdownCompleted"),
           RendererAnswered(s)' = RendererAnswered(s),
           Wanted(s)' = Wanted(s)
    PROVE  Balanced(s)'
<1> DEFINE a == Ordered(s, "Flush")
           b == Ordered(s, "Shutdown")
           c == Answered(s, "FlushCompleted")
           d == Answered(s, "ShutdownCompleted")
           e == RendererAnswered(s)
           f == Wanted(s)
<1>1. Balance(mFlushing[s], mFlushComplete[s], a, c, f, e, b, d)
  BY DEF Balanced
<1>2. Balance(mFlushing'[s], mFlushComplete'[s], a', c', f', e', b', d')
  BY <1>1
<1> QED BY <1>2 DEF Balanced

\* The part of the invariant that is about what is on its way.
LEMMA AheadFrame ==
    ASSUME NothingAhead, playerQueue' \in Seq(Sent), \A s \in Streams : decoder'[s].queue \in Seq(Orders),
           \A g \in scanTimer' : g <= mScanSourcesGeneration,
           UNCHANGED <<mDecoderGeneration, mRenderer, mRendererGeneration, mScanSourcesGeneration>>
    PROVE  NothingAhead'
<1>1. Sent' = Sent /\ Orders' = Orders
  BY DEF Sent, Orders
<1> QED BY <1>1 DEF NothingAhead

\* A step that does nothing of the handshake.
LEMMA Undisturbed ==
    ASSUME FlushInv, QueueQuiet, DecodersQuiet,
           Alive' => Alive,
           looper' \in {"tearError", "tearTimeout"} => mRenderer,
           UNCHANGED <<mStarted, mFlushing, mFlushComplete, mDecoder, mDecoderGeneration,
                       mRenderer, mRendererGeneration, mScanSourcesGeneration>>,
           renderer'.notifyComplete = renderer.notifyComplete,
           \A g \in scanTimer' : g <= mScanSourcesGeneration,
           Alive /\ (~mStarted \/ ~NotFlushing) /\ NoScan => NoScan'
    PROVE  FlushInv'
<1>1. NothingAhead'
  BY AheadFrame DEF FlushInv, QueueQuiet, DecodersQuiet
<1>2. mRenderer' = mStarted'
  BY DEF FlushInv
<1>3. ASSUME Alive'
      PROVE  HandshakeInv'
  <2>1. Alive /\ HandshakeInv
    BY <1>3 DEF FlushInv
  <2>2. ASSUME NEW s \in Streams
        PROVE  Balanced(s)'
    <3>1. Balanced(s)
      BY <2>1 DEF HandshakeInv
    <3>2. \A w : Answer(s, w)' = Answer(s, w)
      BY DEF Answer, Notify
    <3>3. RendererAnswer(s)' = RendererAnswer(s)
      BY DEF RendererAnswer
    <3>4. /\ Ordered(s, "Flush")' = Ordered(s, "Flush")
          /\ Ordered(s, "Shutdown")' = Ordered(s, "Shutdown")
      BY DEF DecodersQuiet, Ordered, Order
    <3>5. /\ Answered(s, "FlushCompleted")' = Answered(s, "FlushCompleted")
          /\ Answered(s, "ShutdownCompleted")' = Answered(s, "ShutdownCompleted")
          /\ RendererAnswered(s)' = RendererAnswered(s)
      BY <3>2, <3>3 DEF QueueQuiet, Answered, RendererAnswered
    <3>6. Wanted(s)' = Wanted(s)
      BY DEF Wanted
    <3> QED BY <3>1, <3>4, <3>5, <3>6, SameBalance
  <2>3. DecodersExist'
    BY <2>1 DEF HandshakeInv, DecodersExist, DecodersQuiet
  <2>4. FlushEnds'
    BY <2>1 DEF HandshakeInv, FlushEnds, NotFlushing
  <2>5. ScansHaveTheirTime'
    BY <2>1 DEF HandshakeInv, ScansHaveTheirTime, NotFlushing
  <2> QED BY <2>2, <2>3, <2>4, <2>5 DEF HandshakeInv
<1> QED BY <1>1, <1>2, <1>3 DEF FlushInv

\* The same when the scans are left alone, too.
LEMMA UndisturbedScans ==
    ASSUME FlushInv, QueueQuiet, DecodersQuiet,
           playerQueue \in Seq(OtherMessages) => playerQueue' \in Seq(OtherMessages),
           Alive' => Alive,
           looper' \in {"tearError", "tearTimeout"} => mRenderer,
           UNCHANGED <<mStarted, mFlushing, mFlushComplete, mDecoder, mDecoderGeneration,
                       mRenderer, mRendererGeneration, mScanSourcesGeneration, scanTimer>>,
           renderer'.notifyComplete = renderer.notifyComplete
    PROVE  FlushInv'
<1>1. \A g \in scanTimer' : g <= mScanSourcesGeneration
  BY DEF FlushInv, NothingAhead
<1>2. NoScan => NoScan'
  <2>1. OtherMessages' = OtherMessages
    BY DEF OtherMessages
  <2> QED BY <2>1 DEF NoScan
<1> QED BY <1>1, <1>2, Undisturbed

LEMMA QuietDecoders ==
    ASSUME FlushInv, UNCHANGED decoder
    PROVE  DecodersQuiet
  BY DEF FlushInv, NothingAhead, DecodersQuiet, Ordered

-----------------------------------------------------------------------------
(* The calls of the client, and what the source posts.                      *)

\* Nor is a message of the client or of the source a notification.
Calls == {m \in Quiet : m.what \notin DecoderNotify \cup RendererNotify}

LEMMA QuietMessages ==
    ASSUME TypeOK,
           NEW w \in PlayerWhat \ (DecoderNotify \cup RendererNotify \cup {"ScanSources"}),
           NEW f \in BOOLEAN
    PROVE  /\ Message(w, f) \in Calls
           /\ \A s \in Streams : Notification(w, s, 0, f) \in Calls
<1>1. Message(w, f) \in PlayerMessage /\ Message(w, f).what = w
  BY MessageType DEF Message
<1>2. ASSUME NEW s \in Streams
      PROVE  Notification(w, s, 0, f) \in PlayerMessage /\ Notification(w, s, 0, f).what = w
  BY NotificationType DEF Notification
<1>3. w \notin Answers \cup DecoderNotify \cup RendererNotify \cup {"ScanSources"}
  BY DEF Answers, DecoderNotify, RendererNotify
<1>4. \A m \in PlayerMessage : m.what = w => m \in Calls
  BY <1>3 DEF Calls, Quiet, Sent
<1> QED BY <1>1, <1>2, <1>4

LEMMA CallPosts ==
    ASSUME TypeOK, ClientStep \/ SourceStep
    PROVE  /\ UNCHANGED <<looper, mStarted, flushVars, objectVars, scanVars, decoder, renderer>>
           /\ UNCHANGED <<mResumePending, mDeferredActions>>
           /\ \E m \in Calls : playerQueue' = Append(playerQueue, m)
<1> DEFINE W == PlayerWhat \ (DecoderNotify \cup RendererNotify \cup {"ScanSources"})
<1>1. \A w \in W, f \in BOOLEAN : Message(w, f) \in Calls
  BY QuietMessages
<1>2. {"SetDataSource", "Prepare", "Start", "Pause", "Seek", "SetVideoNativeWindow", "Reset",
       "Prepared", "InstantiateSecureDecoders", "PauseOnBufferingStart",
       "ResumeOnBufferingEnd", "QueueDecoderShutdown"} \subseteq W
  BY DEF PlayerWhat, DecoderNotify, RendererNotify
<1> DEFINE quiet == /\ UNCHANGED <<looper, mStarted, flushVars, objectVars, scanVars, decoder, renderer>>
                    /\ UNCHANGED <<mResumePending, mDeferredActions>>
<1> HIDE DEF W
<1>3. quiet /\ \E m \in Calls : playerQueue' = Append(playerQueue, m)
  <2> USE DEF pauseVars
  <2>1. CASE ClientSetDataSource
    BY <1>1, <1>2, <2>1 DEF ClientSetDataSource, Call, playerVarsButSurface
  <2>2. CASE ClientPrepare
    BY <1>1, <1>2, <2>2 DEF ClientPrepare, Call, playerVarsButSurface
  <2>3. CASE ClientStart
    BY <1>1, <1>2, <2>3 DEF ClientStart, Call, playerVarsButSurface
  <2>4. CASE ClientPause
    BY <1>1, <1>2, <2>4 DEF ClientPause, Call, playerVarsButSurface
  <2>5. CASE ClientSeek
    BY <1>1, <1>2, <2>5 DEF ClientSeek, Call, playerVarsButSurface
  <2>6. CASE ClientSetSurface
    BY <1>1, <1>2, <2>6 DEF ClientSetSurface, Call, playerVarsButSurface
  <2>7. CASE ClientReset
    BY <1>1, <1>2, <2>7 DEF ClientReset, Call, playerVarsButSurface
  <2>8. CASE SourcePrepared \/ SourcePrepareError
    BY <1>1, <1>2, <2>8 DEF SourcePrepared, SourcePrepareError, SourcePosts
  <2>9. CASE SourceInstantiateSecureDecoders
    BY <1>1, <1>2, <2>9 DEF SourceInstantiateSecureDecoders, SourcePosts
  <2>10. CASE SourcePauseOnBuffering \/ SourceResumeOnBuffering
    BY <1>1, <1>2, <2>10 DEF SourcePauseOnBuffering, SourceResumeOnBuffering, SourcePosts
  <2>11. CASE SourceQueueDecoderShutdown
    <3>1. PICK s \in Streams, both \in BOOLEAN :
             SourcePosts(Notification("QueueDecoderShutdown", s, 0, both), "idle")
      BY <2>11 DEF SourceQueueDecoderShutdown
    <3>2. Notification("QueueDecoderShutdown", s, 0, both) \in Calls
      BY <1>2, QuietMessages DEF W
    <3> QED BY <3>1, <3>2 DEF SourcePosts
  <2>12. CASE OldSourcePrepared
    BY <1>1, <1>2, <2>12 DEF OldSourcePrepared
  <2> QED BY <2>1, <2>2, <2>3, <2>4, <2>5, <2>6, <2>7, <2>8, <2>9, <2>10, <2>11, <2>12
       DEF ClientStep, SourceStep
<1> QED BY <1>3

LEMMA CallKeepsFlush ==
    ASSUME TypeOK, FlushInv, ClientStep \/ SourceStep
    PROVE  FlushInv'
<1>3. /\ UNCHANGED <<looper, mStarted, flushVars, objectVars, scanVars, decoder, renderer>>
      /\ \E m \in Quiet : playerQueue' = Append(playerQueue, m)
  BY CallPosts DEF Calls
<1>4. QueueQuiet /\ (playerQueue \in Seq(OtherMessages) => playerQueue' \in Seq(OtherMessages))
  BY <1>3, QuietPost DEF FlushInv
<1>5. DecodersQuiet
  BY <1>3, QuietDecoders
<1>6. (Alive' => Alive) /\ (looper' \in {"tearError", "tearTimeout"} => mRenderer)
  BY <1>3 DEF FlushInv, HandshakeInv, DecodersExist, Alive, AbortStates
<1> QED BY <1>3, <1>4, <1>5, <1>6, UndisturbedScans DEF flushVars, objectVars, scanVars

-----------------------------------------------------------------------------
(* Handlers of the player that do nothing of the handshake.                 *)

LEMMA RequestKeepsFlush ==
    ASSUME TypeOK, FlushInv,
           \/ OnSetDataSource \/ OnPrepare \/ OnPause \/ OnSeek \/ OnReset
           \/ OnSetVideoNativeWindowAtOnce \/ OnSetVideoNativeWindow \/ OnScanSourcesStale
           \/ OnSourceNotifyGone \/ OnPrepared \/ OnInstantiateSecureDecoders
           \/ OnPauseOnBufferingStart \/ OnQueueDecoderShutdown \/ OnInputDiscontinuity
           \/ OnResumeCompleted \/ OnErrorIgnored \/ OnErrorWhenNotFlushing
           \/ OnNotifyStale \/ OnAudioOffloadTearDown
    PROVE  FlushInv'
<1> DEFINE takes == \E w : /\ Receive(w)
                           /\ w \in {"FlushCompleted", "ShutdownCompleted"}
                                => Received.gen # mDecoderGeneration[Received.stream]
                           /\ w = "RendererFlushComplete" => Received.gen # mRendererGeneration
           quiet == /\ UNCHANGED <<mStarted, flushVars, objectVars, scanVars, decoder>>
                    /\ renderer'.notifyComplete = renderer.notifyComplete
           goesOn == looper' \notin {"tearError", "tearTimeout"} \/ OnAudioOffloadTearDown
<1>1. \A r, w : ToRenderer(r, w).notifyComplete = r.notifyComplete
  BY DEF ToRenderer
<1>2. takes /\ quiet /\ goesOn /\ looper = "idle"
  <2> USE DEF pauseVars
  <2>1. CASE \/ OnSetDataSource \/ OnPrepare \/ OnSeek \/ OnReset
             \/ OnSetVideoNativeWindowAtOnce \/ OnSetVideoNativeWindow
    BY <2>1 DEF OnSetDataSource, OnPrepare, OnSeek, OnReset, OnSetVideoNativeWindowAtOnce,
      OnSetVideoNativeWindow, Receive, Defer, Check
  <2>2. CASE OnPause \/ OnPauseOnBufferingStart
    <3>1. renderer'.notifyComplete = renderer.notifyComplete
      BY <1>1, <2>2 DEF OnPause, OnPauseOnBufferingStart, Pause
    <3> QED BY <2>2, <3>1 DEF OnPause, OnPauseOnBufferingStart, Receive
  <2>3. CASE OnSourceNotifyGone \/ OnScanSourcesStale \/ OnErrorIgnored
    BY <2>3 DEF OnSourceNotifyGone, OnScanSourcesStale, OnErrorIgnored, ReceiveFromDecoder, Receive,
      playerVars, playerVarsButSurface
  <2>4. CASE OnPrepared \/ OnInstantiateSecureDecoders \/ OnQueueDecoderShutdown
    BY <2>4 DEF OnPrepared, OnInstantiateSecureDecoders, OnQueueDecoderShutdown, Receive, Defer, Check
  <2>5. CASE OnInputDiscontinuity \/ OnResumeCompleted \/ OnErrorWhenNotFlushing
    BY <2>5 DEF OnInputDiscontinuity, OnResumeCompleted, OnErrorWhenNotFlushing, ReceiveError,
      ReceiveFromDecoder, Receive, Defer
  <2>6. CASE OnNotifyStale
    BY <2>6 DEF OnNotifyStale, Receive, playerVars, playerVarsButSurface, DecoderNotify, RendererNotify
  <2>7. CASE OnAudioOffloadTearDown
    BY <1>1, <2>7 DEF OnAudioOffloadTearDown, Receive
  <2> QED BY <2>1, <2>2, <2>3, <2>4, <2>5, <2>6, <2>7
<1>3. PICK w : /\ Receive(w)
               /\ w \in {"FlushCompleted", "ShutdownCompleted"}
                    => Received.gen # mDecoderGeneration[Received.stream]
               /\ w = "RendererFlushComplete" => Received.gen # mRendererGeneration
  BY <1>2
<1>4. /\ QueueQuiet /\ Received \in Sent
      /\ (playerQueue \in Seq(OtherMessages) => playerQueue' \in Seq(OtherMessages))
  BY <1>3, QuietTakes DEF FlushInv
<1>5. DecodersQuiet
  BY <1>2, QuietDecoders
<1>6. Alive' => Alive
  BY <1>2 DEF Alive, AbortStates
<1>7. looper' \in {"tearError", "tearTimeout"} => mRenderer
  <2>1. CASE OnAudioOffloadTearDown
    BY <1>4, <2>1 DEF OnAudioOffloadTearDown, Receive, Sent, RendererNotify
  <2>2. CASE ~OnAudioOffloadTearDown
    BY <1>2, <2>2
  <2> QED BY <2>1, <2>2
<1> HIDE DEF takes
<1> QED BY <1>2, <1>4, <1>5, <1>6, <1>7, UndisturbedScans DEF flushVars, objectVars, scanVars

-----------------------------------------------------------------------------
(* Scans for streams.                                                       *)

\* A scan of the present generation is on its way only when nothing is flushing.
LEMMA ScanIsDue ==
    ASSUME TypeOK, FlushInv, Alive,
           \/ mScanSourcesGeneration \in scanTimer
           \/ Receive("ScanSources") /\ Received.gen = mScanSourcesGeneration
    PROVE  mStarted /\ NotFlushing /\ mRenderer
<1>1. ~NoScan
  <2>1. CASE mScanSourcesGeneration \in scanTimer
    BY <2>1 DEF NoScan
  <2>2. CASE Receive("ScanSources") /\ Received.gen = mScanSourcesGeneration
    <3>1. playerQueue \in Seq(OtherMessages) => Head(playerQueue) \in OtherMessages
      BY <2>2 DEF Receive
    <3> QED BY <2>2, <3>1 DEF NoScan, Receive, Received, OtherMessages
  <2> QED BY <2>1, <2>2
<1> QED BY <1>1 DEF FlushInv, HandshakeInv, ScansHaveTheirTime

\* A scan message is none of the handshake's.
LEMMA ScanIsQuiet ==
    ASSUME TypeOK, NothingAhead, NEW g \in Nat, g <= mScanSourcesGeneration,
           NEW q \in Seq(Sent),
           playerQueue' = Append(q, [Message("ScanSources", FALSE) EXCEPT !.gen = g])
    PROVE  /\ playerQueue' \in Seq(Sent)
           /\ \A x : x.what \in Answers => Occurrences(playerQueue', x) = Occurrences(q, x)
           /\ g # mScanSourcesGeneration /\ q \in Seq(OtherMessages)
                => playerQueue' \in Seq(OtherMessages)
<1> DEFINE scan == [Message("ScanSources", FALSE) EXCEPT !.gen = g]
<1>1. scan \in PlayerMessage /\ scan.what = "ScanSources" /\ scan.gen = g
  BY ScanMessageType DEF Message
<1>2. playerQueue' = Append(q, scan)
  OBVIOUS
<1> HIDE DEF scan
<1>3. scan \in Sent
  BY <1>1 DEF Sent, DecoderNotify, RendererNotify, Answers
<1>4. playerQueue' \in Seq(Sent)
  BY <1>2, <1>3
<1>5. ASSUME NEW x, x.what \in Answers
      PROVE  Occurrences(playerQueue', x) = Occurrences(q, x)
  <2>1. scan # x
    BY <1>1, <1>5 DEF Answers
  <2>2. Occurrences(Append(q, scan), x) = Occurrences(q, x) + (IF scan = x THEN 1 ELSE 0)
    BY <1>3, OccurrencesAppend
  <2>3. Occurrences(q, x) \in Nat
    BY OccurrencesType
  <2> QED BY <1>2, <2>1, <2>2, <2>3
<1>6. ASSUME g # mScanSourcesGeneration, q \in Seq(OtherMessages)
      PROVE  playerQueue' \in Seq(OtherMessages)
  <2>1. scan \in OtherMessages
    BY <1>1, <1>6 DEF OtherMessages
  <2> QED BY <1>2, <1>6, <2>1
<1> QED BY <1>4, <1>5, <1>6

LEMMA AnswersAreAnswers ==
    ASSUME NEW s \in Streams
    PROVE  /\ Answer(s, "FlushCompleted").what \in Answers
           /\ Answer(s, "ShutdownCompleted").what \in Answers
           /\ RendererAnswer(s).what \in Answers
  BY AnswerFacts DEF Answers

LEMMA ScanKeepsFlush ==
    ASSUME TypeOK, FlushInv, ScanTimer \/ OnScanSourcesWaits \/ PerformScanSources
    PROVE  FlushInv'
<1>0. NothingAhead
  BY DEF FlushInv
<1> DEFINE quiet == /\ UNCHANGED <<mStarted, flushVars, objectVars, mScanSourcesGeneration, decoder,
                                   renderer>>
                    /\ looper' \in {looper, "deferred"} /\ (Alive' => Alive)
<1>1. ASSUME quiet, QueueQuiet, NoScan => NoScan' \/ (mStarted /\ NotFlushing),
             \A g \in scanTimer' : g <= mScanSourcesGeneration
      PROVE  FlushInv'
  <2>1. DecodersQuiet
    BY <1>1, QuietDecoders
  <2>2. looper' \in {"tearError", "tearTimeout"} /\ Alive => mRenderer
    BY <1>1 DEF FlushInv, HandshakeInv, DecodersExist
  <2>3. looper' \in {"tearError", "tearTimeout"} => mRenderer
    BY <1>1, <2>2 DEF Alive, AbortStates
  <2> HIDE DEF quiet
  <2>4. Alive /\ (~mStarted \/ ~NotFlushing) /\ NoScan => NoScan'
    BY <1>1
  <2> QED BY <1>1, <2>1, <2>3, <2>4, Undisturbed DEF quiet, flushVars, objectVars
<1>2. CASE ScanTimer
  <2>1. PICK gen \in scanTimer :
           /\ scanTimer' = scanTimer \ {gen}
           /\ playerQueue' = Append(playerQueue,
                                    [Message("ScanSources", FALSE) EXCEPT !.gen = gen])
           /\ quiet
    BY <1>2 DEF ScanTimer, pauseVars, Alive
  <2>2. gen \in Nat /\ gen <= mScanSourcesGeneration /\ playerQueue \in Seq(Sent)
    BY <1>0 DEF NothingAhead, TypeOK, ScanTypeOK
  <2>3. /\ playerQueue' \in Seq(Sent)
        /\ \A x : x.what \in Answers => Occurrences(playerQueue', x) = Occurrences(playerQueue, x)
        /\ gen # mScanSourcesGeneration /\ playerQueue \in Seq(OtherMessages)
             => playerQueue' \in Seq(OtherMessages)
    BY <1>0, <2>1, <2>2, ScanIsQuiet
  <2>4. QueueQuiet
    BY <2>3, AnswersAreAnswers DEF QueueQuiet, Answered, RendererAnswered
  <2>5. OtherMessages' = OtherMessages
    BY <2>1 DEF OtherMessages
  <2>6. NoScan => NoScan'
    BY <2>1, <2>3, <2>5 DEF NoScan
  <2>7. \A g \in scanTimer' : g <= mScanSourcesGeneration
    BY <1>0, <2>1 DEF NothingAhead
  <2> QED BY <1>1, <2>1, <2>4, <2>6, <2>7
<1>3. CASE OnScanSourcesWaits
  <2>1. Receive("ScanSources") /\ Received.gen = mScanSourcesGeneration
    BY <1>3 DEF OnScanSourcesWaits
  <2>2. Alive
    BY <2>1 DEF Receive, Alive, AbortStates
  <2>3. mStarted /\ NotFlushing
    BY <2>1, <2>2, ScanIsDue
  <2>4. quiet
    BY <1>3 DEF OnScanSourcesWaits, pauseVars, Alive
  <2>5. QueueQuiet
    BY <1>0, <2>1, QuietTakes
  <2>6. \A g \in scanTimer' : g <= mScanSourcesGeneration
    BY <1>0, <1>3, <2>1 DEF OnScanSourcesWaits, NothingAhead, TypeOK, ScanTypeOK
  <2> QED BY <1>1, <2>3, <2>4, <2>5, <2>6
<1>4. CASE PerformScanSources
  <2>1. NotFlushing /\ quiet
    BY <1>4 DEF PerformScanSources, Execute, PostScanSources, scanVars, pauseVars, Alive
  <2>2. CASE mStarted /\ PostScanSources(playerQueue) /\ ~mScanSourcesPending
    <3>1. /\ playerQueue' = Append(playerQueue,
                [Message("ScanSources", FALSE) EXCEPT !.gen = mScanSourcesGeneration])
          /\ UNCHANGED scanTimer
      BY <2>2 DEF PostScanSources
    <3>2. /\ mScanSourcesGeneration \in Nat /\ mScanSourcesGeneration <= mScanSourcesGeneration
          /\ playerQueue \in Seq(Sent)
      BY <1>0 DEF TypeOK, ScanTypeOK, NothingAhead
    <3>3. /\ playerQueue' \in Seq(Sent)
          /\ \A x : x.what \in Answers => Occurrences(playerQueue', x) = Occurrences(playerQueue, x)
      BY <1>0, <3>1, <3>2, ScanIsQuiet
    <3>4. QueueQuiet
      BY <3>3, AnswersAreAnswers DEF QueueQuiet, Answered, RendererAnswered
    <3> QED BY <1>0, <1>1, <2>1, <2>2, <3>1, <3>4 DEF NothingAhead
  <2>3. CASE UNCHANGED <<playerQueue, scanVars>>
    <3>1. QueueQuiet
      BY <1>0, <2>3, QuietQueue
    <3>2. NoScan => NoScan'
      BY <2>3 DEF NoScan, OtherMessages, scanVars
    <3> QED BY <1>0, <1>1, <2>1, <2>3, <3>1, <3>2 DEF NothingAhead, scanVars
  <2> QED BY <1>4, <2>2, <2>3 DEF PerformScanSources, PostScanSources
<1> QED BY <1>2, <1>3, <1>4

-----------------------------------------------------------------------------
(* Decoders and renderers that come and go.                                 *)

LEMMA CountTypes ==
    ASSUME TypeOK, NothingAhead, NEW s \in Streams
    PROVE  /\ \A w : Ordered(s, w) \in Nat /\ Answered(s, w) \in Nat
           /\ RendererAnswered(s) \in Nat /\ Wanted(s) \in {0, 1}
           /\ mFlushing[s] \in FlushStatus /\ mFlushComplete[s] \in [Parties -> BOOLEAN]
<1>1. playerQueue \in Seq(Sent) /\ decoder[s].queue \in Seq(Orders)
  BY DEF NothingAhead
<1> QED BY <1>1, OccurrencesType
     DEF Ordered, Answered, RendererAnswered, Wanted, TypeOK, FlushTypeOK

LEMMA IdleBalance ==
    ASSUME TypeOK, NothingAhead, NEW s \in Streams, mFlushing[s] \in Settled
    PROVE  Balanced(s) <=> /\ Ordered(s, "Flush") = 0 /\ Ordered(s, "Shutdown") = 0
                           /\ Answered(s, "FlushCompleted") = 0
                           /\ Answered(s, "ShutdownCompleted") = 0
                           /\ RendererAnswered(s) = 0 /\ Wanted(s) = 0
<1> DEFINE a == Ordered(s, "Flush")
           b == Ordered(s, "Shutdown")
           c == Answered(s, "FlushCompleted")
           d == Answered(s, "ShutdownCompleted")
           e == RendererAnswered(s)
           f == Wanted(s)
<1>1. a \in Nat /\ b \in Nat /\ c \in Nat /\ d \in Nat
  BY CountTypes
<1>2. Balanced(s) <=> Balance(mFlushing[s], mFlushComplete[s], a, c, f, e, b, d)
  BY DEF Balanced
<1> HIDE DEF a, b, c, d, e, f
<1>3. Balance(mFlushing[s], mFlushComplete[s], a, c, f, e, b, d)
        <=> a = 0 /\ b = 0 /\ c = 0 /\ d = 0 /\ e = 0 /\ f = 0
  BY <1>1 DEF Balance, Settled, Flushing
<1> QED BY <1>2, <1>3 DEF a, b, c, d, e, f

LEMMA IdleBalanceNext ==
    ASSUME NEW s \in Streams, mFlushing'[s] \in Settled,
           Ordered(s, "Flush")' = 0, Ordered(s, "Shutdown")' = 0,
           Answered(s, "FlushCompleted")' = 0, Answered(s, "ShutdownCompleted")' = 0,
           RendererAnswered(s)' = 0, Wanted(s)' = 0
    PROVE  Balanced(s)'
<1> DEFINE a == Ordered(s, "Flush")
           b == Ordered(s, "Shutdown")
           c == Answered(s, "FlushCompleted")
           d == Answered(s, "ShutdownCompleted")
           e == RendererAnswered(s)
           f == Wanted(s)
<1>1. Balanced(s)' <=> Balance(mFlushing'[s], mFlushComplete'[s], a', c', f', e', b', d')
  BY DEF Balanced
<1>2. Balance(mFlushing'[s], mFlushComplete'[s], 0, 0, 0, 0, 0, 0)
  BY DEF Balance, Settled, Flushing
<1>3. a' = 0 /\ b' = 0 /\ c' = 0 /\ d' = 0 /\ e' = 0 /\ f' = 0
  OBVIOUS
<1> HIDE DEF a, b, c, d, e, f
<1> QED BY <1>1, <1>2, <1>3

\* No answer of a decoder or a renderer that is yet to come is on its way.
LEMMA NoAnswerAhead ==
    ASSUME TypeOK, NEW q \in Seq(Sent), NEW x,
           \/ /\ x.what \in {"FlushCompleted", "ShutdownCompleted"}
              /\ x.stream \in Streams /\ x.gen \in Nat /\ x.gen > mDecoderGeneration[x.stream]
           \/ /\ x.what = "RendererFlushComplete"
              /\ x.gen \in Nat /\ x.gen > mRendererGeneration
    PROVE  Occurrences(q, x) = 0
<1>1. \A i \in DOMAIN q : q[i] \in Sent
  OBVIOUS
<1>2. \A i \in DOMAIN q : q[i] # x
  BY <1>1 DEF Sent, DecoderNotify, RendererNotify, TypeOK, ObjectTypeOK
<1> QED BY <1>2, OccurrencesType

LEMMA SentGrows ==
    ASSUME TypeOK, TypeOK',
           \A s \in Streams : mDecoderGeneration[s] <= mDecoderGeneration'[s],
           mRendererGeneration <= mRendererGeneration',
           mRendererGeneration' = mRendererGeneration => mRenderer' = mRenderer,
           mScanSourcesGeneration <= mScanSourcesGeneration'
    PROVE  Sent \subseteq Sent' /\ Orders' = Orders
<1>1. ASSUME NEW m \in Sent
      PROVE  m \in Sent'
  <2>1. m \in PlayerMessage /\ m.gen \in Nat /\ m.stream \in Streams
    BY DEF Sent, PlayerMessage
  <2>2. /\ m.what \in DecoderNotify => m.gen <= mDecoderGeneration[m.stream]
        /\ m.what \in RendererNotify =>
             m.gen <= mRendererGeneration /\ (m.gen = mRendererGeneration => mRenderer)
        /\ m.what = "ScanSources" => m.gen <= mScanSourcesGeneration
        /\ m.what \in Answers => m.flag = FALSE
    BY DEF Sent
  <2>3. /\ mDecoderGeneration[m.stream] \in Nat /\ mDecoderGeneration'[m.stream] \in Nat
        /\ mRendererGeneration \in Nat /\ mRendererGeneration' \in Nat
        /\ mScanSourcesGeneration \in Nat /\ mScanSourcesGeneration' \in Nat
    BY <2>1 DEF TypeOK, ObjectTypeOK, ScanTypeOK
  <2>4. m.what \in DecoderNotify => m.gen <= mDecoderGeneration'[m.stream]
    BY <2>1, <2>2, <2>3
  <2>5. m.what \in RendererNotify =>
             m.gen <= mRendererGeneration' /\ (m.gen = mRendererGeneration' => mRenderer')
    BY <2>1, <2>2, <2>3
  <2>6. m.what = "ScanSources" => m.gen <= mScanSourcesGeneration'
    BY <2>1, <2>2, <2>3
  <2> QED BY <2>1, <2>2, <2>4, <2>5, <2>6 DEF Sent
<1> QED BY <1>1 DEF Orders

\* instantiateDecoder() for streams that have no decoder and are not flushing.
LEMMA InstantiateKeepsFlush ==
    ASSUME TypeOK, TypeOK', FlushInv, Alive, mRenderer,
           NEW S \in SUBSET Streams, NEW offload, Instantiate(S, offload),
           \A s \in S : mDecoder[s] = "NULL" /\ mFlushing[s] = "NONE",
           QueueQuiet, looper' \notin {"tearError", "tearTimeout"},
           renderer'.notifyComplete = renderer.notifyComplete,
           UNCHANGED <<mStarted, mFlushing, mFlushComplete, mRenderer, mRendererGeneration,
                       mScanSourcesGeneration>>,
           \A g \in scanTimer' : g <= mScanSourcesGeneration,
           (~mStarted \/ ~NotFlushing) /\ NoScan => NoScan'
    PROVE  FlushInv'
<1>1. NothingAhead /\ HandshakeInv /\ mRenderer = mStarted
  BY DEF FlushInv
<1>2. ASSUME NEW s \in Streams
      PROVE  /\ s \in S => /\ mDecoder'[s] # "NULL"
                           /\ mDecoderGeneration'[s] = mDecoderGeneration[s] + 1
                           /\ decoder'[s].queue = <<Order("Configure")>>
             /\ s \notin S => /\ mDecoder'[s] = mDecoder[s]
                              /\ mDecoderGeneration'[s] = mDecoderGeneration[s]
                              /\ decoder'[s] = decoder[s]
  BY DEF Instantiate, NewDecoder, Order
<1>3. ASSUME NEW s \in Streams
      PROVE  /\ decoder'[s].queue \in Seq(Orders)
             /\ s \in S => Ordered(s, "Flush")' = 0 /\ Ordered(s, "Shutdown")' = 0
  <2> DEFINE q == <<Order("Configure")>>
  <2>1. Order("Configure") \in Orders
    BY DEF Order, Orders, DecoderMessage
  <2>2. q \in Seq(Orders)
    BY <2>1
  <2>3. Occurrences(q, Order("Flush")) = 0 /\ Occurrences(q, Order("Shutdown")) = 0
    <3>1. Order("Flush") # Order("Configure") /\ Order("Shutdown") # Order("Configure")
      BY DEF Order
    <3> QED BY <3>1, OccurrencesOne
  <2>4. Order("Flush")' = Order("Flush") /\ Order("Shutdown")' = Order("Shutdown")
    BY DEF Order
  <2>5. decoder[s].queue \in Seq(Orders)
    BY <1>1 DEF NothingAhead
  <2>6. CASE s \in S
    <3>1. decoder'[s].queue = q
      BY <1>2, <2>6
    <3> HIDE DEF q
    <3> QED BY <2>2, <2>3, <2>4, <3>1 DEF Ordered
  <2>7. CASE s \notin S
    BY <1>2, <2>5, <2>7
  <2> QED BY <2>6, <2>7
<1>4. playerQueue' \in Seq(Sent)
  BY DEF QueueQuiet
<1>5. Sent \subseteq Sent' /\ Orders' = Orders
  <2>1. \A s \in Streams : mDecoderGeneration[s] <= mDecoderGeneration'[s]
    BY <1>2 DEF TypeOK, ObjectTypeOK
  <2>2. /\ mRendererGeneration <= mRendererGeneration'
        /\ mScanSourcesGeneration <= mScanSourcesGeneration'
    BY DEF TypeOK, ObjectTypeOK, ScanTypeOK
  <2> QED BY <2>1, <2>2, SentGrows
<1>6. NothingAhead'
  <2>1. playerQueue' \in Seq(Sent')
    BY <1>4, <1>5
  <2> QED BY <1>3, <1>5, <2>1 DEF NothingAhead
<1>7. ASSUME NEW s \in Streams
      PROVE  Balanced(s)'
  <2>1. Balanced(s)
    BY <1>1 DEF HandshakeInv
  <2>2. Order("Flush")' = Order("Flush") /\ Order("Shutdown")' = Order("Shutdown")
    BY DEF Order
  <2>3. RendererAnswer(s)' = RendererAnswer(s)
    BY DEF RendererAnswer
  <2>4. Wanted(s)' = Wanted(s) /\ RendererAnswered(s)' = RendererAnswered(s)
    BY <2>3 DEF Wanted, QueueQuiet, RendererAnswered
  <2>5. CASE s \notin S
    <3>1. \A w : Answer(s, w)' = Answer(s, w)
      BY <1>2, <2>5 DEF Answer, Notify
    <3>2. /\ Answered(s, "FlushCompleted")' = Answered(s, "FlushCompleted")
          /\ Answered(s, "ShutdownCompleted")' = Answered(s, "ShutdownCompleted")
      BY <3>1 DEF QueueQuiet, Answered
    <3>3. /\ Ordered(s, "Flush")' = Ordered(s, "Flush")
          /\ Ordered(s, "Shutdown")' = Ordered(s, "Shutdown")
      BY <1>2, <2>2, <2>5 DEF Ordered
    <3> QED BY <2>1, <2>4, <3>2, <3>3, SameBalance
  <2>6. CASE s \in S
    <3>1. mFlushing[s] \in Settled /\ mFlushing'[s] \in Settled
      BY <2>6 DEF Settled
    <3>2. RendererAnswered(s) = 0 /\ Wanted(s) = 0
      BY <1>1, <2>1, <3>1, IdleBalance
    <3>3. ASSUME NEW w \in {"FlushCompleted", "ShutdownCompleted"}
          PROVE  Answered(s, w)' = 0
      <4>1. /\ Answer(s, w)'.what = w /\ Answer(s, w)'.stream = s
            /\ Answer(s, w)'.gen = mDecoderGeneration[s] + 1
        BY <1>2, <2>6 DEF Answer, Notify, Notification
      <4>2. mDecoderGeneration[s] + 1 \in Nat /\ mDecoderGeneration[s] + 1 > mDecoderGeneration[s]
        BY DEF TypeOK, ObjectTypeOK
      <4>3. Occurrences(playerQueue', Answer(s, w)') = 0
        BY <1>4, <4>1, <4>2, NoAnswerAhead
      <4> QED BY <4>3 DEF Answered
    <3>4. /\ Ordered(s, "Flush")' = 0 /\ Ordered(s, "Shutdown")' = 0
          /\ Answered(s, "FlushCompleted")' = 0 /\ Answered(s, "ShutdownCompleted")' = 0
          /\ RendererAnswered(s)' = 0 /\ Wanted(s)' = 0
      BY <1>3, <2>4, <2>6, <3>2, <3>3
    <3> QED BY <3>1, <3>4, IdleBalanceNext
  <2> QED BY <2>5, <2>6
<1>8. DecodersExist'
  <2>1. DecodersExist
    BY <1>1 DEF HandshakeInv
  <2> QED BY <1>2, <2>1 DEF DecodersExist
<1>9. FlushEnds' /\ ScansHaveTheirTime'
  BY <1>1 DEF HandshakeInv, FlushEnds, ScansHaveTheirTime, NotFlushing
<1> QED BY <1>1, <1>6, <1>7, <1>8, <1>9 DEF FlushInv, HandshakeInv

LEMMA ResumeKeepsFlush ==
    ASSUME TypeOK, TypeOK', FlushInv, OnStartResumes \/ OnResumeOnBufferingEnd
    PROVE  FlushInv'
<1>1. /\ Receive("Start") \/ Receive("ResumeOnBufferingEnd")
      /\ UNCHANGED <<mStarted, flushVars, mRenderer, mRendererGeneration, scanVars>>
  BY DEF OnStartResumes, OnResumeOnBufferingEnd
<1>2. NothingAhead /\ Alive /\ HandshakeInv /\ looper = "idle"
  BY <1>1 DEF Receive, FlushInv, Alive, AbortStates
<1>3. /\ QueueQuiet
      /\ playerQueue \in Seq(OtherMessages) => playerQueue' \in Seq(OtherMessages)
  BY <1>1, <1>2, QuietTakes
<1>4. CASE mStarted /\ Resume
  <2> DEFINE S == IF MissingAudioDecoder THEN Formats \cap {"audio"} ELSE {}
  <2>1. /\ Instantiate(S, mOffloadAudio)
        /\ renderer' = IF mRenderer THEN ToRenderer(WithMedia(renderer, S), "Resume")
                       ELSE renderer
        /\ looper' = Check(mSource # "NULL" \/ ~MissingAudioDecoder, "abortNullSource", "idle")
    BY <1>4, Zenon DEF Resume
  <2>2. S \in SUBSET Streams /\ \A s \in S : s = "audio" /\ MissingAudioDecoder
    BY FormatsAssumption DEF Streams
  <2>3. mRenderer
    BY <1>4 DEF FlushInv
  <2>4. \A s \in S : mDecoder[s] = "NULL" /\ mFlushing[s] = "NONE"
    <3>1. DecodersExist
      BY <1>2 DEF HandshakeInv
    <3>2. mDecoder["audio"] = "NULL" => mFlushing["audio"] \in {"NONE", "SHUT_DOWN"}
      BY <3>1 DEF DecodersExist, Streams
    <3> QED BY <2>2, <3>2 DEF MissingAudioDecoder, AudioDecoderStillNeeded
  <2>5. \A r, w, Q : ToRenderer(WithMedia(r, Q), w).notifyComplete = r.notifyComplete
    BY DEF ToRenderer, WithMedia
  <2>6. renderer'.notifyComplete = renderer.notifyComplete
    BY <2>1, <2>5
  <2>7. looper' \notin {"tearError", "tearTimeout"}
    BY <2>1 DEF Check
  <2>8. NoScan => NoScan'
    BY <1>1, <1>3 DEF NoScan, OtherMessages, scanVars
  <2>9. \A g \in scanTimer' : g <= mScanSourcesGeneration
    BY <1>1, <1>2 DEF NothingAhead, scanVars
  <2> HIDE DEF S
  <2> QED BY <1>1, <1>2, <1>3, <2>1, <2>2, <2>3, <2>4, <2>6, <2>7, <2>8, <2>9, InstantiateKeepsFlush
       DEF flushVars, scanVars
<1>5. CASE UNCHANGED <<looper, mDecoder, mDecoderGeneration, decoder, renderer>>
  <2>1. DecodersQuiet
    BY <1>5, QuietDecoders
  <2> QED BY <1>1, <1>2, <1>3, <1>5, <2>1, UndisturbedScans DEF flushVars, scanVars
<1> QED BY <1>4, <1>5 DEF OnStartResumes, OnResumeOnBufferingEnd, BufferingResumes

LEMMA OnScanSourcesKeepsFlush ==
    ASSUME TypeOK, TypeOK', FlushInv, OnScanSources
    PROVE  FlushInv'
<1>1. PICK found \in SUBSET Formats, opened \in BOOLEAN, more \in BOOLEAN :
         LET missing == {s \in found : /\ mDecoder[s] = "NULL"
                                       /\ s = "video" => mNativeWindow}
             tries   == CanOffload /\ "audio" \in missing
             offload == IF tries THEN renderer'.offload ELSE mOffloadAudio
             again   == /\ more
                        /\ \/ mDecoder'["audio"] = "NULL"
                           \/ mDecoder'["video"] = "NULL" /\ mNativeWindow
         IN /\ tries => renderer.queue = <<>>
            /\ looper' = Check(mSource # "NULL", "abortNullSource", "idle")
            /\ renderer' = WithMedia(IF tries
                 THEN OpenOffloadSink([renderer EXCEPT !.offload = @ \/ ~mOffloadAudio], opened)
                 ELSE renderer, missing)
            /\ mOffloadAudio' = offload
            /\ Instantiate(missing, offload)
            /\ mScanSourcesPending' = again
            /\ scanTimer' = IF again THEN scanTimer \cup {Received.gen} ELSE scanTimer
  BY Zenon DEF OnScanSources
<1> DEFINE missing == {s \in found : /\ mDecoder[s] = "NULL"
                                     /\ s = "video" => mNativeWindow}
           tries   == CanOffload /\ "audio" \in missing
           offload == IF tries THEN renderer'.offload ELSE mOffloadAudio
           opening == [renderer EXCEPT !.offload = @ \/ ~mOffloadAudio]
<1>2. /\ Receive("ScanSources") /\ Received.gen = mScanSourcesGeneration
      /\ UNCHANGED <<mStarted, mRenderer, mRendererGeneration, flushVars, mScanSourcesGeneration>>
  BY DEF OnScanSources, pauseVars
<1>3. NothingAhead /\ Alive
  BY <1>2 DEF Receive, FlushInv, Alive, AbortStates
<1>4. mStarted /\ NotFlushing /\ mRenderer
  BY <1>2, <1>3, ScanIsDue
<1>5. QueueQuiet
  BY <1>2, <1>3, QuietTakes
<1>6. missing \in SUBSET Streams /\ \A s \in missing : mDecoder[s] = "NULL" /\ mFlushing[s] = "NONE"
  BY <1>4, FormatsAssumption DEF NotFlushing, AllNone
<1>7. renderer'.notifyComplete = renderer.notifyComplete
  <2>1. \A r, S : WithMedia(r, S).notifyComplete = r.notifyComplete
    BY DEF WithMedia
  <2>2. opening.notifyComplete = renderer.notifyComplete
    OBVIOUS
  <2>3. OpenOffloadSink(opening, opened).notifyComplete = opening.notifyComplete
    <3> HIDE DEF opening
    <3> QED BY DEF OpenOffloadSink
  <2>4. renderer' = WithMedia(IF tries THEN OpenOffloadSink(opening, opened) ELSE renderer, missing)
    BY <1>1, Zenon
  <2> HIDE DEF opening, missing, tries
  <2> QED BY <2>1, <2>2, <2>3, <2>4
<1>8. \A g \in scanTimer' : g <= mScanSourcesGeneration
  BY <1>1, <1>2, <1>3 DEF NothingAhead, TypeOK, ScanTypeOK
<1>9. looper' \notin {"tearError", "tearTimeout"}
  BY <1>1 DEF Check
<1>10. Instantiate(missing, offload)
  BY <1>1, Zenon
<1> HIDE DEF missing, offload
<1> QED
  BY <1>2, <1>3, <1>4, <1>5, <1>6, <1>7, <1>8, <1>9, <1>10, InstantiateKeepsFlush DEF flushVars

\* A player that is not started has no decoder and flushes nothing.
LEMMA NotStarted ==
    ASSUME TypeOK, HandshakeInv, ~mRenderer
    PROVE  NotFlushing /\ \A s \in Streams : mDecoder[s] = "NULL"
<1>1. \A s \in Streams : mDecoder[s] = "NULL" /\ mFlushing[s] \in Settled
  BY DEF HandshakeInv, DecodersExist, Settled
<1> QED BY <1>1 DEF HandshakeInv, FlushEnds

\* The player starts, or is reset, while nothing is flushing: the new renderer
\* is asked for nothing, and no answer of it is on its way.
LEMMA NewRendererKeepsFlush ==
    ASSUME TypeOK, TypeOK', NothingAhead, HandshakeInv, NotFlushing,
           NEW offload, renderer' = NewRenderer(offload),
           mRendererGeneration' = mRendererGeneration + 1,
           mScanSourcesGeneration <= mScanSourcesGeneration',
           UNCHANGED <<mFlushing, mFlushComplete, mDecoder, mDecoderGeneration, decoder>>,
           playerQueue' \in Seq(Sent),
           \A x : x.what \in Answers => Occurrences(playerQueue', x) = Occurrences(playerQueue, x),
           \A g \in scanTimer' : g <= mScanSourcesGeneration'
    PROVE  NothingAhead' /\ NotFlushing' /\ \A s \in Streams : Balanced(s)'
<1>1. Sent \subseteq Sent' /\ Orders' = Orders
  <2>1. /\ \A s \in Streams : mDecoderGeneration[s] <= mDecoderGeneration'[s]
        /\ mRendererGeneration <= mRendererGeneration' /\ mRendererGeneration' # mRendererGeneration
    BY DEF TypeOK, ObjectTypeOK
  <2> QED BY <2>1, SentGrows
<1>2. NothingAhead'
  <2>1. playerQueue' \in Seq(Sent')
    BY <1>1
  <2> QED BY <1>1, <2>1 DEF NothingAhead
<1>3. ASSUME NEW s \in Streams
      PROVE  Balanced(s)'
  <2>1. mFlushing[s] \in Settled /\ mFlushing'[s] \in Settled
    BY DEF NotFlushing, AllNone, Settled
  <2>2. Balanced(s)
    BY DEF HandshakeInv
  <2>3. /\ Ordered(s, "Flush") = 0 /\ Ordered(s, "Shutdown") = 0
        /\ Answered(s, "FlushCompleted") = 0
        /\ Answered(s, "ShutdownCompleted") = 0
    BY <2>1, <2>2, IdleBalance
  <2>4. Ordered(s, "Flush")' = 0 /\ Ordered(s, "Shutdown")' = 0
    BY <2>3 DEF Ordered, Order
  <2>5. \A w : Answer(s, w)' = Answer(s, w)
    BY DEF Answer, Notify
  <2>6. Answered(s, "FlushCompleted")' = 0 /\ Answered(s, "ShutdownCompleted")' = 0
    BY <2>3, <2>5, AnswersAreAnswers DEF Answered
  <2>7. RendererAnswered(s)' = 0
    <3>1. /\ RendererAnswer(s)'.what = "RendererFlushComplete"
          /\ RendererAnswer(s)'.gen = mRendererGeneration + 1
      BY DEF RendererAnswer, Notification
    <3>2. mRendererGeneration + 1 \in Nat /\ mRendererGeneration + 1 > mRendererGeneration
      BY DEF TypeOK, ObjectTypeOK
    <3>3. Occurrences(playerQueue', RendererAnswer(s)') = 0
      BY <3>1, <3>2, NoAnswerAhead
    <3> QED BY <3>3 DEF RendererAnswered
  <2>8. Wanted(s)' = 0
    BY DEF Wanted, NewRenderer
  <2> QED BY <2>1, <2>4, <2>6, <2>7, <2>8, IdleBalanceNext
<1> QED BY <1>2, <1>3 DEF NotFlushing

LEMMA OnStartKeepsFlush ==
    ASSUME TypeOK, TypeOK', FlushInv, OnStart
    PROVE  FlushInv'
<1>1. Alive /\ HandshakeInv /\ NothingAhead /\ ~mRenderer
  BY DEF OnStart, FlushInv, Alive, AbortStates
<1>2. NotFlushing /\ \A s \in Streams : mDecoder[s] = "NULL"
  BY <1>1, NotStarted
<1> DEFINE rest == Tail(playerQueue)
<1>3. /\ rest \in Seq(Sent)
      /\ \A x : x.what \in Answers => Occurrences(rest, x) = Occurrences(playerQueue, x)
  <2>1. playerQueue \in Seq(Sent) /\ playerQueue # <<>> /\ Head(playerQueue).what = "Start"
    BY <1>1 DEF NothingAhead, OnStart, Received
  <2>2. ASSUME NEW x, x.what \in Answers
        PROVE  Occurrences(rest, x) = Occurrences(playerQueue, x)
    <3>1. Head(playerQueue) # x
      BY <2>1, <2>2 DEF Answers
    <3>2. /\ rest \in Seq(Sent)
          /\ Occurrences(playerQueue, x)
               = Occurrences(rest, x) + (IF Head(playerQueue) = x THEN 1 ELSE 0)
      BY <2>1, OccurrencesTail
    <3> HIDE DEF rest
    <3>3. Occurrences(rest, x) \in Nat
      BY <3>2, OccurrencesType
    <3> QED BY <3>1, <3>2, <3>3
  <2> QED BY <2>1, <2>2
<1>4. PostScanSources(rest)
  BY DEF OnStart
<1> HIDE DEF rest
<1>5. /\ playerQueue' \in Seq(Sent)
      /\ \A x : x.what \in Answers => Occurrences(playerQueue', x) = Occurrences(playerQueue, x)
      /\ UNCHANGED <<mScanSourcesGeneration, scanTimer>>
  <2>1. CASE mScanSourcesPending
    BY <1>3, <1>4, <2>1 DEF PostScanSources, scanVars
  <2>2. CASE ~mScanSourcesPending
    <3>1. /\ playerQueue' = Append(rest,
                 [Message("ScanSources", FALSE) EXCEPT !.gen = mScanSourcesGeneration])
          /\ UNCHANGED <<mScanSourcesGeneration, scanTimer>>
      BY <1>4, <2>2 DEF PostScanSources
    <3>2. mScanSourcesGeneration \in Nat /\ mScanSourcesGeneration <= mScanSourcesGeneration
      BY DEF TypeOK, ScanTypeOK
    <3>3. /\ playerQueue' \in Seq(Sent)
          /\ \A x : x.what \in Answers => Occurrences(playerQueue', x) = Occurrences(rest, x)
      BY <1>1, <1>3, <3>1, <3>2, ScanIsQuiet
    <3> QED BY <1>3, <3>1, <3>3
  <2> QED BY <2>1, <2>2
<1>6. /\ renderer' = NewRenderer(CanOffload) /\ mRendererGeneration' = mRendererGeneration + 1
      /\ UNCHANGED <<mFlushing, mFlushComplete, mDecoder, mDecoderGeneration, decoder>>
      /\ mRenderer' = TRUE /\ mStarted' = TRUE
      /\ looper' \in {"idle", "abortNullSource"}
  BY DEF OnStart, flushVars, Check
<1>7. \A g \in scanTimer' : g <= mScanSourcesGeneration'
  BY <1>1, <1>5 DEF NothingAhead
<1>8. mScanSourcesGeneration <= mScanSourcesGeneration'
  BY <1>5 DEF TypeOK, ScanTypeOK
<1>9. NothingAhead' /\ NotFlushing' /\ \A s \in Streams : Balanced(s)'
  BY <1>1, <1>2, <1>5, <1>6, <1>7, <1>8, NewRendererKeepsFlush
<1>10. DecodersExist'
  BY <1>1, <1>6 DEF HandshakeInv, DecodersExist
<1>11. FlushEnds' /\ ScansHaveTheirTime'
  BY <1>6, <1>9 DEF FlushEnds, ScansHaveTheirTime
<1> QED BY <1>6, <1>9, <1>10, <1>11 DEF FlushInv, HandshakeInv

LEMMA PerformResetKeepsFlush ==
    ASSUME TypeOK, TypeOK', FlushInv, PerformReset
    PROVE  FlushInv'
<1>1. /\ looper = "deferred" /\ NotFlushing
      /\ mScanSourcesGeneration' = mScanSourcesGeneration + 1 /\ UNCHANGED scanTimer
      /\ mRenderer' = FALSE /\ mStarted' = FALSE
      /\ mRendererGeneration' = mRendererGeneration + 1
      /\ renderer' = NewRenderer(FALSE)
      /\ UNCHANGED <<playerQueue, mDecoder, mDecoderGeneration, mFlushing, mFlushComplete, decoder>>
      /\ (\E s \in Streams : mDecoder[s] # "NULL") => looper' = "abortReset"
      /\ looper' \notin {"tearError", "tearTimeout"}
  BY DEF PerformReset, Execute, ForgetScans, StopPlayer, flushVars, Check
<1>2. NothingAhead /\ HandshakeInv
  BY <1>1 DEF FlushInv, Alive, AbortStates
<1>3. mScanSourcesGeneration \in Nat /\ \A g \in scanTimer : g \in Nat /\ g <= mScanSourcesGeneration
  BY <1>2 DEF NothingAhead, TypeOK, ScanTypeOK
<1>4. /\ mScanSourcesGeneration <= mScanSourcesGeneration'
      /\ \A g \in scanTimer' : g <= mScanSourcesGeneration' /\ g # mScanSourcesGeneration'
  BY <1>1, <1>3
<1>5. playerQueue' \in Seq(Sent)
  BY <1>1, <1>2 DEF NothingAhead
<1>6. NothingAhead' /\ NotFlushing' /\ \A s \in Streams : Balanced(s)'
  BY <1>1, <1>2, <1>4, <1>5, NewRendererKeepsFlush
<1>7. NoScan'
  <2>1. Sent \subseteq OtherMessages'
    <3>1. ASSUME NEW m \in Sent
          PROVE  m \in OtherMessages'
      <4>1. /\ m \in PlayerMessage /\ m.gen \in Nat
            /\ m.what = "ScanSources" => m.gen <= mScanSourcesGeneration
        BY DEF Sent, PlayerMessage
      <4>2. m.what = "ScanSources" => m.gen # mScanSourcesGeneration'
        BY <1>1, <1>3, <4>1
      <4> QED BY <4>1, <4>2 DEF OtherMessages
    <3> QED BY <3>1
  <2>2. playerQueue' \in Seq(OtherMessages')
    BY <1>5, <2>1
  <2> QED BY <1>4, <2>2 DEF NoScan
<1>8. Alive' => DecodersExist'
  BY <1>1, <1>2 DEF HandshakeInv, DecodersExist, Alive, AbortStates
<1> QED BY <1>1, <1>6, <1>7, <1>8 DEF FlushInv, HandshakeInv, FlushEnds, ScansHaveTheirTime

-----------------------------------------------------------------------------
(* Orders to the decoders.                                                  *)

LEMMA PostCounts ==
    ASSUME NEW d, d.queue \in Seq(Orders), NEW f \in BOOLEAN,
           NEW w \in {"Flush", "Resume", "Shutdown"}, w \in {"Flush", "Shutdown"} => f = FALSE,
           NEW v \in {"Flush", "Shutdown"}
    PROVE  /\ Post(d, w, f).queue \in Seq(Orders)
           /\ Occurrences(Post(d, w, f).queue, Order(v))
                = Occurrences(d.queue, Order(v)) + (IF v = w THEN 1 ELSE 0)
<1> DEFINE m == [what |-> w, flag |-> f]
           q == d.queue
<1>1. m \in Orders
  BY DEF Orders, DecoderMessage
<1>2. Post(d, w, f).queue = Append(q, m) \/ Post(d, w, f).queue = Post(d, w, f).queue
  OBVIOUS
<1>3. q \in Seq(Orders)
  OBVIOUS
<1>4. m = Order(v) <=> v = w
  BY DEF Order
<1> HIDE DEF m, q
<1>5. /\ Append(q, m) \in Seq(Orders)
      /\ Occurrences(Append(q, m), Order(v))
           = Occurrences(q, Order(v)) + (IF m = Order(v) THEN 1 ELSE 0)
  BY <1>1, <1>3, OccurrencesAppend
<1> QED BY <1>4, <1>5 DEF m, q, Post

\* The actions that order no flush and no shutdown.
LEMMA DeferredKeepsFlush ==
    ASSUME TypeOK, FlushInv,
           \/ DeferredDone \/ PerformSeek \/ PerformSetSurface \/ PerformResumeDecoders
           \/ PerformPostMessage
    PROVE  FlushInv'
<1>1. /\ UNCHANGED <<playerQueue, mStarted, flushVars, objectVars, scanVars, renderer>>
      /\ looper = "deferred" /\ looper' \notin {"tearError", "tearTimeout"}
  BY DEF DeferredDone, PerformSeek, PerformSetSurface, PerformResumeDecoders, PerformPostMessage, Execute,
    pauseVars, Check
<1>2. Alive /\ NothingAhead
  BY <1>1 DEF FlushInv, Alive, AbortStates
<1>3. DecodersQuiet
  <2>1. CASE DeferredDone \/ PerformSetSurface \/ PerformPostMessage
    <3>1. UNCHANGED decoder
      BY <2>1 DEF DeferredDone, PerformSetSurface, PerformPostMessage
    <3> QED BY <3>1, QuietDecoders
  <2>2. CASE PerformSeek
    <3>1. CASE UNCHANGED decoder
      BY <3>1, QuietDecoders
    <3>2. CASE decoder' = [s \in Streams |-> Outdated(decoder[s])]
      <4>1. \A d \in DecoderState : Outdated(d).queue = d.queue
        BY DEF Outdated, DecoderState
      <4>2. Outdated(NoDecoder) = NoDecoder
        BY DEF Outdated, NoDecoder
      <4> QED BY <1>2, <3>2, <4>1, <4>2
           DEF DecodersQuiet, NothingAhead, Ordered, TypeOK, DecoderTypeOK
    <3> QED BY <2>2, <3>1, <3>2 DEF PerformSeek
  <2>3. CASE PerformResumeDecoders
    <3> SUFFICES ASSUME NEW s \in Streams
                 PROVE  /\ decoder'[s].queue \in Seq(Orders)
                        /\ Occurrences(decoder'[s].queue, Order("Flush")) = Ordered(s, "Flush")
                        /\ Occurrences(decoder'[s].queue, Order("Shutdown"))
                             = Ordered(s, "Shutdown")
                        /\ mDecoder[s] = "NULL" /\ decoder[s] = NoDecoder
                             => decoder'[s] = NoDecoder
      BY DEF DecodersQuiet
    <3>1. decoder[s].queue \in Seq(Orders)
      BY <1>2 DEF NothingAhead
    <3>2. PICK f \in BOOLEAN :
             decoder'[s] = IF mDecoder[s] = "NULL" THEN decoder[s]
                           ELSE Post(decoder[s], "Resume", f)
      BY <2>3 DEF PerformResumeDecoders
    <3>3. CASE mDecoder[s] = "NULL"
      BY <3>1, <3>2, <3>3 DEF Ordered
    <3>4. CASE mDecoder[s] # "NULL"
      <4>1. decoder'[s] = Post(decoder[s], "Resume", f)
        BY <3>2, <3>4
      <4>2. /\ Post(decoder[s], "Resume", f).queue \in Seq(Orders)
            /\ Occurrences(Post(decoder[s], "Resume", f).queue, Order("Flush"))
                 = Occurrences(decoder[s].queue, Order("Flush")) + 0
            /\ Occurrences(Post(decoder[s], "Resume", f).queue, Order("Shutdown"))
                 = Occurrences(decoder[s].queue, Order("Shutdown")) + 0
        BY <3>1, PostCounts
      <4>3. Ordered(s, "Flush") \in Nat /\ Ordered(s, "Shutdown") \in Nat
        BY <1>2, CountTypes
      <4> QED BY <3>4, <4>1, <4>2, <4>3 DEF Ordered
    <3> QED BY <3>3, <3>4
  <2> QED BY <2>1, <2>2, <2>3
<1>4. QueueQuiet /\ (playerQueue \in Seq(OtherMessages) => playerQueue' \in Seq(OtherMessages))
  BY <1>1, <1>2, QuietQueue
<1> QED BY <1>1, <1>2, <1>3, <1>4, UndisturbedScans DEF flushVars, objectVars, scanVars

LEMMA BalanceNext ==
    ASSUME NEW s \in Streams, NEW f, NEW c, NEW n, NEW r, NEW d, NEW x,
           Ordered(s, "Flush")' = f, Answered(s, "FlushCompleted")' = c, Wanted(s)' = n,
           RendererAnswered(s)' = r, Ordered(s, "Shutdown")' = d,
           Answered(s, "ShutdownCompleted")' = x,
           Balance(mFlushing'[s], mFlushComplete'[s], f, c, n, r, d, x)
    PROVE  Balanced(s)'
<1> DEFINE a == Ordered(s, "Flush")
           b == Ordered(s, "Shutdown")
           k == Answered(s, "FlushCompleted")
           l == Answered(s, "ShutdownCompleted")
           e == RendererAnswered(s)
           w == Wanted(s)
<1>1. Balanced(s)' <=> Balance(mFlushing'[s], mFlushComplete'[s], a', k', w', e', b', l')
  BY DEF Balanced
<1>2. a' = f /\ b' = d /\ k' = c /\ l' = x /\ e' = r /\ w' = n
  OBVIOUS
<1> HIDE DEF a, b, k, l, e, w
<1> QED BY <1>1, <1>2

\* performDecoderFlush(): every decoder that is flushed gets one order.
LEMMA PerformFlushKeepsFlush ==
    ASSUME TypeOK, TypeOK', FlushInv, PerformDecoderFlush
    PROVE  FlushInv'
<1> DEFINE cmd(s) == Next1.cmd[s]
           F == {s \in Streams : cmd(s) # "NONE" /\ mDecoder[s] # "NULL"}
<1>1. /\ looper = "deferred" /\ NotFlushing
      /\ UNCHANGED <<looper, playerQueue, mStarted, objectVars, renderer>>
      /\ decoder' = [s \in Streams |-> IF s \in F THEN Post(decoder[s], "Flush", FALSE)
                                       ELSE decoder[s]]
      /\ mFlushing' = [s \in Streams |->
            IF s \notin F THEN mFlushing[s]
            ELSE IF cmd(s) = "SHUTDOWN" THEN "FLUSHING_DECODER_SHUTDOWN"
            ELSE "FLUSHING_DECODER"]
      /\ mFlushComplete' = [s \in Streams |->
            IF s \in F THEN [p \in Parties |-> p = "renderer" /\ ~mRenderer]
            ELSE mFlushComplete[s]]
      /\ IF F = {} THEN UNCHANGED scanVars ELSE ForgetScans
  BY DEF PerformDecoderFlush, Execute, pauseVars
<1>2. NothingAhead /\ HandshakeInv /\ mRenderer = mStarted /\ Alive
  BY <1>1 DEF FlushInv, Alive, AbortStates
<1> HIDE DEF F
<1>3. \A s \in F : s \in Streams /\ mDecoder[s] # "NULL" /\ mRenderer
  BY <1>2 DEF F, HandshakeInv, DecodersExist
<1>4. mScanSourcesGeneration \in Nat /\ \A g \in scanTimer : g \in Nat /\ g <= mScanSourcesGeneration
  BY <1>2 DEF NothingAhead, TypeOK, ScanTypeOK
<1>5. /\ UNCHANGED scanTimer /\ mScanSourcesGeneration <= mScanSourcesGeneration'
      /\ F # {} => mScanSourcesGeneration' = mScanSourcesGeneration + 1
      /\ F = {} => mScanSourcesGeneration' = mScanSourcesGeneration
  BY <1>1, <1>4 DEF ForgetScans, scanVars
<1>6. Sent \subseteq Sent' /\ Orders' = Orders
  <2>1. /\ \A s \in Streams : mDecoderGeneration[s] <= mDecoderGeneration'[s]
        /\ mRendererGeneration <= mRendererGeneration' /\ mRenderer' = mRenderer
    BY <1>1 DEF TypeOK, ObjectTypeOK, objectVars
  <2> QED BY <1>5, <2>1, SentGrows
<1>7. ASSUME NEW s \in Streams
      PROVE  /\ decoder'[s].queue \in Seq(Orders)
             /\ Ordered(s, "Shutdown")' = Ordered(s, "Shutdown")
             /\ Ordered(s, "Flush")' = IF s \in F THEN Ordered(s, "Flush") + 1
                                       ELSE Ordered(s, "Flush")
  <2>1. decoder[s].queue \in Seq(Orders)
    BY <1>2 DEF NothingAhead
  <2>2. Ordered(s, "Shutdown") \in Nat
    BY <1>2, CountTypes
  <2>3. Order("Flush")' = Order("Flush") /\ Order("Shutdown")' = Order("Shutdown")
    BY DEF Order
  <2>4. CASE s \in F
    <3>1. decoder'[s] = Post(decoder[s], "Flush", FALSE)
      BY <1>1, <2>4
    <3>2. /\ Post(decoder[s], "Flush", FALSE).queue \in Seq(Orders)
          /\ Occurrences(Post(decoder[s], "Flush", FALSE).queue, Order("Flush"))
               = Occurrences(decoder[s].queue, Order("Flush")) + 1
          /\ Occurrences(Post(decoder[s], "Flush", FALSE).queue, Order("Shutdown"))
               = Occurrences(decoder[s].queue, Order("Shutdown")) + 0
      BY <2>1, PostCounts
    <3>3. decoder'[s].queue \in Seq(Orders)
      BY <3>1, <3>2
    <3>4. Ordered(s, "Shutdown")' = Ordered(s, "Shutdown")
      <4>1. Ordered(s, "Shutdown")' = Occurrences(decoder'[s].queue, Order("Shutdown"))
        BY <2>3 DEF Ordered
      <4>2. Ordered(s, "Shutdown")' = Ordered(s, "Shutdown") + 0
        BY <3>1, <3>2, <4>1 DEF Ordered
      <4> QED BY <2>2, <4>2
    <3>5. Ordered(s, "Flush")' = Ordered(s, "Flush") + 1
      BY <2>3, <3>1, <3>2 DEF Ordered
    <3> QED BY <2>4, <3>3, <3>4, <3>5
  <2>5. CASE s \notin F
    BY <1>1, <2>1, <2>3, <2>5 DEF Ordered
  <2> QED BY <2>4, <2>5
<1>8. NothingAhead'
  <2>1. playerQueue' \in Seq(Sent')
    BY <1>1, <1>2, <1>6 DEF NothingAhead
  <2>2. \A g \in scanTimer' : g <= mScanSourcesGeneration'
    BY <1>4, <1>5
  <2> QED BY <1>6, <1>7, <2>1, <2>2 DEF NothingAhead
<1>9. ASSUME NEW s \in Streams
      PROVE  Balanced(s)'
  <2>1. mFlushing[s] = "NONE" /\ mFlushing[s] \in Settled
    BY <1>1 DEF NotFlushing, AllNone, Settled
  <2>2. Balanced(s)
    BY <1>2 DEF HandshakeInv
  <2>3. /\ Ordered(s, "Flush") = 0 /\ Ordered(s, "Shutdown") = 0
        /\ Answered(s, "FlushCompleted") = 0 /\ Answered(s, "ShutdownCompleted") = 0
        /\ RendererAnswered(s) = 0 /\ Wanted(s) = 0
    BY <1>2, <2>1, <2>2, IdleBalance
  <2>4. /\ Answered(s, "FlushCompleted")' = 0 /\ Answered(s, "ShutdownCompleted")' = 0
        /\ RendererAnswered(s)' = 0 /\ Wanted(s)' = 0
    BY <1>1, <2>3 DEF Answered, Answer, Notify, RendererAnswered, RendererAnswer, Wanted, objectVars
  <2>5. CASE s \in F
    <3>1. Ordered(s, "Flush")' = 1 /\ Ordered(s, "Shutdown")' = 0
      BY <1>7, <2>3, <2>5
    <3>2. /\ mFlushing'[s] \in Flushing
          /\ mFlushComplete'[s]["decoder"] = FALSE /\ mFlushComplete'[s]["renderer"] = FALSE
      BY <1>1, <1>3, <2>5 DEF Flushing, Parties
    <3>3. Balance(mFlushing'[s], mFlushComplete'[s], 1, 0, 0, 0, 0, 0)
      BY <3>2 DEF Balance
    <3> QED BY <2>4, <3>1, <3>3, BalanceNext
  <2>6. CASE s \notin F
    <3>1. Ordered(s, "Flush")' = 0 /\ Ordered(s, "Shutdown")' = 0
      BY <1>7, <2>3, <2>6
    <3>2. mFlushing'[s] \in Settled
      BY <1>1, <2>1, <2>6
    <3> QED BY <2>4, <3>1, <3>2, IdleBalanceNext
  <2> QED BY <2>5, <2>6
<1>10. DecodersExist'
  <2>1. DecodersExist
    BY <1>2 DEF HandshakeInv
  <2>2. \A s \in Streams : mFlushing'[s] = "SHUT_DOWN" => mFlushing[s] = "SHUT_DOWN"
    BY <1>1
  <2>3. \A s \in Streams : mDecoder[s] = "NULL" => decoder'[s] = decoder[s] /\ mFlushing'[s] = mFlushing[s]
    BY <1>1, <1>3
  <2> QED BY <1>1, <2>1, <2>2, <2>3 DEF DecodersExist, objectVars
<1>11. FlushEnds' /\ ScansHaveTheirTime'
  <2>1. CASE F = {}
    <3>1. mFlushing' = mFlushing
      BY <1>1, <2>1 DEF TypeOK, FlushTypeOK
    <3>2. NoScan => NoScan'
      BY <1>1, <2>1, <1>5 DEF NoScan, OtherMessages
    <3> QED BY <1>1, <1>2, <3>1, <3>2 DEF FlushEnds, NotFlushing, ScansHaveTheirTime, HandshakeInv
  <2>2. CASE F # {}
    <3>1. PICK s \in F : s \in Streams
      BY <1>3, <2>2
    <3>2. mFlushing'[s] \notin Settled
      BY <1>1, <3>1 DEF Settled
    <3>3. Sent \subseteq OtherMessages'
      <4>1. ASSUME NEW m \in Sent
            PROVE  m \in OtherMessages'
        <5>1. /\ m \in PlayerMessage /\ m.gen \in Nat
              /\ m.what = "ScanSources" => m.gen <= mScanSourcesGeneration
          BY DEF Sent, PlayerMessage
        <5>2. m.what = "ScanSources" => m.gen # mScanSourcesGeneration'
          BY <1>4, <1>5, <2>2, <5>1
        <5> QED BY <5>1, <5>2 DEF OtherMessages
      <4> QED BY <4>1
    <3>4. playerQueue' \in Seq(OtherMessages')
      BY <1>1, <1>2, <3>3 DEF NothingAhead
    <3>5. mScanSourcesGeneration' \notin scanTimer'
      BY <1>4, <1>5, <2>2
    <3> QED BY <3>1, <3>2, <3>4, <3>5 DEF FlushEnds, ScansHaveTheirTime, NoScan
  <2> QED BY <2>1, <2>2
<1> QED BY <1>1, <1>2, <1>8, <1>9, <1>10, <1>11 DEF FlushInv, HandshakeInv, objectVars

-----------------------------------------------------------------------------
(* Answers of the decoders and of the renderer.                             *)

\* A step of the handshake that leaves the streams in the given states, unless
\* both are settled and the flush is over.
LEMMA HandshakeStep ==
    ASSUME FlushInv, HandshakeInv, ~NotFlushing, NothingAhead',
           NEW status, NEW complete,
           \/ FinishFlushIfPossible(status, complete)
           \/ /\ mFlushing' = status /\ mFlushComplete' = complete
              /\ \E s \in Streams : status[s] \notin Settled
              /\ looper' \in {"tearError", "tearTimeout"} => mRenderer,
           UNCHANGED <<mStarted, mRenderer, scanTimer, mScanSourcesGeneration>>,
           playerQueue \in Seq(OtherMessages) => playerQueue' \in Seq(OtherMessages),
           \A s \in Streams :
              /\ Balance(status[s], complete[s], Ordered(s, "Flush")', Answered(s, "FlushCompleted")',
                         Wanted(s)', RendererAnswered(s)', Ordered(s, "Shutdown")',
                         Answered(s, "ShutdownCompleted")')
              /\ mDecoder'[s] # "NULL" => mRenderer
              /\ mDecoder'[s] = "NULL" => decoder'[s] = NoDecoder /\ status[s] \in {"NONE", "SHUT_DOWN"}
              /\ status[s] = "SHUT_DOWN" => mDecoder'[s] = "NULL"
    PROVE  FlushInv'
<1>1. CASE /\ FinishFlushIfPossible(status, complete)
           /\ \A s \in Streams : status[s] \in Settled
  <2>1. mFlushing' = AllNone /\ NotFlushing' /\ looper' = "deferred"
    BY <1>1 DEF FinishFlushIfPossible, NotFlushing, AllNone
  <2>2. ASSUME NEW s \in Streams
        PROVE  Balanced(s)'
    <3> DEFINE f == Ordered(s, "Flush")
               c == Answered(s, "FlushCompleted")
               n == Wanted(s)
               r == RendererAnswered(s)
               d == Ordered(s, "Shutdown")
               x == Answered(s, "ShutdownCompleted")
    <3>1. Balance(status[s], complete[s], f', c', n', r', d', x')
      OBVIOUS
    <3>2. mFlushing'[s] = "NONE" /\ status[s] \in Settled
      BY <1>1, <2>1 DEF AllNone
    <3>3. Balanced(s)' <=> Balance(mFlushing'[s], mFlushComplete'[s], f', c', n', r', d', x')
      BY DEF Balanced
    <3> HIDE DEF f, c, n, r, d, x
    <3>4. Balance(mFlushing'[s], mFlushComplete'[s], f', c', n', r', d', x')
      BY <3>1, <3>2 DEF Balance, Settled, Flushing
    <3> QED BY <3>3, <3>4
  <2>3. DecodersExist'
    BY <2>1 DEF DecodersExist, AllNone
  <2>4. FlushEnds'
    BY <2>1 DEF FlushEnds
  <2>5. ScansHaveTheirTime'
    BY <2>1 DEF ScansHaveTheirTime, HandshakeInv, NoScan, OtherMessages
  <2> QED BY <2>2, <2>3, <2>4, <2>5 DEF FlushInv, HandshakeInv
<1>2. CASE /\ mFlushing' = status /\ mFlushComplete' = complete
           /\ \E s \in Streams : status[s] \notin Settled
           /\ looper' \in {"tearError", "tearTimeout"} => mRenderer
  <2>1. ASSUME NEW s \in Streams
        PROVE  Balanced(s)'
    <3> DEFINE f == Ordered(s, "Flush")
               c == Answered(s, "FlushCompleted")
               n == Wanted(s)
               r == RendererAnswered(s)
               d == Ordered(s, "Shutdown")
               x == Answered(s, "ShutdownCompleted")
    <3>1. Balance(status[s], complete[s], f', c', n', r', d', x')
      OBVIOUS
    <3>2. Balanced(s)' <=> Balance(mFlushing'[s], mFlushComplete'[s], f', c', n', r', d', x')
      BY DEF Balanced
    <3> HIDE DEF f, c, n, r, d, x
    <3> QED BY <1>2, <3>1, <3>2
  <2>2. DecodersExist'
    BY <1>2 DEF DecodersExist
  <2>3. FlushEnds'
    BY <1>2 DEF FlushEnds
  <2>4. ScansHaveTheirTime'
    BY DEF ScansHaveTheirTime, HandshakeInv, NoScan, OtherMessages
  <2> QED BY <2>1, <2>2, <2>3, <2>4 DEF FlushInv, HandshakeInv
<1> QED BY <1>1, <1>2 DEF FinishFlushIfPossible

\* The message that is received is taken once.
LEMMA Taken ==
    ASSUME NothingAhead, NEW w, Receive(w)
    PROVE  /\ playerQueue' \in Seq(Sent) /\ Received \in Sent /\ Received.what = w
           /\ playerQueue \in Seq(OtherMessages) => playerQueue' \in Seq(OtherMessages)
           /\ Occurrences(playerQueue, Received) = Occurrences(playerQueue', Received) + 1
           /\ Occurrences(playerQueue', Received) \in Nat
           /\ \A x : x # Received => Occurrences(playerQueue', x) = Occurrences(playerQueue, x)
<1>1. /\ playerQueue \in Seq(Sent) /\ playerQueue # <<>> /\ Received = Head(playerQueue)
      /\ Received.what = w /\ playerQueue' = Tail(playerQueue)
  BY DEF NothingAhead, Receive, Received
<1>2. playerQueue' \in Seq(Sent) /\ Received \in Sent
  BY <1>1
<1>3. playerQueue \in Seq(OtherMessages) => playerQueue' \in Seq(OtherMessages)
  BY <1>1
<1>4. ASSUME NEW x
      PROVE  /\ Occurrences(playerQueue', x) \in Nat
             /\ Occurrences(playerQueue, x)
                  = Occurrences(playerQueue', x) + (IF Received = x THEN 1 ELSE 0)
  <2>1. Occurrences(playerQueue', x) \in Nat
    BY <1>2, OccurrencesType
  <2>2. Occurrences(playerQueue, x)
          = Occurrences(Tail(playerQueue), x) + (IF Head(playerQueue) = x THEN 1 ELSE 0)
    BY <1>1, OccurrencesTail
  <2> QED BY <1>1, <2>1, <2>2
<1> QED BY <1>1, <1>2, <1>3, <1>4

\* A message that looks like an answer of a current object is that answer.
LEMMA IsAnswer ==
    ASSUME TypeOK, NEW m \in Sent
    PROVE  /\ \A w \in {"FlushCompleted", "ShutdownCompleted"} :
                m.what = w /\ m.gen = mDecoderGeneration[m.stream] => m = Answer(m.stream, w)
           /\ m.what = "RendererFlushComplete" /\ m.gen = mRendererGeneration
                => m = RendererAnswer(m.stream)
<1>1. m \in PlayerMessage /\ (m.what \in Answers => m.flag = FALSE)
  BY DEF Sent
<1> QED BY <1>1 DEF Answers, PlayerMessage, Answer, Notify, RendererAnswer, Notification

\* What the receipt of an answer of stream s leaves of the answers of both.
LEMMA OtherAnswers ==
    ASSUME NEW s \in Streams, NEW t \in Streams
    PROVE  /\ Answer(t, "FlushCompleted") # Answer(s, "ShutdownCompleted")
           /\ Answer(t, "FlushCompleted") # RendererAnswer(s)
           /\ Answer(t, "ShutdownCompleted") # RendererAnswer(s)
           /\ t # s => /\ Answer(t, "FlushCompleted") # Answer(s, "FlushCompleted")
                       /\ Answer(t, "ShutdownCompleted") # Answer(s, "ShutdownCompleted")
                       /\ RendererAnswer(t) # RendererAnswer(s)
  BY AnswerFacts

\* The renderer's flush and the decoder's complete in either order.
LEMMA FlushCompleteKeepsFlush ==
    ASSUME TypeOK, TypeOK', FlushInv, OnFlushCompleted \/ OnRendererFlushComplete
    PROVE  FlushInv' /\ looper' \in {"idle", "deferred"}
<1> DEFINE party == IF OnFlushCompleted THEN "decoder" ELSE "renderer"
           other == IF OnFlushCompleted THEN "renderer" ELSE "decoder"
<1>1. /\ Receive("FlushCompleted") \/ Receive("RendererFlushComplete")
      /\ UNCHANGED <<mStarted, objectVars, scanVars, renderer>>
  BY DEF OnFlushCompleted, OnRendererFlushComplete, ReceiveFromDecoder, pauseVars
<1>2. NothingAhead /\ HandshakeInv /\ mRenderer = mStarted /\ looper = "idle"
  BY <1>1 DEF FlushInv, Receive, Alive, AbortStates
<1>3. /\ playerQueue' \in Seq(Sent) /\ Received \in Sent
      /\ playerQueue \in Seq(OtherMessages) => playerQueue' \in Seq(OtherMessages)
      /\ Occurrences(playerQueue, Received) = Occurrences(playerQueue', Received) + 1
      /\ Occurrences(playerQueue', Received) \in Nat
      /\ \A x : x # Received => Occurrences(playerQueue', x) = Occurrences(playerQueue, x)
  BY <1>1, <1>2, Taken
<1>4. PICK s \in Streams : s = Received.stream
  BY <1>3 DEF Sent, PlayerMessage
<1>5. /\ OnFlushCompleted => Received = Answer(s, "FlushCompleted")
      /\ ~OnFlushCompleted => Received = RendererAnswer(s)
  BY <1>3, <1>4, IsAnswer DEF OnFlushCompleted, OnRendererFlushComplete, ReceiveFromDecoder, Receive
<1>6. HandleFlushComplete(s, party)
  BY <1>4 DEF OnFlushCompleted, OnRendererFlushComplete
<1>7. \A t \in Streams : \A w : Answer(t, w)' = Answer(t, w) /\ RendererAnswer(t)' = RendererAnswer(t)
  BY <1>1 DEF Answer, Notify, RendererAnswer, objectVars
\* The answers that remain.
<1>8. ASSUME NEW t \in Streams
      PROVE  /\ Answered(t, "ShutdownCompleted")' = Answered(t, "ShutdownCompleted")
             /\ ~(t = s /\ OnFlushCompleted)
                  => Answered(t, "FlushCompleted")' = Answered(t, "FlushCompleted")
             /\ ~(t = s /\ ~OnFlushCompleted)
                  => RendererAnswered(t)' = RendererAnswered(t)
             /\ Wanted(t)' = Wanted(t)
  <2>1. /\ Answer(t, "ShutdownCompleted") # Received
        /\ ~(t = s /\ OnFlushCompleted) => Answer(t, "FlushCompleted") # Received
        /\ ~(t = s /\ ~OnFlushCompleted) => RendererAnswer(t) # Received
    BY <1>4, <1>5, OtherAnswers
  <2> QED BY <1>1, <1>3, <1>7, <2>1 DEF Answered, RendererAnswered, Wanted
<1>9. /\ OnFlushCompleted => /\ Answered(s, "FlushCompleted") = Answered(s, "FlushCompleted")' + 1
                             /\ Answered(s, "FlushCompleted")' \in Nat
      /\ ~OnFlushCompleted => /\ RendererAnswered(s) = RendererAnswered(s)' + 1
                              /\ RendererAnswered(s)' \in Nat
  BY <1>3, <1>4, <1>5, <1>7 DEF Answered, RendererAnswered
\* The stream waits for this answer.
<1> DEFINE f == Ordered(s, "Flush")
           c == Answered(s, "FlushCompleted")
           n == Wanted(s)
           r == RendererAnswered(s)
           d == Ordered(s, "Shutdown")
           x == Answered(s, "ShutdownCompleted")
<1>10. f \in Nat /\ c \in Nat /\ n \in Nat /\ r \in Nat /\ d \in Nat /\ x \in Nat
  BY <1>2, <1>4, CountTypes
<1>11. Balance(mFlushing[s], mFlushComplete[s], f, c, n, r, d, x)
  BY <1>2, <1>4 DEF HandshakeInv, Balanced
<1>12. mFlushComplete[s]["decoder"] \in BOOLEAN /\ mFlushComplete[s]["renderer"] \in BOOLEAN
  BY <1>4 DEF TypeOK, FlushTypeOK, Parties
<1>13. /\ mFlushing[s] \in Flushing /\ d = 0 /\ x = 0
       /\ OnFlushCompleted => c = 1 /\ f = 0 /\ ~mFlushComplete[s]["decoder"]
       /\ ~OnFlushCompleted => r = 1 /\ f = 0 /\ n = 0 /\ ~mFlushComplete[s]["renderer"]
  <2>1. OnFlushCompleted => c > 0
    BY <1>9
  <2>2. ~OnFlushCompleted => r > 0
    BY <1>9
  <2> HIDE DEF f, c, n, r, d, x
  <2> QED BY <1>10, <1>11, <1>12, <2>1, <2>2 DEF Balance
<1>14. mDecoder[s] # "NULL" /\ ~NotFlushing
  <2>1. mFlushing[s] \notin {"NONE", "SHUT_DOWN"}
    BY <1>13 DEF Flushing
  <2>2. NotFlushing => mFlushing[s] = "NONE"
    BY <1>4 DEF NotFlushing, AllNone
  <2> QED BY <1>2, <1>4, <2>1, <2>2 DEF HandshakeInv, DecodersExist
<1> DEFINE complete == [mFlushComplete EXCEPT ![s][party] = TRUE]
           both     == BothComplete(complete[s])
           flushed  == both /\ mFlushing[s] = "FLUSHING_DECODER"
           shutdown == both /\ mFlushing[s] = "FLUSHING_DECODER_SHUTDOWN"
           status   == [mFlushing EXCEPT ![s] = IF flushed THEN "FLUSHED"
                                                ELSE IF shutdown THEN "SHUTTING_DOWN_DECODER"
                                                ELSE @]
<1>15. /\ both <=> mFlushComplete[s][other]
       /\ complete[s][party] = TRUE /\ complete[s][other] = mFlushComplete[s][other]
       /\ \A t \in Streams : t # s => complete[t] = mFlushComplete[t]
  <2>1. mFlushComplete \in [Streams -> [Parties -> BOOLEAN]] /\ party \in Parties /\ other \in Parties
        /\ party # other /\ Parties = {party, other}
    BY DEF TypeOK, FlushTypeOK, Parties
  <2> HIDE DEF party, other
  <2> QED BY <1>4, <2>1 DEF BothComplete
<1>16. /\ decoder' = IF shutdown THEN [decoder EXCEPT ![s] = Post(@, "Shutdown", FALSE)]
                                 ELSE decoder
       /\ FinishFlushIfPossible(status, complete)
  <2>1. ~(\/ both /\ party = "decoder" /\ ~flushed /\ ~shutdown
          \/ shutdown /\ mDecoder[s] = "NULL")
    BY <1>13, <1>14 DEF Flushing
  <2> QED BY <1>6, <2>1 DEF HandleFlushComplete
<1>17. /\ status[s] = IF flushed THEN "FLUSHED"
                      ELSE IF shutdown THEN "SHUTTING_DOWN_DECODER" ELSE mFlushing[s]
       /\ \A t \in Streams : t # s => status[t] = mFlushing[t]
  BY <1>4 DEF TypeOK, FlushTypeOK
<1> HIDE DEF complete, status, both
<1>18. /\ ~shutdown => decoder' = decoder
       /\ shutdown => /\ decoder'[s] = Post(decoder[s], "Shutdown", FALSE)
                      /\ \A t \in Streams : t # s => decoder'[t] = decoder[t]
  BY <1>4, <1>16 DEF TypeOK, DecoderTypeOK
<1>19. /\ \A t \in Streams : decoder'[t].queue \in Seq(Orders)
       /\ Ordered(s, "Flush")' = 0
       /\ shutdown => Ordered(s, "Shutdown")' = 1
       /\ ~shutdown => Ordered(s, "Shutdown")' = 0
       /\ \A t \in Streams : t # s => /\ Ordered(t, "Flush")' = Ordered(t, "Flush")
                                      /\ Ordered(t, "Shutdown")' = Ordered(t, "Shutdown")
  <2>1. \A t \in Streams : decoder[t].queue \in Seq(Orders)
    BY <1>2 DEF NothingAhead
  <2>2. Order("Flush")' = Order("Flush") /\ Order("Shutdown")' = Order("Shutdown")
    BY DEF Order
  <2>3. f = 0 /\ d = 0
    BY <1>13
  <2>4. CASE shutdown
    <3>1. /\ Post(decoder[s], "Shutdown", FALSE).queue \in Seq(Orders)
          /\ Occurrences(Post(decoder[s], "Shutdown", FALSE).queue, Order("Flush"))
               = Occurrences(decoder[s].queue, Order("Flush")) + 0
          /\ Occurrences(Post(decoder[s], "Shutdown", FALSE).queue, Order("Shutdown"))
               = Occurrences(decoder[s].queue, Order("Shutdown")) + 1
      BY <1>4, <2>1, PostCounts
    <3>2. /\ Ordered(s, "Flush")'
               = Occurrences(Post(decoder[s], "Shutdown", FALSE).queue, Order("Flush"))
          /\ Ordered(s, "Shutdown")'
               = Occurrences(Post(decoder[s], "Shutdown", FALSE).queue, Order("Shutdown"))
      BY <1>18, <2>2, <2>4 DEF Ordered
    <3>3. Ordered(s, "Flush")' = f + 0 /\ Ordered(s, "Shutdown")' = d + 1
      BY <3>1, <3>2 DEF Ordered
    <3>4. Ordered(s, "Flush")' = 0 /\ Ordered(s, "Shutdown")' = 1
      <4> HIDE DEF f, d
      <4> QED BY <2>3, <3>3
    <3>5. \A t \in Streams : decoder'[t].queue \in Seq(Orders)
      BY <1>18, <2>1, <2>4, <3>1
    <3>6. \A t \in Streams : t # s => /\ Ordered(t, "Flush")' = Ordered(t, "Flush")
                                      /\ Ordered(t, "Shutdown")' = Ordered(t, "Shutdown")
      BY <1>18, <2>2, <2>4 DEF Ordered
    <3> QED BY <2>4, <3>4, <3>5, <3>6
  <2>5. CASE ~shutdown
    BY <1>18, <2>1, <2>2, <2>3, <2>5 DEF Ordered
  <2> QED BY <2>4, <2>5
<1>20. NothingAhead'
  BY <1>1, <1>2, <1>3, <1>19, AheadFrame DEF NothingAhead, objectVars, scanVars
<1>21. ASSUME NEW t \in Streams
       PROVE  Balance(status[t], complete[t], Ordered(t, "Flush")', Answered(t, "FlushCompleted")',
                      Wanted(t)', RendererAnswered(t)', Ordered(t, "Shutdown")',
                      Answered(t, "ShutdownCompleted")')
  <2>1. CASE t # s
    <3>1. /\ status[t] = mFlushing[t] /\ complete[t] = mFlushComplete[t]
          /\ Ordered(t, "Flush")' = Ordered(t, "Flush")
          /\ Ordered(t, "Shutdown")' = Ordered(t, "Shutdown")
      BY <1>15, <1>17, <1>19, <2>1
    <3>2. Balance(mFlushing[t], mFlushComplete[t], Ordered(t, "Flush"), Answered(t, "FlushCompleted"),
                  Wanted(t), RendererAnswered(t), Ordered(t, "Shutdown"),
                  Answered(t, "ShutdownCompleted"))
      BY <1>2 DEF HandshakeInv, Balanced
    <3> QED BY <1>8, <2>1, <3>1, <3>2
  <2>2. CASE t = s
    <3> DEFINE d1 == IF shutdown THEN 1 ELSE 0
               n1 == Wanted(s)'
               r1 == RendererAnswered(s)'
               c1 == Answered(s, "FlushCompleted")'
    <3>1. Ordered(s, "Flush")' = 0 /\ Ordered(s, "Shutdown")' = d1
          /\ Answered(s, "ShutdownCompleted")' = 0
      BY <1>4, <1>8, <1>13, <1>19
    <3>2. /\ OnFlushCompleted => c1 = 0 /\ n1 = n /\ r1 = r
          /\ ~OnFlushCompleted => r1 = 0 /\ n1 = 0 /\ c1 = c
      BY <1>4, <1>8, <1>9, <1>13
    <3>3. /\ mFlushing[s] \in Flushing
          /\ OnFlushCompleted => n + r = IF mFlushComplete[s]["renderer"] THEN 0 ELSE 1
          /\ ~OnFlushCompleted => c = IF mFlushComplete[s]["decoder"] THEN 0 ELSE 1
      <4> HIDE DEF f, c, n, r, d, x
      <4> QED BY <1>10, <1>11, <1>13 DEF Balance
    <3>4. Balance(status[s], complete[s], 0, c1, n1, r1, d1, 0)
      <4> HIDE DEF f, c, n, r, d, x, n1, r1, c1
      <4>1. CASE OnFlushCompleted
        <5>1. /\ both <=> mFlushComplete[s]["renderer"]
              /\ complete[s]["decoder"] = TRUE
              /\ complete[s]["renderer"] = mFlushComplete[s]["renderer"]
          BY <1>15, <4>1
        <5>2. c1 = 0 /\ n1 + r1 = IF mFlushComplete[s]["renderer"] THEN 0 ELSE 1
          BY <3>2, <3>3, <4>1
        <5>3. n1 \in Nat /\ r1 \in Nat
          BY <1>10, <3>2, <4>1
        <5> QED BY <1>12, <1>17, <3>3, <5>1, <5>2, <5>3 DEF Balance, Flushing
      <4>2. CASE ~OnFlushCompleted
        <5>1. /\ both <=> mFlushComplete[s]["decoder"]
              /\ complete[s]["renderer"] = TRUE
              /\ complete[s]["decoder"] = mFlushComplete[s]["decoder"]
          BY <1>15, <4>2
        <5>2. n1 = 0 /\ r1 = 0 /\ c1 = IF mFlushComplete[s]["decoder"] THEN 0 ELSE 1
          BY <3>2, <3>3, <4>2
        <5> QED BY <1>12, <1>17, <3>3, <5>1, <5>2 DEF Balance, Flushing
      <4> QED BY <4>1, <4>2
    <3> HIDE DEF d1, n1, r1, c1
    <3> QED BY <2>2, <3>1, <3>4 DEF n1, r1, c1
  <2> QED BY <2>1, <2>2
<1>22. ASSUME NEW t \in Streams
       PROVE  /\ mDecoder'[t] # "NULL" => mRenderer
              /\ mDecoder'[t] = "NULL" => decoder'[t] = NoDecoder /\ status[t] \in {"NONE", "SHUT_DOWN"}
              /\ status[t] = "SHUT_DOWN" => mDecoder'[t] = "NULL"
  <2>1. /\ mDecoder' = mDecoder /\ DecodersExist
    BY <1>1, <1>2 DEF objectVars, HandshakeInv
  <2>2. status[s] # "SHUT_DOWN"
    BY <1>13, <1>17 DEF Flushing
  <2> QED BY <1>4, <1>14, <1>17, <1>18, <2>1, <2>2 DEF DecodersExist
<1>23. looper' \in {"idle", "deferred"}
  BY <1>16 DEF FinishFlushIfPossible
<1> QED
  BY <1>1, <1>2, <1>3, <1>14, <1>16, <1>20, <1>21, <1>22, <1>23, HandshakeStep DEF objectVars, scanVars

\* What one order or one answer that is on its way says of its stream.
LEMMA Owed ==
    ASSUME TypeOK, NothingAhead, NEW s \in Streams, Balanced(s)
    PROVE  /\ Ordered(s, "Flush") # 0 =>
                /\ mFlushing[s] \in Flushing /\ Ordered(s, "Flush") = 1
                /\ mFlushComplete[s]["decoder"] = FALSE /\ mFlushComplete[s]["renderer"] = FALSE
                /\ Answered(s, "FlushCompleted") = 0 /\ Wanted(s) = 0 /\ RendererAnswered(s) = 0
                /\ Ordered(s, "Shutdown") = 0 /\ Answered(s, "ShutdownCompleted") = 0
           /\ Ordered(s, "Shutdown") # 0 \/ Answered(s, "ShutdownCompleted") # 0 =>
                /\ mFlushing[s] = "SHUTTING_DOWN_DECODER"
                /\ Ordered(s, "Flush") = 0 /\ Answered(s, "FlushCompleted") = 0
                /\ Wanted(s) = 0 /\ RendererAnswered(s) = 0
                /\ Ordered(s, "Shutdown") + Answered(s, "ShutdownCompleted") = 1
<1> DEFINE f == Ordered(s, "Flush")
           c == Answered(s, "FlushCompleted")
           n == Wanted(s)
           r == RendererAnswered(s)
           d == Ordered(s, "Shutdown")
           x == Answered(s, "ShutdownCompleted")
<1>1. f \in Nat /\ c \in Nat /\ n \in Nat /\ r \in Nat /\ d \in Nat /\ x \in Nat
  BY CountTypes
<1>2. Balance(mFlushing[s], mFlushComplete[s], f, c, n, r, d, x)
  BY DEF Balanced
<1>3. mFlushComplete[s]["decoder"] \in BOOLEAN /\ mFlushComplete[s]["renderer"] \in BOOLEAN
  BY DEF TypeOK, FlushTypeOK, Parties
<1> HIDE DEF f, c, n, r, d, x
<1>4. f # 0 => /\ mFlushing[s] \in Flushing /\ f = 1
               /\ mFlushComplete[s]["decoder"] = FALSE /\ mFlushComplete[s]["renderer"] = FALSE
               /\ c = 0 /\ n = 0 /\ r = 0 /\ d = 0 /\ x = 0
  BY <1>1, <1>2, <1>3 DEF Balance
<1>5. d # 0 \/ x # 0 => /\ mFlushing[s] = "SHUTTING_DOWN_DECODER"
                        /\ f = 0 /\ c = 0 /\ n = 0 /\ r = 0 /\ d + x = 1
  BY <1>1, <1>2, <1>3 DEF Balance
<1> QED BY <1>4, <1>5 DEF f, c, n, r, d, x

\* A decoder that has shut down is released.
LEMMA ShutdownCompletedKeepsFlush ==
    ASSUME TypeOK, TypeOK', FlushInv, OnShutdownCompleted
    PROVE  FlushInv' /\ looper' \in {"idle", "deferred"}
<1>1. /\ Receive("ShutdownCompleted") /\ Received.gen = mDecoderGeneration[Received.stream]
      /\ UNCHANGED <<mStarted, mRenderer, mRendererGeneration, scanVars, renderer>>
  BY DEF OnShutdownCompleted, ReceiveFromDecoder, pauseVars
<1>2. NothingAhead /\ HandshakeInv /\ mRenderer = mStarted /\ looper = "idle"
  BY <1>1 DEF FlushInv, Receive, Alive, AbortStates
<1>3. /\ playerQueue' \in Seq(Sent) /\ Received \in Sent /\ Received.what = "ShutdownCompleted"
      /\ playerQueue \in Seq(OtherMessages) => playerQueue' \in Seq(OtherMessages)
      /\ Occurrences(playerQueue, Received) = Occurrences(playerQueue', Received) + 1
      /\ Occurrences(playerQueue', Received) \in Nat
      /\ \A x : x # Received => Occurrences(playerQueue', x) = Occurrences(playerQueue, x)
  BY <1>1, <1>2, Taken
<1>4. PICK s \in Streams : s = Received.stream
  BY <1>3 DEF Sent, PlayerMessage
<1>5. Received = Answer(s, "ShutdownCompleted")
  BY <1>1, <1>3, <1>4, IsAnswer
<1>6. Answered(s, "ShutdownCompleted") # 0
  BY <1>3, <1>5 DEF Answered
<1>7. /\ mFlushing[s] = "SHUTTING_DOWN_DECODER" /\ RendererAnswered(s) = 0 /\ Wanted(s) = 0
  BY <1>2, <1>6, Owed DEF HandshakeInv
<1>8. ~NotFlushing
  BY <1>7 DEF NotFlushing, AllNone
<1> DEFINE status == [mFlushing EXCEPT ![s] = "SHUT_DOWN"]
<1>9. /\ mDecoder' = [mDecoder EXCEPT ![s] = "NULL"]
      /\ mDecoderGeneration' = [mDecoderGeneration EXCEPT ![s] = @ + 1]
      /\ decoder' = [decoder EXCEPT ![s] = NoDecoder]
      /\ FinishFlushIfPossible(status, mFlushComplete)
  BY <1>4, <1>7 DEF OnShutdownCompleted
<1>10. /\ mDecoder'[s] = "NULL" /\ decoder'[s] = NoDecoder /\ status[s] = "SHUT_DOWN"
       /\ mDecoderGeneration'[s] = mDecoderGeneration[s] + 1
       /\ \A t \in Streams : t # s => /\ mDecoder'[t] = mDecoder[t] /\ decoder'[t] = decoder[t]
                                      /\ mDecoderGeneration'[t] = mDecoderGeneration[t]
                                      /\ status[t] = mFlushing[t]
  BY <1>4, <1>9 DEF TypeOK, ObjectTypeOK, FlushTypeOK, DecoderTypeOK
<1> HIDE DEF status
<1>11. Order("Flush")' = Order("Flush") /\ Order("Shutdown")' = Order("Shutdown")
  BY DEF Order
<1>12. \A t \in Streams : decoder[t].queue \in Seq(Orders)
  BY <1>2 DEF NothingAhead
\* Nothing is owed to the decoder that comes next.
<1>13. decoder'[s].queue \in Seq(Orders) /\ Ordered(s, "Flush")' = 0 /\ Ordered(s, "Shutdown")' = 0
  <2>1. decoder'[s].queue = <<>>
    BY <1>10 DEF NoDecoder
  <2>2. Occurrences(<<>>, Order("Flush")) = 0 /\ Occurrences(<<>>, Order("Shutdown")) = 0
    BY OccurrencesOne, Zenon
  <2>3. <<>> \in Seq(Orders)
    OBVIOUS
  <2> QED BY <1>11, <2>1, <2>2, <2>3 DEF Ordered
<1>14. ASSUME NEW w \in {"FlushCompleted", "ShutdownCompleted"}
       PROVE  Answered(s, w)' = 0
  <2>1. /\ Answer(s, w)'.what = w /\ Answer(s, w)'.stream = s
        /\ Answer(s, w)'.gen = mDecoderGeneration[s] + 1
    BY <1>10 DEF Answer, Notify, Notification
  <2>2. mDecoderGeneration[s] + 1 \in Nat /\ mDecoderGeneration[s] + 1 > mDecoderGeneration[s]
    BY DEF TypeOK, ObjectTypeOK
  <2>3. Occurrences(playerQueue', Answer(s, w)') = 0
    BY <1>3, <2>1, <2>2, NoAnswerAhead
  <2> QED BY <2>3 DEF Answered
<1>15. ASSUME NEW t \in Streams
       PROVE  RendererAnswered(t)' = RendererAnswered(t) /\ Wanted(t)' = Wanted(t)
  <2>1. RendererAnswer(t) # Received
    BY <1>3, AnswerFacts
  <2>2. RendererAnswer(t)' = RendererAnswer(t)
    BY <1>1 DEF RendererAnswer
  <2> QED BY <1>1, <1>3, <2>1, <2>2 DEF RendererAnswered, Wanted
<1>16. ASSUME NEW t \in Streams, t # s
       PROVE  /\ decoder'[t].queue \in Seq(Orders)
              /\ Ordered(t, "Flush")' = Ordered(t, "Flush")
              /\ Ordered(t, "Shutdown")' = Ordered(t, "Shutdown")
              /\ Answered(t, "FlushCompleted")' = Answered(t, "FlushCompleted")
              /\ Answered(t, "ShutdownCompleted")' = Answered(t, "ShutdownCompleted")
  <2>1. \A w : Answer(t, w)' = Answer(t, w)
    BY <1>10, <1>16 DEF Answer, Notify
  <2>2. Answer(t, "FlushCompleted") # Received /\ Answer(t, "ShutdownCompleted") # Received
    BY <1>5, <1>16, OtherAnswers
  <2> QED BY <1>3, <1>10, <1>11, <1>12, <1>16, <2>1, <2>2 DEF Ordered, Answered
<1>17. NothingAhead'
  <2>1. Sent \subseteq Sent' /\ Orders' = Orders
    <3>1. \A t \in Streams : mDecoderGeneration[t] <= mDecoderGeneration'[t]
      BY <1>10 DEF TypeOK, ObjectTypeOK
    <3>2. /\ mRendererGeneration <= mRendererGeneration' /\ mRenderer' = mRenderer
          /\ mScanSourcesGeneration <= mScanSourcesGeneration'
      BY <1>1 DEF TypeOK, ObjectTypeOK, ScanTypeOK, scanVars
    <3> QED BY <3>1, <3>2, SentGrows
  <2>2. playerQueue' \in Seq(Sent')
    BY <1>3, <2>1
  <2>3. \A t \in Streams : decoder'[t].queue \in Seq(Orders')
    BY <1>13, <1>16, <2>1
  <2>4. \A g \in scanTimer' : g <= mScanSourcesGeneration'
    BY <1>1, <1>2 DEF NothingAhead, scanVars
  <2> QED BY <2>2, <2>3, <2>4 DEF NothingAhead
<1>18. ASSUME NEW t \in Streams
       PROVE  Balance(status[t], mFlushComplete[t], Ordered(t, "Flush")',
                      Answered(t, "FlushCompleted")', Wanted(t)', RendererAnswered(t)',
                      Ordered(t, "Shutdown")', Answered(t, "ShutdownCompleted")')
  <2>1. CASE t # s
    <3>1. Balance(mFlushing[t], mFlushComplete[t], Ordered(t, "Flush"), Answered(t, "FlushCompleted"),
                  Wanted(t), RendererAnswered(t), Ordered(t, "Shutdown"),
                  Answered(t, "ShutdownCompleted"))
      BY <1>2 DEF HandshakeInv, Balanced
    <3> QED BY <1>10, <1>15, <1>16, <2>1, <3>1
  <2>2. CASE t = s
    <3>1. Balance(status[s], mFlushComplete[s], 0, 0, 0, 0, 0, 0)
      BY <1>10 DEF Balance, Flushing
    <3>2. /\ Ordered(s, "Flush")' = 0 /\ Ordered(s, "Shutdown")' = 0
          /\ Answered(s, "FlushCompleted")' = 0 /\ Answered(s, "ShutdownCompleted")' = 0
          /\ RendererAnswered(s)' = 0 /\ Wanted(s)' = 0
      BY <1>7, <1>13, <1>14, <1>15
    <3> QED BY <2>2, <3>1, <3>2
  <2> QED BY <2>1, <2>2
<1>19. ASSUME NEW t \in Streams
       PROVE  /\ mDecoder'[t] # "NULL" => mRenderer
              /\ mDecoder'[t] = "NULL" => decoder'[t] = NoDecoder /\ status[t] \in {"NONE", "SHUT_DOWN"}
              /\ status[t] = "SHUT_DOWN" => mDecoder'[t] = "NULL"
  <2>1. DecodersExist
    BY <1>2 DEF HandshakeInv
  <2> QED BY <1>10, <2>1 DEF DecodersExist
<1>20. looper' \in {"idle", "deferred"}
  BY <1>9 DEF FinishFlushIfPossible
<1> QED BY <1>1, <1>2, <1>3, <1>8, <1>9, <1>17, <1>18, <1>19, <1>20, HandshakeStep DEF scanVars

\* An error of a decoder while its stream is flushed or shut down.
LEMMA ErrorKeepsFlush ==
    ASSUME TypeOK, TypeOK', FlushInv, OnErrorWhileFlushing \/ OnErrorWhenFlushed
    PROVE  FlushInv' /\ looper' \in {"idle", "deferred"}
<1>1. /\ Receive("Error") /\ UNCHANGED <<mStarted, objectVars, scanVars, renderer>>
  BY DEF OnErrorWhileFlushing, OnErrorWhenFlushed, ReceiveError, ReceiveFromDecoder, pauseVars
<1>2. NothingAhead /\ HandshakeInv /\ mRenderer = mStarted /\ looper = "idle"
  BY <1>1 DEF FlushInv, Receive, Alive, AbortStates
<1>3. /\ QueueQuiet /\ Received \in Sent
      /\ playerQueue \in Seq(OtherMessages) => playerQueue' \in Seq(OtherMessages)
  BY <1>1, <1>2, QuietTakes
<1>4. PICK s \in Streams : s = Received.stream
  BY <1>3 DEF Sent, PlayerMessage
<1>5. Order("Flush")' = Order("Flush") /\ Order("Shutdown")' = Order("Shutdown")
  BY DEF Order
<1>6. \A t \in Streams : decoder[t].queue \in Seq(Orders)
  BY <1>2 DEF NothingAhead
<1>7. ASSUME NEW t \in Streams
      PROVE  /\ Answered(t, "FlushCompleted")' = Answered(t, "FlushCompleted")
             /\ Answered(t, "ShutdownCompleted")' = Answered(t, "ShutdownCompleted")
             /\ RendererAnswered(t)' = RendererAnswered(t) /\ Wanted(t)' = Wanted(t)
             /\ Balance(mFlushing[t], mFlushComplete[t], Ordered(t, "Flush"),
                        Answered(t, "FlushCompleted"), Wanted(t), RendererAnswered(t),
                        Ordered(t, "Shutdown"), Answered(t, "ShutdownCompleted"))
  <2>1. (\A w : Answer(t, w)' = Answer(t, w)) /\ RendererAnswer(t)' = RendererAnswer(t)
    BY <1>1 DEF Answer, Notify, RendererAnswer, objectVars
  <2>2. Balanced(t)
    BY <1>2 DEF HandshakeInv
  <2> QED BY <1>1, <1>3, <2>1, <2>2 DEF QueueQuiet, Answered, RendererAnswered, Wanted, Balanced
<1>8. DecodersExist /\ mDecoder' = mDecoder
  BY <1>1, <1>2 DEF HandshakeInv, objectVars
\* The error turns a flush into one that ends with a shutdown.
<1>9. CASE OnErrorWhileFlushing
  <2>1. decoder' = decoder /\ mFlushing[s] \notin {"NONE", "FLUSHED"}
    BY <1>4, <1>9 DEF OnErrorWhileFlushing
  <2>2. ~NotFlushing
    BY <2>1 DEF NotFlushing, AllNone
  <2>3. \A t \in Streams : /\ Ordered(t, "Flush")' = Ordered(t, "Flush")
                           /\ Ordered(t, "Shutdown")' = Ordered(t, "Shutdown")
    BY <1>5, <2>1 DEF Ordered
  <2>4. NothingAhead'
    BY <1>1, <1>2, <1>3, <1>6, <2>1, AheadFrame DEF NothingAhead, QueueQuiet, objectVars, scanVars
  <2>5. CASE mFlushing[s] = "SHUT_DOWN"
    <3>1. FinishFlushIfPossible(mFlushing, mFlushComplete)
      BY <1>4, <1>9, <2>5 DEF OnErrorWhileFlushing
    <3>2. ASSUME NEW t \in Streams
          PROVE  Balance(mFlushing[t], mFlushComplete[t], Ordered(t, "Flush")',
                         Answered(t, "FlushCompleted")', Wanted(t)', RendererAnswered(t)',
                         Ordered(t, "Shutdown")', Answered(t, "ShutdownCompleted")')
      BY <1>7, <2>3
    <3>3. ASSUME NEW t \in Streams
          PROVE  /\ mDecoder'[t] # "NULL" => mRenderer
                 /\ mDecoder'[t] = "NULL" =>
                      decoder'[t] = NoDecoder /\ mFlushing[t] \in {"NONE", "SHUT_DOWN"}
                 /\ mFlushing[t] = "SHUT_DOWN" => mDecoder'[t] = "NULL"
      BY <1>8, <2>1 DEF DecodersExist
    <3>4. looper' \in {"idle", "deferred"}
      BY <3>1 DEF FinishFlushIfPossible
    <3> QED
      BY <1>1, <1>2, <1>3, <2>2, <2>4, <3>1, <3>2, <3>3, <3>4, HandshakeStep DEF objectVars, scanVars
  <2>6. CASE mFlushing[s] # "SHUT_DOWN"
    <3> DEFINE status == [mFlushing EXCEPT ![s] =
                  IF @ = "FLUSHING_DECODER" THEN "FLUSHING_DECODER_SHUTDOWN" ELSE @]
    <3>1. /\ mFlushing' = status /\ mFlushComplete' = mFlushComplete /\ looper' = looper
      BY <1>4, <1>9, <2>6 DEF OnErrorWhileFlushing
    <3>2. /\ \A t \in Streams : t # s => status[t] = mFlushing[t]
          /\ status[s] = IF mFlushing[s] = "FLUSHING_DECODER" THEN "FLUSHING_DECODER_SHUTDOWN"
                         ELSE mFlushing[s]
          /\ mFlushing[s] \in FlushStatus
      BY DEF TypeOK, FlushTypeOK
    <3> HIDE DEF status
    <3>3. ASSUME NEW t \in Streams
          PROVE  Balance(status[t], mFlushComplete[t], Ordered(t, "Flush")',
                         Answered(t, "FlushCompleted")', Wanted(t)', RendererAnswered(t)',
                         Ordered(t, "Shutdown")', Answered(t, "ShutdownCompleted")')
      <4>1. status[t] = mFlushing[t] \/ {status[t], mFlushing[t]} \subseteq Flushing
        BY <3>2 DEF Flushing
      <4>2. ASSUME NEW a, NEW b, NEW m, NEW f, NEW c, NEW n, NEW r, NEW d, NEW x,
                   a = b \/ {a, b} \subseteq Flushing, Balance(b, m, f, c, n, r, d, x)
            PROVE  Balance(a, m, f, c, n, r, d, x)
        BY <4>2 DEF Balance, Flushing
      <4>3. Balance(mFlushing[t], mFlushComplete[t], Ordered(t, "Flush")',
                         Answered(t, "FlushCompleted")', Wanted(t)', RendererAnswered(t)',
                         Ordered(t, "Shutdown")', Answered(t, "ShutdownCompleted")')
        BY <1>7, <2>3
      <4> QED BY <4>1, <4>2, <4>3
    <3>4. ASSUME NEW t \in Streams
          PROVE  /\ mDecoder'[t] # "NULL" => mRenderer
                 /\ mDecoder'[t] = "NULL" =>
                      decoder'[t] = NoDecoder /\ status[t] \in {"NONE", "SHUT_DOWN"}
                 /\ status[t] = "SHUT_DOWN" => mDecoder'[t] = "NULL"
      BY <1>8, <2>1, <3>2 DEF DecodersExist
    <3>5. status[s] \notin Settled
      BY <2>1, <2>6, <3>2 DEF FlushStatus, Settled
    <3> QED
      BY <1>1, <1>2, <1>3, <2>2, <2>4, <3>1, <3>3, <3>4, <3>5, HandshakeStep DEF objectVars, scanVars
  <2> QED BY <2>5, <2>6
\* The stream was flushed already: its decoder is shut down now.
<1>10. CASE OnErrorWhenFlushed
  <2> DEFINE status == [mFlushing EXCEPT ![s] = "SHUTTING_DOWN_DECODER"]
             d1     == Post(decoder[s], "Shutdown", FALSE)
  <2>1. /\ mFlushing[s] = "FLUSHED" /\ mFlushing' = status /\ mFlushComplete' = mFlushComplete
        /\ decoder' = [decoder EXCEPT ![s] = d1]
        /\ looper' = Check(mDecoder[s] # "NULL", "abortNullDecoder", "idle")
    BY <1>4, <1>10 DEF OnErrorWhenFlushed
  <2>2. mDecoder[s] # "NULL" /\ ~NotFlushing
    BY <1>8, <2>1 DEF DecodersExist, NotFlushing, AllNone
  <2>3. looper' = "idle"
    BY <2>1, <2>2 DEF Check
  <2>4. /\ \A t \in Streams : t # s => status[t] = mFlushing[t] /\ decoder'[t] = decoder[t]
        /\ status[s] = "SHUTTING_DOWN_DECODER" /\ decoder'[s] = d1
    BY <2>1 DEF TypeOK, FlushTypeOK, DecoderTypeOK
  <2>5. /\ d1.queue \in Seq(Orders)
        /\ Occurrences(d1.queue, Order("Flush")) = Occurrences(decoder[s].queue, Order("Flush")) + 0
        /\ Occurrences(d1.queue, Order("Shutdown"))
             = Occurrences(decoder[s].queue, Order("Shutdown")) + 1
    BY <1>6, PostCounts
  <2>6. /\ Ordered(s, "Flush") = 0 /\ Ordered(s, "Shutdown") = 0
        /\ Answered(s, "FlushCompleted") = 0 /\ Answered(s, "ShutdownCompleted") = 0
        /\ RendererAnswered(s) = 0 /\ Wanted(s) = 0
    <3>1. Balanced(s) /\ mFlushing[s] \in Settled
      BY <1>2, <2>1 DEF HandshakeInv, Settled
    <3> QED BY <1>2, <3>1, IdleBalance
  <2> HIDE DEF status, d1
  <2>7. Ordered(s, "Flush")' = 0 /\ Ordered(s, "Shutdown")' = 1
    <3>1. /\ Ordered(s, "Flush")' = Occurrences(d1.queue, Order("Flush"))
          /\ Ordered(s, "Shutdown")' = Occurrences(d1.queue, Order("Shutdown"))
      BY <1>5, <2>4 DEF Ordered
    <3>2. /\ Ordered(s, "Flush")' = Ordered(s, "Flush") + 0
          /\ Ordered(s, "Shutdown")' = Ordered(s, "Shutdown") + 1
      BY <2>5, <3>1 DEF Ordered
    <3> QED BY <2>6, <3>2
  <2>8. \A t \in Streams : t # s => /\ Ordered(t, "Flush")' = Ordered(t, "Flush")
                                    /\ Ordered(t, "Shutdown")' = Ordered(t, "Shutdown")
    BY <1>5, <2>4 DEF Ordered
  <2>9. NothingAhead'
    <3>1. \A t \in Streams : decoder'[t].queue \in Seq(Orders)
      BY <1>6, <2>4, <2>5
    <3> QED BY <1>1, <1>2, <1>3, <3>1, AheadFrame DEF NothingAhead, QueueQuiet, objectVars, scanVars
  <2>10. ASSUME NEW t \in Streams
         PROVE  Balance(status[t], mFlushComplete[t], Ordered(t, "Flush")',
                        Answered(t, "FlushCompleted")', Wanted(t)', RendererAnswered(t)',
                        Ordered(t, "Shutdown")', Answered(t, "ShutdownCompleted")')
    <3>1. CASE t # s
      <4>1. Balance(mFlushing[t], mFlushComplete[t], Ordered(t, "Flush")',
                        Answered(t, "FlushCompleted")', Wanted(t)', RendererAnswered(t)',
                        Ordered(t, "Shutdown")', Answered(t, "ShutdownCompleted")')
        BY <1>7, <2>8, <3>1
      <4> QED BY <2>4, <3>1, <4>1
    <3>2. CASE t = s
      <4>1. Balance(status[s], mFlushComplete[s], 0, 0, 0, 0, 1, 0)
        BY <2>4 DEF Balance, Flushing
      <4>2. /\ Answered(s, "FlushCompleted")' = 0 /\ Answered(s, "ShutdownCompleted")' = 0
            /\ RendererAnswered(s)' = 0 /\ Wanted(s)' = 0
        BY <1>7, <2>6
      <4> QED BY <2>7, <3>2, <4>1, <4>2
    <3> QED BY <3>1, <3>2
  <2>11. ASSUME NEW t \in Streams
         PROVE  /\ mDecoder'[t] # "NULL" => mRenderer
                /\ mDecoder'[t] = "NULL" =>
                     decoder'[t] = NoDecoder /\ status[t] \in {"NONE", "SHUT_DOWN"}
                /\ status[t] = "SHUT_DOWN" => mDecoder'[t] = "NULL"
    BY <1>8, <2>2, <2>4 DEF DecodersExist
  <2>12. status[s] \notin Settled
    BY <2>4 DEF Settled
  <2> QED BY <1>1, <1>2, <1>3, <2>1, <2>2, <2>3, <2>9, <2>10, <2>11, <2>12, HandshakeStep
       DEF objectVars, scanVars
<1> QED BY <1>9, <1>10

-----------------------------------------------------------------------------
(* The decoders' and the renderer's part of the handshake.                  *)

\* A step of a decoder or of the renderer that does something for one stream.
LEMMA StreamKeepsFlush ==
    ASSUME FlushInv, NothingAhead', NEW s \in Streams,
           Alive => Balanced(s)',
           \A t \in Streams : t # s =>
              /\ decoder'[t] = decoder[t]
              /\ Answered(t, "FlushCompleted")' = Answered(t, "FlushCompleted")
              /\ Answered(t, "ShutdownCompleted")' = Answered(t, "ShutdownCompleted")
              /\ RendererAnswered(t)' = RendererAnswered(t) /\ Wanted(t)' = Wanted(t),
           mDecoder[s] = "NULL" => decoder'[s] = decoder[s],
           playerQueue \in Seq(OtherMessages) => playerQueue' \in Seq(OtherMessages),
           UNCHANGED <<looper, mStarted, flushVars, objectVars, scanVars>>
    PROVE  FlushInv'
<1>1. mRenderer' = mStarted'
  BY DEF FlushInv, objectVars
<1>2. ASSUME Alive'
      PROVE  HandshakeInv'
  <2>1. Alive /\ HandshakeInv
    BY <1>2 DEF FlushInv, Alive
  <2>2. ASSUME NEW t \in Streams
        PROVE  Balanced(t)'
    <3>1. CASE t # s
      <4>1. Balanced(t)
        BY <2>1 DEF HandshakeInv
      <4>2. /\ Ordered(t, "Flush")' = Ordered(t, "Flush")
            /\ Ordered(t, "Shutdown")' = Ordered(t, "Shutdown")
        BY <3>1 DEF Ordered, Order
      <4>3. mFlushing'[t] = mFlushing[t] /\ mFlushComplete'[t] = mFlushComplete[t]
        BY DEF flushVars
      <4> QED BY <3>1, <4>1, <4>2, <4>3, SameBalance
    <3>2. CASE t = s
      BY <2>1, <3>2
    <3> QED BY <3>1, <3>2
  <2>3. DecodersExist'
    BY <2>1 DEF HandshakeInv, DecodersExist, flushVars, objectVars
  <2>4. FlushEnds'
    BY <2>1 DEF HandshakeInv, FlushEnds, NotFlushing, flushVars
  <2>5. ScansHaveTheirTime'
    BY <2>1 DEF HandshakeInv, ScansHaveTheirTime, NotFlushing, NoScan, OtherMessages, flushVars, scanVars
  <2> QED BY <2>2, <2>3, <2>4, <2>5 DEF HandshakeInv
<1> QED BY <1>1, <1>2 DEF FlushInv

\* One order is taken from the queue of a decoder.
LEMMA TakesOrder ==
    ASSUME NEW q \in Seq(Orders), q # <<>>
    PROVE  /\ Tail(q) \in Seq(Orders)
           /\ \A v \in {"Flush", "Shutdown"} :
                /\ Occurrences(Tail(q), Order(v)) \in Nat
                /\ Head(q).what = v => Occurrences(q, Order(v)) = Occurrences(Tail(q), Order(v)) + 1
                /\ Head(q).what # v => Occurrences(q, Order(v)) = Occurrences(Tail(q), Order(v))
<1>1. Tail(q) \in Seq(Orders) /\ Head(q) \in Orders
  OBVIOUS
<1>2. ASSUME NEW v \in {"Flush", "Shutdown"}
      PROVE  /\ Occurrences(Tail(q), Order(v)) \in Nat
             /\ Head(q).what = v => Occurrences(q, Order(v)) = Occurrences(Tail(q), Order(v)) + 1
             /\ Head(q).what # v => Occurrences(q, Order(v)) = Occurrences(Tail(q), Order(v))
  <2>1. Head(q).what = v <=> Head(q) = Order(v)
    BY <1>1 DEF Orders, DecoderMessage, Order
  <2>2. Occurrences(Tail(q), Order(v)) \in Nat
    BY <1>1, OccurrencesType
  <2>3. Occurrences(q, Order(v))
          = Occurrences(Tail(q), Order(v)) + (IF Head(q) = Order(v) THEN 1 ELSE 0)
    BY OccurrencesTail
  <2> QED BY <2>1, <2>2, <2>3
<1> QED BY <1>1, <1>2

\* An answer is posted, after messages that are not of the handshake.
LEMMA AnswerPosted ==
    ASSUME NothingAhead, NEW r \in Seq(Quiet), NEW a \in Sent, a.what \in Answers,
           playerQueue' = playerQueue \o (r \o <<a>>)
    PROVE  /\ playerQueue' \in Seq(Sent)
           /\ playerQueue \in Seq(OtherMessages) => playerQueue' \in Seq(OtherMessages)
           /\ Occurrences(playerQueue', a) = Occurrences(playerQueue, a) + 1
           /\ \A x : x # a /\ x.what \in Answers
                       => Occurrences(playerQueue', x) = Occurrences(playerQueue, x)
<1> DEFINE q == playerQueue \o r
<1>1. playerQueue \in Seq(Sent) /\ r \in Seq(Sent)
  BY SentType DEF NothingAhead
<1>2. q \in Seq(Sent)
  BY <1>1
<1>3. playerQueue' = Append(q, a)
  BY <1>1
<1>4. ASSUME NEW x, x.what \in Answers
      PROVE  Occurrences(q, x) = Occurrences(playerQueue, x) /\ Occurrences(q, x) \in Nat
  <2>1. \A i \in DOMAIN r : r[i] \in Quiet
    OBVIOUS
  <2>2. \A i \in DOMAIN r : r[i] # x
    BY <1>4, <2>1 DEF Quiet
  <2>3. Occurrences(r, x) = 0 /\ Occurrences(playerQueue, x) \in Nat
    BY <1>1, <2>2, OccurrencesType
  <2>4. Occurrences(q, x) = Occurrences(playerQueue, x) + Occurrences(r, x)
    BY <1>1, OccurrencesConcat
  <2> QED BY <2>3, <2>4
<1>5. playerQueue \in Seq(OtherMessages) => playerQueue' \in Seq(OtherMessages)
  <2>1. Quiet \subseteq OtherMessages /\ a \in OtherMessages
    BY DEF Quiet, Sent, OtherMessages, Answers
  <2>2. r \in Seq(OtherMessages)
    BY <2>1
  <2>3. playerQueue \in Seq(OtherMessages) => q \in Seq(OtherMessages)
    BY <2>2
  <2> HIDE DEF q
  <2> QED BY <1>3, <2>1, <2>3
<1> HIDE DEF q
<1>6. ASSUME NEW x
      PROVE  /\ playerQueue' \in Seq(Sent)
             /\ Occurrences(playerQueue', x) = Occurrences(q, x) + (IF a = x THEN 1 ELSE 0)
  <2>1. /\ Append(q, a) \in Seq(Sent)
        /\ Occurrences(Append(q, a), x) = Occurrences(q, x) + (IF a = x THEN 1 ELSE 0)
    BY <1>2, OccurrencesAppend
  <2> QED BY <1>3, <2>1
<1> QED BY <1>4, <1>5, <1>6

LEMMA NotifyKinds ==
    ASSUME TypeOK, NEW s \in Streams
    PROVE  /\ \A w \in {"InputDiscontinuity", "ResumeCompleted", "Error"}, f \in BOOLEAN :
                Notify(s, w, f) \in Quiet
           /\ \A w \in {"FlushCompleted", "ShutdownCompleted"} :
                Answer(s, w) \in Sent /\ Answer(s, w).what \in Answers
<1>1. mDecoderGeneration[s] \in Nat
  BY DEF TypeOK, ObjectTypeOK
<1>2. ASSUME NEW w \in DecoderNotify, NEW f \in BOOLEAN
      PROVE  /\ Notify(s, w, f) \in PlayerMessage /\ Notify(s, w, f).what = w
             /\ Notify(s, w, f).stream = s /\ Notify(s, w, f).flag = f
             /\ Notify(s, w, f).gen = mDecoderGeneration[s]
  BY <1>1, NotificationType DEF Notify, Notification, DecoderNotify, PlayerWhat
<1>3. ASSUME NEW w \in DecoderNotify, NEW f \in BOOLEAN, w \in Answers => f = FALSE
      PROVE  Notify(s, w, f) \in Sent
  BY <1>1, <1>2, <1>3 DEF Sent, DecoderNotify, RendererNotify
<1>4. ASSUME NEW w \in {"InputDiscontinuity", "ResumeCompleted", "Error"}, NEW f \in BOOLEAN
      PROVE  Notify(s, w, f) \in Quiet
  BY <1>2, <1>3 DEF Quiet, Answers, DecoderNotify
<1>5. ASSUME NEW w \in {"FlushCompleted", "ShutdownCompleted"}
      PROVE  Answer(s, w) \in Sent /\ Answer(s, w).what \in Answers
  BY <1>2, <1>3 DEF Answer, Answers, DecoderNotify
<1> QED BY <1>4, <1>5

LEMMA RendererFlushNotifies ==
    ASSUME NEW r \in RendererState, NEW s \in Streams
    PROVE  /\ RendererFlush(r, s, TRUE).notifyComplete[s] = TRUE
           /\ \A t \in Streams : t # s =>
                RendererFlush(r, s, TRUE).notifyComplete[t] = r.notifyComplete[t]
           /\ RendererFlush(r, s, FALSE).notifyComplete = r.notifyComplete
<1>1. r.notifyComplete \in [Streams -> BOOLEAN]
  BY DEF RendererState
<1>2. \A b \in BOOLEAN : RendererFlush(r, s, b).notifyComplete
                           = [r.notifyComplete EXCEPT ![s] = @ \/ b]
  BY DEF RendererFlush, RendererState
<1> DEFINE n == r.notifyComplete
<1> HIDE DEF n
<1>3. n \in [Streams -> BOOLEAN]
  BY <1>1 DEF n
<1>4. [n EXCEPT ![s] = @ \/ FALSE] = n
  <2>1. (n[s] \/ FALSE) = n[s]
    BY <1>3, Zenon
  <2> QED BY <1>3, <2>1
<1>5. /\ [n EXCEPT ![s] = @ \/ TRUE][s] = TRUE
      /\ \A t \in Streams : t # s => [n EXCEPT ![s] = @ \/ TRUE][t] = n[t]
  BY <1>3
<1> QED BY <1>2, <1>4, <1>5 DEF n

\* A step of a decoder that is not of the handshake.
LEMMA DecoderStepKeepsFlush ==
    ASSUME TypeOK, FlushInv, NEW s \in Streams, NEW d, NEW r \in Seq(Quiet),
           DecoderStep(s, d, r), mDecoder[s] # "NULL",
           \/ d.queue = decoder[s].queue
           \/ /\ decoder[s].queue # <<>> /\ d.queue = Tail(decoder[s].queue)
              /\ Head(decoder[s].queue).what \notin {"Flush", "Shutdown"},
           renderer'.notifyComplete = renderer.notifyComplete
    PROVE  FlushInv'
<1>1. /\ decoder' = [decoder EXCEPT ![s] = d] /\ playerQueue' = playerQueue \o r
      /\ UNCHANGED <<looper, mStarted, flushVars, objectVars, scanVars>>
  BY DEF DecoderStep, playerVars, playerVarsButSurface, pauseVars
<1>2. NothingAhead /\ (Alive' => Alive) /\ (looper' \in {"tearError", "tearTimeout"} => mRenderer)
  BY <1>1 DEF FlushInv, HandshakeInv, DecodersExist, Alive, AbortStates
<1>3. QueueQuiet /\ (playerQueue \in Seq(OtherMessages) => playerQueue' \in Seq(OtherMessages))
  BY <1>1, <1>2, QuietPosts
<1>4. decoder'[s] = d /\ \A t \in Streams : t # s => decoder'[t] = decoder[t]
  BY <1>1 DEF TypeOK, DecoderTypeOK
<1>5. \A t \in Streams : decoder[t].queue \in Seq(Orders)
  BY <1>2 DEF NothingAhead
<1>6. /\ d.queue \in Seq(Orders)
      /\ \A v \in {"Flush", "Shutdown"} : Occurrences(d.queue, Order(v)) = Ordered(s, v)
  <2>1. CASE d.queue = decoder[s].queue
    BY <1>5, <2>1 DEF Ordered
  <2>2. CASE /\ decoder[s].queue # <<>> /\ d.queue = Tail(decoder[s].queue)
             /\ Head(decoder[s].queue).what \notin {"Flush", "Shutdown"}
    BY <1>5, <2>2, TakesOrder DEF Ordered
  <2> QED BY <2>1, <2>2
<1>7. DecodersQuiet
  BY <1>4, <1>5, <1>6 DEF DecodersQuiet, Ordered
<1> QED BY <1>1, <1>2, <1>3, <1>7, UndisturbedScans DEF flushVars, objectVars, scanVars

LEMMA QuietDecoderKeepsFlush ==
    ASSUME TypeOK, FlushInv, NEW s \in Streams,
           \/ DecoderConfigures(s) \/ PassThroughConfigures(s) \/ DecoderResumes(s)
           \/ DecoderPulls(s) \/ DecoderOutputs(s) \/ DecoderFails(s)
           \/ PassThroughDiscontinuity(s)
    PROVE  FlushInv'
<1>1. <<>> \in Seq(Quiet)
  OBVIOUS
<1>2. /\ \A f \in BOOLEAN : <<Notify(s, "Error", f)>> \in Seq(Quiet)
      /\ <<Notify(s, "InputDiscontinuity", FALSE)>> \in Seq(Quiet)
      /\ ResumeCompletedIfPending(s) \in Seq(Quiet)
  <2>1. \A m \in Quiet : <<m>> \in Seq(Quiet)
    OBVIOUS
  <2>2. /\ \A f \in BOOLEAN : Notify(s, "Error", f) \in Quiet
        /\ Notify(s, "InputDiscontinuity", FALSE) \in Quiet
        /\ Notify(s, "ResumeCompleted", FALSE) \in Quiet
    BY NotifyKinds
  <2>3. ResumeCompletedIfPending(s) \in Seq(Quiet)
    BY <1>1, <2>1, <2>2 DEF ResumeCompletedIfPending
  <2> QED BY <2>1, <2>2, <2>3
<1>3. decoder[s] \in DecoderState /\ renderer \in RendererState
  BY DEF TypeOK, DecoderTypeOK, RendererTypeOK
<1> DEFINE d1 == Handled(decoder[s])
<1>4. d1 \in DecoderState \/ decoder[s].queue = <<>>
  BY <1>3, HandledType
<1>5. d1.queue = Tail(decoder[s].queue)
  BY <1>3 DEF Handled, DecoderState
<1>6. CASE DecoderConfigures(s)
  <2>1. /\ mDecoder[s] # "NULL" /\ decoder[s].queue # <<>>
        /\ Head(decoder[s].queue).what \notin {"Flush", "Shutdown"} /\ UNCHANGED renderer
    BY <1>6 DEF DecoderConfigures, DecoderReceives
  <2>2. \E d, r : /\ DecoderStep(s, d, r) /\ r \in Seq(Quiet) /\ d.queue = d1.queue
    <3>1. d1 \in DecoderState
      BY <1>4, <2>1
    <3> HIDE DEF d1
    <3>2. [d1 EXCEPT !.codec = TRUE, !.paused = FALSE, !.resumePending = FALSE].queue = d1.queue
      BY <3>1 DEF DecoderState
    <3> QED BY <1>1, <1>2, <1>6, <3>2 DEF DecoderConfigures, d1
  <2> QED BY <1>5, <2>1, <2>2, DecoderStepKeepsFlush
<1>7. CASE PassThroughConfigures(s)
  <2>1. /\ mDecoder[s] # "NULL" /\ decoder[s].queue # <<>>
        /\ Head(decoder[s].queue).what \notin {"Flush", "Shutdown"}
        /\ DecoderStep(s, [d1 EXCEPT !.codec = TRUE], <<>>)
    BY <1>7 DEF PassThroughConfigures, DecoderReceives
  <2>2. renderer'.notifyComplete = renderer.notifyComplete
    BY <1>3, <1>7 DEF PassThroughConfigures, OpenOffloadSink, RendererState
  <2>3. [d1 EXCEPT !.codec = TRUE].queue = d1.queue
    <3>1. d1 \in DecoderState
      BY <1>4, <2>1
    <3> HIDE DEF d1
    <3> QED BY <3>1 DEF DecoderState
  <2> QED BY <1>1, <1>5, <2>1, <2>2, <2>3, DecoderStepKeepsFlush
<1>8. CASE DecoderResumes(s)
  <2> DEFINE d == [d1 EXCEPT !.paused = FALSE, !.resumePending = @ \/ Head(decoder[s].queue).flag]
  <2>1. /\ mDecoder[s] # "NULL" /\ decoder[s].queue # <<>>
        /\ Head(decoder[s].queue).what \notin {"Flush", "Shutdown"}
        /\ DecoderStep(s, d, <<>>) /\ UNCHANGED renderer
    BY <1>8 DEF DecoderResumes, DecoderReceives
  <2>2. d.queue = d1.queue
    <3>1. d1 \in DecoderState
      BY <1>4, <2>1
    <3> HIDE DEF d1
    <3> QED BY <3>1 DEF DecoderState
  <2> HIDE DEF d
  <2> QED BY <1>1, <1>5, <2>1, <2>2, DecoderStepKeepsFlush
<1>9. CASE DecoderPulls(s)
  <2> DEFINE d == [decoder[s] EXCEPT !.data = "fresh"]
  <2>1. mDecoder[s] # "NULL" /\ UNCHANGED renderer /\ DecoderStep(s, d, <<>>)
    BY <1>9 DEF DecoderPulls
  <2>2. d.queue = decoder[s].queue
    BY <1>3 DEF DecoderState
  <2> HIDE DEF d
  <2> QED BY <1>1, <2>1, <2>2, DecoderStepKeepsFlush
<1>10. CASE DecoderOutputs(s)
  <2> DEFINE d == [decoder[s] EXCEPT !.resumePending = FALSE]
  <2>1. /\ mDecoder[s] # "NULL" /\ UNCHANGED renderer
        /\ DecoderStep(s, d, ResumeCompletedIfPending(s))
    BY <1>10 DEF DecoderOutputs
  <2>2. d.queue = decoder[s].queue
    BY <1>3 DEF DecoderState
  <2> HIDE DEF d
  <2> QED BY <1>2, <2>1, <2>2, DecoderStepKeepsFlush
<1>11. CASE DecoderFails(s)
  <2>1. /\ mDecoder[s] # "NULL" /\ UNCHANGED renderer
        /\ DecoderStep(s, decoder[s], <<Notify(s, "Error", FALSE)>>)
    BY <1>11 DEF DecoderFails
  <2> QED BY <1>2, <2>1, DecoderStepKeepsFlush
<1>12. CASE PassThroughDiscontinuity(s)
  <2>1. PICK change \in BOOLEAN :
           /\ renderer' = IF change THEN RendererFlush(renderer, s, FALSE) ELSE renderer
           /\ DecoderStep(s, [decoder[s] EXCEPT !.data = IF change THEN "none" ELSE @],
                          <<Notify(s, "InputDiscontinuity", FALSE)>>)
    BY <1>12 DEF PassThroughDiscontinuity
  <2> DEFINE d == [decoder[s] EXCEPT !.data = IF change THEN "none" ELSE @]
  <2>2. d.queue = decoder[s].queue
    BY <1>3 DEF DecoderState
  <2>3. renderer'.notifyComplete = renderer.notifyComplete
    BY <1>3, <2>1, RendererFlushNotifies
  <2>4. mDecoder[s] # "NULL"
    BY <1>12 DEF PassThroughDiscontinuity
  <2>5. DecoderStep(s, d, <<Notify(s, "InputDiscontinuity", FALSE)>>)
    BY <2>1
  <2> HIDE DEF d
  <2> QED BY <1>2, <2>2, <2>3, <2>4, <2>5, DecoderStepKeepsFlush
<1> QED BY <1>6, <1>7, <1>8, <1>9, <1>10, <1>11, <1>12

\* onFlush(): the decoder answers, and asks the renderer to answer, too.
LEMMA DecoderFlushesKeepsFlush ==
    ASSUME TypeOK, TypeOK', FlushInv, NEW s \in Streams, DecoderFlushes(s)
    PROVE  FlushInv'
<1> DEFINE a == Answer(s, "FlushCompleted")
           q == decoder[s].queue
           d == [Handled(decoder[s]) EXCEPT !.data = "none", !.paused = TRUE]
<1>1. PICK ok \in BOOLEAN : DecoderStep(s, d, FlushAnswers(s, ok))
  BY DEF DecoderFlushes
<1>2. /\ mDecoder[s] # "NULL" /\ q # <<>> /\ Head(q).what = "Flush"
      /\ renderer' = RendererFlush(renderer, s, TRUE)
      /\ decoder' = [decoder EXCEPT ![s] = d] /\ playerQueue' = playerQueue \o FlushAnswers(s, ok)
      /\ UNCHANGED <<looper, mStarted, flushVars, objectVars, scanVars>>
  BY <1>1 DEF DecoderFlushes, DecoderReceives, DecoderStep, playerVars, playerVarsButSurface, pauseVars
<1>3. NothingAhead /\ (Alive => HandshakeInv)
  BY DEF FlushInv
<1>4. decoder[s] \in DecoderState /\ renderer \in RendererState
  BY DEF TypeOK, DecoderTypeOK, RendererTypeOK
<1>5. /\ decoder'[s] = d /\ d.queue = Tail(q)
      /\ \A t \in Streams : t # s => decoder'[t] = decoder[t]
  <2>1. Handled(decoder[s]) \in DecoderState /\ Handled(decoder[s]).queue = Tail(q)
    BY <1>2, <1>4, HandledType DEF Handled, DecoderState
  <2>2. d.queue = Handled(decoder[s]).queue
    BY <2>1 DEF DecoderState
  <2> HIDE DEF d
  <2> QED BY <1>2, <2>1, <2>2 DEF TypeOK, DecoderTypeOK
<1> HIDE DEF d
<1>6. a \in Sent /\ a.what \in Answers
  BY NotifyKinds
<1>7. PICK r \in Seq(Quiet) : FlushAnswers(s, ok) = r \o <<a>>
  <2>1. <<>> \in Seq(Quiet) /\ \A m \in Quiet : <<m>> \in Seq(Quiet)
    OBVIOUS
  <2>2. Notify(s, "Error", FALSE) \in Quiet
    BY NotifyKinds
  <2> QED BY <2>1, <2>2 DEF FlushAnswers, Answer
<1> HIDE DEF a
<1>8. /\ playerQueue' \in Seq(Sent)
      /\ playerQueue \in Seq(OtherMessages) => playerQueue' \in Seq(OtherMessages)
      /\ Occurrences(playerQueue', a) = Occurrences(playerQueue, a) + 1
      /\ \A x : x # a /\ x.what \in Answers
                  => Occurrences(playerQueue', x) = Occurrences(playerQueue, x)
  BY <1>2, <1>3, <1>6, <1>7, AnswerPosted
<1>9. ASSUME NEW t \in Streams
      PROVE  /\ Answered(t, "ShutdownCompleted")' = Answered(t, "ShutdownCompleted")
             /\ RendererAnswered(t)' = RendererAnswered(t)
             /\ t # s => /\ Answered(t, "FlushCompleted")' = Answered(t, "FlushCompleted")
                         /\ Wanted(t)' = Wanted(t)
             /\ t = s => /\ Answered(t, "FlushCompleted")' = Answered(t, "FlushCompleted") + 1
                         /\ Wanted(t)' = 1
  <2>1. (\A w : Answer(t, w)' = Answer(t, w)) /\ RendererAnswer(t)' = RendererAnswer(t)
    BY <1>2 DEF Answer, Notify, RendererAnswer, objectVars
  <2>2. /\ Answer(t, "ShutdownCompleted") # a /\ Answer(t, "ShutdownCompleted").what \in Answers
        /\ RendererAnswer(t) # a /\ RendererAnswer(t).what \in Answers
        /\ t # s => Answer(t, "FlushCompleted") # a
        /\ Answer(t, "FlushCompleted").what \in Answers
    BY AnswerFacts DEF a, Answers
  <2>3. /\ t # s => Wanted(t)' = Wanted(t)
        /\ t = s => Wanted(t)' = 1
    <3>1. /\ t # s => renderer'.notifyComplete[t] = renderer.notifyComplete[t]
          /\ t = s => renderer'.notifyComplete[t] = TRUE
      BY <1>2, <1>4, RendererFlushNotifies
    <3>2. Wanted(t)' = IF renderer'.notifyComplete[t] THEN 1 ELSE 0
      BY DEF Wanted
    <3> QED BY <3>1, <3>2 DEF Wanted
  <2>4. Answer(s, "FlushCompleted") = a
    BY DEF a
  <2> QED BY <1>8, <2>1, <2>2, <2>3, <2>4 DEF Answered, RendererAnswered
<1>10. /\ \A t \in Streams : decoder'[t].queue \in Seq(Orders)
       /\ Ordered(s, "Flush") = Ordered(s, "Flush")' + 1 /\ Ordered(s, "Flush")' \in Nat
       /\ Ordered(s, "Shutdown")' = Ordered(s, "Shutdown")
  <2>1. Order("Flush")' = Order("Flush") /\ Order("Shutdown")' = Order("Shutdown")
    BY DEF Order
  <2>2. \A t \in Streams : decoder[t].queue \in Seq(Orders)
    BY <1>3 DEF NothingAhead
  <2>3. /\ Tail(q) \in Seq(Orders)
        /\ Occurrences(q, Order("Flush")) = Occurrences(Tail(q), Order("Flush")) + 1
        /\ Occurrences(Tail(q), Order("Flush")) \in Nat
        /\ Occurrences(q, Order("Shutdown")) = Occurrences(Tail(q), Order("Shutdown"))
    BY <1>2, <2>2, TakesOrder
  <2> QED BY <1>5, <2>1, <2>2, <2>3 DEF Ordered
<1>11. NothingAhead'
  BY <1>2, <1>3, <1>8, <1>10, AheadFrame DEF NothingAhead, objectVars, scanVars
<1>12. Alive => Balanced(s)'
  <2> SUFFICES ASSUME Alive PROVE Balanced(s)'
    OBVIOUS
  <2>1. Balanced(s)
    BY <1>3 DEF HandshakeInv
  <2>2. Ordered(s, "Flush") # 0
    BY <1>10
  <2>3. /\ mFlushing[s] \in Flushing /\ Ordered(s, "Flush") = 1
        /\ mFlushComplete[s]["decoder"] = FALSE /\ mFlushComplete[s]["renderer"] = FALSE
        /\ Answered(s, "FlushCompleted") = 0 /\ Wanted(s) = 0 /\ RendererAnswered(s) = 0
        /\ Ordered(s, "Shutdown") = 0 /\ Answered(s, "ShutdownCompleted") = 0
    BY <1>3, <2>1, <2>2, Owed
  <2>4. Balance(mFlushing'[s], mFlushComplete'[s], 0, 1, 1, 0, 0, 0)
    BY <1>2, <2>3 DEF Balance, flushVars
  <2>5. /\ Ordered(s, "Flush")' = 0 /\ Answered(s, "FlushCompleted")' = 1 /\ Wanted(s)' = 1
        /\ RendererAnswered(s)' = 0 /\ Ordered(s, "Shutdown")' = 0
        /\ Answered(s, "ShutdownCompleted")' = 0
    BY <1>9, <1>10, <2>3
  <2> QED BY <2>4, <2>5, BalanceNext
<1> QED BY <1>2, <1>5, <1>8, <1>9, <1>11, <1>12, StreamKeepsFlush

\* onShutdown(): the decoder answers, and is released later.
LEMMA DecoderShutsDownKeepsFlush ==
    ASSUME TypeOK, TypeOK', FlushInv, NEW s \in Streams, DecoderShutsDown(s)
    PROVE  FlushInv'
<1> DEFINE a == Answer(s, "ShutdownCompleted")
           q == decoder[s].queue
           d == [Handled(decoder[s]) EXCEPT !.resumePending = FALSE, !.codec = FALSE,
                    !.data = "none", !.paused = (mDecoder[s] = "Decoder") \/ @]
           errors(ok) == IF ok THEN <<>> ELSE <<Notify(s, "Error", FALSE)>>
<1>1. PICK ok \in BOOLEAN :
         DecoderStep(s, d, ResumeCompletedIfPending(s) \o errors(ok) \o <<a>>)
  BY DEF DecoderShutsDown, Answer
<1>2. /\ mDecoder[s] # "NULL" /\ q # <<>> /\ Head(q).what = "Shutdown" /\ UNCHANGED renderer
      /\ decoder' = [decoder EXCEPT ![s] = d]
      /\ playerQueue' = playerQueue \o (ResumeCompletedIfPending(s) \o errors(ok) \o <<a>>)
      /\ UNCHANGED <<looper, mStarted, flushVars, objectVars, scanVars>>
  BY <1>1 DEF DecoderShutsDown, DecoderReceives, DecoderStep, playerVars, playerVarsButSurface, pauseVars
<1>3. NothingAhead /\ (Alive => HandshakeInv)
  BY DEF FlushInv
<1>4. decoder[s] \in DecoderState
  BY DEF TypeOK, DecoderTypeOK
<1>5. /\ decoder'[s] = d /\ d.queue = Tail(q)
      /\ \A t \in Streams : t # s => decoder'[t] = decoder[t]
  <2>1. Handled(decoder[s]) \in DecoderState /\ Handled(decoder[s]).queue = Tail(q)
    BY <1>2, <1>4, HandledType DEF Handled, DecoderState
  <2>2. d.queue = Handled(decoder[s]).queue
    BY <2>1 DEF DecoderState
  <2> HIDE DEF d
  <2> QED BY <1>2, <2>1, <2>2 DEF TypeOK, DecoderTypeOK
<1> HIDE DEF d
<1>6. a \in Sent /\ a.what \in Answers
  BY NotifyKinds
<1>7. ResumeCompletedIfPending(s) \o errors(ok) \in Seq(Quiet)
  <2>1. <<>> \in Seq(Quiet) /\ \A m \in Quiet : <<m>> \in Seq(Quiet)
    OBVIOUS
  <2>2. Notify(s, "Error", FALSE) \in Quiet /\ Notify(s, "ResumeCompleted", FALSE) \in Quiet
    BY NotifyKinds
  <2>3. ResumeCompletedIfPending(s) \in Seq(Quiet) /\ errors(ok) \in Seq(Quiet)
    BY <2>1, <2>2 DEF ResumeCompletedIfPending
  <2> HIDE DEF errors
  <2> QED BY <2>3
<1> DEFINE r == ResumeCompletedIfPending(s) \o errors(ok)
<1> HIDE DEF a, r
<1>8. /\ playerQueue' \in Seq(Sent)
      /\ playerQueue \in Seq(OtherMessages) => playerQueue' \in Seq(OtherMessages)
      /\ Occurrences(playerQueue', a) = Occurrences(playerQueue, a) + 1
      /\ \A x : x # a /\ x.what \in Answers
                  => Occurrences(playerQueue', x) = Occurrences(playerQueue, x)
  <2>1. r \in Seq(Quiet) /\ playerQueue' = playerQueue \o (r \o <<a>>)
    BY <1>2, <1>7 DEF r
  <2> QED BY <1>3, <1>6, <2>1, AnswerPosted
<1>9. ASSUME NEW t \in Streams
      PROVE  /\ Answered(t, "FlushCompleted")' = Answered(t, "FlushCompleted")
             /\ RendererAnswered(t)' = RendererAnswered(t) /\ Wanted(t)' = Wanted(t)
             /\ t # s => Answered(t, "ShutdownCompleted")' = Answered(t, "ShutdownCompleted")
             /\ t = s => Answered(t, "ShutdownCompleted")' = Answered(t, "ShutdownCompleted") + 1
  <2>1. (\A w : Answer(t, w)' = Answer(t, w)) /\ RendererAnswer(t)' = RendererAnswer(t)
    BY <1>2 DEF Answer, Notify, RendererAnswer, objectVars
  <2>2. /\ Answer(t, "FlushCompleted") # a /\ Answer(t, "FlushCompleted").what \in Answers
        /\ RendererAnswer(t) # a /\ RendererAnswer(t).what \in Answers
        /\ t # s => Answer(t, "ShutdownCompleted") # a
        /\ Answer(t, "ShutdownCompleted").what \in Answers
    BY AnswerFacts DEF a, Answers
  <2>3. Answer(s, "ShutdownCompleted") = a
    BY DEF a
  <2> QED BY <1>2, <1>8, <2>1, <2>2, <2>3 DEF Answered, RendererAnswered, Wanted
<1>10. /\ \A t \in Streams : decoder'[t].queue \in Seq(Orders)
       /\ Ordered(s, "Shutdown") = Ordered(s, "Shutdown")' + 1 /\ Ordered(s, "Shutdown")' \in Nat
       /\ Ordered(s, "Flush")' = Ordered(s, "Flush")
  <2>1. Order("Flush")' = Order("Flush") /\ Order("Shutdown")' = Order("Shutdown")
    BY DEF Order
  <2>2. \A t \in Streams : decoder[t].queue \in Seq(Orders)
    BY <1>3 DEF NothingAhead
  <2>3. /\ Tail(q) \in Seq(Orders)
        /\ Occurrences(q, Order("Shutdown")) = Occurrences(Tail(q), Order("Shutdown")) + 1
        /\ Occurrences(Tail(q), Order("Shutdown")) \in Nat
        /\ Occurrences(q, Order("Flush")) = Occurrences(Tail(q), Order("Flush"))
    BY <1>2, <2>2, TakesOrder
  <2> QED BY <1>5, <2>1, <2>2, <2>3 DEF Ordered
<1>11. NothingAhead'
  BY <1>2, <1>3, <1>8, <1>10, AheadFrame DEF NothingAhead, objectVars, scanVars
<1>12. Alive => Balanced(s)'
  <2> SUFFICES ASSUME Alive PROVE Balanced(s)'
    OBVIOUS
  <2>1. Balanced(s)
    BY <1>3 DEF HandshakeInv
  <2>2. Ordered(s, "Shutdown") # 0
    BY <1>10
  <2>3. /\ mFlushing[s] = "SHUTTING_DOWN_DECODER"
        /\ Ordered(s, "Flush") = 0 /\ Answered(s, "FlushCompleted") = 0
        /\ Wanted(s) = 0 /\ RendererAnswered(s) = 0
        /\ Ordered(s, "Shutdown") + Answered(s, "ShutdownCompleted") = 1
    BY <1>3, <2>1, <2>2, Owed
  <2>4. Answered(s, "ShutdownCompleted") \in Nat
    BY <1>3, CountTypes
  <2>5. Balance(mFlushing'[s], mFlushComplete'[s], 0, 0, 0, 0, 0, 1)
    BY <1>2, <2>3 DEF Balance, Flushing, flushVars
  <2>6. /\ Ordered(s, "Flush")' = 0 /\ Answered(s, "FlushCompleted")' = 0 /\ Wanted(s)' = 0
        /\ RendererAnswered(s)' = 0 /\ Ordered(s, "Shutdown")' = 0
        /\ Answered(s, "ShutdownCompleted")' = 1
    BY <1>9, <1>10, <2>3, <2>4
  <2> QED BY <2>5, <2>6, BalanceNext
<1> QED BY <1>2, <1>5, <1>8, <1>9, <1>11, <1>12, StreamKeepsFlush

\* A step of the renderer that is not of the handshake.
LEMMA RendererStepKeepsFlush ==
    ASSUME TypeOK, FlushInv, NEW r, NEW n \in Seq(Quiet), RendererStep(r, n),
           r.notifyComplete = renderer.notifyComplete
    PROVE  FlushInv'
<1>1. /\ playerQueue' = playerQueue \o n /\ renderer' = r
      /\ UNCHANGED <<looper, mStarted, flushVars, objectVars, scanVars, decoder>>
  BY DEF RendererStep, playerVars, playerVarsButSurface, pauseVars
<1>2. NothingAhead /\ (Alive' => Alive) /\ (looper' \in {"tearError", "tearTimeout"} => mRenderer)
  BY <1>1 DEF FlushInv, HandshakeInv, DecodersExist, Alive, AbortStates
<1>3. QueueQuiet /\ (playerQueue \in Seq(OtherMessages) => playerQueue' \in Seq(OtherMessages))
  BY <1>1, <1>2, QuietPosts
<1>4. DecodersQuiet
  BY <1>1, QuietDecoders
<1> QED BY <1>1, <1>2, <1>3, <1>4, UndisturbedScans DEF flushVars, objectVars, scanVars

LEMMA RendererKinds ==
    ASSUME TypeOK, mRenderer
    PROVE  /\ \A f \in BOOLEAN : RendererNotifies("AudioOffloadTearDown", "audio", f) \in Seq(Quiet)
           /\ \A s \in Streams : RendererAnswer(s) \in Sent /\ RendererAnswer(s).what \in Answers
<1>1. mRendererGeneration \in Nat
  BY DEF TypeOK, ObjectTypeOK
<1>2. ASSUME NEW w \in RendererNotify, NEW s \in Streams, NEW f \in BOOLEAN
      PROVE  /\ Notification(w, s, mRendererGeneration, f) \in PlayerMessage
             /\ Notification(w, s, mRendererGeneration, f).what = w
             /\ Notification(w, s, mRendererGeneration, f).flag = f
             /\ Notification(w, s, mRendererGeneration, f).gen = mRendererGeneration
  BY <1>1, NotificationType DEF Notification, RendererNotify, PlayerWhat
<1>3. ASSUME NEW w \in RendererNotify, NEW s \in Streams, NEW f \in BOOLEAN,
             w \in Answers => f = FALSE
      PROVE  Notification(w, s, mRendererGeneration, f) \in Sent
  BY <1>1, <1>2, <1>3 DEF Sent, DecoderNotify, RendererNotify
<1>4. ASSUME NEW f \in BOOLEAN
      PROVE  RendererNotifies("AudioOffloadTearDown", "audio", f) \in Seq(Quiet)
  <2>1. Notification("AudioOffloadTearDown", "audio", mRendererGeneration, f) \in Quiet
    BY <1>2, <1>3 DEF Quiet, Answers, RendererNotify, Streams
  <2>2. \A m \in Quiet : <<m>> \in Seq(Quiet)
    OBVIOUS
  <2> QED BY <2>1, <2>2 DEF RendererNotifies
<1>5. ASSUME NEW s \in Streams
      PROVE  RendererAnswer(s) \in Sent /\ RendererAnswer(s).what \in Answers
  BY <1>2, <1>3 DEF RendererAnswer, RendererNotify, Answers
<1> QED BY <1>4, <1>5

LEMMA QuietRendererKeepsFlush ==
    ASSUME TypeOK, FlushInv,
           \/ RendererPauses \/ RendererResumes \/ RendererClosesSink \/ RendererDisablesOffload
           \/ RendererTearsDown \/ RendererPauseTimeout \/ HALTearsDown
    PROVE  FlushInv'
<1>1. <<>> \in Seq(Quiet)
  OBVIOUS
<1>2. renderer \in RendererState
  BY DEF TypeOK, RendererTypeOK
<1>3. RendererHandled.notifyComplete = renderer.notifyComplete
  BY <1>2 DEF RendererHandled, RendererState
<1>4. mRenderer
  BY DEF RendererPauses, RendererResumes, RendererClosesSink, RendererDisablesOffload, RendererTearsDown,
    RendererPauseTimeout, HALTearsDown, RendererReceives
<1>5. CASE RendererPauses \/ RendererResumes \/ RendererClosesSink \/ RendererDisablesOffload
  <2>1. RendererHandled \in RendererState
    BY <1>5, RendererHandledType DEF RendererPauses, RendererResumes, RendererClosesSink,
      RendererDisablesOffload, RendererReceives
  <2>2. \E r : RendererStep(r, <<>>) /\ r.notifyComplete = RendererHandled.notifyComplete
    <3> DEFINE h == RendererHandled
    <3>1. h \in RendererState
      BY <2>1
    <3> HIDE DEF h
    <3>2. ASSUME NEW p, NEW t
          PROVE  /\ [h EXCEPT !.paused = p, !.timeout = t].notifyComplete = h.notifyComplete
                 /\ [h EXCEPT !.sink = p].notifyComplete = h.notifyComplete
                 /\ [h EXCEPT !.offload = p].notifyComplete = h.notifyComplete
      BY <3>1 DEF RendererState
    <3>3. CASE RendererPauses
      <4> DEFINE r == [h EXCEPT !.paused = TRUE, !.timeout = @ \/ (~renderer.paused /\ HoldsSink)]
      <4>1. r.notifyComplete = h.notifyComplete
        BY <3>1 DEF RendererState
      <4>2. RendererStep(r, <<>>)
        BY <3>3 DEF RendererPauses, h
      <4> QED BY <4>1, <4>2 DEF h
    <3>4. CASE RendererResumes
      <4> DEFINE r == [h EXCEPT !.paused = FALSE, !.timeout = @ /\ ~(renderer.paused /\ HoldsSink)]
      <4>1. r.notifyComplete = h.notifyComplete
        BY <3>1 DEF RendererState
      <4>2. RendererStep(r, <<>>)
        BY <3>4 DEF RendererResumes, h
      <4> QED BY <4>1, <4>2 DEF h
    <3>5. CASE RendererClosesSink
      BY <3>2, <3>5 DEF RendererClosesSink, h
    <3>6. CASE RendererDisablesOffload
      BY <3>2, <3>6 DEF RendererDisablesOffload, h
    <3> QED BY <1>5, <3>3, <3>4, <3>5, <3>6
  <2> QED BY <1>1, <1>3, <2>2, RendererStepKeepsFlush
<1>6. ASSUME NEW r \in RendererState, NEW f \in BOOLEAN, TearDown(r, f),
             r.notifyComplete = renderer.notifyComplete
      PROVE  FlushInv'
  <2> DEFINE n == IF r.tornDown THEN <<>> ELSE RendererNotifies("AudioOffloadTearDown", "audio", f)
  <2>1. n \in Seq(Quiet)
    BY <1>1, <1>4, RendererKinds
  <2>2. [r EXCEPT !.tornDown = TRUE].notifyComplete = renderer.notifyComplete
    BY <1>6 DEF RendererState
  <2>3. RendererStep([r EXCEPT !.tornDown = TRUE], n)
    BY <1>6 DEF TearDown
  <2> HIDE DEF n
  <2> QED BY <2>1, <2>2, <2>3, RendererStepKeepsFlush
<1>7. CASE RendererTearsDown
  BY <1>3, <1>6, <1>7, RendererHandledType DEF RendererTearsDown, RendererReceives
<1>8. CASE RendererPauseTimeout
  <2>1. /\ [renderer EXCEPT !.timeout = FALSE] \in RendererState
        /\ [renderer EXCEPT !.timeout = FALSE].notifyComplete = renderer.notifyComplete
    BY <1>2 DEF RendererState
  <2> QED BY <1>6, <1>8, <2>1 DEF RendererPauseTimeout
<1>9. CASE HALTearsDown
  <2>1. ToRenderer(renderer, "AudioOffloadTearDown").notifyComplete = renderer.notifyComplete
    BY DEF ToRenderer
  <2> QED BY <1>1, <1>9, <2>1, RendererStepKeepsFlush DEF HALTearsDown
<1> QED BY <1>5, <1>7, <1>8, <1>9

\* The renderer has flushed a stream, and answers when it was asked to.
LEMMA RendererFlushesKeepsFlush ==
    ASSUME TypeOK, TypeOK', FlushInv, RendererFlushes
    PROVE  FlushInv'
<1>1. mRenderer /\ renderer.queue # <<>>
  BY DEF RendererFlushes, RendererReceives
<1>2. RendererHandled \in RendererState
  BY <1>1, RendererHandledType
<1>3. PICK s \in Streams : s = Head(renderer.queue).stream
  BY <1>1, RendererHandledType
<1> DEFINE r == [RendererHandled EXCEPT !.flushing[s] = FALSE, !.notifyComplete[s] = FALSE]
           a == RendererAnswer(s)
           notifies == IF renderer.notifyComplete[s]
                       THEN RendererNotifies("RendererFlushComplete", s, FALSE) ELSE <<>>
<1>4. RendererStep(r, notifies)
  BY <1>3 DEF RendererFlushes
<1>5. r.notifyComplete = [renderer.notifyComplete EXCEPT ![s] = FALSE]
  <2>1. RendererHandled.notifyComplete = renderer.notifyComplete
    BY DEF RendererHandled, TypeOK, RendererTypeOK, RendererState
  <2>2. r.notifyComplete = [RendererHandled.notifyComplete EXCEPT ![s] = FALSE]
    BY <1>2 DEF RendererState
  <2> QED BY <2>1, <2>2
<1>6. renderer.notifyComplete \in [Streams -> BOOLEAN]
  BY DEF TypeOK, RendererTypeOK, RendererState
<1> HIDE DEF r
<1>7. CASE ~renderer.notifyComplete[s]
  <2>1. notifies = <<>> /\ <<>> \in Seq(Quiet)
    BY <1>7
  <2>2. r.notifyComplete = renderer.notifyComplete
    <3>1. renderer.notifyComplete[s] = FALSE
      BY <1>6, <1>7
    <3> QED BY <1>5, <1>6, <3>1
  <2> HIDE DEF notifies
  <2> QED BY <1>4, <2>1, <2>2, RendererStepKeepsFlush
<1>8. CASE renderer.notifyComplete[s]
  <2>1. notifies = <<a>>
    BY <1>8 DEF RendererNotifies, RendererAnswer
  <2> HIDE DEF notifies
  <2>2. /\ playerQueue' = playerQueue \o <<a>> /\ renderer' = r
        /\ UNCHANGED <<looper, mStarted, flushVars, objectVars, scanVars, decoder>>
    BY <1>4, <2>1 DEF RendererStep, playerVars, playerVarsButSurface, pauseVars
  <2>3. NothingAhead /\ (Alive => HandshakeInv)
    BY DEF FlushInv
  <2>4. a \in Sent /\ a.what \in Answers
    BY <1>1, RendererKinds
  <2> DEFINE none == <<>>
  <2>5. none \in Seq(Quiet) /\ playerQueue' = playerQueue \o (none \o <<a>>)
    BY <2>2
  <2> HIDE DEF none, a
  <2>6. /\ playerQueue' \in Seq(Sent)
        /\ playerQueue \in Seq(OtherMessages) => playerQueue' \in Seq(OtherMessages)
        /\ Occurrences(playerQueue', a) = Occurrences(playerQueue, a) + 1
        /\ \A x : x # a /\ x.what \in Answers
                    => Occurrences(playerQueue', x) = Occurrences(playerQueue, x)
    BY <2>3, <2>4, <2>5, AnswerPosted
  <2>7. ASSUME NEW t \in Streams
        PROVE  /\ Answered(t, "FlushCompleted")' = Answered(t, "FlushCompleted")
               /\ Answered(t, "ShutdownCompleted")' = Answered(t, "ShutdownCompleted")
               /\ t # s => RendererAnswered(t)' = RendererAnswered(t) /\ Wanted(t)' = Wanted(t)
               /\ t = s => RendererAnswered(t)' = RendererAnswered(t) + 1 /\ Wanted(t)' = 0
    <3>1. (\A w : Answer(t, w)' = Answer(t, w)) /\ RendererAnswer(t)' = RendererAnswer(t)
      BY <2>2 DEF Answer, Notify, RendererAnswer, objectVars
    <3>2. /\ Answer(t, "FlushCompleted") # a /\ Answer(t, "FlushCompleted").what \in Answers
          /\ Answer(t, "ShutdownCompleted") # a /\ Answer(t, "ShutdownCompleted").what \in Answers
          /\ t # s => RendererAnswer(t) # a
          /\ RendererAnswer(t).what \in Answers
      BY AnswerFacts DEF a, Answers
    <3>3. /\ t # s => renderer'.notifyComplete[t] = renderer.notifyComplete[t]
          /\ t = s => renderer'.notifyComplete[t] = FALSE
      BY <1>5, <1>6, <2>2
    <3>4. Wanted(t)' = IF renderer'.notifyComplete[t] THEN 1 ELSE 0
      BY DEF Wanted
    <3>5. (t # s => Wanted(t)' = Wanted(t)) /\ (t = s => Wanted(t)' = 0)
      BY <3>3, <3>4 DEF Wanted
    <3>6. RendererAnswer(s) = a
      BY DEF a
    <3> QED BY <2>6, <3>1, <3>2, <3>5, <3>6 DEF Answered, RendererAnswered
  <2>8. NothingAhead'
    BY <2>2, <2>3, <2>6, AheadFrame DEF NothingAhead, objectVars, scanVars
  <2>9. \A t \in Streams : /\ Ordered(t, "Flush")' = Ordered(t, "Flush")
                           /\ Ordered(t, "Shutdown")' = Ordered(t, "Shutdown")
    BY <2>2 DEF Ordered, Order
  <2>10. Alive => Balanced(s)'
    <3> SUFFICES ASSUME Alive PROVE Balanced(s)'
      OBVIOUS
    <3> DEFINE f == Ordered(s, "Flush")
               c == Answered(s, "FlushCompleted")
               n == Wanted(s)
               k == RendererAnswered(s)
               d == Ordered(s, "Shutdown")
               x == Answered(s, "ShutdownCompleted")
    <3>1. f \in Nat /\ c \in Nat /\ k \in Nat /\ d \in Nat /\ x \in Nat /\ n = 1
      BY <1>8, <2>3, CountTypes DEF Wanted
    <3>2. Balance(mFlushing[s], mFlushComplete[s], f, c, n, k, d, x)
      BY <2>3 DEF HandshakeInv, Balanced
    <3>3. f' = f /\ c' = c /\ n' = 0 /\ k' = k + 1 /\ d' = d /\ x' = x
      BY <2>7, <2>9
    <3>4. Balanced(s)' <=> Balance(mFlushing'[s], mFlushComplete'[s], f', c', n', k', d', x')
      BY DEF Balanced
    <3>5. mFlushing'[s] = mFlushing[s] /\ mFlushComplete'[s] = mFlushComplete[s]
      BY <2>2 DEF flushVars
    <3> HIDE DEF f, c, n, k, d, x
    <3>6. Balance(mFlushing[s], mFlushComplete[s], f, c, 0, k + 1, d, x)
      BY <3>1, <3>2 DEF Balance
    <3> QED BY <3>3, <3>4, <3>5, <3>6
  <2> QED BY <2>2, <2>6, <2>7, <2>8, <2>10, StreamKeepsFlush
<1> QED BY <1>7, <1>8

-----------------------------------------------------------------------------
(* The tear down of the offloaded audio, when no flush is under way.        *)

LEMMA OrdersOfNewDecoder ==
    ASSUME NEW p \in BOOLEAN
    PROVE  \A d \in {NewDecoder(p), NoDecoder} :
              /\ d.queue \in Seq(Orders)
              /\ \A v \in {"Flush", "Shutdown"} : Occurrences(d.queue, Order(v)) = 0
<1>1. /\ NewDecoder(p).queue = <<Order("Configure")>> /\ NoDecoder.queue = <<>>
  BY DEF NewDecoder, NoDecoder, Order
<1>2. Order("Configure") \in Orders /\ \A v \in {"Flush", "Shutdown"} : Order("Configure") # Order(v)
  BY DEF Order, Orders, DecoderMessage
<1>3. <<>> \in Seq(Orders) /\ \A m \in Orders : <<m>> \in Seq(Orders)
  OBVIOUS
<1>4. \A x : Occurrences(<<>>, x) = 0
  BY OccurrencesOne, Zenon
<1>5. \A v \in {"Flush", "Shutdown"} : Occurrences(<<Order("Configure")>>, Order(v)) = 0
  BY <1>2, OccurrencesOne
<1>6. ASSUME NEW d, d = NewDecoder(p)
      PROVE  /\ d.queue \in Seq(Orders)
             /\ \A v \in {"Flush", "Shutdown"} : Occurrences(d.queue, Order(v)) = 0
  <2>1. d.queue = <<Order("Configure")>>
    BY <1>1, <1>6
  <2> QED BY <1>2, <1>3, <1>5, <2>1
<1>7. ASSUME NEW d, d = NoDecoder
      PROVE  /\ d.queue \in Seq(Orders)
             /\ \A v \in {"Flush", "Shutdown"} : Occurrences(d.queue, Order(v)) = 0
  <2>1. d.queue = <<>>
    BY <1>1, <1>7
  <2> QED BY <1>3, <1>4, <2>1
<1> QED BY <1>6, <1>7

LEMMA SinkClosedKeepsFlush ==
    ASSUME TypeOK, TypeOK', FlushInv, OnAudioSinkClosed, NotFlushing
    PROVE  FlushInv'
<1> DEFINE error    == looper = "tearError"
           software == error /\ "audio" \in Formats
           audio    == RendererFlush(renderer, "audio", FALSE)
           flushed  == IF mDecoder["video"] = "NULL" THEN audio
                       ELSE RendererFlush(audio, "video", FALSE)
           new      == IF software THEN NewDecoder(FALSE) ELSE NoDecoder
<1>1. /\ looper \in {"tearError", "tearTimeout"} /\ looper' = "idle"
      /\ UNCHANGED <<playerQueue, mStarted, mRenderer, mRendererGeneration, flushVars, scanVars>>
      /\ renderer' = IF error THEN ToRenderer(WithMedia(flushed, Formats), "DisableOffloadAudio")
                     ELSE flushed
      /\ mDecoder' = [mDecoder EXCEPT !["audio"] = IF software THEN "Decoder" ELSE "NULL"]
      /\ mDecoderGeneration' = [mDecoderGeneration EXCEPT !["audio"] = @ + IF software THEN 2 ELSE 1]
      /\ decoder' = [decoder EXCEPT !["audio"] = new, !["video"] = Outdated(@)]
  BY DEF OnAudioSinkClosed, pauseVars
<1>2. Alive /\ NothingAhead /\ HandshakeInv /\ mRenderer = mStarted
  BY <1>1 DEF FlushInv, Alive, AbortStates
<1>3. mRenderer /\ DecodersExist
  BY <1>1, <1>2 DEF HandshakeInv, DecodersExist
<1>4. renderer'.notifyComplete = renderer.notifyComplete
  <2>1. renderer \in RendererState
    BY DEF TypeOK, RendererTypeOK
  <2>2. audio.notifyComplete = renderer.notifyComplete /\ audio \in RendererState
    BY <2>1, RendererFlushNotifies, RendererFlushType DEF Streams
  <2> HIDE DEF audio
  <2>3. flushed.notifyComplete = renderer.notifyComplete /\ flushed \in RendererState
    BY <2>2, RendererFlushNotifies, RendererFlushType DEF Streams
  <2> HIDE DEF flushed
  <2>4. WithMedia(flushed, Formats).notifyComplete = flushed.notifyComplete
    BY <2>3 DEF WithMedia, RendererState
  <2>5. \A r, w : ToRenderer(r, w).notifyComplete = r.notifyComplete
    BY DEF ToRenderer
  <2> QED BY <1>1, <2>3, <2>4, <2>5
<1> HIDE DEF flushed, audio
<1>5. /\ decoder'["audio"] = new /\ decoder'["video"] = Outdated(decoder["video"])
      /\ mDecoder'["video"] = mDecoder["video"]
      /\ mDecoder'["audio"] = IF software THEN "Decoder" ELSE "NULL"
      /\ mDecoderGeneration'["video"] = mDecoderGeneration["video"]
      /\ mDecoderGeneration'["audio"] \in Nat
      /\ mDecoderGeneration'["audio"] > mDecoderGeneration["audio"]
  <2>1. "audio" \in Streams /\ "video" \in Streams
    BY DEF Streams
  <2>2. mDecoderGeneration["audio"] \in Nat
    BY <2>1 DEF TypeOK, ObjectTypeOK
  <2>3. mDecoderGeneration'["audio"] = mDecoderGeneration["audio"] + IF software THEN 2 ELSE 1
    BY <1>1, <2>1 DEF TypeOK, ObjectTypeOK
  <2>4. mDecoderGeneration'["audio"] \in Nat /\ mDecoderGeneration'["audio"] > mDecoderGeneration["audio"]
    BY <2>2, <2>3
  <2> HIDE DEF new
  <2> QED BY <1>1, <2>1, <2>4 DEF TypeOK, ObjectTypeOK, DecoderTypeOK
<1>6. \A s \in Streams : mFlushing[s] = "NONE" /\ mFlushing'[s] = "NONE"
  BY <1>1 DEF NotFlushing, AllNone, flushVars
<1>7. Order("Flush")' = Order("Flush") /\ Order("Shutdown")' = Order("Shutdown")
  BY DEF Order
<1>8. ASSUME NEW s \in Streams
      PROVE  /\ Ordered(s, "Flush") = 0 /\ Ordered(s, "Shutdown") = 0
             /\ Answered(s, "FlushCompleted") = 0 /\ Answered(s, "ShutdownCompleted") = 0
             /\ RendererAnswered(s) = 0 /\ Wanted(s) = 0
  <2>1. Balanced(s) /\ mFlushing[s] \in Settled
    BY <1>2, <1>6 DEF HandshakeInv, Settled
  <2> QED BY <1>2, <2>1, IdleBalance
<1>9. ASSUME NEW s \in Streams
      PROVE  /\ decoder'[s].queue \in Seq(Orders)
             /\ Ordered(s, "Flush")' = 0 /\ Ordered(s, "Shutdown")' = 0
  <2>1. CASE s = "audio"
    <3>1. new \in {NewDecoder(FALSE), NoDecoder}
      OBVIOUS
    <3>2. /\ new.queue \in Seq(Orders)
          /\ \A v \in {"Flush", "Shutdown"} : Occurrences(new.queue, Order(v)) = 0
      BY <3>1, OrdersOfNewDecoder
    <3> HIDE DEF new
    <3> QED BY <1>5, <1>7, <2>1, <3>2 DEF Ordered
  <2>2. CASE s = "video"
    <3>1. decoder[s] \in DecoderState /\ decoder[s].queue \in Seq(Orders)
      BY <1>2 DEF TypeOK, DecoderTypeOK, NothingAhead
    <3>2. Outdated(decoder[s]).queue = decoder[s].queue
      BY <3>1 DEF Outdated, DecoderState
    <3>3. decoder'[s].queue = decoder[s].queue
      BY <1>5, <2>2, <3>2
    <3> QED BY <1>7, <1>8, <3>1, <3>3 DEF Ordered
  <2> QED BY <2>1, <2>2 DEF Streams
<1>10. playerQueue' \in Seq(Sent)
  BY <1>1, <1>2 DEF NothingAhead
<1>11. ASSUME NEW s \in Streams
       PROVE  /\ Answered(s, "FlushCompleted")' = 0 /\ Answered(s, "ShutdownCompleted")' = 0
              /\ RendererAnswered(s)' = 0 /\ Wanted(s)' = 0
  <2>1. RendererAnswered(s)' = 0 /\ Wanted(s)' = 0
    BY <1>1, <1>4, <1>8 DEF RendererAnswered, RendererAnswer, Wanted
  <2>2. CASE s = "audio"
    <3> SUFFICES ASSUME NEW w \in {"FlushCompleted", "ShutdownCompleted"}
                 PROVE  Answered(s, w)' = 0
      BY <2>1
    <3>1. /\ Answer(s, w)'.what = w /\ Answer(s, w)'.stream = s
          /\ Answer(s, w)'.gen = mDecoderGeneration'[s]
      BY DEF Answer, Notify, Notification
    <3>2. Occurrences(playerQueue', Answer(s, w)') = 0
      BY <1>5, <1>10, <2>2, <3>1, NoAnswerAhead
    <3> QED BY <3>2 DEF Answered
  <2>3. CASE s = "video"
    <3>1. \A w : Answer(s, w)' = Answer(s, w)
      BY <1>5, <2>3 DEF Answer, Notify
    <3> QED BY <1>1, <1>8, <2>1, <3>1 DEF Answered
  <2> QED BY <2>2, <2>3 DEF Streams
<1>12. NothingAhead'
  <2>1. Sent \subseteq Sent' /\ Orders' = Orders
    <3>1. \A s \in Streams : mDecoderGeneration[s] <= mDecoderGeneration'[s]
      BY <1>5 DEF Streams, TypeOK, ObjectTypeOK
    <3>2. /\ mRendererGeneration <= mRendererGeneration' /\ mRenderer' = mRenderer
          /\ mScanSourcesGeneration <= mScanSourcesGeneration'
      BY <1>1 DEF TypeOK, ObjectTypeOK, ScanTypeOK, scanVars
    <3> QED BY <3>1, <3>2, SentGrows
  <2>2. playerQueue' \in Seq(Sent')
    BY <1>10, <2>1
  <2>3. \A s \in Streams : decoder'[s].queue \in Seq(Orders')
    BY <1>9, <2>1
  <2>4. \A g \in scanTimer' : g <= mScanSourcesGeneration'
    BY <1>1, <1>2 DEF NothingAhead, scanVars
  <2> QED BY <2>2, <2>3, <2>4 DEF NothingAhead
<1>13. \A s \in Streams : Balanced(s)'
  BY <1>6, <1>9, <1>11, IdleBalanceNext DEF Settled
<1>14. DecodersExist'
  <2>1. Outdated(NoDecoder) = NoDecoder
    BY DEF Outdated, NoDecoder
  <2>2. ASSUME NEW s \in Streams
        PROVE  mDecoder'[s] = "NULL" => decoder'[s] = NoDecoder
    BY <1>3, <1>5, <2>1 DEF DecodersExist, Streams
  <2> QED BY <1>1, <1>3, <1>6, <2>2 DEF DecodersExist
<1>15. FlushEnds' /\ ScansHaveTheirTime'
  BY <1>1, <1>2 DEF HandshakeInv, FlushEnds, ScansHaveTheirTime, NotFlushing, NoScan, OtherMessages,
    flushVars, scanVars
<1> QED BY <1>1, <1>2, <1>12, <1>13, <1>14, <1>15 DEF FlushInv, HandshakeInv

-----------------------------------------------------------------------------
(* What the invariant says of the protocol.                                 *)

LEMMA InitFlush == Init => FlushInv
<1> SUFFICES ASSUME Init PROVE FlushInv
  OBVIOUS
<1>1. <<>> \in Seq(Sent) /\ <<>> \in Seq(Orders) /\ <<>> \in Seq(OtherMessages)
  OBVIOUS
<1>2. NothingAhead
  BY <1>1 DEF Init, NothingAhead, NoDecoder
<1>3. \A x : Occurrences(<<>>, x) = 0
  BY OccurrencesOne, Zenon
<1>4. ASSUME NEW s \in Streams
      PROVE  Balanced(s)
  <2>1. playerQueue = <<>> /\ decoder[s].queue = <<>> /\ mFlushing[s] = "NONE"
    BY DEF Init, NoDecoder, AllNone
  <2>2. renderer.notifyComplete[s] = FALSE
    BY DEF Init, NewRenderer
  <2>3. TypeOK /\ mFlushing[s] \in Settled
    BY <2>1, InitType DEF Settled
  <2>4. /\ Ordered(s, "Flush") = 0 /\ Ordered(s, "Shutdown") = 0
        /\ Answered(s, "FlushCompleted") = 0 /\ Answered(s, "ShutdownCompleted") = 0
        /\ RendererAnswered(s) = 0 /\ Wanted(s) = 0
    BY <1>3, <2>1, <2>2 DEF Ordered, Answered, RendererAnswered, Wanted
  <2> QED BY <1>2, <2>3, <2>4, IdleBalance
<1>5. DecodersExist /\ FlushEnds /\ ScansHaveTheirTime
  BY <1>1 DEF Init, DecodersExist, FlushEnds, NotFlushing, ScansHaveTheirTime, NoScan, AllNone
<1> QED BY <1>2, <1>4, <1>5 DEF FlushInv, HandshakeInv, Init

\* The hazard that the theorems leave out: the tear down of the offloaded audio
\* releases the audio decoder while a flush waits for it.
TornDownInFlush == OnAudioSinkClosed /\ ~NotFlushing

LEMMA NextFlush ==
    ASSUME TypeOK, TypeOK', FlushInv, [Next]_vars, ~TornDownInFlush
    PROVE  FlushInv'
<1>1. CASE ClientStep \/ SourceStep
  BY <1>1, CallKeepsFlush
<1>2. CASE MessageStep
  BY <1>2, RequestKeepsFlush, ScanKeepsFlush, ResumeKeepsFlush, OnScanSourcesKeepsFlush, OnStartKeepsFlush,
    FlushCompleteKeepsFlush, ShutdownCompletedKeepsFlush, ErrorKeepsFlush DEF MessageStep
<1>3. CASE DeferredStep
  BY <1>3, DeferredKeepsFlush, PerformFlushKeepsFlush, ScanKeepsFlush, PerformResetKeepsFlush DEF DeferredStep
<1>4. CASE OnAudioSinkClosed
  BY <1>4, SinkClosedKeepsFlush DEF TornDownInFlush
<1>5. CASE RendererLoop \/ Environment
  BY <1>5, RendererFlushesKeepsFlush, QuietRendererKeepsFlush, QuietDecoderKeepsFlush, ScanKeepsFlush DEF
    RendererLoop, Environment
<1>6. CASE \E s \in Streams : DecoderMessageStep(s) \/ DecoderPulls(s) \/ DecoderOutputs(s)
  BY <1>6, QuietDecoderKeepsFlush, DecoderFlushesKeepsFlush, DecoderShutsDownKeepsFlush DEF DecoderMessageStep
<1>7. CASE UNCHANGED vars
  <2>1. /\ UNCHANGED <<playerQueue, decoder, renderer, looper, mStarted, flushVars, objectVars, scanVars>>
    BY <1>7 DEF vars, playerVars, playerVarsButSurface, pauseVars
  <2>2. NothingAhead /\ (Alive' => Alive) /\ (looper' \in {"tearError", "tearTimeout"} => mRenderer)
    BY <2>1 DEF FlushInv, HandshakeInv, DecodersExist, Alive, AbortStates
  <2>3. QueueQuiet /\ (playerQueue \in Seq(OtherMessages) => playerQueue' \in Seq(OtherMessages))
    BY <2>1, <2>2, QuietQueue
  <2>4. DecodersQuiet
    BY <2>1, QuietDecoders
  <2> QED BY <2>1, <2>2, <2>3, <2>4, UndisturbedScans DEF flushVars, objectVars, scanVars
<1> QED BY <1>1, <1>2, <1>3, <1>4, <1>5, <1>6, <1>7 DEF Next, PlayerStep

\* Only the answers and the errors of the decoders, and the answers of the
\* renderer, can find the protocol broken.
LEMMA ProtocolFrame ==
    ASSUME FlushProtocolHolds, [Next]_vars
    PROVE  \/ FlushProtocolHolds'
           \/ OnFlushCompleted \/ OnRendererFlushComplete \/ OnShutdownCompleted
           \/ OnErrorWhenFlushed \/ OnErrorWhileFlushing
<1> USE DEF FlushProtocolHolds, Check
<1>1. CASE ClientStep
  BY <1>1 DEF ClientStep, ClientSetDataSource, ClientPrepare, ClientStart, ClientPause, ClientSeek,
    ClientSetSurface, ClientReset, Call, playerVarsButSurface
<1>2. CASE SourceStep
  BY <1>2 DEF SourceStep, SourcePrepared, SourcePrepareError, SourceInstantiateSecureDecoders,
    SourcePauseOnBuffering, SourceResumeOnBuffering, SourceQueueDecoderShutdown, OldSourcePrepared,
    SourcePosts
<1>3. CASE \/ OnSetDataSource \/ OnPrepare \/ OnStart \/ OnSeek \/ OnReset
           \/ OnSetVideoNativeWindowAtOnce \/ OnSetVideoNativeWindow \/ OnPrepared
           \/ OnInstantiateSecureDecoders \/ OnQueueDecoderShutdown \/ OnInputDiscontinuity
           \/ OnErrorWhenNotFlushing \/ OnAudioOffloadTearDown
  BY <1>3 DEF OnSetDataSource, OnPrepare, OnStart, OnSeek, OnReset, OnSetVideoNativeWindowAtOnce,
    OnSetVideoNativeWindow, OnPrepared, OnInstantiateSecureDecoders, OnQueueDecoderShutdown,
    OnInputDiscontinuity, OnErrorWhenNotFlushing, OnAudioOffloadTearDown, Defer
<1>4. CASE \/ OnStartResumes \/ OnResumeOnBufferingEnd
  <2>1. looper' = looper \/ Resume
    BY <1>4 DEF OnStartResumes, OnResumeOnBufferingEnd
  <2> QED BY <2>1 DEF Resume
<1>5. CASE OnScanSources
  <2>1. looper' = Check(mSource # "NULL", "abortNullSource", "idle")
    BY <1>5, Zenon DEF OnScanSources
  <2> QED BY <2>1
<1>6. CASE \/ OnPause \/ OnPauseOnBufferingStart \/ OnScanSourcesStale \/ OnScanSourcesWaits
           \/ OnSourceNotifyGone \/ OnNotifyStale \/ OnResumeCompleted \/ OnErrorIgnored
  BY <1>6 DEF OnPause, OnPauseOnBufferingStart, OnScanSourcesStale, OnScanSourcesWaits, OnSourceNotifyGone,
    OnNotifyStale, OnResumeCompleted, OnErrorIgnored, playerVars, playerVarsButSurface
<1>7. CASE DeferredStep \/ OnAudioSinkClosed
  BY <1>7 DEF DeferredStep, DeferredDone, PerformDecoderFlush, PerformSeek, PerformSetSurface,
    PerformResumeDecoders, PerformScanSources, PerformPostMessage, PerformReset, OnAudioSinkClosed
<1>8. CASE RendererLoop \/ Environment
           \/ \E s \in Streams : DecoderMessageStep(s) \/ DecoderPulls(s) \/ DecoderOutputs(s)
  BY <1>8 DEF RendererLoop, RendererFlushes, RendererPauses, RendererResumes, RendererClosesSink,
    RendererDisablesOffload, RendererTearsDown, TearDown, RendererStep, Environment, ScanTimer,
    RendererPauseTimeout, HALTearsDown, DecoderFails, PassThroughDiscontinuity, DecoderMessageStep,
    DecoderConfigures, PassThroughConfigures, DecoderFlushes, DecoderResumes, DecoderShutsDown, DecoderPulls,
    DecoderOutputs, DecoderStep, playerVars, playerVarsButSurface
<1>9. CASE UNCHANGED vars
  BY <1>9 DEF vars, playerVars, playerVarsButSurface
<1> QED BY <1>1, <1>2, <1>3, <1>4, <1>5, <1>6, <1>7, <1>8, <1>9 DEF Next, PlayerStep, MessageStep

LEMMA NextProtocol ==
    ASSUME TypeOK, TypeOK', FlushInv, FlushProtocolHolds, [Next]_vars, ~TornDownInFlush
    PROVE  FlushInv' /\ FlushProtocolHolds'
<1>1. FlushInv'
  BY NextFlush
<1>2. CASE \/ OnFlushCompleted \/ OnRendererFlushComplete \/ OnShutdownCompleted
           \/ OnErrorWhenFlushed \/ OnErrorWhileFlushing
  <2>1. looper' \in {"idle", "deferred"}
    BY <1>2, FlushCompleteKeepsFlush, ShutdownCompletedKeepsFlush, ErrorKeepsFlush
  <2> QED BY <1>1, <2>1 DEF FlushProtocolHolds
<1> QED BY <1>1, <1>2, ProtocolFrame

LEMMA Counted ==
    ASSUME TypeOK, NothingAhead, NEW s \in Streams
    PROVE  /\ ToDecoder(s, "Flush") <=> Ordered(s, "Flush") # 0
           /\ ToDecoder(s, "Shutdown") <=> Ordered(s, "Shutdown") # 0
           /\ FromDecoder(s, "FlushCompleted") <=> Answered(s, "FlushCompleted") # 0
           /\ FromDecoder(s, "ShutdownCompleted") <=> Answered(s, "ShutdownCompleted") # 0
           /\ FromRenderer(s, "RendererFlushComplete") <=> RendererAnswered(s) # 0
           /\ renderer.notifyComplete[s] <=> Wanted(s) # 0
<1>1. playerQueue \in Seq(Sent) /\ decoder[s].queue \in Seq(Orders)
  BY DEF NothingAhead
<1>2. ASSUME NEW v \in {"Flush", "Shutdown"}
      PROVE  ToDecoder(s, v) <=> Ordered(s, v) # 0
  <2>1. \A i \in DOMAIN decoder[s].queue : decoder[s].queue[i] \in Orders
    BY <1>1
  <2>2. \A m \in Orders : m.what = v <=> m = Order(v)
    BY DEF Orders, DecoderMessage, Order
  <2>3. Ordered(s, v) = 0 <=> \A i \in DOMAIN decoder[s].queue : decoder[s].queue[i] # Order(v)
    BY <1>1, OccurrencesType DEF Ordered
  <2> QED BY <2>1, <2>2, <2>3 DEF ToDecoder
<1>3. \A i \in DOMAIN playerQueue : playerQueue[i] \in Sent
  BY <1>1
<1>4. ASSUME NEW w \in {"FlushCompleted", "ShutdownCompleted"}
      PROVE  FromDecoder(s, w) <=> Answered(s, w) # 0
  <2>1. \A m \in Sent : m.what = w /\ m.stream = s /\ m.gen = mDecoderGeneration[s]
                          <=> m = Answer(s, w)
    <3>1. Answer(s, w).what = w /\ Answer(s, w).stream = s
          /\ Answer(s, w).gen = mDecoderGeneration[s]
      BY DEF Answer, Notify, Notification
    <3> QED BY <3>1, IsAnswer
  <2>2. Answered(s, w) = 0 <=> \A i \in DOMAIN playerQueue : playerQueue[i] # Answer(s, w)
    BY <1>1, OccurrencesType DEF Answered
  <2> QED BY <1>3, <2>1, <2>2 DEF FromDecoder
<1>5. FromRenderer(s, "RendererFlushComplete") <=> RendererAnswered(s) # 0
  <2>1. \A m \in Sent : /\ m.what = "RendererFlushComplete" /\ m.stream = s
                        /\ m.gen = mRendererGeneration
                        <=> m = RendererAnswer(s)
    BY AnswerFacts, IsAnswer
  <2>2. RendererAnswered(s) = 0 <=> \A i \in DOMAIN playerQueue : playerQueue[i] # RendererAnswer(s)
    BY <1>1, OccurrencesType DEF RendererAnswered
  <2> QED BY <1>3, <2>1, <2>2 DEF FromRenderer
<1>6. renderer.notifyComplete[s] <=> Wanted(s) # 0
  BY DEF Wanted
<1> QED BY <1>2, <1>4, <1>5, <1>6

LEMMA FlushInvAnswers ==
    ASSUME TypeOK, FlushInv
    PROVE  FlushIsAnswered
<1> SUFFICES ASSUME Alive, NEW s \in Streams
             PROVE
      /\ mFlushing[s] \in {"FLUSHING_DECODER", "FLUSHING_DECODER_SHUTDOWN"} =>
           /\ ~mFlushComplete[s]["decoder"] =>
                ToDecoder(s, "Flush") \/ FromDecoder(s, "FlushCompleted")
           /\ ~mFlushComplete[s]["renderer"] =>
                \/ ToDecoder(s, "Flush") \/ renderer.notifyComplete[s]
                \/ FromRenderer(s, "RendererFlushComplete")
           /\ ~(mFlushComplete[s]["decoder"] /\ mFlushComplete[s]["renderer"])
      /\ mFlushing[s] = "SHUTTING_DOWN_DECODER" =>
           ToDecoder(s, "Shutdown") \/ FromDecoder(s, "ShutdownCompleted")
      /\ mFlushing[s] \in Settled =>
           /\ ~ToDecoder(s, "Flush") /\ ~FromDecoder(s, "FlushCompleted")
           /\ ~renderer.notifyComplete[s] /\ ~FromRenderer(s, "RendererFlushComplete")
           /\ ~ToDecoder(s, "Shutdown") /\ ~FromDecoder(s, "ShutdownCompleted")
  BY DEF FlushIsAnswered
<1> DEFINE f == Ordered(s, "Flush")
           c == Answered(s, "FlushCompleted")
           n == Wanted(s)
           r == RendererAnswered(s)
           d == Ordered(s, "Shutdown")
           x == Answered(s, "ShutdownCompleted")
<1>1. NothingAhead /\ Balanced(s)
  BY DEF FlushInv, HandshakeInv
<1>2. Balance(mFlushing[s], mFlushComplete[s], f, c, n, r, d, x)
  BY <1>1 DEF Balanced
<1>3. f \in Nat /\ c \in Nat /\ n \in Nat /\ r \in Nat /\ d \in Nat /\ x \in Nat
  BY <1>1, CountTypes
<1>4. /\ ToDecoder(s, "Flush") <=> f # 0
      /\ ToDecoder(s, "Shutdown") <=> d # 0
      /\ FromDecoder(s, "FlushCompleted") <=> c # 0
      /\ FromDecoder(s, "ShutdownCompleted") <=> x # 0
      /\ FromRenderer(s, "RendererFlushComplete") <=> r # 0
      /\ renderer.notifyComplete[s] <=> n # 0
  BY <1>1, Counted
<1>8. mFlushComplete[s]["decoder"] \in BOOLEAN /\ mFlushComplete[s]["renderer"] \in BOOLEAN
  BY DEF TypeOK, FlushTypeOK, Parties
<1> HIDE DEF f, c, n, r, d, x
<1>5. mFlushing[s] \in Flushing =>
        /\ ~mFlushComplete[s]["decoder"] => f # 0 \/ c # 0
        /\ ~mFlushComplete[s]["renderer"] => f # 0 \/ n # 0 \/ r # 0
        /\ ~(mFlushComplete[s]["decoder"] /\ mFlushComplete[s]["renderer"])
  <2> SUFFICES ASSUME mFlushing[s] \in Flushing
               PROVE  /\ ~mFlushComplete[s]["decoder"] => f # 0 \/ c # 0
                      /\ ~mFlushComplete[s]["renderer"] => f # 0 \/ n # 0 \/ r # 0
                      /\ ~(mFlushComplete[s]["decoder"] /\ mFlushComplete[s]["renderer"])
    BY Zenon
  <2>1. /\ f + c = IF mFlushComplete[s]["decoder"] THEN 0 ELSE 1
        /\ f + n + r = IF mFlushComplete[s]["renderer"] THEN 0 ELSE 1
        /\ ~(mFlushComplete[s]["decoder"] /\ mFlushComplete[s]["renderer"])
    BY <1>2, Zenon DEF Balance
  <2>2. ASSUME mFlushComplete[s]["decoder"] = FALSE PROVE f # 0 \/ c # 0
    BY <1>3, <2>1, <2>2
  <2>3. ASSUME mFlushComplete[s]["renderer"] = FALSE PROVE f # 0 \/ n # 0 \/ r # 0
    BY <1>3, <2>1, <2>3
  <2> QED BY <1>8, <2>1, <2>2, <2>3, Zenon
<1>6. mFlushing[s] = "SHUTTING_DOWN_DECODER" => d # 0 \/ x # 0
  BY <1>2, <1>3 DEF Balance, Flushing
<1>7. mFlushing[s] \in Settled => f = 0 /\ c = 0 /\ n = 0 /\ r = 0 /\ d = 0 /\ x = 0
  BY <1>2, <1>3 DEF Balance, Flushing, Settled
<1> QED BY <1>4, <1>5, <1>6, <1>7 DEF Flushing

\* A decoder completes a flush or a shutdown only in the state that waits for
\* it, and the decoder that is to shut down exists: no CHECK of
\* handleFlushComplete() or of kWhatShutdownCompleted fails, for every client,
\* every source, every error and every number of them, as long as no tear down
\* of the offloaded audio meets a flush.
THEOREM FlushProtocol == Spec /\ [][~TornDownInFlush]_vars => []FlushProtocolHolds
<1>1. Init => FlushInv /\ FlushProtocolHolds
  BY InitFlush DEF Init, FlushProtocolHolds
<1>2. /\ TypeOK /\ TypeOK' /\ FlushInv /\ FlushProtocolHolds
      /\ [Next]_vars /\ [~TornDownInFlush]_vars
      => FlushInv' /\ FlushProtocolHolds'
  <2>1. UNCHANGED vars => ~TornDownInFlush
    BY DEF TornDownInFlush, OnAudioSinkClosed, vars, playerVars, playerVarsButSurface
  <2> QED BY <2>1, NextProtocol
<1> QED BY <1>1, <1>2, TypeCorrect, PTL DEF Spec

\* A stream that is flushing or shutting down is still owed the answer it waits
\* for, and no answer is on its way to a stream that waits for none: it would
\* be taken for the answer of the next flush.  Under the same condition.
THEOREM FlushAnswered == Spec /\ [][~TornDownInFlush]_vars => []FlushIsAnswered
<1>1. Init => FlushInv
  BY InitFlush
<1>2. TypeOK /\ TypeOK' /\ FlushInv /\ [Next]_vars /\ [~TornDownInFlush]_vars => FlushInv'
  <2>1. UNCHANGED vars => ~TornDownInFlush
    BY DEF TornDownInFlush, OnAudioSinkClosed, vars, playerVars, playerVarsButSurface
  <2> QED BY <2>1, NextFlush
<1>3. TypeOK /\ FlushInv => FlushIsAnswered
  BY FlushInvAnswers
<1> QED BY <1>1, <1>2, <1>3, TypeCorrect, PTL DEF Spec

-----------------------------------------------------------------------------
(* Without offload there is no tear down.                                   *)

\* Nothing asks for a tear down: not the renderer, nor its queue, nor the
\* player's, nor the player's looper.
Untorn == {m \in PlayerMessage : m.what # "AudioOffloadTearDown"}
CalmMessage == {m \in RendererMessage : m.what # "AudioOffloadTearDown"}
Calm(r) == r.offload = FALSE /\ r.timeout = FALSE /\ r.queue \in Seq(CalmMessage)
NoTearDown ==
    Calm(renderer) /\ playerQueue \in Seq(Untorn) /\ looper \notin {"tearError", "tearTimeout"}

LEMMA CalmRenderer ==
    ASSUME NEW r \in RendererState, Calm(r)
    PROVE  /\ \A w \in {"Flush", "Pause", "Resume", "CloseAudioSink", "DisableOffloadAudio"} :
                Calm(ToRenderer(r, w))
           /\ \A S : Calm(WithMedia(r, S))
           /\ \A opened : OpenOffloadSink(r, opened) = r
           /\ \A s \in Streams, b \in BOOLEAN : Calm(RendererFlush(r, s, b))
<1>1. r.queue \in Seq(CalmMessage) /\ r.offload = FALSE /\ r.timeout = FALSE
  BY DEF Calm
<1>2. ASSUME NEW w \in {"Flush", "Pause", "Resume", "CloseAudioSink", "DisableOffloadAudio"},
             NEW s \in Streams
      PROVE  Append(r.queue, RendererMsg(w, s)) \in Seq(CalmMessage)
  <2>1. RendererMsg(w, s) \in CalmMessage
    BY DEF RendererMsg, CalmMessage, RendererMessage
  <2> QED BY <1>1, <2>1
<1>3. ASSUME NEW w \in {"Flush", "Pause", "Resume", "CloseAudioSink", "DisableOffloadAudio"}
      PROVE  Calm(ToRenderer(r, w))
  <2>1. "audio" \in Streams
    BY DEF Streams
  <2> QED BY <1>1, <1>2, <2>1 DEF ToRenderer, Calm, RendererState
<1>4. \A S : Calm(WithMedia(r, S))
  BY <1>1 DEF WithMedia, Calm, RendererState
<1>5. \A opened : OpenOffloadSink(r, opened) = r
  BY <1>1 DEF OpenOffloadSink
<1>6. ASSUME NEW s \in Streams, NEW b \in BOOLEAN
      PROVE  Calm(RendererFlush(r, s, b))
  <2>1. (IF r.flushing[s] THEN r.queue ELSE Append(r.queue, RendererMsg("Flush", s)))
          \in Seq(CalmMessage)
    BY <1>1, <1>2
  <2> QED BY <1>1, <2>1 DEF RendererFlush, Calm, RendererState
<1> QED BY <1>3, <1>4, <1>5, <1>6

LEMMA CalmNewRenderer == Calm(NewRenderer(FALSE))
<1>1. <<>> \in Seq(CalmMessage)
  OBVIOUS
<1> QED BY <1>1 DEF Calm, NewRenderer

\* A handler that takes another message leaves the renderer as it is.
LEMMA TakesCalmly ==
    ASSUME NoTearDown, playerQueue # <<>>, playerQueue' = Tail(playerQueue), Calm(renderer'),
           looper' \notin {"tearError", "tearTimeout"}
    PROVE  NoTearDown'
  BY DEF NoTearDown

LEMMA PostsCalmly ==
    ASSUME NoTearDown, \E m \in Untorn : playerQueue' = Append(playerQueue, m), Calm(renderer'),
           looper' \notin {"tearError", "tearTimeout"}
    PROVE  NoTearDown'
  BY DEF NoTearDown

LEMMA AnswersCalmly ==
    ASSUME NoTearDown, \E r \in Seq(Untorn) : playerQueue' = playerQueue \o r, Calm(renderer'),
           looper' \notin {"tearError", "tearTimeout"}
    PROVE  NoTearDown'
  BY DEF NoTearDown

LEMMA ScansCalmly ==
    ASSUME TypeOK, NEW queue \in Seq(Untorn), PostScanSources(queue)
    PROVE  playerQueue' \in Seq(Untorn)
<1> DEFINE scan == [Message("ScanSources", FALSE) EXCEPT !.gen = mScanSourcesGeneration]
<1>1. scan \in PlayerMessage
  BY ScanMessageType DEF TypeOK, ScanTypeOK
<1>2. scan.what = "ScanSources"
  BY DEF Message
<1>3. playerQueue' = queue \/ playerQueue' = Append(queue, scan)
  BY DEF PostScanSources
<1> HIDE DEF scan
<1>4. scan \in Untorn
  BY <1>1, <1>2 DEF Untorn
<1> QED BY <1>3, <1>4

LEMMA PlayerIsCalm ==
    ASSUME ~CanOffload, TypeOK, NoTearDown, PlayerStep
    PROVE  NoTearDown'
<1> DEFINE Tear == {"tearError", "tearTimeout"}
<1>1. /\ renderer \in RendererState /\ Calm(renderer) /\ looper \notin Tear
      /\ playerQueue \in Seq(Untorn)
  BY DEF NoTearDown, TypeOK, RendererTypeOK
<1>2. CASE \/ OnSetDataSource \/ OnPrepare \/ OnSeek \/ OnReset \/ OnSetVideoNativeWindowAtOnce
           \/ OnSetVideoNativeWindow \/ OnScanSourcesStale \/ OnScanSourcesWaits
           \/ OnSourceNotifyGone \/ OnPrepared \/ OnInstantiateSecureDecoders
           \/ OnQueueDecoderShutdown \/ OnNotifyStale \/ OnInputDiscontinuity
  <2>1. playerQueue # <<>> /\ playerQueue' = Tail(playerQueue) /\ UNCHANGED renderer
    BY <1>2 DEF OnSetDataSource, OnPrepare, OnSeek, OnReset, OnSetVideoNativeWindowAtOnce,
      OnSetVideoNativeWindow, OnScanSourcesStale, OnScanSourcesWaits, OnSourceNotifyGone, OnPrepared,
      OnInstantiateSecureDecoders, OnQueueDecoderShutdown, OnNotifyStale, OnInputDiscontinuity, Receive,
      ReceiveFromDecoder
  <2>2. looper' \notin Tear
    BY <1>1, <1>2 DEF OnSetDataSource, OnPrepare, OnSeek, OnReset, OnSetVideoNativeWindowAtOnce,
      OnSetVideoNativeWindow, OnScanSourcesStale, OnScanSourcesWaits, OnSourceNotifyGone, OnPrepared,
      OnInstantiateSecureDecoders, OnQueueDecoderShutdown, OnNotifyStale, OnInputDiscontinuity, Defer, Check,
      playerVars, playerVarsButSurface
  <2> QED BY <1>1, <2>1, <2>2, TakesCalmly
<1>3. CASE \/ OnFlushCompleted \/ OnRendererFlushComplete \/ OnShutdownCompleted
           \/ OnResumeCompleted \/ OnErrorIgnored \/ OnErrorWhenNotFlushing
           \/ OnErrorWhileFlushing \/ OnErrorWhenFlushed
  <2>1. playerQueue # <<>> /\ playerQueue' = Tail(playerQueue) /\ UNCHANGED renderer
    BY <1>3 DEF OnFlushCompleted, OnRendererFlushComplete, OnShutdownCompleted, OnResumeCompleted,
      OnErrorIgnored, OnErrorWhenNotFlushing, OnErrorWhileFlushing, OnErrorWhenFlushed, ReceiveError, Receive,
      ReceiveFromDecoder
  <2>2. looper' \notin Tear
    BY <1>1, <1>3 DEF OnFlushCompleted, OnRendererFlushComplete, OnShutdownCompleted, OnResumeCompleted,
      OnErrorIgnored, OnErrorWhenNotFlushing, OnErrorWhileFlushing, OnErrorWhenFlushed, HandleFlushComplete,
      FinishFlushIfPossible, Defer, Check, playerVars, playerVarsButSurface
  <2> QED BY <1>1, <2>1, <2>2, TakesCalmly
<1>4. CASE OnStart
  <2>1. Tail(playerQueue) \in Seq(Untorn) /\ PostScanSources(Tail(playerQueue))
    BY <1>1, <1>4 DEF OnStart
  <2>2. renderer' = NewRenderer(FALSE) /\ looper' \notin Tear
    <3>1. CanOffload = FALSE
      BY CanOffloadAssumption
    <3> QED BY <1>4, <3>1 DEF OnStart, Check
  <2> QED BY <2>1, <2>2, ScansCalmly, CalmNewRenderer DEF NoTearDown
<1>5. CASE OnStartResumes \/ OnPause \/ OnPauseOnBufferingStart \/ OnResumeOnBufferingEnd
  <2>1. \A S : WithMedia(renderer, S) \in RendererState /\ Calm(WithMedia(renderer, S))
    BY <1>1, CalmRenderer, WithMediaType
  <2>2. Calm(ToRenderer(renderer, "Pause"))
    BY <1>1, CalmRenderer
  <2>3. \A S : Calm(ToRenderer(WithMedia(renderer, S), "Resume"))
    BY <2>1, CalmRenderer
  <2>4. Resume => Calm(renderer') /\ looper' \notin Tear
    BY <1>1, <2>3 DEF Resume, Check
  <2>5. Calm(renderer') /\ looper' \notin Tear
    BY <1>1, <1>5, <2>2, <2>4 DEF OnStartResumes, OnPause, OnPauseOnBufferingStart, OnResumeOnBufferingEnd,
      Pause
  <2>6. playerQueue # <<>> /\ playerQueue' = Tail(playerQueue)
    BY <1>5 DEF OnStartResumes, OnPause, OnPauseOnBufferingStart, OnResumeOnBufferingEnd, Receive
  <2> QED BY <2>5, <2>6, TakesCalmly
<1>6. CASE OnScanSources
  <2>1. playerQueue # <<>> /\ playerQueue' = Tail(playerQueue)
    BY <1>6 DEF OnScanSources, Receive
  <2>2. \E S : renderer' = WithMedia(renderer, S)
    BY <1>6 DEF OnScanSources
  <2>3. looper' \notin Tear
    BY <1>6 DEF OnScanSources, Check
  <2> QED BY <1>1, <2>1, <2>2, <2>3, CalmRenderer, TakesCalmly
<1>7. CASE OnAudioOffloadTearDown \/ OnAudioSinkClosed
  <2>1. CASE OnAudioOffloadTearDown
    <3>1. playerQueue # <<>> /\ Head(playerQueue).what = "AudioOffloadTearDown"
      BY <2>1 DEF OnAudioOffloadTearDown, Receive, Received
    <3>2. Head(playerQueue) \in Untorn
      BY <1>1, <3>1
    <3> QED BY <3>1, <3>2 DEF Untorn
  <2> QED BY <1>1, <1>7, <2>1 DEF OnAudioSinkClosed
<1>8. CASE \/ DeferredDone \/ PerformSeek \/ PerformSetSurface \/ PerformResumeDecoders
           \/ PerformPostMessage \/ PerformDecoderFlush
  <2>1. UNCHANGED <<playerQueue, renderer>>
    BY <1>8 DEF DeferredDone, PerformSeek, PerformSetSurface, PerformResumeDecoders, PerformPostMessage,
      PerformDecoderFlush
  <2>2. looper' \notin Tear
    BY <1>1, <1>8 DEF DeferredDone, PerformSeek, PerformSetSurface, PerformResumeDecoders, PerformPostMessage,
      PerformDecoderFlush, Check
  <2> QED BY <1>1, <2>1, <2>2 DEF NoTearDown
<1>9. CASE PerformScanSources \/ PerformReset
  <2>1. CASE PerformScanSources
    BY <1>1, <2>1, ScansCalmly DEF PerformScanSources, NoTearDown
  <2>2. CASE PerformReset
    BY <1>1, <2>2, CalmNewRenderer DEF PerformReset, Check, NoTearDown
  <2> QED BY <1>9, <2>1, <2>2
<1> QED BY <1>2, <1>3, <1>4, <1>5, <1>6, <1>7, <1>8, <1>9 DEF PlayerStep, MessageStep, DeferredStep

LEMMA DecoderIsCalm ==
    ASSUME TypeOK, NoTearDown, NEW s \in Streams,
           DecoderMessageStep(s) \/ DecoderPulls(s) \/ DecoderOutputs(s)
             \/ DecoderFails(s) \/ PassThroughDiscontinuity(s)
    PROVE  NoTearDown'
<1>1. renderer \in RendererState /\ Calm(renderer) /\ looper \notin {"tearError", "tearTimeout"}
  BY DEF NoTearDown, TypeOK, RendererTypeOK
<1>2. Calm(renderer')
  <2>1. /\ \A b \in BOOLEAN : Calm(RendererFlush(renderer, s, b))
        /\ \A opened : OpenOffloadSink(renderer, opened) = renderer
    BY <1>1, CalmRenderer
  <2>2. CASE DecoderFlushes(s)
    BY <2>1, <2>2 DEF DecoderFlushes
  <2>3. CASE PassThroughConfigures(s)
    BY <1>1, <2>1, <2>3 DEF PassThroughConfigures
  <2>4. CASE PassThroughDiscontinuity(s)
    BY <1>1, <2>1, <2>4 DEF PassThroughDiscontinuity
  <2>5. CASE \/ DecoderConfigures(s) \/ DecoderResumes(s) \/ DecoderShutsDown(s)
             \/ DecoderPulls(s) \/ DecoderOutputs(s) \/ DecoderFails(s)
    BY <1>1, <2>5 DEF DecoderConfigures, DecoderResumes, DecoderShutsDown, DecoderPulls, DecoderOutputs,
      DecoderFails
  <2> QED BY <2>2, <2>3, <2>4, <2>5 DEF DecoderMessageStep
<1>3. UNCHANGED looper
  BY DEF DecoderMessageStep, DecoderConfigures, PassThroughConfigures, DecoderFlushes, DecoderResumes,
    DecoderShutsDown, DecoderPulls, DecoderOutputs, DecoderFails, PassThroughDiscontinuity, DecoderStep,
    playerVars, playerVarsButSurface
<1>4. \A r \in Seq(DecoderNotification) : r \in Seq(Untorn)
  <2>1. DecoderNotification \subseteq Untorn
    BY DEF DecoderNotification, DecoderNotify, Untorn
  <2> QED BY <2>1
<1> QED BY <1>1, <1>2, <1>3, <1>4, DecoderPosts, AnswersCalmly

LEMMA RendererIsCalm ==
    ASSUME TypeOK, NoTearDown, RendererLoop \/ RendererPauseTimeout \/ HALTearsDown
    PROVE  NoTearDown'
<1>1. /\ renderer \in RendererState /\ renderer.queue \in Seq(CalmMessage)
      /\ renderer.offload = FALSE /\ renderer.timeout = FALSE
      /\ looper \notin {"tearError", "tearTimeout"}
  BY DEF NoTearDown, TypeOK, RendererTypeOK, Calm
<1>2. CASE RendererPauseTimeout \/ HALTearsDown
  BY <1>1, <1>2 DEF RendererPauseTimeout, HALTearsDown
<1>3. CASE RendererTearsDown
  <2>1. renderer.queue # <<>> /\ Head(renderer.queue).what = "AudioOffloadTearDown"
    BY <1>3 DEF RendererTearsDown, RendererReceives
  <2>2. Head(renderer.queue) \in CalmMessage
    BY <1>1, <2>1
  <2> QED BY <2>1, <2>2 DEF CalmMessage
<1>4. ASSUME NEW r, NEW n \in Seq(Untorn), RendererStep(r, n), Calm(r)
      PROVE  NoTearDown'
  <2>1. playerQueue' = playerQueue \o n /\ renderer' = r /\ looper' = looper
    BY <1>4 DEF RendererStep, playerVars, playerVarsButSurface
  <2> QED BY <1>1, <1>4, <2>1, AnswersCalmly
<1>5. ASSUME renderer.queue # <<>>
      PROVE  RendererHandled \in RendererState /\ Calm(RendererHandled)
  <2>1. Tail(renderer.queue) \in Seq(CalmMessage)
    BY <1>1, <1>5
  <2> QED BY <1>1, <1>5, <2>1, RendererHandledType DEF RendererHandled, Calm, RendererState
<1>6. <<>> \in Seq(Untorn)
  OBVIOUS
<1> DEFINE h == RendererHandled
<1>7. CASE RendererFlushes
  <2>1. PICK s \in Streams : s = Head(renderer.queue).stream
    BY <1>7, RendererHandledType DEF RendererFlushes, RendererReceives
  <2> DEFINE n == IF renderer.notifyComplete[s]
                  THEN RendererNotifies("RendererFlushComplete", s, FALSE) ELSE <<>>
             r == [h EXCEPT !.flushing[s] = FALSE, !.notifyComplete[s] = FALSE]
  <2>2. RendererStep(r, n) /\ renderer.queue # <<>>
    BY <1>7, <2>1 DEF RendererFlushes, RendererReceives
  <2>3. Calm(r)
    <3>1. h \in RendererState /\ Calm(h)
      BY <1>5, <2>2
    <3> HIDE DEF h
    <3> QED BY <3>1 DEF Calm, RendererState
  <2>4. n \in Seq(Untorn)
    <3>1. mRendererGeneration \in Nat
      BY DEF TypeOK, ObjectTypeOK
    <3>2. Notification("RendererFlushComplete", s, mRendererGeneration, FALSE) \in PlayerMessage
      BY <3>1, NotificationType DEF PlayerWhat
    <3>3. Notification("RendererFlushComplete", s, mRendererGeneration, FALSE) \in Untorn
      BY <3>2 DEF Untorn, Notification
    <3>4. \A m \in Untorn : <<m>> \in Seq(Untorn)
      OBVIOUS
    <3>5. RendererNotifies("RendererFlushComplete", s, FALSE) \in Seq(Untorn)
      BY <3>3, <3>4, Zenon DEF RendererNotifies
    <3> QED BY <1>6, <3>5, Zenon
  <2> HIDE DEF n, r
  <2> QED BY <1>4, <2>2, <2>3, <2>4
<1>8. CASE RendererPauses \/ RendererResumes \/ RendererClosesSink \/ RendererDisablesOffload
  <2>1. h \in RendererState /\ Calm(h)
    BY <1>5, <1>8 DEF RendererPauses, RendererResumes, RendererClosesSink, RendererDisablesOffload,
      RendererReceives
  <2> HIDE DEF h
  <2>2. /\ \A p, t : t = FALSE => Calm([h EXCEPT !.paused = p, !.timeout = t])
        /\ Calm([h EXCEPT !.sink = FALSE]) /\ Calm([h EXCEPT !.offload = FALSE])
    BY <2>1 DEF Calm, RendererState
  <2>3. CASE RendererPauses
    <3> DEFINE t == h.timeout \/ (~renderer.paused /\ HoldsSink)
    <3>1. RendererStep([h EXCEPT !.paused = TRUE, !.timeout = t], <<>>)
      BY <2>3 DEF RendererPauses, h
    <3>2. t = FALSE
      BY <1>1, <2>1 DEF HoldsSink, Calm
    <3> HIDE DEF t
    <3> QED BY <1>4, <1>6, <2>2, <3>1, <3>2
  <2>4. CASE RendererResumes
    <3> DEFINE t == h.timeout /\ ~(renderer.paused /\ HoldsSink)
    <3>1. RendererStep([h EXCEPT !.paused = FALSE, !.timeout = t], <<>>)
      BY <2>4 DEF RendererResumes, h
    <3>2. t = FALSE
      BY <2>1 DEF Calm
    <3> HIDE DEF t
    <3> QED BY <1>4, <1>6, <2>2, <3>1, <3>2
  <2>5. CASE RendererClosesSink
    BY <1>4, <1>6, <2>2, <2>5 DEF RendererClosesSink, h
  <2>6. CASE RendererDisablesOffload
    BY <1>4, <1>6, <2>2, <2>6 DEF RendererDisablesOffload, h
  <2> QED BY <1>8, <2>3, <2>4, <2>5, <2>6
<1> QED BY <1>2, <1>3, <1>7, <1>8 DEF RendererLoop

LEMMA NextIsCalm ==
    ASSUME ~CanOffload, TypeOK, NoTearDown, [Next]_vars
    PROVE  NoTearDown' /\ ~TornDownInFlush
<1>1. ~TornDownInFlush
  BY DEF NoTearDown, OnAudioSinkClosed, TornDownInFlush
<1> SUFFICES NoTearDown'
  BY <1>1
<1>2. looper \notin {"tearError", "tearTimeout"} /\ Calm(renderer)
  BY DEF NoTearDown
<1>3. CASE ClientStep \/ SourceStep
  <2>1. Calls \subseteq Untorn
    BY SentType DEF Calls, Untorn, RendererNotify
  <2> QED BY <1>2, <1>3, <2>1, CallPosts, PostsCalmly
<1>4. CASE PlayerStep
  BY <1>4, PlayerIsCalm
<1>5. CASE ScanTimer
  <2>1. PICK g \in scanTimer :
           playerQueue' = Append(playerQueue, [Message("ScanSources", FALSE) EXCEPT !.gen = g])
    BY <1>5, Zenon DEF ScanTimer
  <2> DEFINE scan == [Message("ScanSources", FALSE) EXCEPT !.gen = g]
  <2>2. scan \in PlayerMessage
    BY ScanMessageType DEF TypeOK, ScanTypeOK
  <2>3. scan.what = "ScanSources"
    BY DEF Message
  <2>4. playerQueue' = Append(playerQueue, scan)
    BY <2>1
  <2>5. UNCHANGED <<looper, renderer>>
    BY <1>5 DEF ScanTimer
  <2> HIDE DEF scan
  <2>6. scan \in Untorn
    BY <2>2, <2>3 DEF Untorn
  <2> QED BY <1>2, <2>4, <2>5, <2>6, PostsCalmly
<1>6. CASE RendererLoop \/ RendererPauseTimeout \/ HALTearsDown
  BY <1>6, RendererIsCalm
<1>7. CASE \E s \in Streams : \/ DecoderMessageStep(s) \/ DecoderPulls(s) \/ DecoderOutputs(s)
                              \/ DecoderFails(s) \/ PassThroughDiscontinuity(s)
  BY <1>7, DecoderIsCalm
<1>8. CASE UNCHANGED vars
  BY <1>8 DEF vars, playerVars, playerVarsButSurface, NoTearDown
<1> QED BY <1>3, <1>4, <1>5, <1>6, <1>7, <1>8 DEF Next, Environment

\* Of a device that offloads no audio both hold of every execution.
THEOREM FlushWithoutOffload ==
    ~CanOffload => (Spec => [](FlushProtocolHolds /\ FlushIsAnswered))
<1> SUFFICES ASSUME ~CanOffload PROVE Spec => [](FlushProtocolHolds /\ FlushIsAnswered)
  OBVIOUS
<1>1. Init => FlushInv /\ FlushProtocolHolds /\ NoTearDown
  <2>1. Init => NoTearDown
    <3>1. <<>> \in Seq(Untorn)
      OBVIOUS
    <3> QED BY <3>1, CalmNewRenderer DEF Init, NoTearDown
  <2> QED BY <2>1, InitFlush DEF Init, FlushProtocolHolds
<1>2. /\ TypeOK /\ TypeOK' /\ FlushInv /\ FlushProtocolHolds /\ NoTearDown /\ [Next]_vars
      => FlushInv' /\ FlushProtocolHolds' /\ NoTearDown'
  BY NextIsCalm, NextProtocol
<1>3. TypeOK /\ FlushInv => FlushIsAnswered
  BY FlushInvAnswers
<1> QED BY <1>1, <1>2, <1>3, TypeCorrect, PTL DEF Spec

-----------------------------------------------------------------------------
(* A reset finds no decoder.                                                *)

\* Each x of M in the list q has a y of N just before it, unless it is the first.
Preceded(q, M, N) == \A i \in DOMAIN q : i > 1 /\ q[i] \in M => q[i - 1] \in N

LEMMA PrecededLemma ==
    ASSUME NEW T, NEW q \in Seq(T), NEW M, NEW N, Preceded(q, M, N)
    PROVE  /\ q # <<>> => Preceded(Tail(q), M, N)
           /\ q # <<>> /\ Tail(q) # <<>> /\ Head(Tail(q)) \in M => Head(q) \in N
           /\ \A r \in Seq(T) : Preceded(r, M, N) /\ (r # <<>> => r[1] \notin M)
                => Preceded(q \o r, M, N)
<1>1. ASSUME q # <<>>
      PROVE  Preceded(Tail(q), M, N)
  <2> SUFFICES ASSUME NEW i \in DOMAIN Tail(q), i > 1, Tail(q)[i] \in M
               PROVE  Tail(q)[i - 1] \in N
    BY DEF Preceded
  <2>1. /\ i + 1 \in DOMAIN q /\ Tail(q)[i] = q[i + 1] /\ (i + 1) - 1 = i
        /\ Tail(q)[i - 1] = q[i]
    BY <1>1
  <2> QED BY <2>1 DEF Preceded
<1>2. ASSUME q # <<>>, Tail(q) # <<>>, Head(Tail(q)) \in M
      PROVE  Head(q) \in N
  <2>1. 2 \in DOMAIN q /\ Head(Tail(q)) = q[2] /\ Head(q) = q[2 - 1]
    BY <1>2
  <2> QED BY <1>2, <2>1 DEF Preceded
<1>3. ASSUME NEW r \in Seq(T), Preceded(r, M, N), r # <<>> => r[1] \notin M
      PROVE  Preceded(q \o r, M, N)
  <2> DEFINE both == q \o r
  <2> SUFFICES ASSUME NEW i \in DOMAIN both, i > 1, both[i] \in M
               PROVE  both[i - 1] \in N
    BY DEF Preceded
  <2>1. CASE i <= Len(q)
    <3>1. i \in DOMAIN q /\ both[i] = q[i] /\ both[i - 1] = q[i - 1]
      BY <2>1
    <3> QED BY <3>1 DEF Preceded
  <2>2. CASE i = Len(q) + 1
    <3>1. r # <<>> /\ both[i] = r[1]
      BY <2>2
    <3> QED BY <1>3, <3>1
  <2>3. CASE i > Len(q) + 1
    <3>1. /\ i - Len(q) \in DOMAIN r /\ i - Len(q) > 1 /\ both[i] = r[i - Len(q)]
          /\ both[i - 1] = r[(i - Len(q)) - 1]
      BY <2>3
    <3> HIDE DEF both
    <3> QED BY <1>3, <3>1 DEF Preceded
  <2> QED BY <2>1, <2>2, <2>3
<1> QED BY <1>1, <1>2, <1>3

\* A reset comes just behind the flush that shuts both decoders down.  When it is
\* next, each decoder is gone or on its way: it has been ordered to flush and
\* then to shut down, and nothing makes another.  The looper rests only while
\* there is nothing to do or a flush is awaited.
ResetFlushes == {a \in DeferredAction : a.act = "Flush" /\ a.cmd = ForAll("SHUTDOWN")}
ShutDownStates == {"FLUSHING_DECODER_SHUTDOWN", "SHUTTING_DOWN_DECODER", "SHUT_DOWN"}
ResetIsNext == mDeferredActions # <<>> /\ Head(mDeferredActions) \in ResetActs
Resting == looper \in {"idle", "tearError", "tearTimeout"}
WaitsForFlush == Resting => mDeferredActions = <<>> \/ ~NotFlushing
Releases == ResetIsNext => \A s \in Streams : mDecoder[s] = "NULL" \/ mFlushing[s] \in ShutDownStates
ReleaseInv ==
    /\ Preceded(mDeferredActions, ResetActs, ResetFlushes)
    /\ Alive => WaitsForFlush /\ Releases

\* The hazard that the theorem leaves out: the end of a buffering pause creates an
\* audio decoder while a reset waits for the video decoder (the run
\* resume_in_reset).
BufferingEndsInReset ==
    /\ OnResumeOnBufferingEnd /\ driver = "RESET_IN_PROGRESS"
    /\ mDecoder' # mDecoder /\ ~NotFlushing

LEMMA ReleaseFrame ==
    ASSUME ReleaseInv, UNCHANGED <<mDecoder, mFlushing, mDeferredActions>>,
           looper' = looper \/ looper' \in AbortStates
           \/ (looper \in {"idle", "tearError", "tearTimeout"}
                 /\ looper' \in {"idle", "tearError", "tearTimeout"})
    PROVE  ReleaseInv'
<1>1. (Alive' => Alive) /\ (Alive' /\ Resting' => Resting)
  BY DEF Alive, Resting, AbortStates
<1> QED
  BY <1>1 DEF ReleaseInv, WaitsForFlush, Releases, ResetIsNext, NotFlushing, ResetActs, ResetFlushes

LEMMA DeferKeepsRelease ==
    ASSUME TypeOK, ReleaseInv, looper = "idle", UNCHANGED <<mDecoder, mFlushing>>,
           NEW r \in Seq(DeferredAction), r # <<>>, r[1] \notin ResetActs,
           Preceded(r, ResetActs, ResetFlushes), Defer(r)
    PROVE  ReleaseInv'
<1> DEFINE q == mDeferredActions
<1>1. q \in Seq(DeferredAction) /\ mDeferredActions' = q \o r /\ looper' = "deferred"
  BY DEF TypeOK, DeferredTypeOK, Defer
<1>2. Alive /\ ~Resting'
  BY <1>1 DEF Alive, AbortStates, Resting
<1>3. q # <<>> => q \o r # <<>> /\ Head(q \o r) = Head(q)
  BY <1>1
<1>4. q = <<>> => Head(q \o r) = r[1]
  BY <1>1
<1>5. ResetIsNext' => ResetIsNext
  BY <1>1, <1>3, <1>4 DEF ResetIsNext
<1>6. Preceded(q \o r, ResetActs, ResetFlushes)
  BY <1>1, PrecededLemma DEF ReleaseInv
<1> QED BY <1>1, <1>2, <1>5, <1>6 DEF ReleaseInv, WaitsForFlush, Releases, ResetActs, ResetFlushes

LEMMA CasualIsPreceded ==
    ASSUME NEW r \in Seq(CasualActs), r # <<>>
    PROVE  /\ r \in Seq(DeferredAction) /\ r[1] \notin ResetActs
           /\ Preceded(r, ResetActs, ResetFlushes)
<1>1. \A i \in DOMAIN r : r[i] \notin ResetActs /\ r[i] \in DeferredAction
  BY DEF CasualActs
<1>2. r \in Seq(DeferredAction)
  BY DEF CasualActs
<1> QED BY <1>1, <1>2 DEF Preceded

\* A flush that may be over, or goes on.
LEMMA FinishKeepsRelease ==
    ASSUME TypeOK, ReleaseInv, looper = "idle", UNCHANGED mDeferredActions,
           NEW status, NEW complete, FinishFlushIfPossible(status, complete),
           \A s \in Streams : status[s] = "SHUT_DOWN" => mDecoder'[s] = "NULL",
           \A s \in Streams : mFlushing[s] \in ShutDownStates => status[s] \in ShutDownStates,
           \A s \in Streams : mDecoder[s] = "NULL" => mDecoder'[s] = "NULL"
    PROVE  ReleaseInv'
<1>1. Alive
  BY DEF Alive, AbortStates
<1>2. ASSUME ResetIsNext
      PROVE  \A s \in Streams : mDecoder'[s] = "NULL" \/ status[s] \in ShutDownStates
  BY <1>1, <1>2 DEF ReleaseInv, Releases
<1>3. CASE \A s \in Streams : status[s] \in Settled
  <2>1. looper' = "deferred"
    BY <1>3 DEF FinishFlushIfPossible
  <2>2. ResetIsNext => \A s \in Streams : mDecoder'[s] = "NULL"
    BY <1>2, <1>3 DEF ShutDownStates, Settled
  <2> QED
    BY <1>1, <2>1, <2>2 DEF ReleaseInv, WaitsForFlush, Releases, ResetIsNext, Resting, Alive, AbortStates,
      ResetActs, ResetFlushes
<1>4. CASE ~(\A s \in Streams : status[s] \in Settled)
  <2>1. looper' = "idle" /\ mFlushing' = status
    BY <1>4, Zenon DEF FinishFlushIfPossible
  <2>2. ~NotFlushing'
    BY <1>4, <2>1 DEF NotFlushing, AllNone, Settled
  <2>3. WaitsForFlush' /\ Releases'
    BY <1>2, <2>1, <2>2 DEF WaitsForFlush, Releases, ResetIsNext, ResetActs
  <2> QED BY <2>3 DEF ReleaseInv, ResetActs, ResetFlushes
<1> QED BY <1>3, <1>4

\* Only the player creates and releases decoders, flushes, and defers actions.
LEMMA OthersLeaveTheStreams ==
    ASSUME [Next]_vars, ~PlayerStep
    PROVE  UNCHANGED <<looper, mDecoder, mFlushing, mDeferredActions>>
<1> USE DEF playerVars, playerVarsButSurface, objectVars, flushVars
<1>1. CASE ClientStep
  BY <1>1 DEF ClientStep, ClientSetDataSource, ClientPrepare, ClientStart, ClientPause, ClientSeek,
    ClientSetSurface, ClientReset, Call
<1>2. CASE SourceStep
  BY <1>2 DEF SourceStep, SourcePrepared, SourcePrepareError, SourceInstantiateSecureDecoders,
    SourcePauseOnBuffering, SourceResumeOnBuffering, SourceQueueDecoderShutdown, OldSourcePrepared,
    SourcePosts
<1>3. CASE RendererLoop \/ Environment
           \/ \E s \in Streams : DecoderMessageStep(s) \/ DecoderPulls(s) \/ DecoderOutputs(s)
  BY <1>3 DEF RendererLoop, RendererFlushes, RendererPauses, RendererResumes, RendererClosesSink,
    RendererDisablesOffload, RendererTearsDown, TearDown, RendererStep, Environment, ScanTimer,
    RendererPauseTimeout, HALTearsDown, DecoderFails, PassThroughDiscontinuity, DecoderMessageStep,
    DecoderConfigures, PassThroughConfigures, DecoderFlushes, DecoderResumes, DecoderShutsDown, DecoderPulls,
    DecoderOutputs, DecoderStep
<1>4. CASE UNCHANGED vars
  BY <1>4 DEF vars
<1> QED BY <1>1, <1>2, <1>3, <1>4 DEF Next

\* Handlers that leave the streams and the actions alone.
LEMMA PlainHandlerReleases ==
    ASSUME ReleaseInv,
           \/ OnSetDataSource \/ OnPrepare \/ OnStart \/ OnPause \/ OnSetVideoNativeWindowAtOnce
           \/ OnScanSourcesStale \/ OnScanSourcesWaits \/ OnSourceNotifyGone
           \/ OnInstantiateSecureDecoders \/ OnPauseOnBufferingStart \/ OnNotifyStale
           \/ OnResumeCompleted \/ OnErrorIgnored \/ OnAudioOffloadTearDown
    PROVE  ReleaseInv'
<1> USE DEF Receive, ReceiveFromDecoder, objectVars, flushVars, Check, AbortStates
<1>1. CASE \/ OnSetDataSource \/ OnPrepare \/ OnStart \/ OnPause \/ OnSetVideoNativeWindowAtOnce
           \/ OnScanSourcesStale \/ OnScanSourcesWaits \/ OnSourceNotifyGone
  BY <1>1, ReleaseFrame DEF OnSetDataSource, OnPrepare, OnStart, OnPause, OnSetVideoNativeWindowAtOnce,
    OnScanSourcesStale, OnScanSourcesWaits, OnSourceNotifyGone, playerVars, playerVarsButSurface
<1>2. CASE \/ OnInstantiateSecureDecoders \/ OnPauseOnBufferingStart \/ OnNotifyStale
           \/ OnResumeCompleted \/ OnErrorIgnored \/ OnAudioOffloadTearDown
  BY <1>2, ReleaseFrame DEF OnInstantiateSecureDecoders, OnPauseOnBufferingStart, OnNotifyStale,
    OnResumeCompleted, OnErrorIgnored, OnAudioOffloadTearDown, playerVars, playerVarsButSurface
<1> QED BY <1>1, <1>2

\* Handlers that defer actions.
LEMMA DeferringHandlerReleases ==
    ASSUME TypeOK, ReleaseInv,
           \/ OnSeek \/ OnReset \/ OnSetVideoNativeWindow \/ OnPrepared \/ OnQueueDecoderShutdown
           \/ OnInputDiscontinuity \/ OnErrorWhenNotFlushing
    PROVE  ReleaseInv'
<1> USE DEF Receive, ReceiveFromDecoder, objectVars, flushVars
<1>1. Received \in PlayerMessage /\ looper = "idle" /\ UNCHANGED <<mDecoder, mFlushing>>
  <2>1. looper = "idle" /\ playerQueue # <<>> /\ UNCHANGED <<mDecoder, mFlushing>>
    BY DEF OnSeek, OnReset, OnSetVideoNativeWindow, OnPrepared, OnQueueDecoderShutdown, OnInputDiscontinuity,
      OnErrorWhenNotFlushing, ReceiveError
  <2> QED BY <2>1 DEF TypeOK, QueueTypeOK, Received
<1>2. Received.flag \in BOOLEAN /\ Received.stream \in Streams
  BY <1>1 DEF PlayerMessage
<1>3. ASSUME NEW r \in Seq(CasualActs), r # <<>>, Defer(r)
      PROVE  ReleaseInv'
  BY <1>1, <1>3, CasualIsPreceded, DeferKeepsRelease
<1>11. ASSUME NEW x \in CasualActs, Defer(<<x>>)
       PROVE  ReleaseInv'
  <2>1. <<x>> \in Seq(CasualActs) /\ <<x>> # <<>>
    OBVIOUS
  <2> QED BY <1>3, <1>11, <2>1
<1>4. CASE OnSeek
  BY <1>2, <1>3, <1>4, RequestLists DEF OnSeek, SeekActions
<1>5. CASE OnSetVideoNativeWindow
  <2>1. PICK refresh \in BOOLEAN : Defer(SurfaceActions(Received.flag, refresh))
    BY <1>5 DEF OnSetVideoNativeWindow, TypeOK, PauseTypeOK
  <2>2. SurfaceActions(Received.flag, refresh) # <<>>
    BY DEF SurfaceActions, RefreshActions
  <2> QED BY <1>2, <1>3, <2>1, <2>2, RequestLists
<1>6. CASE OnPrepared
  <2>1. CASE Defer(<<FlushAction(ForAll("SHUTDOWN"))>>)
    <3>1. ForAll("SHUTDOWN") \in [Streams -> FlushCommand]
      BY DEF ForAll, FlushCommand
    <3> QED BY <1>11, <2>1, <3>1, RequestLists
  <2>2. CASE looper' \in {looper, "abortDriver"} /\ UNCHANGED mDeferredActions
    BY <1>1, <2>2, ReleaseFrame DEF AbortStates
  <2> QED BY <1>6, <2>1, <2>2 DEF OnPrepared
<1>7. CASE OnQueueDecoderShutdown
  <2> DEFINE x == FlushAction(IF Received.flag THEN ForAll("SHUTDOWN")
                              ELSE ForOnly(Received.stream, "SHUTDOWN"))
             y == Action("ScanSources", FALSE)
             z == Action("PostMessage", FALSE)
  <2>1. x \in CasualActs /\ y \in CasualActs /\ z \in CasualActs
    BY <1>2, RequestLists, CommandTypes DEF FlushCommand
  <2>2. Defer(<<x, y, z>>)
    BY <1>7 DEF OnQueueDecoderShutdown
  <2> HIDE DEF x, y, z
  <2>3. <<x, y, z>> \in Seq(CasualActs) /\ <<x, y, z>> # <<>>
    BY <2>1
  <2> QED BY <1>3, <2>2, <2>3
<1>8. CASE OnInputDiscontinuity
  BY <1>8, <1>11, RequestLists DEF OnInputDiscontinuity
<1>9. CASE OnErrorWhenNotFlushing
  <2> DEFINE x == FlushAction(ForOnly(Received.stream, "SHUTDOWN"))
  <2>1. x \in CasualActs
    BY <1>2, RequestLists, CommandTypes DEF FlushCommand
  <2>2. Defer(<<x>>)
    BY <1>9 DEF OnErrorWhenNotFlushing
  <2> HIDE DEF x
  <2> QED BY <1>11, <2>1, <2>2
<1>10. CASE OnReset
  <2> DEFINE x == FlushAction(ForAll("SHUTDOWN"))
             y == Action("Reset", FALSE)
  <2>1. x \in ResetFlushes \ ResetActs /\ y \in DeferredAction
    <3>1. x \in DeferredAction
      BY FlushActionType, CommandTypes DEF FlushCommand, Streams
    <3> QED BY <3>1, ActionType DEF ResetFlushes, ResetActs, FlushAction
  <2>2. Defer(<<x, y>>)
    BY <1>10 DEF OnReset, ResetActions
  <2>3. x \in DeferredAction
    BY <2>1 DEF ResetFlushes
  <2> HIDE DEF x, y
  <2>4. Preceded(<<x, y>>, ResetActs, ResetFlushes)
    BY <2>1 DEF Preceded
  <2>5. <<x, y>> \in Seq(DeferredAction) /\ <<x, y>> # <<>> /\ <<x, y>>[1] \notin ResetActs
    BY <2>1, <2>3
  <2> QED BY <1>1, <2>2, <2>4, <2>5, DeferKeepsRelease
<1> QED BY <1>4, <1>5, <1>6, <1>7, <1>8, <1>9, <1>10

\* A decoder is created, or the audio decoder replaced, only when no reset is next.
LEMMA CreatingReleases ==
    ASSUME ReleaseInv, looper' \in {"idle"} \cup AbortStates, UNCHANGED <<mFlushing, mDeferredActions>>,
           looper \in {"idle", "tearError", "tearTimeout"}, ~ResetIsNext
    PROVE  ReleaseInv'
<1>1. Alive /\ Resting /\ ~ResetIsNext'
  BY DEF Alive, AbortStates, Resting, ResetIsNext, ResetActs
<1> QED BY <1>1 DEF ReleaseInv, WaitsForFlush, Releases, NotFlushing, ResetActs, ResetFlushes

LEMMA ResetIsWaited ==
    ASSUME ReleaseInv, TypeOK, SourceInv, looper \in {"idle", "tearError", "tearTimeout"}, ResetIsNext
    PROVE  ~NotFlushing /\ driver = "RESET_IN_PROGRESS" /\ ~Contains(playerQueue, Openings)
<1>1. Alive /\ Resting
  BY DEF Alive, AbortStates, Resting
<1>2. mDeferredActions \in Seq(DeferredAction) /\ mDeferredActions # <<>>
      /\ Head(mDeferredActions) \in ResetActs
  BY DEF TypeOK, DeferredTypeOK, ResetIsNext
<1>3. Contains(mDeferredActions, ResetActs)
  BY <1>2, ContainsOnlyLemma
<1>4. Contains(playerQueue, Openings) => Contains(playerQueue, SessionRequests)
  BY DEF Contains, SessionRequests
<1> QED BY <1>1, <1>2, <1>3, <1>4 DEF ReleaseInv, WaitsForFlush, SourceInv, SessionInv, ResetWaits

LEMMA ResumeReleases ==
    ASSUME TypeOK, SourceInv, ReleaseInv, OnStartResumes \/ OnResumeOnBufferingEnd,
           ~BufferingEndsInReset
    PROVE  ReleaseInv'
<1>1. looper = "idle" /\ UNCHANGED <<mFlushing, mDeferredActions>>
  BY DEF OnStartResumes, OnResumeOnBufferingEnd, Receive, flushVars
<1>2. CASE UNCHANGED <<looper, mDecoder>>
  BY <1>1, <1>2, ReleaseFrame
<1>3. CASE looper' \in {"idle"} \cup AbortStates /\ ~ResetIsNext
  BY <1>1, <1>3, CreatingReleases
<1>4. CASE OnStartResumes
  <2>1. playerQueue \in Seq(PlayerMessage) /\ playerQueue # <<>> /\ Received \in Openings
    BY <1>4 DEF OnStartResumes, Receive, TypeOK, QueueTypeOK, Received, Openings
  <2>2. Contains(playerQueue, Openings)
    BY <2>1, ContainsOnlyLemma DEF Received
  <2>3. ~ResetIsNext
    BY <1>1, <2>2, ResetIsWaited
  <2>4. UNCHANGED <<looper, mDecoder>> \/ looper' \in {"idle"} \cup AbortStates
    BY <1>4 DEF OnStartResumes, Resume, Check, AbortStates
  <2> QED BY <1>2, <1>3, <2>3, <2>4
<1>5. CASE OnResumeOnBufferingEnd
  <2>1. UNCHANGED <<looper, mDecoder>> \/ looper' \in {"idle"} \cup AbortStates
    BY <1>5 DEF OnResumeOnBufferingEnd, Resume, Check, AbortStates
  <2>2. ResetIsNext => UNCHANGED mDecoder
    BY <1>1, <1>5, ResetIsWaited DEF BufferingEndsInReset
  <2>3. CASE looper' \in {"idle"} \cup AbortStates /\ UNCHANGED mDecoder
    BY <1>1, <2>3, ReleaseFrame
  <2> QED BY <1>2, <1>3, <2>1, <2>2, <2>3
<1> QED BY <1>4, <1>5

LEMMA ScanReleases ==
    ASSUME TypeOK, SourceInv, FlushInv, ReleaseInv, OnScanSources
    PROVE  ReleaseInv'
<1>1. /\ Receive("ScanSources") /\ Received.gen = mScanSourcesGeneration
      /\ UNCHANGED <<mFlushing, mDeferredActions>>
  BY DEF OnScanSources, flushVars
<1>2. looper = "idle" /\ Alive
  BY <1>1 DEF Receive, Alive, AbortStates
<1>3. looper' = Check(mSource # "NULL", "abortNullSource", "idle")
  BY Zenon DEF OnScanSources
<1>4. looper' \in {"idle"} \cup AbortStates
  BY <1>3 DEF Check, AbortStates
<1>5. ~ResetIsNext
  BY <1>1, <1>2, ScanIsDue, ResetIsWaited
<1> QED BY <1>1, <1>2, <1>4, <1>5, CreatingReleases

LEMMA TearDownReleases ==
    ASSUME TypeOK, SourceInv, ReleaseInv, OnAudioSinkClosed, ~TornDownInFlush
    PROVE  ReleaseInv'
<1>1. /\ looper \in {"tearError", "tearTimeout"} /\ looper' = "idle"
      /\ UNCHANGED <<mFlushing, mDeferredActions>>
  BY DEF OnAudioSinkClosed, flushVars
<1>2. ~ResetIsNext
  BY <1>1, ResetIsWaited DEF TornDownInFlush
<1> QED BY <1>1, <1>2, CreatingReleases

LEMMA FlushCompleteReleases ==
    ASSUME TypeOK, FlushInv, ReleaseInv, OnFlushCompleted \/ OnRendererFlushComplete
    PROVE  ReleaseInv'
<1>1. /\ looper = "idle" /\ UNCHANGED <<mDecoder, mDeferredActions>>
      /\ \E s, party : HandleFlushComplete(s, party)
  BY DEF OnFlushCompleted, OnRendererFlushComplete, Receive, ReceiveFromDecoder, objectVars
<1>2. PICK s, party : HandleFlushComplete(s, party)
  BY <1>1
<1>3. \A t \in Streams : mFlushing[t] = "SHUT_DOWN" => mDecoder[t] = "NULL"
  BY <1>1 DEF FlushInv, HandshakeInv, DecodersExist, Alive, AbortStates
<1> DEFINE complete == [mFlushComplete EXCEPT ![s][party] = TRUE]
           both     == BothComplete(complete[s])
           flushed  == both /\ mFlushing[s] = "FLUSHING_DECODER"
           shutdown == both /\ mFlushing[s] = "FLUSHING_DECODER_SHUTDOWN"
           status   == [mFlushing EXCEPT ![s] = IF flushed THEN "FLUSHED"
                                                ELSE IF shutdown THEN "SHUTTING_DOWN_DECODER"
                                                ELSE @]
<1>4. CASE looper' \in AbortStates /\ UNCHANGED mFlushing
  BY <1>1, <1>4, ReleaseFrame
<1>5. CASE FinishFlushIfPossible(status, complete)
  <2>1. \A t \in Streams : /\ status[t] = "SHUT_DOWN" => mFlushing[t] = "SHUT_DOWN"
                           /\ mFlushing[t] \in ShutDownStates => status[t] \in ShutDownStates
    BY DEF TypeOK, FlushTypeOK, ShutDownStates
  <2>2. \A t \in Streams : /\ status[t] = "SHUT_DOWN" => mDecoder'[t] = "NULL"
                           /\ mDecoder[t] = "NULL" => mDecoder'[t] = "NULL"
    BY <1>1, <1>3, <2>1
  <2> HIDE DEF status, complete
  <2> QED BY <1>1, <1>5, <2>1, <2>2, FinishKeepsRelease
<1>6. \/ looper' \in {"abortNullDecoder", "abortFlushState"} /\ UNCHANGED flushVars
      \/ FinishFlushIfPossible(status, complete)
  BY <1>2, Zenon DEF HandleFlushComplete
<1> QED BY <1>4, <1>5, <1>6 DEF AbortStates, flushVars

LEMMA ShutdownCompletedReleases ==
    ASSUME TypeOK, FlushInv, ReleaseInv, OnShutdownCompleted
    PROVE  ReleaseInv'
<1> DEFINE s == Received.stream
           status == [mFlushing EXCEPT ![s] = "SHUT_DOWN"]
<1>1. /\ looper = "idle" /\ UNCHANGED mDeferredActions
      /\ mDecoder' = [mDecoder EXCEPT ![s] = "NULL"]
  BY DEF OnShutdownCompleted, Receive, ReceiveFromDecoder
<1>2. \A t \in Streams : mFlushing[t] = "SHUT_DOWN" => mDecoder[t] = "NULL"
  BY <1>1 DEF FlushInv, HandshakeInv, DecodersExist, Alive, AbortStates
<1>3. \A t \in Streams : mDecoder'[t] = IF t = s THEN "NULL" ELSE mDecoder[t]
  BY <1>1 DEF TypeOK, ObjectTypeOK
<1>4. \A t \in Streams : status[t] = IF t = s THEN "SHUT_DOWN" ELSE mFlushing[t]
  BY DEF TypeOK, FlushTypeOK
<1>5. \/ looper' = "abortShutdownState" /\ UNCHANGED flushVars
      \/ FinishFlushIfPossible(status, mFlushComplete)
  BY DEF OnShutdownCompleted
<1>6. CASE FinishFlushIfPossible(status, mFlushComplete)
  <2> HIDE DEF status
  <2> QED BY <1>1, <1>2, <1>3, <1>4, <1>6, FinishKeepsRelease DEF ShutDownStates
<1>7. CASE looper' = "abortShutdownState"
  BY <1>1, <1>7 DEF ReleaseInv, Alive, AbortStates, ResetActs, ResetFlushes
<1> QED BY <1>5, <1>6, <1>7

LEMMA ErrorReleases ==
    ASSUME TypeOK, FlushInv, ReleaseInv, OnErrorWhileFlushing \/ OnErrorWhenFlushed
    PROVE  ReleaseInv'
<1> DEFINE s == Received.stream
<1>1. /\ looper = "idle" /\ UNCHANGED <<mDecoder, mDeferredActions>>
      /\ playerQueue # <<>>
  BY DEF OnErrorWhileFlushing, OnErrorWhenFlushed, ReceiveError, ReceiveFromDecoder, Receive, objectVars
<1>2. s \in Streams
  <2>1. Received \in PlayerMessage
    BY <1>1 DEF TypeOK, QueueTypeOK, Received
  <2> QED BY <2>1 DEF PlayerMessage
<1>3. Alive /\ \A t \in Streams : mFlushing[t] = "SHUT_DOWN" => mDecoder[t] = "NULL"
  BY <1>1 DEF FlushInv, HandshakeInv, DecodersExist, Alive, AbortStates
<1>4. CASE /\ mFlushing[s] = "SHUT_DOWN"
           /\ FinishFlushIfPossible(mFlushing, mFlushComplete)
  BY <1>1, <1>3, <1>4, FinishKeepsRelease
<1>5. ASSUME NEW x, mFlushing' = [mFlushing EXCEPT ![s] = x], x # "NONE",
             mFlushing[s] \in ShutDownStates => x \in ShutDownStates
      PROVE  ReleaseInv'
  <2>1. \A t \in Streams : mFlushing'[t] = IF t = s THEN x ELSE mFlushing[t]
    BY <1>5 DEF TypeOK, FlushTypeOK
  <2>2. ~NotFlushing'
    BY <1>2, <1>5, <2>1 DEF NotFlushing, AllNone
  <2>3. Releases'
    BY <1>1, <1>3, <1>5, <2>1 DEF ReleaseInv, Releases, ResetIsNext, ResetActs
  <2> QED BY <1>1, <2>2, <2>3 DEF ReleaseInv, WaitsForFlush, ResetActs, ResetFlushes
<1>6. CASE OnErrorWhenFlushed
  <2>1. mFlushing' = [mFlushing EXCEPT ![s] = "SHUTTING_DOWN_DECODER"]
    BY <1>6 DEF OnErrorWhenFlushed
  <2> QED BY <1>5, <2>1 DEF ShutDownStates
<1>7. CASE /\ mFlushing[s] \notin {"NONE", "FLUSHED"}
           /\ mFlushing' = [mFlushing EXCEPT ![s] =
                       IF @ = "FLUSHING_DECODER" THEN "FLUSHING_DECODER_SHUTDOWN" ELSE @]
  <2> DEFINE x == IF mFlushing[s] = "FLUSHING_DECODER" THEN "FLUSHING_DECODER_SHUTDOWN"
                  ELSE mFlushing[s]
  <2>1. mFlushing' = [mFlushing EXCEPT ![s] = x] /\ x # "NONE"
        /\ (mFlushing[s] \in ShutDownStates => x \in ShutDownStates)
    BY <1>7 DEF ShutDownStates
  <2> HIDE DEF x
  <2> QED BY <1>5, <2>1
<1>8. CASE OnErrorWhileFlushing
  BY <1>4, <1>7, <1>8, Zenon DEF OnErrorWhileFlushing
<1> QED BY <1>6, <1>8

LEMMA ActionReleases ==
    ASSUME TypeOK, ReleaseInv, DeferredStep
    PROVE  ReleaseInv'
<1>1. looper = "deferred" /\ Alive
  BY DEF DeferredStep, DeferredDone, PerformDecoderFlush, PerformSeek, PerformSetSurface,
    PerformResumeDecoders, PerformScanSources, PerformPostMessage, PerformReset, Execute, Alive, AbortStates
<1>2. CASE DeferredDone
  <2>1. /\ mDeferredActions = <<>> \/ ~NotFlushing
        /\ UNCHANGED <<mDeferredActions, mDecoder, mFlushing>>
    BY <1>2 DEF DeferredDone, objectVars, flushVars
  <2> QED
    BY <1>1, <2>1 DEF ReleaseInv, WaitsForFlush, Releases, ResetIsNext, NotFlushing, ResetActs, ResetFlushes
<1>3. ASSUME NEW a, Execute(a), looper' \in {"deferred"} \cup AbortStates,
             a = "Flush" => PerformDecoderFlush
      PROVE  ReleaseInv'
  <2> DEFINE q == mDeferredActions
  <2>1. /\ q \in Seq(DeferredAction) /\ q # <<>> /\ mDeferredActions' = Tail(q)
        /\ Head(q).act = a /\ NotFlushing
    BY <1>3 DEF Execute, Next1, TypeOK, DeferredTypeOK
  <2>2. Preceded(mDeferredActions', ResetActs, ResetFlushes)
    BY <2>1, PrecededLemma DEF ReleaseInv
  <2>3. ASSUME ResetIsNext'
        PROVE  \A s \in Streams : mDecoder'[s] = "NULL" \/ mFlushing'[s] \in ShutDownStates
    <3>1. Tail(q) # <<>> /\ Head(Tail(q)) \in ResetActs
      BY <2>1, <2>3 DEF ResetIsNext, ResetActs
    <3>2. Head(q) \in ResetFlushes
      BY <2>1, <3>1, PrecededLemma DEF ReleaseInv
    <3>3. PerformDecoderFlush /\ Next1.cmd = ForAll("SHUTDOWN")
      BY <1>3, <2>1, <3>2 DEF ResetFlushes, Next1
    <3>4. \A s \in Streams : Next1.cmd[s] = "SHUTDOWN"
      BY <3>3 DEF ForAll
    <3>5. /\ UNCHANGED mDecoder
          /\ mFlushing' = [s \in Streams |->
                IF s \notin {t \in Streams : Next1.cmd[t] # "NONE" /\ mDecoder[t] # "NULL"}
                THEN mFlushing[s]
                ELSE IF Next1.cmd[s] = "SHUTDOWN" THEN "FLUSHING_DECODER_SHUTDOWN"
                ELSE "FLUSHING_DECODER"]
      BY <3>3 DEF PerformDecoderFlush, objectVars
    <3> QED BY <3>4, <3>5 DEF ShutDownStates
  <2>4. ~Resting' \/ ~Alive'
    BY <1>3 DEF Resting, Alive, AbortStates
  <2> QED
    BY <2>2, <2>3, <2>4 DEF ReleaseInv, WaitsForFlush, Releases, ShutDownStates, ResetActs, ResetFlushes
<1>4. CASE PerformDecoderFlush
  BY <1>1, <1>3, <1>4 DEF PerformDecoderFlush
<1>5. CASE PerformSeek \/ PerformSetSurface \/ PerformResumeDecoders \/ PerformScanSources
           \/ PerformPostMessage
  <2>1. /\ \E a \in {"Seek", "SetSurface", "ResumeDecoder", "ScanSources", "PostMessage"} : Execute(a)
        /\ looper' \in {"deferred"} \cup AbortStates
    BY <1>1, <1>5 DEF PerformSeek, PerformSetSurface, PerformResumeDecoders, PerformScanSources,
      PerformPostMessage, Check, AbortStates
  <2> QED BY <1>3, <2>1
<1>6. CASE PerformReset
  <2>1. Execute("Reset") /\ looper' \in {"deferred"} \cup AbortStates
    BY <1>6 DEF PerformReset, Check, AbortStates
  <2> QED BY <1>3, <2>1
<1> QED BY <1>2, <1>4, <1>5, <1>6 DEF DeferredStep

LEMMA NextReleases ==
    ASSUME TypeOK, SourceInv, FlushInv, ReleaseInv, [Next]_vars, ~TornDownInFlush,
           ~BufferingEndsInReset
    PROVE  ReleaseInv'
<1>1. CASE ~PlayerStep
  BY <1>1, OthersLeaveTheStreams, ReleaseFrame
<1>2. CASE MessageStep
  BY <1>2, PlainHandlerReleases, DeferringHandlerReleases, ResumeReleases, ScanReleases,
    FlushCompleteReleases, ShutdownCompletedReleases, ErrorReleases DEF MessageStep
<1> QED BY <1>1, <1>2, ActionReleases, TearDownReleases DEF PlayerStep

\* Nobody but performReset() looks for decoders that are left.
LEMMA ResetFrame ==
    ASSUME TypeOK, ReleaseInv, ResetFindsNoDecoder, [Next]_vars
    PROVE  ResetFindsNoDecoder'
<1> USE DEF ResetFindsNoDecoder, Check
<1>1. CASE ~PlayerStep
  BY <1>1, OthersLeaveTheStreams
<1>2. CASE \/ OnSetDataSource \/ OnPrepare \/ OnStart \/ OnSeek \/ OnReset
           \/ OnSetVideoNativeWindowAtOnce \/ OnSetVideoNativeWindow \/ OnPrepared
           \/ OnInstantiateSecureDecoders \/ OnQueueDecoderShutdown \/ OnInputDiscontinuity
           \/ OnErrorWhenNotFlushing \/ OnAudioOffloadTearDown
  BY <1>2 DEF OnSetDataSource, OnPrepare, OnStart, OnSeek, OnReset, OnSetVideoNativeWindowAtOnce,
    OnSetVideoNativeWindow, OnPrepared, OnInstantiateSecureDecoders, OnQueueDecoderShutdown,
    OnInputDiscontinuity, OnErrorWhenNotFlushing, OnAudioOffloadTearDown, Defer
<1>3. CASE OnStartResumes \/ OnResumeOnBufferingEnd
  BY <1>3 DEF OnStartResumes, OnResumeOnBufferingEnd, Resume
<1>4. CASE OnScanSources
  <2>1. looper' = Check(mSource # "NULL", "abortNullSource", "idle")
    BY <1>4, Zenon DEF OnScanSources
  <2> QED BY <2>1
<1>5. CASE \/ OnPause \/ OnPauseOnBufferingStart \/ OnScanSourcesStale \/ OnScanSourcesWaits
           \/ OnSourceNotifyGone \/ OnNotifyStale \/ OnResumeCompleted \/ OnErrorIgnored
  BY <1>5 DEF OnPause, OnPauseOnBufferingStart, OnScanSourcesStale, OnScanSourcesWaits, OnSourceNotifyGone,
    OnNotifyStale, OnResumeCompleted, OnErrorIgnored, playerVars, playerVarsButSurface
<1>6. CASE OnFlushCompleted \/ OnRendererFlushComplete
  <2>1. PICK s, party : HandleFlushComplete(s, party)
    BY <1>6 DEF OnFlushCompleted, OnRendererFlushComplete
  <2>2. looper' \in {"abortNullDecoder", "abortFlushState", "deferred", "idle"}
    BY <2>1, Zenon DEF HandleFlushComplete, FinishFlushIfPossible
  <2> QED BY <2>2
<1>7. CASE OnShutdownCompleted
  <2>1. looper' \in {"abortShutdownState", "deferred", "idle"}
    BY <1>7, Zenon DEF OnShutdownCompleted, FinishFlushIfPossible
  <2> QED BY <2>1
<1>8. CASE OnErrorWhileFlushing \/ OnErrorWhenFlushed
  BY <1>8 DEF OnErrorWhileFlushing, OnErrorWhenFlushed, FinishFlushIfPossible
<1>9. CASE OnAudioSinkClosed \/ (DeferredStep /\ ~PerformReset)
  BY <1>9 DEF DeferredStep, DeferredDone, PerformDecoderFlush, PerformSeek, PerformSetSurface,
    PerformResumeDecoders, PerformScanSources, PerformPostMessage, OnAudioSinkClosed
<1>10. CASE PerformReset
  <2>1. /\ mDeferredActions \in Seq(DeferredAction) /\ mDeferredActions # <<>>
        /\ Head(mDeferredActions).act = "Reset" /\ NotFlushing /\ Alive
    BY <1>10 DEF PerformReset, Execute, Next1, TypeOK, DeferredTypeOK, Alive, AbortStates
  <2>2. ResetIsNext
    BY <2>1 DEF ResetIsNext, ResetActs
  <2>3. \A s \in Streams : mDecoder[s] = "NULL"
    BY <2>1, <2>2 DEF ReleaseInv, Releases, ShutDownStates, NotFlushing, AllNone
  <2> QED BY <1>10, <2>3 DEF PerformReset
<1> QED BY <1>1, <1>2, <1>3, <1>4, <1>5, <1>6, <1>7, <1>8, <1>9, <1>10 DEF PlayerStep, MessageStep

\* performReset() finds both decoders gone: its CHECKs hold however the reset meets
\* errors, scans, starts and surface changes, for every set of formats and every
\* number of them, unless the end of a buffering pause or the tear down of the
\* offloaded audio creates or releases a decoder behind the flush it waits for.
THEOREM DecodersAreGone ==
    Spec /\ [][~TornDownInFlush]_vars /\ [][~BufferingEndsInReset]_vars => []ResetFindsNoDecoder
<1>1. Init => SourceInv /\ FlushInv /\ ReleaseInv /\ ResetFindsNoDecoder
  <2>1. <<>> \in Seq(Sourced)
    OBVIOUS
  <2> QED BY <2>1, InitFlush DEF Init, SourceInv, SessionInv, ScanInv, Contains, NothingBehind,
       ResetWaits, ReleaseInv, Preceded, WaitsForFlush, Releases, ResetIsNext, ResetFindsNoDecoder
<1>2. /\ TypeOK /\ TypeOK' /\ SourceInv /\ FlushInv /\ ReleaseInv /\ ResetFindsNoDecoder
      /\ [Next]_vars /\ [~TornDownInFlush]_vars /\ [~BufferingEndsInReset]_vars
      => SourceInv' /\ FlushInv' /\ ReleaseInv' /\ ResetFindsNoDecoder'
  <2>1. UNCHANGED vars => ~TornDownInFlush
    BY DEF TornDownInFlush, OnAudioSinkClosed, vars, playerVars, playerVarsButSurface
  <2>2. UNCHANGED vars => ~BufferingEndsInReset
    BY DEF BufferingEndsInReset, vars, playerVars, playerVarsButSurface, objectVars
  <2> QED BY <2>1, <2>2, NextFlush, NextKeepsSession, NextReleases, ResetFrame
<1> QED BY <1>1, <1>2, TypeCorrect, PTL DEF Spec

-----------------------------------------------------------------------------
(* The answers of seeks: what the video decoder owes the player comes before *)
(* it shuts down.                                                            *)

\* The orders of the decoder's queue, and what the video decoder of generation g
\* tells the player.
ResumeOrders == {d \in DecoderMessage : d.what = "Resume" /\ d.flag}
Shutdowns == {d \in DecoderMessage : d.what = "Shutdown"}
Configures == {d \in DecoderMessage : d.what = "Configure"}
VideoTells(w, g) == {m \in PlayerMessage : m.what = w /\ m.stream = "video" /\ m.gen = g}
Resumed(g) == VideoTells("ResumeCompleted", g)
Gone(g) == VideoTells("ShutdownCompleted", g)

\* A decoder is configured before anything else and shut down last.
InOrder(d) ==
    /\ NothingBehind(d.queue, Shutdowns, DecoderMessage)
    /\ NothingBehind(d.queue, DecoderMessage, Configures)
    /\ Contains(d.queue, Configures) => d.resumePending = FALSE
\* It is to tell that it has resumed.
Owing(d) == Contains(d.queue, ResumeOrders) \/ d.resumePending = TRUE
\* A decoder that tells that it has shut down has nothing more to do or to tell.
Settles(q, d, g) ==
    /\ Contains(q, Gone(g)) => d.queue = <<>> /\ d.resumePending = FALSE
    /\ NothingBehind(q, Gone(g), Resumed(g))

VideoGeneration == mDecoderGeneration["video"]
\* A seek that waits for its answer gets it: from the decoder k of the stream, or
\* with what is on its way.
Answerable(q, d, g, k) == k # "NULL" /\ (Owing(d) \/ Contains(q, Resumed(g)))
AnswerInv ==
    Alive =>
      /\ InOrder(decoder["video"])
      /\ Settles(playerQueue, decoder["video"], VideoGeneration)
      /\ mResumePending => Answerable(playerQueue, decoder["video"], VideoGeneration,
                                      mDecoder["video"])

\* A queue of the player that loses nothing that the video decoder owes.
KeepsAnswer(p, q, g) ==
    /\ Contains(q, Gone(g)) => Contains(p, Gone(g))
    /\ Contains(p, Resumed(g)) => Contains(q, Resumed(g))
    /\ NothingBehind(p, Gone(g), Resumed(g)) => NothingBehind(q, Gone(g), Resumed(g))

Neutral(g) == {m \in PlayerMessage : m \notin Gone(g) \cup Resumed(g)}

LEMMA NeutralMessages ==
    ASSUME NEW g
    PROVE  /\ Neutral(g) \subseteq PlayerMessage
           /\ \A m \in PlayerMessage :
                m.what \notin {"ResumeCompleted", "ShutdownCompleted"} => m \in Neutral(g)
           /\ \A m \in PlayerMessage : m.stream # "video" => m \in Neutral(g)
           /\ \A m \in PlayerMessage : m.gen # g => m \in Neutral(g)
  BY DEF Neutral, Gone, Resumed, VideoTells

LEMMA SameQueueKeeps ==
    ASSUME NEW q, NEW g
    PROVE  KeepsAnswer(q, q, g)
  BY DEF KeepsAnswer

LEMMA KeepsTwice ==
    ASSUME NEW p, NEW q, NEW r, NEW g, KeepsAnswer(p, q, g), KeepsAnswer(q, r, g)
    PROVE  KeepsAnswer(p, r, g)
  BY DEF KeepsAnswer

\* Other messages are posted.
LEMMA NeutralPosts ==
    ASSUME NEW q \in Seq(PlayerMessage), NEW g, NEW r \in Seq(Neutral(g))
    PROVE  KeepsAnswer(q, q \o r, g)
<1>1. r \in Seq(PlayerMessage)
  BY NeutralMessages
<1>2. \A i \in DOMAIN r : r[i] \notin Gone(g) /\ r[i] \notin Resumed(g)
  BY DEF Neutral
<1>3. ~Contains(r, Gone(g)) /\ ~Contains(r, Resumed(g)) /\ NothingBehind(r, Gone(g), Resumed(g))
  BY <1>2 DEF Contains, NothingBehind
<1>4. Contains(q \o r, Gone(g)) => Contains(q, Gone(g))
  BY <1>1, <1>3, ContainsOnlyLemma
<1>5. Contains(q, Resumed(g)) => Contains(q \o r, Resumed(g))
  BY <1>1, ContainsLemma
<1>6. NothingBehind(q, Gone(g), Resumed(g)) => NothingBehind(q \o r, Gone(g), Resumed(g))
  BY <1>1, <1>3, NothingBehindLemma
<1> QED BY <1>4, <1>5, <1>6 DEF KeepsAnswer

LEMMA NeutralPost ==
    ASSUME NEW q \in Seq(PlayerMessage), NEW g, NEW m \in Neutral(g)
    PROVE  KeepsAnswer(q, Append(q, m), g)
<1>1. <<m>> \in Seq(Neutral(g)) /\ m \in PlayerMessage
  BY NeutralMessages
<1>2. Append(q, m) = q \o <<m>>
  BY <1>1
<1> QED BY <1>1, <1>2, NeutralPosts

\* A message is taken that is not the answer.
LEMMA TakingKeepsAnswer ==
    ASSUME NEW q \in Seq(PlayerMessage), q # <<>>, NEW g, Head(q) \notin Resumed(g)
    PROVE  KeepsAnswer(q, Tail(q), g)
<1>1. Contains(Tail(q), Gone(g)) => Contains(q, Gone(g))
  BY ContainsOnlyLemma
<1>2. Contains(q, Resumed(g)) => Contains(Tail(q), Resumed(g))
  BY ContainsLemma
<1>3. NothingBehind(q, Gone(g), Resumed(g)) => NothingBehind(Tail(q), Gone(g), Resumed(g))
  BY NothingBehindLemma
<1> QED BY <1>1, <1>2, <1>3 DEF KeepsAnswer

\* An order is posted to a decoder that is not to shut down.
LEMMA PostInOrder ==
    ASSUME NEW d \in DecoderState, InOrder(d), ~Contains(d.queue, Shutdowns),
           NEW w \in {"Flush", "Resume", "Shutdown"}, NEW f \in BOOLEAN
    PROVE  /\ InOrder(Post(d, w, f))
           /\ Owing(d) \/ (w = "Resume" /\ f = TRUE) => Owing(Post(d, w, f))
<1> DEFINE m == [what |-> w, flag |-> f]
           q == d.queue
           p == q \o <<m>>
<1>1. m \in DecoderMessage /\ m \notin Configures /\ (w = "Resume" /\ f = TRUE => m \in ResumeOrders)
  BY DEF DecoderMessage, Configures, ResumeOrders
<1>2. q \in Seq(DecoderMessage) /\ d.resumePending \in BOOLEAN
  BY DEF DecoderState
<1>3. Post(d, w, f).queue = Append(q, m) /\ Post(d, w, f).resumePending = d.resumePending
  BY DEF Post, DecoderState
<1> HIDE DEF m, q
<1>4. Append(q, m) = p /\ <<m>> \in Seq(DecoderMessage)
  BY <1>1, <1>2
<1>5. /\ ~Contains(<<m>>, Configures)
      /\ NothingBehind(<<m>>, Shutdowns, DecoderMessage)
      /\ NothingBehind(<<m>>, DecoderMessage, Configures)
      /\ m \in ResumeOrders => Contains(<<m>>, ResumeOrders)
  BY <1>1 DEF Contains, NothingBehind
<1>6. NothingBehind(p, Shutdowns, DecoderMessage)
  BY <1>2, <1>4, <1>5, NothingBehindLemma DEF InOrder, q
<1>7. NothingBehind(p, DecoderMessage, Configures)
  BY <1>2, <1>4, <1>5, NothingBehindLemma DEF InOrder, q
<1>8. Contains(p, Configures) => Contains(q, Configures)
  BY <1>2, <1>4, <1>5, ContainsOnlyLemma
<1>9. Contains(q, ResumeOrders) => Contains(p, ResumeOrders)
  BY <1>2, <1>4, ContainsLemma
<1>10. m \in ResumeOrders => Contains(p, ResumeOrders)
  BY <1>2, <1>4, <1>5, ContainsLemma
<1> HIDE DEF p
<1> QED BY <1>1, <1>3, <1>4, <1>6, <1>7, <1>8, <1>9, <1>10 DEF InOrder, Owing, q

\* An order is taken.
LEMMA TakenInOrder ==
    ASSUME NEW d \in DecoderState, InOrder(d), d.queue # <<>>
    PROVE  LET h == Head(d.queue)
               t == Tail(d.queue)
           IN /\ h \in DecoderMessage /\ t \in Seq(DecoderMessage)
              /\ NothingBehind(t, Shutdowns, DecoderMessage)
              /\ NothingBehind(t, DecoderMessage, Configures)
              /\ ~Contains(t, Configures)
              /\ h.what = "Shutdown" => t = <<>>
              /\ Contains(d.queue, ResumeOrders) /\ h \notin ResumeOrders => Contains(t, ResumeOrders)
<1> DEFINE q == d.queue
           h == Head(q)
           t == Tail(q)
<1>1. q \in Seq(DecoderMessage) /\ h \in DecoderMessage /\ t \in Seq(DecoderMessage)
  BY DEF DecoderState
<1>2. NothingBehind(q, Shutdowns, DecoderMessage) /\ NothingBehind(q, DecoderMessage, Configures)
  BY DEF InOrder
<1> HIDE DEF q
<1>3. NothingBehind(t, Shutdowns, DecoderMessage) /\ NothingBehind(t, DecoderMessage, Configures)
  BY <1>1, <1>2, NothingBehindLemma DEF q
<1>4. ~Contains(t, Configures)
  BY <1>1, <1>2, NothingBehindLemma DEF q
<1>5. h.what = "Shutdown" => ~Contains(t, DecoderMessage)
  BY <1>1, <1>2, NothingBehindLemma DEF q, Shutdowns
<1>6. ~Contains(t, DecoderMessage) => t = <<>>
  <2> HIDE DEF t
  <2> QED BY <1>1 DEF Contains
<1>7. Contains(q, ResumeOrders) /\ h \notin ResumeOrders => Contains(t, ResumeOrders)
  BY <1>1, ContainsLemma DEF q
<1> QED BY <1>1, <1>3, <1>4, <1>5, <1>6, <1>7 DEF q

\* A step leaves the decoder as owing and as well ordered as the values say.
LEMMA AnswerNext ==
    ASSUME NEW d, NEW g, NEW k,
           decoder'["video"] = d, mDecoderGeneration'["video"] = g, mDecoder'["video"] = k,
           Alive' => /\ InOrder(d) /\ Settles(playerQueue', d, g)
                     /\ mResumePending' => Answerable(playerQueue', d, g, k)
    PROVE  AnswerInv'
<1>1. VideoGeneration' = g
  BY DEF VideoGeneration
<1> QED BY <1>1 DEF AnswerInv

\* The same decoder, but for what does not matter here, with a queue that keeps
\* what it owes.
LEMMA SameDecoder ==
    ASSUME NEW p, NEW q, NEW d, NEW e, NEW g, NEW k,
           InOrder(d), Settles(p, d, g), KeepsAnswer(p, q, g),
           e.queue = d.queue, e.resumePending = d.resumePending
    PROVE  /\ InOrder(e) /\ Settles(q, e, g)
           /\ Answerable(p, d, g, k) => Answerable(q, e, g, k)
  BY DEF InOrder, Settles, Answerable, Owing, KeepsAnswer

LEMMA AnswerFrame ==
    ASSUME AnswerInv, Alive' => Alive, mResumePending' => mResumePending,
           decoder'["video"].queue = decoder["video"].queue,
           decoder'["video"].resumePending = decoder["video"].resumePending,
           mDecoderGeneration'["video"] = mDecoderGeneration["video"],
           mDecoder'["video"] = mDecoder["video"],
           KeepsAnswer(playerQueue, playerQueue', VideoGeneration)
    PROVE  AnswerInv'
<1> DEFINE d == decoder["video"]
           e == decoder'["video"]
           g == mDecoderGeneration["video"]
           k == mDecoder["video"]
           p == playerQueue
           q == playerQueue'
<1>1. Alive => InOrder(d) /\ Settles(p, d, g) /\ (mResumePending => Answerable(p, d, g, k))
  BY DEF AnswerInv, VideoGeneration
<1>2. KeepsAnswer(p, q, g)
  BY DEF VideoGeneration
<1>3. InOrder(d) /\ Settles(p, d, g) =>
        InOrder(e) /\ Settles(q, e, g) /\ (Answerable(p, d, g, k) => Answerable(q, e, g, k))
  <2> HIDE DEF p, q, g
  <2> QED BY <1>2, SameDecoder
<1>4. e = decoder'["video"] /\ mDecoderGeneration'["video"] = g /\ mDecoder'["video"] = k /\ q = playerQueue'
  OBVIOUS
<1> HIDE DEF d, e, g, k, p, q
<1>5. Alive' => InOrder(e) /\ Settles(q, e, g) /\ (mResumePending' => Answerable(q, e, g, k))
  BY <1>1, <1>3
<1> QED BY <1>4, <1>5, AnswerNext

\* An order is posted to the decoder.
LEMMA OrderedDecoder ==
    ASSUME NEW p \in Seq(PlayerMessage), NEW q, NEW d \in DecoderState, NEW g, NEW k,
           InOrder(d), Settles(p, d, g), KeepsAnswer(p, q, g),
           ~Contains(d.queue, Shutdowns), ~Contains(p, Gone(g)),
           NEW w \in {"Flush", "Resume", "Shutdown"}, NEW f \in BOOLEAN
    PROVE  /\ InOrder(Post(d, w, f)) /\ Settles(q, Post(d, w, f), g)
           /\ Answerable(p, d, g, k) \/ (k # "NULL" /\ w = "Resume" /\ f = TRUE)
                => Answerable(q, Post(d, w, f), g, k)
<1> DEFINE e == Post(d, w, f)
<1>1. InOrder(e) /\ (Owing(d) \/ (w = "Resume" /\ f = TRUE) => Owing(e))
  BY PostInOrder
<1> HIDE DEF e
<1>2. Settles(q, e, g)
  BY DEF Settles, KeepsAnswer
<1>3. Answerable(p, d, g, k) \/ (k # "NULL" /\ w = "Resume" /\ f = TRUE) => Answerable(q, e, g, k)
  BY <1>1 DEF Answerable, KeepsAnswer
<1> QED BY <1>1, <1>2, <1>3 DEF e

\* While the decoder is not shutting down it has no order to, and has not told so.
LEMMA NothingShut ==
    ASSUME TypeOK, FlushInv, Alive, mFlushing["video"] # "SHUTTING_DOWN_DECODER"
    PROVE  /\ ~Contains(decoder["video"].queue, Shutdowns)
           /\ ~Contains(playerQueue, Gone(VideoGeneration))
<1>1. "video" \in Streams /\ NothingAhead /\ Balanced("video")
  BY DEF Streams, FlushInv, HandshakeInv
<1>2. Ordered("video", "Shutdown") = 0 /\ Answered("video", "ShutdownCompleted") = 0
  BY <1>1, Owed
<1> DEFINE o == decoder["video"].queue
<1>3. o \in Seq(Orders) /\ playerQueue \in Seq(Sent)
  BY <1>1 DEF NothingAhead
<1>4. Occurrences(o, Order("Shutdown")) = 0
      /\ Occurrences(playerQueue, Answer("video", "ShutdownCompleted")) = 0
  BY <1>2 DEF Ordered, Answered
<1> HIDE DEF o
<1>5. \A i \in DOMAIN o : o[i] # Order("Shutdown")
  BY <1>3, <1>4, OccurrencesType
<1>6. \A i \in DOMAIN playerQueue : playerQueue[i] # Answer("video", "ShutdownCompleted")
  BY <1>3, <1>4, OccurrencesType
<1>7. ~Contains(o, Shutdowns)
  <2>1. \A m \in Orders : m \in Shutdowns => m = Order("Shutdown")
    BY DEF Orders, Shutdowns, DecoderMessage, Order
  <2>2. \A i \in DOMAIN o : o[i] \in Orders
    BY <1>3
  <2> QED BY <1>5, <2>1, <2>2 DEF Contains
<1>8. ~Contains(playerQueue, Gone(VideoGeneration))
  <2>1. \A m \in Sent : m \in Gone(VideoGeneration) => m = Answer("video", "ShutdownCompleted")
    BY IsAnswer DEF Gone, VideoTells, VideoGeneration
  <2>2. \A i \in DOMAIN playerQueue : playerQueue[i] \in Sent
    BY <1>3
  <2> QED BY <1>6, <2>1, <2>2 DEF Contains
<1> QED BY <1>7, <1>8 DEF o

\* The player orders its video decoder to flush, to resume or to shut down.
LEMMA OrderKeepsAnswer ==
    ASSUME TypeOK, FlushInv, AnswerInv, Alive, mFlushing["video"] # "SHUTTING_DOWN_DECODER",
           NEW w \in {"Flush", "Resume", "Shutdown"}, NEW f \in BOOLEAN,
           decoder'["video"] = Post(decoder["video"], w, f),
           mResumePending' => mResumePending \/ (mDecoder["video"] # "NULL" /\ w = "Resume" /\ f = TRUE),
           mDecoderGeneration'["video"] = mDecoderGeneration["video"],
           mDecoder'["video"] = mDecoder["video"],
           KeepsAnswer(playerQueue, playerQueue', VideoGeneration)
    PROVE  AnswerInv'
<1> DEFINE d == decoder["video"]
           e == Post(d, w, f)
           g == mDecoderGeneration["video"]
           k == mDecoder["video"]
           p == playerQueue
           q == playerQueue'
<1>1. InOrder(d) /\ Settles(p, d, g) /\ (mResumePending => Answerable(p, d, g, k))
  BY DEF AnswerInv, VideoGeneration
<1>2. KeepsAnswer(p, q, g) /\ ~Contains(d.queue, Shutdowns) /\ ~Contains(p, Gone(g))
  BY NothingShut DEF VideoGeneration
<1>3. d \in DecoderState /\ p \in Seq(PlayerMessage)
  BY DEF TypeOK, DecoderTypeOK, QueueTypeOK, Streams
<1>4. mResumePending' => mResumePending \/ (k # "NULL" /\ w = "Resume" /\ f = TRUE)
  OBVIOUS
<1>5. decoder'["video"] = e /\ mDecoderGeneration'["video"] = g /\ mDecoder'["video"] = k /\ q = playerQueue'
  OBVIOUS
<1> HIDE DEF d, g, k, p, q
<1>6. /\ InOrder(e) /\ Settles(q, e, g)
      /\ Answerable(p, d, g, k) \/ (k # "NULL" /\ w = "Resume" /\ f = TRUE) => Answerable(q, e, g, k)
  BY <1>1, <1>2, <1>3, OrderedDecoder
<1> HIDE DEF e
<1>7. mResumePending' => Answerable(q, e, g, k)
  BY <1>1, <1>4, <1>6
<1> QED BY <1>5, <1>6, <1>7, AnswerNext

-----------------------------------------------------------------------------
(* The steps and what the video decoder owes.                               *)

\* Calls of the client, messages of the source, of the renderer, and scans.
LEMMA PostsKeepAnswers ==
    ASSUME TypeOK, AnswerInv, \/ ClientStep \/ SourceStep \/ RendererLoop \/ RendererPauseTimeout
                              \/ HALTearsDown \/ ScanTimer
    PROVE  AnswerInv'
<1> DEFINE g == VideoGeneration
           q == playerQueue
<1>1. q \in Seq(PlayerMessage)
  BY DEF TypeOK, QueueTypeOK
<1>2. ASSUME NEW m \in Neutral(g), q' = Append(q, m)
      PROVE  KeepsAnswer(q, q', g)
  <2> HIDE DEF g, q
  <2> QED BY <1>1, <1>2, NeutralPost
<1>3. UNCHANGED <<looper, mResumePending, decoder, mDecoder, mDecoderGeneration>>
      /\ KeepsAnswer(q, q', g)
  <2>1. CASE ClientStep \/ SourceStep
    <3>1. /\ UNCHANGED <<looper, mResumePending, decoder, objectVars>>
          /\ \E m \in Calls : q' = Append(q, m)
      BY <2>1, CallPosts
    <3>2. Calls \subseteq Neutral(g)
      <4>1. \A m \in Calls : m \in PlayerMessage /\ m.what \notin {"ResumeCompleted", "ShutdownCompleted"}
        BY SentType DEF Calls, DecoderNotify
      <4> QED BY <4>1, NeutralMessages
    <3> QED BY <1>2, <3>1, <3>2 DEF objectVars
  <2>2. CASE RendererLoop \/ RendererPauseTimeout \/ HALTearsDown
    <3> DEFINE quiet == UNCHANGED <<looper, mResumePending, decoder, mDecoder, mDecoderGeneration>>
    <3>1. \A r, n : RendererStep(r, n) => quiet
      BY DEF RendererStep, playerVars, playerVarsButSurface, objectVars
    <3> HIDE DEF quiet
    <3>2. \A r, error : TearDown(r, error) => quiet
      BY <3>1, Zenon DEF TearDown
    <3>3. quiet
      BY <2>2, <3>1, <3>2, Zenon DEF RendererLoop, RendererFlushes, RendererPauses, RendererResumes,
        RendererClosesSink, RendererDisablesOffload, RendererTearsDown, RendererPauseTimeout, HALTearsDown
    <3>4. UNCHANGED <<looper, mResumePending, decoder, mDecoder, mDecoderGeneration>>
      BY <3>3 DEF quiet
    <3>5. PICK r \in Seq(RendererNotification) : q' = q \o r
      BY <2>2, RendererPosts
    <3>6. RendererNotification \subseteq Neutral(g)
      <4>1. \A m \in RendererNotification :
               m \in PlayerMessage /\ m.what \notin {"ResumeCompleted", "ShutdownCompleted"}
        BY DEF RendererNotification, RendererNotify
      <4> QED BY <4>1, NeutralMessages
    <3>7. r \in Seq(Neutral(g))
      BY <3>6
    <3> QED BY <1>1, <3>4, <3>5, <3>7, NeutralPosts
  <2>3. CASE ScanTimer
    <3>1. PICK t \in scanTimer :
             q' = Append(q, [Message("ScanSources", FALSE) EXCEPT !.gen = t])
      BY <2>3, Zenon DEF ScanTimer
    <3> DEFINE scan == [Message("ScanSources", FALSE) EXCEPT !.gen = t]
    <3>2. scan \in PlayerMessage /\ scan.what = "ScanSources" /\ q' = Append(q, scan)
      BY <3>1, ScanMessageType DEF TypeOK, ScanTypeOK, Message
    <3>3. UNCHANGED <<looper, mResumePending, decoder, mDecoder, mDecoderGeneration>>
      BY <2>3 DEF ScanTimer, objectVars
    <3> HIDE DEF scan
    <3>4. scan \in Neutral(g)
      BY <3>2, NeutralMessages
    <3> QED BY <1>2, <3>2, <3>3, <3>4
  <2> QED BY <2>1, <2>2, <2>3
<1> QED BY <1>3, AnswerFrame DEF Alive

\* What the receipt of a message leaves, that is not the answer of the video decoder.
LEMMA TakesNoAnswer ==
    ASSUME TypeOK, NEW w, Receive(w),
           \/ w # "ResumeCompleted"
           \/ Received.stream # "video" \/ Received.gen # mDecoderGeneration[Received.stream]
    PROVE  /\ KeepsAnswer(playerQueue, playerQueue', VideoGeneration)
           /\ looper = "idle" /\ Alive
<1>1. playerQueue \in Seq(PlayerMessage) /\ playerQueue # <<>> /\ playerQueue' = Tail(playerQueue)
  BY DEF TypeOK, QueueTypeOK, Receive
<1>2. Head(playerQueue) \notin Resumed(VideoGeneration)
  BY DEF Receive, Received, Resumed, VideoTells, VideoGeneration
<1>3. looper = "idle" /\ Alive
  BY DEF Receive, Alive, AbortStates
<1> QED BY <1>1, <1>2, <1>3, TakingKeepsAnswer

LEMMA PlainHandlerAnswers ==
    ASSUME TypeOK, AnswerInv,
           \/ OnSetDataSource \/ OnPrepare \/ OnPause \/ OnSeek \/ OnReset
           \/ OnSetVideoNativeWindowAtOnce \/ OnSetVideoNativeWindow \/ OnScanSourcesStale
           \/ OnScanSourcesWaits \/ OnSourceNotifyGone \/ OnPrepared
           \/ OnInstantiateSecureDecoders \/ OnPauseOnBufferingStart \/ OnQueueDecoderShutdown
           \/ OnNotifyStale \/ OnInputDiscontinuity \/ OnErrorIgnored \/ OnErrorWhenNotFlushing
           \/ OnErrorWhileFlushing \/ OnAudioOffloadTearDown
    PROVE  AnswerInv'
<1> USE DEF Receive, ReceiveFromDecoder, objectVars
<1> DEFINE quiet == UNCHANGED <<mResumePending, decoder, mDecoder, mDecoderGeneration>>
           takes == \E w : /\ Receive(w)
                           /\ \/ w # "ResumeCompleted"
                              \/ Received.gen # mDecoderGeneration[Received.stream]
<1>1. CASE \/ OnSetDataSource \/ OnPrepare \/ OnPause \/ OnSeek \/ OnReset
           \/ OnSetVideoNativeWindowAtOnce \/ OnSetVideoNativeWindow
  <2>1. quiet /\ takes
    BY <1>1 DEF OnSetDataSource, OnPrepare, OnPause, OnSeek, OnReset, OnSetVideoNativeWindowAtOnce,
      OnSetVideoNativeWindow
  <2> QED BY <2>1, TakesNoAnswer, AnswerFrame
<1>2. CASE \/ OnScanSourcesStale \/ OnScanSourcesWaits \/ OnSourceNotifyGone \/ OnPrepared
           \/ OnInstantiateSecureDecoders \/ OnPauseOnBufferingStart \/ OnQueueDecoderShutdown
  <2>1. quiet /\ takes
    BY <1>2 DEF OnScanSourcesStale, OnScanSourcesWaits, OnSourceNotifyGone, OnPrepared,
      OnInstantiateSecureDecoders, OnPauseOnBufferingStart, OnQueueDecoderShutdown, playerVars,
      playerVarsButSurface
  <2> QED BY <2>1, TakesNoAnswer, AnswerFrame
<1>3. CASE \/ OnInputDiscontinuity \/ OnErrorIgnored \/ OnErrorWhenNotFlushing
           \/ OnErrorWhileFlushing \/ OnAudioOffloadTearDown
  <2>1. quiet /\ takes
    BY <1>3 DEF OnInputDiscontinuity, OnErrorIgnored, OnErrorWhenNotFlushing, OnErrorWhileFlushing,
      ReceiveError, OnAudioOffloadTearDown, playerVars, playerVarsButSurface
  <2> QED BY <2>1, TakesNoAnswer, AnswerFrame
<1>4. CASE OnNotifyStale
  <2>1. quiet /\ takes
    BY <1>4 DEF OnNotifyStale, RendererNotify, playerVars, playerVarsButSurface
  <2> QED BY <2>1, TakesNoAnswer, AnswerFrame
<1> QED BY <1>1, <1>2, <1>3, <1>4

\* onStart() posts a scan behind the rest of the queue.
LEMMA StartAnswers ==
    ASSUME TypeOK, AnswerInv, OnStart
    PROVE  AnswerInv'
<1> DEFINE g == VideoGeneration
           t == Tail(playerQueue)
           scan == [Message("ScanSources", FALSE) EXCEPT !.gen = mScanSourcesGeneration]
<1>1. /\ playerQueue \in Seq(PlayerMessage) /\ playerQueue # <<>> /\ looper = "idle"
      /\ Received.what = "Start" /\ UNCHANGED <<mResumePending, decoder, mDecoder, mDecoderGeneration>>
      /\ (playerQueue' = t \/ playerQueue' = Append(t, scan))
  BY DEF OnStart, PostScanSources, TypeOK, QueueTypeOK
<1>2. scan \in PlayerMessage /\ scan.what = "ScanSources"
  BY ScanMessageType DEF TypeOK, ScanTypeOK, Message
<1>3. Head(playerQueue) \notin Resumed(g) /\ t \in Seq(PlayerMessage)
  BY <1>1 DEF Received, Resumed, VideoTells
<1> HIDE DEF scan, t
<1>4. scan \in Neutral(g)
  BY <1>2, NeutralMessages
<1>5. KeepsAnswer(playerQueue, t, g)
  BY <1>1, <1>3, TakingKeepsAnswer DEF t
<1>6. KeepsAnswer(t, Append(t, scan), g)
  BY <1>3, <1>4, NeutralPost
<1>7. KeepsAnswer(playerQueue, playerQueue', g)
  BY <1>1, <1>5, <1>6, KeepsTwice
<1>8. Alive
  BY <1>1 DEF Alive, AbortStates
<1> QED BY <1>1, <1>7, <1>8, AnswerFrame

\* The answer itself is taken: nobody waits for it any more.
LEMMA ResumeCompletedAnswers ==
    ASSUME TypeOK, AnswerInv, OnResumeCompleted
    PROVE  AnswerInv' /\ mResumePending' = FALSE
<1> DEFINE d == decoder["video"]
           g == mDecoderGeneration["video"]
           k == mDecoder["video"]
           q == Tail(playerQueue)
<1>1. /\ Receive("ResumeCompleted") /\ mResumePending' = FALSE
      /\ UNCHANGED <<decoder, mDecoder, mDecoderGeneration>>
  BY DEF OnResumeCompleted, ReceiveFromDecoder, FinishResume, objectVars
<1>2. /\ playerQueue \in Seq(PlayerMessage) /\ playerQueue # <<>> /\ playerQueue' = q
      /\ looper = "idle"
  BY <1>1 DEF TypeOK, QueueTypeOK, Receive
<1>3. InOrder(d) /\ Settles(playerQueue, d, g)
  BY <1>2 DEF AnswerInv, Alive, AbortStates, VideoGeneration
<1>4. Settles(q, d, g)
  <2>1. Contains(q, Gone(g)) => Contains(playerQueue, Gone(g))
    BY <1>2, ContainsOnlyLemma
  <2>2. NothingBehind(q, Gone(g), Resumed(g))
    BY <1>2, <1>3, NothingBehindLemma DEF Settles
  <2> QED BY <1>3, <2>1, <2>2 DEF Settles
<1>5. /\ decoder'["video"] = d /\ mDecoderGeneration'["video"] = g /\ mDecoder'["video"] = k
      /\ playerQueue' = q
  BY <1>1, <1>2
<1> HIDE DEF d, g, k, q
<1>6. AnswerInv'
  BY <1>1, <1>3, <1>4, <1>5, AnswerNext
<1> QED BY <1>1, <1>6

\* A start or the end of buffering may create an audio decoder.
LEMMA ResumeAnswers ==
    ASSUME TypeOK, AnswerInv, OnStartResumes \/ OnResumeOnBufferingEnd
    PROVE  AnswerInv'
<1>1. /\ Receive("Start") \/ Receive("ResumeOnBufferingEnd")
      /\ UNCHANGED mResumePending
      /\ Resume \/ UNCHANGED <<mDecoder, mDecoderGeneration, decoder>>
  BY DEF OnStartResumes, OnResumeOnBufferingEnd
<1>2. KeepsAnswer(playerQueue, playerQueue', VideoGeneration) /\ Alive
  BY <1>1, TakesNoAnswer
<1>3. CASE UNCHANGED <<mDecoder, mDecoderGeneration, decoder>>
  BY <1>1, <1>2, <1>3, AnswerFrame
<1>4. CASE Resume
  <2>1. \E S \in SUBSET {"audio"} : Instantiate(S, mOffloadAudio)
    BY <1>4 DEF Resume
  <2>2. PICK S \in SUBSET {"audio"} : Instantiate(S, mOffloadAudio)
    BY <2>1
  <2>3. "video" \in Streams /\ "video" \notin S
    BY DEF Streams
  <2>4. /\ decoder'["video"] = decoder["video"] /\ mDecoder'["video"] = mDecoder["video"]
        /\ mDecoderGeneration'["video"] = mDecoderGeneration["video"]
    BY <2>2, <2>3 DEF Instantiate
  <2> QED BY <1>1, <1>2, <2>4, AnswerFrame
<1> QED BY <1>1, <1>3, <1>4

\* A new decoder owes nothing and nothing is expected of it.
LEMMA NewDecoderInOrder ==
    ASSUME NEW b
    PROVE  InOrder(NewDecoder(b)) /\ InOrder(NoDecoder) /\ NoDecoder.queue = <<>>
           /\ NoDecoder.resumePending = FALSE
<1> DEFINE c == [what |-> "Configure", flag |-> FALSE]
<1>1. c \notin Shutdowns
  BY DEF Shutdowns
<1>2. NewDecoder(b).queue = <<c>> /\ NewDecoder(b).resumePending = FALSE
  BY DEF NewDecoder
<1> HIDE DEF c
<1>3. NothingBehind(<<c>>, Shutdowns, DecoderMessage) /\ NothingBehind(<<c>>, DecoderMessage, Configures)
  BY DEF NothingBehind
<1>4. NoDecoder.queue = <<>> /\ NoDecoder.resumePending = FALSE
  BY DEF NoDecoder
<1>5. NothingBehind(<<>>, Shutdowns, DecoderMessage) /\ NothingBehind(<<>>, DecoderMessage, Configures)
  BY DEF NothingBehind
<1> QED BY <1>2, <1>3, <1>4, <1>5 DEF InOrder

\* No message of a video decoder that is yet to come is on its way.
LEMMA NothingOfTheNext ==
    ASSUME TypeOK, NothingAhead, NEW q \in Seq(Sent)
    PROVE  /\ ~Contains(q, Gone(mDecoderGeneration["video"] + 1))
           /\ ~Contains(q, Resumed(mDecoderGeneration["video"] + 1))
<1> DEFINE g == mDecoderGeneration["video"] + 1
<1>1. \A m \in Sent : m \notin Gone(g) /\ m \notin Resumed(g)
  <2>1. mDecoderGeneration["video"] \in Nat
    BY DEF TypeOK, ObjectTypeOK, Streams
  <2> QED BY <2>1 DEF Sent, Gone, Resumed, VideoTells, DecoderNotify
<1>2. \A i \in DOMAIN q : q[i] \in Sent
  OBVIOUS
<1> HIDE DEF g
<1>3. ~Contains(q, Gone(g)) /\ ~Contains(q, Resumed(g))
  BY <1>1, <1>2 DEF Contains
<1> QED BY <1>3 DEF g

LEMMA NextDecoderAnswers ==
    ASSUME TypeOK, NothingAhead, NEW d, InOrder(d),
           decoder'["video"] = d, mDecoderGeneration'["video"] = mDecoderGeneration["video"] + 1,
           playerQueue' \in Seq(Sent), ~mResumePending'
    PROVE  AnswerInv'
<1> DEFINE g == mDecoderGeneration["video"] + 1
           k == mDecoder'["video"]
           q == playerQueue'
<1>1. ~Contains(q, Gone(g))
  BY NothingOfTheNext
<1>2. decoder'["video"] = d /\ mDecoderGeneration'["video"] = g /\ mDecoder'["video"] = k /\ q = playerQueue'
  OBVIOUS
<1> HIDE DEF g, k, q
<1>3. Settles(q, d, g)
  BY <1>1 DEF Settles, Contains, NothingBehind
<1> QED BY <1>2, <1>3, AnswerNext

LEMMA ScanAnswers ==
    ASSUME TypeOK, FlushInv, AnswerInv, OnScanSources
    PROVE  AnswerInv'
<1>1. Receive("ScanSources") /\ UNCHANGED mResumePending
  BY DEF OnScanSources
<1>2. KeepsAnswer(playerQueue, playerQueue', VideoGeneration) /\ Alive
  BY <1>1, TakesNoAnswer
<1>3. PICK S \in SUBSET Streams :
         (\E offload : Instantiate(S, offload)) /\ (\A s \in S : mDecoder[s] = "NULL")
  <2>1. \E found \in SUBSET Formats : \E offload :
           Instantiate({s \in found : /\ mDecoder[s] = "NULL" /\ (s = "video" => mNativeWindow)}, offload)
    BY Zenon DEF OnScanSources
  <2>2. PICK found \in SUBSET Formats : \E offload :
           Instantiate({s \in found : /\ mDecoder[s] = "NULL" /\ (s = "video" => mNativeWindow)}, offload)
    BY <2>1
  <2> DEFINE M == {s \in found : /\ mDecoder[s] = "NULL" /\ (s = "video" => mNativeWindow)}
  <2>3. M \in SUBSET Streams /\ \A s \in M : mDecoder[s] = "NULL"
    BY FormatsAssumption
  <2>4. \E offload : Instantiate(M, offload)
    BY <2>2
  <2> HIDE DEF M
  <2> QED BY <2>3, <2>4
<1>4. "video" \in Streams
  BY DEF Streams
<1>5. CASE "video" \notin S
  <2>1. /\ decoder'["video"] = decoder["video"] /\ mDecoder'["video"] = mDecoder["video"]
        /\ mDecoderGeneration'["video"] = mDecoderGeneration["video"]
    BY <1>3, <1>4, <1>5 DEF Instantiate
  <2> QED BY <1>1, <1>2, <2>1, AnswerFrame
<1>6. CASE "video" \in S
  <2>1. /\ \E b : decoder'["video"] = NewDecoder(b)
        /\ mDecoderGeneration'["video"] = mDecoderGeneration["video"] + 1
    BY <1>3, <1>4, <1>6 DEF Instantiate
  <2>2. ~mResumePending'
    BY <1>1, <1>2, <1>3, <1>6 DEF AnswerInv, Answerable
  <2>3. NothingAhead /\ playerQueue' \in Seq(Sent)
    BY <1>1, Taken DEF FlushInv
  <2> QED BY <2>1, <2>2, <2>3, NewDecoderInOrder, NextDecoderAnswers
<1> QED BY <1>5, <1>6

\* A flush completes: the decoder may be ordered to shut down.
LEMMA FlushCompletedAnswers ==
    ASSUME TypeOK, FlushInv, AnswerInv,
           \/ OnFlushCompleted \/ OnRendererFlushComplete \/ OnErrorWhenFlushed
    PROVE  AnswerInv'
<1>1. /\ Receive("FlushCompleted") \/ Receive("RendererFlushComplete") \/ Receive("Error")
      /\ UNCHANGED <<mResumePending, mDecoder, mDecoderGeneration>>
  BY DEF OnFlushCompleted, OnRendererFlushComplete, OnErrorWhenFlushed, ReceiveError, ReceiveFromDecoder,
    objectVars
<1>2. KeepsAnswer(playerQueue, playerQueue', VideoGeneration) /\ Alive
  BY <1>1, TakesNoAnswer
<1>3. PICK s \in Streams : s = Received.stream
  <2>1. playerQueue \in Seq(PlayerMessage) /\ playerQueue # <<>>
    BY <1>1 DEF Receive, TypeOK, QueueTypeOK
  <2>2. Received \in PlayerMessage
    BY <2>1 DEF Received
  <2> QED BY <2>2 DEF PlayerMessage
<1>4. \/ UNCHANGED decoder
      \/ /\ decoder' = [decoder EXCEPT ![s] = Post(@, "Shutdown", FALSE)]
         /\ mFlushing[s] # "SHUTTING_DOWN_DECODER"
  <2>1. ASSUME NEW party, HandleFlushComplete(s, party)
        PROVE  \/ UNCHANGED decoder
               \/ /\ decoder' = [decoder EXCEPT ![s] = Post(@, "Shutdown", FALSE)]
                  /\ mFlushing[s] = "FLUSHING_DECODER_SHUTDOWN"
    BY <2>1, Zenon DEF HandleFlushComplete
  <2>2. OnFlushCompleted \/ OnRendererFlushComplete => \E party : HandleFlushComplete(s, party)
    BY <1>3 DEF OnFlushCompleted, OnRendererFlushComplete
  <2>3. OnErrorWhenFlushed =>
          /\ decoder' = [decoder EXCEPT ![s] = Post(@, "Shutdown", FALSE)]
          /\ mFlushing[s] = "FLUSHED"
    BY <1>3 DEF OnErrorWhenFlushed
  <2> QED BY <2>1, <2>2, <2>3
<1>5. decoder \in [Streams -> DecoderState] /\ "video" \in Streams
  BY DEF TypeOK, DecoderTypeOK, Streams
<1>6. CASE decoder'["video"] = decoder["video"]
  BY <1>1, <1>2, <1>6, AnswerFrame
<1>7. CASE decoder'["video"] # decoder["video"]
  <2>1. s = "video" /\ decoder'["video"] = Post(decoder["video"], "Shutdown", FALSE)
        /\ mFlushing["video"] # "SHUTTING_DOWN_DECODER"
    BY <1>4, <1>5, <1>7
  <2> QED BY <1>1, <1>2, <2>1, OrderKeepsAnswer
<1> QED BY <1>6, <1>7

\* A video decoder that is gone owes nothing, and nobody waits for it.
LEMMA ShutdownCompletedAnswers ==
    ASSUME TypeOK, FlushInv, AnswerInv, OnShutdownCompleted
    PROVE  AnswerInv'
<1>1. /\ Receive("ShutdownCompleted") /\ Received.gen = mDecoderGeneration[Received.stream]
      /\ UNCHANGED mResumePending
      /\ mDecoder' = [mDecoder EXCEPT ![Received.stream] = "NULL"]
      /\ mDecoderGeneration' = [mDecoderGeneration EXCEPT ![Received.stream] = @ + 1]
      /\ decoder' = [decoder EXCEPT ![Received.stream] = NoDecoder]
  BY DEF OnShutdownCompleted, ReceiveFromDecoder
<1>2. KeepsAnswer(playerQueue, playerQueue', VideoGeneration) /\ Alive
  BY <1>1, TakesNoAnswer
<1>3. /\ playerQueue \in Seq(PlayerMessage) /\ playerQueue # <<>> /\ playerQueue' = Tail(playerQueue)
      /\ Received \in PlayerMessage
  BY <1>1 DEF Receive, Received, TypeOK, QueueTypeOK
<1>4. /\ decoder \in [Streams -> DecoderState] /\ mDecoder \in [Streams -> DecoderKinds]
      /\ mDecoderGeneration \in [Streams -> Nat] /\ "video" \in Streams
  BY DEF TypeOK, DecoderTypeOK, ObjectTypeOK, Streams
<1>5. CASE Received.stream # "video"
  <2>1. /\ decoder'["video"] = decoder["video"] /\ mDecoder'["video"] = mDecoder["video"]
        /\ mDecoderGeneration'["video"] = mDecoderGeneration["video"]
    BY <1>1, <1>4, <1>5
  <2> QED BY <1>1, <1>2, <2>1, AnswerFrame
<1>6. CASE Received.stream = "video"
  <2> DEFINE g == VideoGeneration
             d == decoder["video"]
             q == playerQueue
  <2>1. Head(q) \in Gone(g) /\ q \in Seq(PlayerMessage) /\ q # <<>>
    BY <1>1, <1>3, <1>6 DEF Receive, Received, Gone, VideoTells, VideoGeneration
  <2>2. Settles(q, d, g) /\ (mResumePending => Answerable(q, d, g, mDecoder["video"]))
    BY <1>2 DEF AnswerInv
  <2> HIDE DEF g, d, q
  <2>3. Contains(q, Gone(g))
    BY <2>1 DEF Contains
  <2>4. ~Owing(d)
    BY <2>2, <2>3 DEF Settles, Owing, Contains
  <2>5. ~Contains(Tail(q), Resumed(g))
    BY <2>1, <2>2, NothingBehindLemma DEF Settles
  <2>6. Head(q) \notin Resumed(g)
    BY <2>1 DEF Gone, Resumed, VideoTells
  <2>7. ~Contains(q, Resumed(g))
    BY <2>1, <2>5, <2>6, ContainsLemma
  <2>8. ~mResumePending'
    BY <1>1, <2>2, <2>4, <2>7 DEF Answerable
  <2>9. /\ decoder'["video"] = NoDecoder
        /\ mDecoderGeneration'["video"] = mDecoderGeneration["video"] + 1
    BY <1>1, <1>4, <1>6
  <2>10. NothingAhead /\ playerQueue' \in Seq(Sent)
    BY <1>1, Taken DEF FlushInv
  <2> QED BY <2>8, <2>9, <2>10, NewDecoderInOrder, NextDecoderAnswers
<1> QED BY <1>5, <1>6

-----------------------------------------------------------------------------
(* The deferred actions and the answers.                                    *)

LEMMA OutdatedOwes ==
    ASSUME NEW d \in DecoderState
    PROVE  Outdated(d).queue = d.queue /\ Outdated(d).resumePending = d.resumePending
  BY DEF Outdated, DecoderState

\* The source seeks, or is asked to scan, or the surface is set, or the player is reset.
LEMMA PlainActionAnswers ==
    ASSUME TypeOK, AnswerInv,
           \/ DeferredDone \/ PerformSeek \/ PerformSetSurface \/ PerformScanSources
           \/ PerformPostMessage \/ PerformReset \/ OnAudioSinkClosed
    PROVE  AnswerInv'
<1>1. looper \in {"deferred", "tearError", "tearTimeout"} /\ UNCHANGED mResumePending
  BY DEF DeferredDone, PerformSeek, PerformSetSurface, PerformScanSources, PerformPostMessage, PerformReset,
    OnAudioSinkClosed, Execute
<1>2. Alive /\ "video" \in Streams /\ decoder["video"] \in DecoderState
  BY <1>1 DEF Alive, AbortStates, Streams, TypeOK, DecoderTypeOK
<1>3. mDecoder'["video"] = mDecoder["video"] /\ mDecoderGeneration'["video"] = mDecoderGeneration["video"]
  BY <1>2 DEF DeferredDone, PerformSeek, PerformSetSurface, PerformScanSources, PerformPostMessage,
    PerformReset, OnAudioSinkClosed, objectVars, TypeOK, ObjectTypeOK
<1>4. decoder'["video"] = decoder["video"] \/ decoder'["video"] = Outdated(decoder["video"])
  <2>1. CASE DeferredDone \/ PerformSetSurface \/ PerformScanSources \/ PerformPostMessage \/ PerformReset
    BY <2>1 DEF DeferredDone, PerformSetSurface, PerformScanSources, PerformPostMessage, PerformReset
  <2>2. CASE PerformSeek
    BY <1>2, <2>2 DEF PerformSeek
  <2>3. CASE OnAudioSinkClosed
    <3>1. \E x : decoder' = [decoder EXCEPT !["audio"] = x, !["video"] = Outdated(@)]
      BY <2>3 DEF OnAudioSinkClosed
    <3> QED BY <1>2, <3>1 DEF TypeOK, DecoderTypeOK
  <2> QED BY <2>1, <2>2, <2>3
<1>5. /\ decoder'["video"].queue = decoder["video"].queue
      /\ decoder'["video"].resumePending = decoder["video"].resumePending
  BY <1>2, <1>4, OutdatedOwes
<1>6. KeepsAnswer(playerQueue, playerQueue', VideoGeneration)
  <2>1. CASE UNCHANGED playerQueue
    BY <2>1, SameQueueKeeps
  <2>2. CASE PerformScanSources /\ playerQueue' # playerQueue
    <3> DEFINE scan == [Message("ScanSources", FALSE) EXCEPT !.gen = mScanSourcesGeneration]
               g == VideoGeneration
    <3>1. playerQueue' = Append(playerQueue, scan) /\ playerQueue \in Seq(PlayerMessage)
      BY <2>2 DEF PerformScanSources, PostScanSources, TypeOK, QueueTypeOK
    <3>2. scan \in PlayerMessage /\ scan.what = "ScanSources"
      BY ScanMessageType DEF TypeOK, ScanTypeOK, Message
    <3> HIDE DEF scan, g
    <3>3. scan \in Neutral(g)
      BY <3>2, NeutralMessages
    <3> QED BY <3>1, <3>3, NeutralPost DEF g
  <2> QED BY <2>1, <2>2 DEF DeferredDone, PerformSeek, PerformSetSurface, PerformPostMessage,
         PerformReset, OnAudioSinkClosed
<1> QED BY <1>1, <1>2, <1>3, <1>5, <1>6, AnswerFrame

\* The decoders are ordered to flush, or to resume and to tell so.
LEMMA OrderingActionAnswers ==
    ASSUME TypeOK, FlushInv, AnswerInv, PerformDecoderFlush \/ PerformResumeDecoders
    PROVE  AnswerInv'
<1>1. /\ looper = "deferred" /\ NotFlushing
      /\ UNCHANGED <<playerQueue, mDecoder, mDecoderGeneration>>
  BY DEF PerformDecoderFlush, PerformResumeDecoders, Execute, objectVars
<1>2. /\ Alive /\ "video" \in Streams /\ mFlushing["video"] # "SHUTTING_DOWN_DECODER"
      /\ KeepsAnswer(playerQueue, playerQueue', VideoGeneration)
  BY <1>1, SameQueueKeeps DEF Alive, AbortStates, Streams, NotFlushing, AllNone
<1>3. CASE PerformDecoderFlush
  <2>1. UNCHANGED mResumePending
    BY <1>3 DEF PerformDecoderFlush
  <2>2. decoder'["video"] = decoder["video"] \/ decoder'["video"] = Post(decoder["video"], "Flush", FALSE)
    BY <1>2, <1>3 DEF PerformDecoderFlush
  <2> QED BY <1>1, <1>2, <2>1, <2>2, AnswerFrame, OrderKeepsAnswer
<1>4. CASE PerformResumeDecoders
  <2>1. AwaitResume(Next1.flag) /\ Next1.flag \in BOOLEAN
    <3>1. Execute("ResumeDecoder") /\ AwaitResume(Next1.flag)
      BY <1>4 DEF PerformResumeDecoders
    <3>2. mDeferredActions \in Seq(DeferredAction) /\ mDeferredActions # <<>>
      BY <3>1 DEF Execute, TypeOK, DeferredTypeOK
    <3>3. Next1 \in DeferredAction
      BY <3>2 DEF Next1
    <3> QED BY <3>1, <3>3 DEF DeferredAction
  <2>2. CASE mDecoder["video"] = "NULL"
    <3>1. decoder'["video"] = decoder["video"]
      BY <1>2, <1>4, <2>2 DEF PerformResumeDecoders
    <3>2. mResumePending' => mResumePending
      BY <2>1, <2>2 DEF AwaitResume, FinishResume
    <3> QED BY <1>1, <1>2, <3>1, <3>2, AnswerFrame
  <2>3. CASE mDecoder["video"] # "NULL"
    <3>1. decoder'["video"] = Post(decoder["video"], "Resume", Next1.flag)
      BY <1>2, <1>4, <2>1, <2>3 DEF PerformResumeDecoders
    <3>2. mResumePending' => mResumePending \/ Next1.flag = TRUE
      BY <2>1, <2>3 DEF AwaitResume
    <3> QED BY <1>1, <1>2, <2>1, <2>3, <3>1, <3>2, OrderKeepsAnswer
  <2> QED BY <2>2, <2>3
<1> QED BY <1>3, <1>4

-----------------------------------------------------------------------------
(* The decoders and the answers.                                            *)

Own(s) == {m \in PlayerMessage : m.stream = s /\ m.what \in DecoderNotify}

LEMMA Notifications ==
    ASSUME TypeOK, NEW s \in Streams
    PROVE  \A w \in DecoderNotify, f \in BOOLEAN :
              /\ Notify(s, w, f) \in Own(s) /\ <<Notify(s, w, f)>> \in Seq(Own(s))
              /\ Notify(s, w, f).what = w /\ Notify(s, w, f).gen = mDecoderGeneration[s]
<1> SUFFICES ASSUME NEW w \in DecoderNotify, NEW f \in BOOLEAN
             PROVE  /\ Notify(s, w, f) \in Own(s) /\ <<Notify(s, w, f)>> \in Seq(Own(s))
                    /\ Notify(s, w, f).what = w /\ Notify(s, w, f).gen = mDecoderGeneration[s]
  OBVIOUS
<1>1. mDecoderGeneration[s] \in Nat /\ w \in PlayerWhat
  BY DEF TypeOK, ObjectTypeOK, DecoderNotify, PlayerWhat
<1>2. /\ Notify(s, w, f) \in PlayerMessage /\ Notify(s, w, f).stream = s
      /\ Notify(s, w, f).what = w /\ Notify(s, w, f).gen = mDecoderGeneration[s]
  BY <1>1, NotificationType DEF Notify, Notification
<1>3. \A m \in Own(s) : <<m>> \in Seq(Own(s))
  OBVIOUS
<1> QED BY <1>2, <1>3 DEF Own

LEMMA StepFacts ==
    ASSUME TypeOK, NEW s \in Streams, NEW d, NEW r, DecoderStep(s, d, r)
    PROVE  /\ decoder'[s] = d /\ \A t \in Streams : t # s => decoder'[t] = decoder[t]
           /\ playerQueue' = playerQueue \o r
           /\ UNCHANGED <<looper, mResumePending, mDecoder, mDecoderGeneration>>
  BY DEF DecoderStep, TypeOK, DecoderTypeOK, playerVars, playerVarsButSurface, objectVars

\* What a decoder tells is of its stream.
LEMMA OwnPosts ==
    ASSUME TypeOK, NEW s \in Streams,
           DecoderMessageStep(s) \/ DecoderPulls(s) \/ DecoderOutputs(s)
             \/ DecoderFails(s) \/ PassThroughDiscontinuity(s)
    PROVE  \E d : \E r \in Seq(Own(s)) : DecoderStep(s, d, r)
<1> DEFINE posts(r) == \E d : DecoderStep(s, d, r)
           error(ok) == IF ok THEN <<>> ELSE <<Notify(s, "Error", FALSE)>>
           gone == <<Notify(s, "ShutdownCompleted", FALSE)>>
<1>1. /\ <<>> \in Seq(Own(s))
      /\ \A f \in BOOLEAN : <<Notify(s, "Error", f)>> \in Seq(Own(s))
      /\ <<Notify(s, "InputDiscontinuity", FALSE)>> \in Seq(Own(s))
      /\ <<Notify(s, "ResumeCompleted", FALSE)>> \in Seq(Own(s))
      /\ <<Notify(s, "FlushCompleted", FALSE)>> \in Seq(Own(s)) /\ gone \in Seq(Own(s))
  <2>1. <<>> \in Seq(Own(s))
    OBVIOUS
  <2> QED BY <2>1, Notifications DEF DecoderNotify
<1>2. \A ok : error(ok) \in Seq(Own(s))
  BY <1>1
<1>3. ResumeCompletedIfPending(s) \in Seq(Own(s))
  BY <1>1 DEF ResumeCompletedIfPending
<1>4. \A d, r : DecoderStep(s, d, r) => posts(r)
  OBVIOUS
<1> HIDE DEF posts
<1>5. \E r \in Seq(Own(s)) : posts(r)
  <2>1. CASE DecoderConfigures(s)
    <3>1. \E r \in {<<>>, <<Notify(s, "Error", FALSE)>>, <<Notify(s, "Error", TRUE)>>} : posts(r)
      BY <1>4, <2>1, Zenon DEF DecoderConfigures
    <3> QED BY <1>1, <3>1
  <2>2. CASE PassThroughConfigures(s) \/ DecoderResumes(s) \/ DecoderPulls(s)
    <3>1. posts(<<>>)
      BY <1>4, <2>2, Zenon DEF PassThroughConfigures, DecoderResumes, DecoderPulls
    <3> QED BY <1>1, <3>1
  <2>3. CASE DecoderFlushes(s)
    <3>1. PICK ok \in BOOLEAN : posts(error(ok) \o <<Notify(s, "FlushCompleted", FALSE)>>)
      BY <1>4, <2>3, Zenon DEF DecoderFlushes, FlushAnswers
    <3> HIDE DEF error
    <3>2. error(ok) \o <<Notify(s, "FlushCompleted", FALSE)>> \in Seq(Own(s))
      BY <1>1, <1>2, ConcatenationType, Zenon
    <3> QED BY <3>1, <3>2, Zenon
  <2>4. CASE DecoderShutsDown(s)
    <3>1. PICK ok \in BOOLEAN : posts((ResumeCompletedIfPending(s) \o error(ok)) \o gone)
      BY <1>4, <2>4, Zenon DEF DecoderShutsDown
    <3> HIDE DEF error, gone
    <3>2. ResumeCompletedIfPending(s) \o error(ok) \in Seq(Own(s))
      BY <1>2, <1>3, ConcatenationType, Zenon
    <3>3. (ResumeCompletedIfPending(s) \o error(ok)) \o gone \in Seq(Own(s))
      BY <1>1, <3>2, ConcatenationType, Zenon
    <3> QED BY <3>1, <3>3, Zenon
  <2>5. CASE DecoderOutputs(s)
    <3>1. posts(ResumeCompletedIfPending(s))
      BY <1>4, <2>5, Zenon DEF DecoderOutputs
    <3> QED BY <1>3, <3>1, Zenon
  <2>6. CASE DecoderFails(s)
    <3>1. posts(<<Notify(s, "Error", FALSE)>>)
      BY <1>4, <2>6, Zenon DEF DecoderFails
    <3> QED BY <1>1, <3>1
  <2>7. CASE PassThroughDiscontinuity(s)
    <3>1. posts(<<Notify(s, "InputDiscontinuity", FALSE)>>)
      BY <1>4, <2>7, Zenon DEF PassThroughDiscontinuity
    <3> QED BY <1>1, <3>1
  <2> QED BY <2>1, <2>2, <2>3, <2>4, <2>5, <2>6, <2>7 DEF DecoderMessageStep
<1> QED BY <1>5 DEF posts

LEMMA OtherDecoderAnswers ==
    ASSUME TypeOK, AnswerInv, NEW s \in Streams, s # "video",
           DecoderMessageStep(s) \/ DecoderPulls(s) \/ DecoderOutputs(s)
             \/ DecoderFails(s) \/ PassThroughDiscontinuity(s)
    PROVE  AnswerInv'
<1>1. PICK d : \E r \in Seq(Own(s)) : DecoderStep(s, d, r)
  BY OwnPosts
<1>2. PICK r \in Seq(Own(s)) : DecoderStep(s, d, r)
  BY <1>1
<1> DEFINE g == VideoGeneration
           q == playerQueue
<1>3. /\ "video" \in Streams /\ decoder'["video"] = decoder["video"] /\ q' = q \o r
      /\ UNCHANGED <<looper, mResumePending, mDecoder, mDecoderGeneration>>
  BY <1>2, StepFacts DEF Streams
<1>4. q \in Seq(PlayerMessage)
  BY DEF TypeOK, QueueTypeOK
<1> HIDE DEF g, q
<1>5. Own(s) \subseteq Neutral(g)
  BY NeutralMessages DEF Own
<1>6. r \in Seq(Neutral(g))
  BY <1>5
<1>7. KeepsAnswer(q, q', g)
  BY <1>3, <1>4, <1>6, NeutralPosts
<1> QED BY <1>3, <1>7, AnswerFrame DEF Alive, g, q

\* The video decoder takes an order that is not to shut down.
LEMMA VideoOrder ==
    ASSUME NEW p \in Seq(PlayerMessage), NEW g, NEW r \in Seq(Neutral(g)), NEW k,
           NEW d \in DecoderState, d.queue # <<>>, InOrder(d), Settles(p, d, g),
           NEW e, e.queue = Tail(d.queue), d.resumePending = TRUE => e.resumePending = TRUE,
           Head(d.queue) \in ResumeOrders => e.resumePending = TRUE
    PROVE  /\ InOrder(e) /\ Settles(p \o r, e, g)
           /\ Answerable(p, d, g, k) => Answerable(p \o r, e, g, k)
<1>1. /\ NothingBehind(e.queue, Shutdowns, DecoderMessage)
      /\ NothingBehind(e.queue, DecoderMessage, Configures)
      /\ ~Contains(e.queue, Configures)
      /\ Contains(d.queue, ResumeOrders) /\ Head(d.queue) \notin ResumeOrders
           => Contains(e.queue, ResumeOrders)
  BY TakenInOrder
<1>2. KeepsAnswer(p, p \o r, g)
  BY NeutralPosts
<1>3. Settles(p \o r, e, g)
  BY <1>2 DEF Settles, KeepsAnswer
<1>4. Owing(d) => Owing(e)
  BY <1>1 DEF Owing
<1> QED BY <1>1, <1>2, <1>3, <1>4 DEF InOrder, Answerable, KeepsAnswer

LEMMA VideoTakesOrder ==
    ASSUME TypeOK, AnswerInv, NEW e, NEW r \in Seq(Neutral(VideoGeneration)),
           DecoderStep("video", e, r), decoder["video"].queue # <<>>,
           e.queue = Tail(decoder["video"].queue),
           InOrder(decoder["video"]) =>
             /\ decoder["video"].resumePending = TRUE => e.resumePending = TRUE
             /\ Head(decoder["video"].queue) \in ResumeOrders => e.resumePending = TRUE
    PROVE  AnswerInv'
<1> DEFINE d == decoder["video"]
           g == mDecoderGeneration["video"]
           k == mDecoder["video"]
           p == playerQueue
<1>1. "video" \in Streams /\ d \in DecoderState /\ p \in Seq(PlayerMessage)
  BY DEF Streams, TypeOK, DecoderTypeOK, QueueTypeOK
<1>2. /\ decoder'["video"] = e /\ mDecoderGeneration'["video"] = g /\ mDecoder'["video"] = k
      /\ playerQueue' = p \o r /\ UNCHANGED <<mResumePending, looper>>
  BY <1>1, StepFacts
<1>3. Alive => InOrder(d) /\ Settles(p, d, g) /\ (mResumePending => Answerable(p, d, g, k))
  BY DEF AnswerInv, VideoGeneration
<1>4. r \in Seq(Neutral(g))
  BY DEF VideoGeneration
<1> HIDE DEF g, k, p
<1>5. InOrder(d) /\ Settles(p, d, g) =>
        /\ InOrder(e) /\ Settles(p \o r, e, g)
        /\ Answerable(p, d, g, k) => Answerable(p \o r, e, g, k)
  BY <1>1, <1>4, VideoOrder
<1> HIDE DEF d
<1>6. Alive' => InOrder(e) /\ Settles(playerQueue', e, g)
                /\ (mResumePending' => Answerable(playerQueue', e, g, k))
  BY <1>2, <1>3, <1>5 DEF Alive
<1> QED BY <1>2, <1>6, AnswerNext

\* It goes on with nothing of its orders.
LEMMA VideoGoesOn ==
    ASSUME TypeOK, AnswerInv, NEW e, NEW r \in Seq(Neutral(VideoGeneration)),
           DecoderStep("video", e, r), e.queue = decoder["video"].queue,
           e.resumePending = decoder["video"].resumePending
    PROVE  AnswerInv'
<1>1. "video" \in Streams /\ playerQueue \in Seq(PlayerMessage)
  BY DEF Streams, TypeOK, QueueTypeOK
<1>2. /\ decoder'["video"] = e /\ playerQueue' = playerQueue \o r
      /\ UNCHANGED <<looper, mResumePending, mDecoder, mDecoderGeneration>>
  BY <1>1, StepFacts
<1>3. KeepsAnswer(playerQueue, playerQueue \o r, VideoGeneration)
  BY <1>1, NeutralPosts
<1> QED BY <1>2, <1>3, AnswerFrame DEF Alive

\* The steps of the video decoder that tell the player nothing of the answer.
LEMMA VideoTakesAnswers ==
    ASSUME TypeOK, AnswerInv,
           \/ DecoderConfigures("video") \/ PassThroughConfigures("video")
           \/ DecoderFlushes("video") \/ DecoderResumes("video")
    PROVE  AnswerInv'
<1> DEFINE d == decoder["video"]
           h == Handled(d)
           N == Neutral(VideoGeneration)
<1>1. "video" \in Streams /\ d \in DecoderState
  BY DEF Streams, TypeOK, DecoderTypeOK
<1>2. d.queue # <<>> /\ Head(d.queue).what \in {"Configure", "Flush", "Resume"}
  BY DEF DecoderConfigures, PassThroughConfigures, DecoderFlushes, DecoderResumes, DecoderReceives
<1>3. /\ h \in DecoderState /\ h.queue = Tail(d.queue) /\ h.resumePending = d.resumePending
      /\ Head(d.queue) \in DecoderMessage /\ Head(d.queue).flag \in BOOLEAN
      /\ d.queue \in Seq(DecoderMessage) /\ d.resumePending \in BOOLEAN
  <2>1. h \in DecoderState /\ Head(d.queue).flag \in BOOLEAN
    BY <1>1, <1>2, HandledType
  <2>2. h.queue = Tail(d.queue) /\ h.resumePending = d.resumePending
    BY <1>1 DEF Handled, DecoderState
  <2>3. d.queue \in Seq(DecoderMessage) /\ d.resumePending \in BOOLEAN
    BY <1>1 DEF DecoderState
  <2> QED BY <1>2, <2>1, <2>2, <2>3
<1>4. /\ <<>> \in Seq(N)
      /\ \A f \in BOOLEAN : <<Notify("video", "Error", f)>> \in Seq(N)
      /\ <<Notify("video", "FlushCompleted", FALSE)>> \in Seq(N)
  <2>1. <<>> \in Seq(N) /\ \A m \in N : <<m>> \in Seq(N)
    OBVIOUS
  <2>2. \A w \in {"Error", "FlushCompleted"}, f \in BOOLEAN : Notify("video", w, f) \in N
    BY <1>1, Notifications, NeutralMessages DEF DecoderNotify, Own
  <2> QED BY <2>1, <2>2
<1> HIDE DEF N, h
<1>5. CASE DecoderConfigures("video")
  <2> DEFINE c == [h EXCEPT !.codec = TRUE, !.paused = FALSE, !.resumePending = FALSE]
  <2>1. \E e \in {c, h} : \E r \in Seq(N) : DecoderStep("video", e, r)
    <3> HIDE DEF d
    <3>1. \/ DecoderStep("video", c, <<>>)
          \/ DecoderStep("video", h, <<Notify("video", "Error", FALSE)>>)
          \/ DecoderStep("video", h, <<Notify("video", "Error", TRUE)>>)
      BY <1>5, Zenon DEF DecoderConfigures, h, d
    <3> QED BY <1>4, <3>1
  <2>2. PICK e \in {c, h} : \E r \in Seq(N) : DecoderStep("video", e, r)
    BY <2>1
  <2>3. c.queue = h.queue /\ c.resumePending = FALSE
    BY <1>3 DEF DecoderState
  <2>4. Head(d.queue) \in Configures /\ Head(d.queue) \notin ResumeOrders
    BY <1>3, <1>5 DEF DecoderConfigures, DecoderReceives, Configures, ResumeOrders
  <2>5. InOrder(d) => d.resumePending = FALSE
    BY <1>2, <1>3, <2>4, ContainsOnlyLemma DEF InOrder
  <2> HIDE DEF c
  <2>6. e.queue = Tail(d.queue)
    BY <1>3, <2>2, <2>3
  <2> QED BY <1>2, <2>2, <2>4, <2>5, <2>6, VideoTakesOrder DEF N
<1>6. CASE PassThroughConfigures("video")
  <2> DEFINE e == [h EXCEPT !.codec = TRUE]
  <2>1. DecoderStep("video", e, <<>>)
    BY <1>6 DEF PassThroughConfigures, h
  <2>2. e.queue = Tail(d.queue) /\ e.resumePending = d.resumePending
    BY <1>3 DEF DecoderState
  <2>3. Head(d.queue) \notin ResumeOrders
    BY <1>6 DEF PassThroughConfigures, DecoderReceives, ResumeOrders
  <2> HIDE DEF e
  <2> QED BY <1>2, <1>4, <2>1, <2>2, <2>3, VideoTakesOrder DEF N
<1>7. CASE DecoderFlushes("video")
  <2> DEFINE e == [h EXCEPT !.data = "none", !.paused = TRUE]
  <2>1. PICK ok \in BOOLEAN : DecoderStep("video", e, FlushAnswers("video", ok))
    BY <1>7 DEF DecoderFlushes, h
  <2>2. e.queue = Tail(d.queue) /\ e.resumePending = d.resumePending
    BY <1>3 DEF DecoderState
  <2>3. Head(d.queue) \notin ResumeOrders
    BY <1>7 DEF DecoderFlushes, DecoderReceives, ResumeOrders
  <2> HIDE DEF e
  <2>4. FlushAnswers("video", ok) \in Seq(N)
    BY <1>4, ConcatenationType DEF FlushAnswers
  <2> QED BY <1>2, <2>1, <2>2, <2>3, <2>4, VideoTakesOrder DEF N
<1>8. CASE DecoderResumes("video")
  <2> DEFINE f == Head(d.queue).flag
             e == [h EXCEPT !.paused = FALSE, !.resumePending = @ \/ f]
  <2>1. DecoderStep("video", e, <<>>)
    BY <1>8 DEF DecoderResumes, h
  <2>2. e.queue = Tail(d.queue) /\ e.resumePending = (h.resumePending \/ f)
    <3> HIDE DEF f, d
    <3> QED BY <1>3 DEF DecoderState
  <2>3. (d.resumePending = TRUE => e.resumePending = TRUE) /\ (f = TRUE => e.resumePending = TRUE)
    <3>1. e.resumePending = (d.resumePending \/ f) /\ d.resumePending \in BOOLEAN /\ f \in BOOLEAN
      BY <1>3, <2>2
    <3> HIDE DEF e, d, f
    <3> QED BY <3>1
  <2>4. Head(d.queue) \in ResumeOrders => f = TRUE
    BY <1>3 DEF ResumeOrders
  <2> HIDE DEF e, f
  <2> QED BY <1>2, <1>4, <2>1, <2>2, <2>3, <2>4, VideoTakesOrder DEF N
<1> QED BY <1>5, <1>6, <1>7, <1>8

LEMMA VideoGoesOnAnswers ==
    ASSUME TypeOK, AnswerInv,
           \/ DecoderPulls("video") \/ DecoderFails("video") \/ PassThroughDiscontinuity("video")
    PROVE  AnswerInv'
<1> DEFINE d == decoder["video"]
           N == Neutral(VideoGeneration)
<1>1. "video" \in Streams /\ d \in DecoderState
  BY DEF Streams, TypeOK, DecoderTypeOK
<1>2. <<>> \in Seq(N) /\ \A w \in {"Error", "InputDiscontinuity"} : <<Notify("video", w, FALSE)>> \in Seq(N)
  <2>1. <<>> \in Seq(N) /\ \A m \in N : <<m>> \in Seq(N)
    OBVIOUS
  <2>2. \A w \in {"Error", "InputDiscontinuity"}, f \in BOOLEAN : Notify("video", w, f) \in N
    BY <1>1, Notifications, NeutralMessages DEF DecoderNotify, Own
  <2> QED BY <2>1, <2>2
<1>3. \E x : \E r \in Seq(N) : DecoderStep("video", [d EXCEPT !.data = x], r)
             \/ DecoderStep("video", d, r)
  <2> HIDE DEF N
  <2>1. CASE DecoderPulls("video")
    BY <1>2, <2>1 DEF DecoderPulls
  <2>2. CASE DecoderFails("video")
    BY <1>2, <2>2 DEF DecoderFails
  <2>3. CASE PassThroughDiscontinuity("video")
    <3>1. \E c \in BOOLEAN : DecoderStep("video", [d EXCEPT !.data = IF c THEN "none" ELSE @],
                                         <<Notify("video", "InputDiscontinuity", FALSE)>>)
      BY <2>3, Zenon DEF PassThroughDiscontinuity
    <3>2. PICK c \in BOOLEAN : DecoderStep("video", [d EXCEPT !.data = IF c THEN "none" ELSE @],
                                           <<Notify("video", "InputDiscontinuity", FALSE)>>)
      BY <3>1
    <3> DEFINE x == IF c THEN "none" ELSE d.data
    <3>3. DecoderStep("video", [d EXCEPT !.data = x], <<Notify("video", "InputDiscontinuity", FALSE)>>)
      BY <3>2
    <3> HIDE DEF x, d
    <3> QED BY <1>2, <3>3
  <2> QED BY <2>1, <2>2, <2>3
<1>4. PICK e : /\ e.queue = d.queue /\ e.resumePending = d.resumePending
               /\ \E r \in Seq(N) : DecoderStep("video", e, r)
  <2>1. \A x : /\ [d EXCEPT !.data = x].queue = d.queue
               /\ [d EXCEPT !.data = x].resumePending = d.resumePending
    BY <1>1 DEF DecoderState
  <2> QED BY <1>3, <2>1
<1> HIDE DEF N
<1> QED BY <1>4, VideoGoesOn DEF N

\* The decoder tells that it has resumed.
LEMMA VideoOutputsAnswers ==
    ASSUME TypeOK, AnswerInv, DecoderOutputs("video")
    PROVE  AnswerInv'
<1> DEFINE d == decoder["video"]
           e == [d EXCEPT !.resumePending = FALSE]
           m == Notify("video", "ResumeCompleted", FALSE)
           g == mDecoderGeneration["video"]
           k == mDecoder["video"]
           p == playerQueue
           q == p \o <<m>>
<1>1. "video" \in Streams /\ d \in DecoderState /\ p \in Seq(PlayerMessage)
  BY DEF Streams, TypeOK, DecoderTypeOK, QueueTypeOK
<1>2. DecoderStep("video", e, <<m>>) /\ d.resumePending
  BY DEF DecoderOutputs, ResumeCompletedIfPending
<1>3. e.queue = d.queue /\ e.resumePending = FALSE /\ d.resumePending \in BOOLEAN
  BY <1>1 DEF DecoderState
<1>4. m \in Resumed(g) /\ m \notin Gone(g) /\ m \in PlayerMessage
  <2>1. m \in Own("video") /\ m.what = "ResumeCompleted" /\ m.gen = g
    BY <1>1, Notifications DEF DecoderNotify
  <2> HIDE DEF m
  <2> QED BY <2>1 DEF Own, Resumed, Gone, VideoTells
<1> HIDE DEF e, m
<1>5. /\ decoder'["video"] = e /\ mDecoderGeneration'["video"] = g /\ mDecoder'["video"] = k
      /\ playerQueue' = q /\ UNCHANGED <<mResumePending, looper>>
  BY <1>1, <1>2, StepFacts
<1>6. Alive => InOrder(d) /\ Settles(p, d, g) /\ (mResumePending => Answerable(p, d, g, k))
  BY DEF AnswerInv, VideoGeneration
<1> HIDE DEF g, k, p
<1>7. InOrder(d) => InOrder(e)
  BY <1>3 DEF InOrder
<1>8. Contains(q, Resumed(g)) /\ (Contains(q, Gone(g)) => Contains(p, Gone(g)))
  <2>1. <<m>> \in Seq(PlayerMessage) /\ Contains(<<m>>, Resumed(g)) /\ ~Contains(<<m>>, Gone(g))
    BY <1>4 DEF Contains
  <2> QED BY <1>1, <2>1, ContainsLemma, ContainsOnlyLemma
<1>9. Settles(p, d, g) => ~Contains(q, Gone(g))
  BY <1>2, <1>8 DEF Settles
<1> HIDE DEF q
<1>10. Settles(p, d, g) => Settles(q, e, g)
  BY <1>9 DEF Settles, Contains, NothingBehind
<1>11. Answerable(p, d, g, k) => Answerable(q, e, g, k)
  BY <1>8 DEF Answerable
<1>12. Alive' => InOrder(e) /\ Settles(q, e, g) /\ (mResumePending' => Answerable(q, e, g, k))
  BY <1>5, <1>6, <1>7, <1>10, <1>11 DEF Alive
<1> QED BY <1>5, <1>12, AnswerNext

\* The decoder tells so before it tells that it has shut down, its last order.
LEMMA VideoShutsDownAnswers ==
    ASSUME TypeOK, AnswerInv, DecoderShutsDown("video")
    PROVE  AnswerInv'
<1> DEFINE d == decoder["video"]
           e == [Handled(d) EXCEPT !.resumePending = FALSE, !.codec = FALSE, !.data = "none",
                    !.paused = (mDecoder["video"] = "Decoder") \/ @]
           m == Notify("video", "ResumeCompleted", FALSE)
           a == Notify("video", "ShutdownCompleted", FALSE)
           resumed == ResumeCompletedIfPending("video")
           error(ok) == IF ok THEN <<>> ELSE <<Notify("video", "Error", FALSE)>>
           g == mDecoderGeneration["video"]
           k == mDecoder["video"]
           p == playerQueue
<1>1. "video" \in Streams /\ d \in DecoderState /\ p \in Seq(PlayerMessage)
  BY DEF Streams, TypeOK, DecoderTypeOK, QueueTypeOK
<1>2. PICK ok \in BOOLEAN : DecoderStep("video", e, (resumed \o error(ok)) \o <<a>>)
  BY DEF DecoderShutsDown
<1>3. d.queue # <<>> /\ Head(d.queue).what = "Shutdown"
  BY DEF DecoderShutsDown, DecoderReceives
<1>4. e.queue = Tail(d.queue) /\ e.resumePending = FALSE
  <2>1. Handled(d) \in DecoderState /\ Handled(d).queue = Tail(d.queue)
    BY <1>1, <1>3, HandledType DEF Handled, DecoderState
  <2> QED BY <2>1 DEF DecoderState
<1>5. m \in Resumed(g) /\ m \notin Gone(g) /\ m \in PlayerMessage
  <2>1. m \in Own("video") /\ m.what = "ResumeCompleted" /\ m.gen = g
    BY <1>1, Notifications DEF DecoderNotify
  <2> HIDE DEF m
  <2> QED BY <2>1 DEF Own, Resumed, Gone, VideoTells
<1>6. a \in PlayerMessage /\ a \notin Resumed(g)
  <2>1. a \in Own("video") /\ a.what = "ShutdownCompleted"
    BY <1>1, Notifications DEF DecoderNotify
  <2> HIDE DEF a
  <2> QED BY <2>1 DEF Own, Resumed, VideoTells
<1>7. error(ok) \in Seq(PlayerMessage) /\ ~Contains(error(ok), Gone(g))
  <2> DEFINE x == Notify("video", "Error", FALSE)
  <2>1. x \in Own("video") /\ x.what = "Error"
    BY <1>1, Notifications DEF DecoderNotify
  <2> HIDE DEF x
  <2>2. <<x>> \in Seq(PlayerMessage) /\ ~Contains(<<x>>, Gone(g))
    BY <2>1 DEF Contains, Own, Gone, VideoTells
  <2>3. <<>> \in Seq(PlayerMessage) /\ ~Contains(<<>>, Gone(g))
    BY DEF Contains
  <2> QED BY <2>2, <2>3 DEF x
<1>8. /\ resumed \in Seq(PlayerMessage) /\ ~Contains(resumed, Gone(g))
      /\ d.resumePending = TRUE => Contains(resumed, Resumed(g))
  <2>1. resumed = IF d.resumePending THEN <<m>> ELSE <<>>
    BY DEF ResumeCompletedIfPending
  <2> HIDE DEF resumed, m
  <2>2. <<m>> \in Seq(PlayerMessage) /\ ~Contains(<<m>>, Gone(g)) /\ Contains(<<m>>, Resumed(g))
    BY <1>5 DEF Contains
  <2>3. <<>> \in Seq(PlayerMessage) /\ ~Contains(<<>>, Gone(g))
    BY DEF Contains
  <2> QED BY <2>1, <2>2, <2>3
<1> DEFINE errors == error(ok)
           r == (resumed \o errors) \o <<a>>
<1>9. /\ decoder'["video"] = e /\ mDecoderGeneration'["video"] = g /\ mDecoder'["video"] = k
      /\ playerQueue' = p \o r /\ UNCHANGED <<mResumePending, looper>>
  BY <1>1, <1>2, StepFacts
<1>10. Alive => InOrder(d) /\ Settles(p, d, g) /\ (mResumePending => Answerable(p, d, g, k))
  BY DEF AnswerInv, VideoGeneration
<1>11. errors \in Seq(PlayerMessage) /\ ~Contains(errors, Gone(g))
  BY <1>7
<1> HIDE DEF e, m, a, resumed, error, errors, g, k, p, r
<1>12. InOrder(d) => e.queue = <<>> /\ ~Contains(d.queue, ResumeOrders)
  <2> SUFFICES ASSUME InOrder(d) PROVE e.queue = <<>> /\ ~Contains(d.queue, ResumeOrders)
    OBVIOUS
  <2>1. Tail(d.queue) = <<>>
    BY <1>1, <1>3, TakenInOrder
  <2>2. d.queue \in Seq(DecoderMessage) /\ Head(d.queue) \notin ResumeOrders
    BY <1>1, <1>3 DEF DecoderState, ResumeOrders
  <2> DEFINE o == d.queue
  <2> HIDE DEF o
  <2>3. Contains(o, ResumeOrders) => Contains(Tail(o), ResumeOrders)
    BY <1>3, <2>2, ContainsLemma DEF o
  <2>4. ~Contains(<<>>, ResumeOrders)
    BY DEF Contains
  <2> QED BY <1>4, <2>1, <2>3, <2>4 DEF o
<1>13. InOrder(d) => InOrder(e)
  BY <1>12 DEF InOrder, Contains, NothingBehind
<1> DEFINE t == resumed \o errors
<1>14. /\ t \in Seq(PlayerMessage) /\ ~Contains(t, Gone(g))
       /\ Contains(resumed, Resumed(g)) => Contains(t, Resumed(g))
  BY <1>8, <1>11, ContainsLemma, ContainsOnlyLemma, ConcatenationType
<1> HIDE DEF t
<1>15. r = t \o <<a>> /\ <<a>> \in Seq(PlayerMessage) /\ ~Contains(<<a>>, Resumed(g))
  BY <1>6 DEF t, r, Contains
<1>16. /\ r \in Seq(PlayerMessage) /\ NothingBehind(r, Gone(g), Resumed(g))
       /\ Contains(t, Resumed(g)) => Contains(r, Resumed(g))
  <2>1. NothingBehind(t, Gone(g), Resumed(g)) /\ NothingBehind(<<a>>, Gone(g), Resumed(g))
    BY <1>14 DEF NothingBehind, Contains
  <2>2. NothingBehind(t \o <<a>>, Gone(g), Resumed(g))
    BY <1>14, <1>15, <2>1, NothingBehindLemma
  <2>3. Contains(t, Resumed(g)) => Contains(t \o <<a>>, Resumed(g))
    BY <1>14, <1>15, ContainsLemma
  <2> QED BY <1>14, <1>15, <2>2, <2>3, ConcatenationType
<1>17. /\ Contains(r, Resumed(g)) \/ Contains(p, Resumed(g)) => Contains(p \o r, Resumed(g))
       /\ NothingBehind(p, Gone(g), Resumed(g)) /\ ~Contains(p, Gone(g))
            => NothingBehind(p \o r, Gone(g), Resumed(g))
  <2>1. Contains(r, Resumed(g)) \/ Contains(p, Resumed(g)) => Contains(p \o r, Resumed(g))
    BY <1>1, <1>16, ContainsLemma
  <2>2. NothingBehind(p, Gone(g), Resumed(g)) /\ ~Contains(p, Gone(g))
          => NothingBehind(p \o r, Gone(g), Resumed(g))
    BY <1>1, <1>16, NothingBehindLemma
  <2> QED BY <2>1, <2>2
<1> DEFINE q == p \o r
<1> HIDE DEF q
<1>18. InOrder(d) /\ Settles(p, d, g) => Settles(q, e, g)
  BY <1>3, <1>4, <1>12, <1>17 DEF Settles, q
<1>19. InOrder(d) /\ Answerable(p, d, g, k) => Answerable(q, e, g, k)
  BY <1>8, <1>12, <1>14, <1>16, <1>17 DEF Answerable, Owing, q
<1>20. Alive' => InOrder(e) /\ Settles(q, e, g) /\ (mResumePending' => Answerable(q, e, g, k))
  BY <1>9, <1>10, <1>13, <1>18, <1>19 DEF Alive
<1>21. playerQueue' = q
  BY <1>9 DEF q
<1> QED BY <1>9, <1>20, <1>21, AnswerNext

LEMMA DecoderAnswersKept ==
    ASSUME TypeOK, AnswerInv, NEW s \in Streams,
           DecoderMessageStep(s) \/ DecoderPulls(s) \/ DecoderOutputs(s)
             \/ DecoderFails(s) \/ PassThroughDiscontinuity(s)
    PROVE  AnswerInv'
  BY OtherDecoderAnswers, VideoTakesAnswers, VideoGoesOnAnswers, VideoOutputsAnswers, VideoShutsDownAnswers
    DEF DecoderMessageStep

LEMMA NextAnswers ==
    ASSUME TypeOK, FlushInv, AnswerInv, [Next]_vars
    PROVE  AnswerInv'
<1>1. CASE \/ ClientStep \/ SourceStep \/ RendererLoop \/ RendererPauseTimeout
           \/ HALTearsDown \/ ScanTimer
  BY <1>1, PostsKeepAnswers
<1>2. CASE MessageStep
  <2>1. CASE OnStart \/ OnScanSources \/ OnResumeCompleted
    <3>1. OnResumeCompleted => AnswerInv'
      BY ResumeCompletedAnswers
    <3>2. OnStart \/ OnScanSources => AnswerInv'
      BY StartAnswers, ScanAnswers
    <3> QED BY <2>1, <3>1, <3>2
  <2>3. CASE OnStartResumes \/ OnResumeOnBufferingEnd
    BY <2>3, ResumeAnswers
  <2>2. CASE OnFlushCompleted \/ OnRendererFlushComplete \/ OnErrorWhenFlushed \/ OnShutdownCompleted
    BY <2>2, FlushCompletedAnswers, ShutdownCompletedAnswers
  <2> QED BY <1>2, <2>1, <2>2, <2>3, PlainHandlerAnswers DEF MessageStep
<1>3. CASE DeferredStep \/ OnAudioSinkClosed
  BY <1>3, PlainActionAnswers, OrderingActionAnswers DEF DeferredStep
<1>4. ASSUME NEW s \in Streams,
             DecoderMessageStep(s) \/ DecoderPulls(s) \/ DecoderOutputs(s)
               \/ DecoderFails(s) \/ PassThroughDiscontinuity(s)
      PROVE  AnswerInv'
  BY <1>4, DecoderAnswersKept
<1>5. CASE UNCHANGED vars
  BY <1>5, SameQueueKeeps, AnswerFrame DEF vars, playerVars, playerVarsButSurface, objectVars, Alive
<1> QED BY <1>1, <1>2, <1>3, <1>4, <1>5 DEF Next, PlayerStep, Environment

LEMMA InitAnswers == Init => AnswerInv
<1> SUFFICES ASSUME Init PROVE AnswerInv
  OBVIOUS
<1>1. decoder["video"] = NoDecoder /\ playerQueue = <<>> /\ mResumePending = FALSE
  BY DEF Init, Streams
<1>2. InOrder(NoDecoder)
  BY NewDecoderInOrder
<1> QED BY <1>1, <1>2 DEF AnswerInv, Settles, Contains, NothingBehind

-----------------------------------------------------------------------------
(* The requests of the client: what waits in the two queues.                *)

\* Each x of M in the list q has a y of N just behind it.
Followed(q, M, N) == \A i \in DOMAIN q : q[i] \in M => i < Len(q) /\ q[i + 1] \in N

LEMMA FollowedLemma ==
    ASSUME NEW T, NEW q \in Seq(T), NEW M, NEW N, Followed(q, M, N)
    PROVE  /\ q # <<>> => Followed(Tail(q), M, N)
           /\ q # <<>> /\ Head(q) \in M => Tail(q) # <<>> /\ Head(Tail(q)) \in N
           /\ \A r \in Seq(T) : Followed(r, M, N) => Followed(q \o r, M, N)
<1>1. ASSUME q # <<>>
      PROVE  Followed(Tail(q), M, N)
  <2> SUFFICES ASSUME NEW i \in DOMAIN Tail(q), Tail(q)[i] \in M
               PROVE  i < Len(Tail(q)) /\ Tail(q)[i + 1] \in N
    BY DEF Followed
  <2>1. i + 1 \in DOMAIN q /\ Tail(q)[i] = q[i + 1] /\ Len(Tail(q)) = Len(q) - 1
    BY <1>1
  <2>2. i + 1 < Len(q) /\ q[i + 2] \in N
    BY <2>1 DEF Followed
  <2>3. Tail(q)[i + 1] = q[i + 2]
    BY <1>1, <2>2
  <2> QED BY <2>1, <2>2, <2>3
<1>2. ASSUME q # <<>>, Head(q) \in M
      PROVE  Tail(q) # <<>> /\ Head(Tail(q)) \in N
  <2>1. 1 \in DOMAIN q /\ Head(q) = q[1] /\ 1 + 1 = 2
    BY <1>2
  <2>2. 1 < Len(q) /\ q[2] \in N
    BY <1>2, <2>1 DEF Followed
  <2> DEFINE t == Tail(q)
  <2>3. t \in Seq(T) /\ Len(t) = Len(q) - 1 /\ t[1] = q[2]
    BY <2>2
  <2> HIDE DEF t
  <2>4. t # <<>> /\ Head(t) = t[1]
    BY <2>2, <2>3
  <2> QED BY <2>2, <2>3, <2>4 DEF t
<1>3. ASSUME NEW r \in Seq(T), Followed(r, M, N)
      PROVE  Followed(q \o r, M, N)
  <2> DEFINE both == q \o r
  <2> SUFFICES ASSUME NEW i \in DOMAIN both, both[i] \in M
               PROVE  i < Len(both) /\ both[i + 1] \in N
    BY DEF Followed
  <2>1. CASE i <= Len(q)
    <3>1. i \in DOMAIN q /\ both[i] = q[i]
      BY <2>1
    <3>2. i < Len(q) /\ q[i + 1] \in N
      BY <3>1 DEF Followed
    <3> QED BY <3>2
  <2>2. CASE i > Len(q)
    <3>1. i - Len(q) \in DOMAIN r /\ both[i] = r[i - Len(q)] /\ Len(both) = Len(q) + Len(r)
      BY <2>2
    <3>2. i - Len(q) < Len(r) /\ r[(i - Len(q)) + 1] \in N
      <4> HIDE DEF both
      <4> QED BY <1>3, <3>1 DEF Followed
    <3>3. \A j \in Nat : j > Len(q) /\ j <= Len(q) + Len(r) => both[j] = r[j - Len(q)]
      OBVIOUS
    <3>4. i + 1 \in Nat /\ i + 1 > Len(q) /\ i + 1 <= Len(q) + Len(r)
          /\ (i + 1) - Len(q) = (i - Len(q)) + 1
      <4> DEFINE m == Len(q)
                 n == Len(r)
      <4>1. i \in Nat /\ m \in Nat /\ n \in Nat /\ i > m /\ i - m < n
        BY <2>2, <3>2
      <4> HIDE DEF m, n
      <4>2. i + 1 \in Nat /\ i + 1 > m /\ i + 1 <= m + n /\ (i + 1) - m = (i - m) + 1
        BY <4>1
      <4> QED BY <4>2 DEF m, n
    <3> HIDE DEF both
    <3>5. both[i + 1] = r[(i - Len(q)) + 1]
      BY <3>3, <3>4
    <3> QED BY <3>1, <3>2, <3>4, <3>5
  <2> QED BY <2>1, <2>2
<1> QED BY <1>1, <1>2, <1>3

\* The actions of a seek that is to be answered: the source seeks, and just
\* behind it, and nowhere else, the decoders are told to resume and to answer.
Seeks     == {a \in DeferredAction : a.act = "Seek" /\ a.flag}
Resumes   == {a \in DeferredAction : a.act = "ResumeDecoder" /\ a.flag}
PlainActs == {a \in DeferredAction : a \notin Seeks \cup Resumes}
OtherActs == {a \in PlainActs : a.act # "Reset"}
Pairs(q)  == Preceded(q, Resumes, Seeks) /\ Followed(q, Seeks, Resumes)
Due(q)    == q # <<>> /\ Head(q) \in Resumes
PairsInv  == Pairs(mDeferredActions)

LEMMA ActKinds ==
    ASSUME NEW a \in DeferredAction
    PROVE  /\ a \in RequestActs <=> (a \in Seeks \/ a.act = "Reset")
           /\ a \in Seeks => a.act = "Seek" /\ a \notin Resumes
           /\ a \in Resumes => a \notin RequestActs
           /\ a \in OtherActs => a \notin RequestActs \cup Seeks \cup Resumes
  BY DEF RequestActs, Seeks, Resumes, OtherActs, PlainActs

LEMMA PairsLater ==
    ASSUME NEW q \in Seq(DeferredAction), NEW r \in Seq(DeferredAction),
           Pairs(q), Pairs(r), r # <<>> => r[1] \notin Resumes
    PROVE  Pairs(Joined(q, r)) /\ (Due(Joined(q, r)) <=> Due(q))
<1>1. Preceded(q \o r, Resumes, Seeks)
  BY PrecededLemma DEF Pairs
<1>2. Followed(q \o r, Seeks, Resumes)
  BY FollowedLemma DEF Pairs
<1>3. Due(q \o r) <=> Due(q)
  <2>1. q # <<>> => q \o r # <<>> /\ Head(q \o r) = Head(q)
    OBVIOUS
  <2>2. q = <<>> => q \o r = r
    OBVIOUS
  <2>3. r # <<>> => Head(r) = r[1]
    OBVIOUS
  <2> QED BY <2>1, <2>2, <2>3 DEF Due
<1> QED BY <1>1, <1>2, <1>3 DEF Pairs, Joined

LEMMA PairsTail ==
    ASSUME NEW q \in Seq(DeferredAction), q # <<>>, Pairs(q)
    PROVE  Pairs(Tail(q)) /\ (Due(Tail(q)) <=> Head(q) \in Seeks)
<1>1. Preceded(Tail(q), Resumes, Seeks)
      /\ (Tail(q) # <<>> /\ Head(Tail(q)) \in Resumes => Head(q) \in Seeks)
  BY PrecededLemma DEF Pairs
<1>2. Followed(Tail(q), Seeks, Resumes)
      /\ (Head(q) \in Seeks => Tail(q) # <<>> /\ Head(Tail(q)) \in Resumes)
  BY FollowedLemma DEF Pairs
<1> QED BY <1>1, <1>2 DEF Pairs, Due

LEMMA PlainPairs ==
    ASSUME NEW r \in Seq(PlainActs)
    PROVE  /\ r \in Seq(DeferredAction) /\ Pairs(r)
           /\ r # <<>> => r[1] \notin Resumes
<1>1. \A i \in DOMAIN r : r[i] \in DeferredAction /\ r[i] \notin Seeks /\ r[i] \notin Resumes
  BY DEF PlainActs
<1>2. r \in Seq(DeferredAction)
  BY DEF PlainActs
<1>3. r # <<>> => 1 \in DOMAIN r
  OBVIOUS
<1> QED BY <1>1, <1>2, <1>3 DEF Pairs, Preceded, Followed

LEMMA SeekPairs ==
    ASSUME NEW x \in PlainActs, NEW y \in Seeks, NEW z \in Resumes
    PROVE  /\ <<x, y, z>> \in Seq(DeferredAction) /\ Pairs(<<x, y, z>>)
           /\ <<x, y, z>>[1] \notin Resumes
<1>1. x \notin Seeks /\ x \notin Resumes /\ y \notin Resumes /\ z \notin Seeks
      /\ x \in DeferredAction /\ y \in DeferredAction /\ z \in DeferredAction
  BY DEF PlainActs, Seeks, Resumes
<1>2. Preceded(<<x, y, z>>, Resumes, Seeks)
  BY <1>1 DEF Preceded
<1>3. Followed(<<x, y, z>>, Seeks, Resumes)
  BY <1>1 DEF Followed
<1> QED BY <1>1, <1>2, <1>3 DEF Pairs

\* What the handlers defer.
LEMMA OtherActions ==
    /\ \A cmd \in [Streams -> FlushCommand] : FlushAction(cmd) \in OtherActs
    /\ \A f \in BOOLEAN : /\ Action("SetSurface", f) \in OtherActs
                          /\ Action("ScanSources", f) \in OtherActs
                          /\ Action("PostMessage", f) \in OtherActs
                          /\ f = FALSE => Action("Seek", f) \in OtherActs
                          /\ f = FALSE => Action("ResumeDecoder", f) \in OtherActs
    /\ FlushAction(ForAll("FLUSH")) \in OtherActs
    /\ FlushAction(ForAll("SHUTDOWN")) \in OtherActs
    /\ FlushAction([ForAll("FLUSH") EXCEPT !["video"] = "SHUTDOWN"]) \in OtherActs
    /\ Action("Seek", TRUE) \in Seeks /\ Action("ResumeDecoder", TRUE) \in Resumes
    /\ Action("Reset", FALSE) \in PlainActs /\ Action("Reset", FALSE).act = "Reset"
<1>1. \A cmd \in [Streams -> FlushCommand] : FlushAction(cmd) \in OtherActs
  <2> SUFFICES ASSUME NEW cmd \in [Streams -> FlushCommand] PROVE FlushAction(cmd) \in OtherActs
    OBVIOUS
  <2>1. FlushAction(cmd) \in DeferredAction
    BY FlushActionType
  <2>2. FlushAction(cmd).act = "Flush"
    BY DEF FlushAction
  <2> QED BY <2>1, <2>2 DEF OtherActs, PlainActs, Seeks, Resumes
<1>2. /\ FlushAction(ForAll("FLUSH")) \in OtherActs
      /\ FlushAction(ForAll("SHUTDOWN")) \in OtherActs
      /\ FlushAction([ForAll("FLUSH") EXCEPT !["video"] = "SHUTDOWN"]) \in OtherActs
  BY <1>1, CommandTypes DEF FlushCommand, Streams
<1>3. ASSUME NEW f \in BOOLEAN,
             NEW a \in {"Seek", "ResumeDecoder", "SetSurface", "ScanSources", "PostMessage", "Reset"}
      PROVE  Action(a, f) \in DeferredAction /\ Action(a, f).act = a /\ Action(a, f).flag = f
  BY ActionType DEF Action
<1>4. ASSUME NEW f \in BOOLEAN
      PROVE  /\ Action("SetSurface", f) \in OtherActs
             /\ Action("ScanSources", f) \in OtherActs
             /\ Action("PostMessage", f) \in OtherActs
             /\ f = FALSE => Action("Seek", f) \in OtherActs
             /\ f = FALSE => Action("ResumeDecoder", f) \in OtherActs
  <2> DEFINE act(a) == Action(a, f)
  <2>1. \A a \in {"Seek", "ResumeDecoder", "SetSurface", "ScanSources", "PostMessage", "Reset"} :
           act(a) \in DeferredAction /\ act(a).act = a /\ act(a).flag = f
    BY <1>3
  <2> HIDE DEF act
  <2>2. /\ act("SetSurface") \in OtherActs /\ act("ScanSources") \in OtherActs
        /\ act("PostMessage") \in OtherActs
        /\ f = FALSE => act("Seek") \in OtherActs
        /\ f = FALSE => act("ResumeDecoder") \in OtherActs
    BY <2>1 DEF OtherActs, PlainActs, Seeks, Resumes
  <2> QED BY <2>2 DEF act
<1>5. Action("Seek", TRUE) \in Seeks /\ Action("ResumeDecoder", TRUE) \in Resumes
  BY <1>3 DEF Seeks, Resumes
<1>6. Action("Reset", FALSE) \in PlainActs /\ Action("Reset", FALSE).act = "Reset"
  BY <1>3 DEF PlainActs, Seeks, Resumes
<1> QED BY <1>1, <1>2, <1>4, <1>5, <1>6

LEMMA OtherLists ==
    /\ \A f \in BOOLEAN : f = FALSE => SeekActions(f) \in Seq(OtherActs)
    /\ \A window, refresh \in BOOLEAN : SurfaceActions(window, refresh) \in Seq(OtherActs)
    /\ \A f \in BOOLEAN : f = TRUE =>
          \E x \in OtherActs, y \in Seeks, z \in Resumes : SeekActions(f) = <<x, y, z>>
    /\ \E x \in OtherActs, y \in PlainActs : ResetActions = <<x, y>> /\ y.act = "Reset"
<1>1. ASSUME NEW f \in BOOLEAN
      PROVE  /\ f = FALSE => SeekActions(f) \in Seq(OtherActs)
             /\ f = TRUE => \E x \in OtherActs, y \in Seeks, z \in Resumes : SeekActions(f) = <<x, y, z>>
  <2> DEFINE x == FlushAction(ForAll("FLUSH"))
             y == Action("Seek", f)
             z == Action("ResumeDecoder", f)
  <2>1. x \in OtherActs /\ (f = FALSE => y \in OtherActs) /\ (f = FALSE => z \in OtherActs)
    BY OtherActions
  <2>2. f = TRUE => y \in Seeks /\ z \in Resumes
    BY OtherActions
  <2>3. SeekActions(f) = <<x, y, z>>
    BY DEF SeekActions
  <2> HIDE DEF x, y, z
  <2> QED BY <2>1, <2>2, <2>3
<1>2. ASSUME NEW window \in BOOLEAN, NEW refresh \in BOOLEAN
      PROVE  SurfaceActions(window, refresh) \in Seq(OtherActs)
  <2> DEFINE a == FlushAction([ForAll("FLUSH") EXCEPT !["video"] = "SHUTDOWN"])
             b == Action("SetSurface", window)
             c == Action("Seek", FALSE)
             d == Action("ScanSources", FALSE)
             e == Action("ResumeDecoder", FALSE)
             r == IF window THEN (IF refresh THEN <<c>> ELSE <<>>) \o <<d>> ELSE <<>>
  <2>1. /\ a \in OtherActs /\ b \in OtherActs /\ c \in OtherActs /\ d \in OtherActs
        /\ e \in OtherActs
    BY OtherActions
  <2>2. SurfaceActions(window, refresh) = <<a, b>> \o r \o <<e>>
    BY DEF SurfaceActions, RefreshActions
  <2> HIDE DEF a, b, c, d, e
  <2>3. (IF refresh THEN <<c>> ELSE <<>>) \in Seq(OtherActs) /\ <<d>> \in Seq(OtherActs)
        /\ <<a, b>> \in Seq(OtherActs) /\ <<e>> \in Seq(OtherActs)
    BY <2>1
  <2>4. r \in Seq(OtherActs)
    BY <2>3
  <2> HIDE DEF r
  <2>5. <<a, b>> \o r \in Seq(OtherActs)
    BY <2>3, <2>4, ConcatenationType
  <2> QED BY <2>2, <2>3, <2>5, ConcatenationType
<1>3. \E x \in OtherActs, y \in PlainActs : ResetActions = <<x, y>> /\ y.act = "Reset"
  BY OtherActions DEF ResetActions
<1> QED BY <1>1, <1>2, <1>3

\* The requests among the actions and among the messages, by their names.
RequestNames == {"Seek", "Reset"}
Acts(q)  == ActsIn(Kept(q, RequestActs))
Kinds(q) == KindsIn(Kept(q, WantAnswer))

LEMMA ActsHead ==
    ASSUME NEW T, NEW q \in Seq(T), q # <<>>
    PROVE  /\ ActsIn(q) # <<>> /\ Head(ActsIn(q)) = Head(q).act
           /\ Tail(ActsIn(q)) = ActsIn(Tail(q))
<1> DEFINE W == {x.act : x \in T}
           k == ActsIn(q)
           t == Tail(q)
<1>1. k \in Seq(W) /\ Len(k) = Len(q) /\ \A i \in 1 .. Len(q) : k[i] = q[i].act
  BY DEF ActsIn
<1>2. t \in Seq(T) /\ Len(t) = Len(q) - 1 /\ (\A i \in 1 .. Len(q) - 1 : t[i] = q[i + 1])
      /\ Len(q) \in Nat \ {0}
  OBVIOUS
<1> HIDE DEF k, t
<1> DEFINE l == Tail(k)
           r == ActsIn(t)
<1>3. /\ k # <<>> /\ Head(k) = Head(q).act
      /\ l \in Seq(W) /\ Len(l) = Len(q) - 1 /\ \A i \in 1 .. Len(q) - 1 : l[i] = k[i + 1]
  <2> HIDE DEF W
  <2> QED BY <1>1, <1>2
<1>4. r \in Seq(W) /\ Len(r) = Len(q) - 1 /\ \A i \in 1 .. Len(q) - 1 : r[i] = t[i].act
  BY <1>2 DEF ActsIn
<1> HIDE DEF l, r, W
<1>5. l = r
  BY <1>1, <1>2, <1>3, <1>4
<1> QED BY <1>3, <1>5 DEF l, r, k, t

LEMMA ActsAppend ==
    ASSUME NEW T, NEW q \in Seq(T), NEW m \in T
    PROVE  ActsIn(Append(q, m)) = Append(ActsIn(q), m.act)
<1> DEFINE W == {x.act : x \in T}
           l == ActsIn(Append(q, m))
           k == ActsIn(q)
<1>1. k \in Seq(W) /\ Len(k) = Len(q) /\ \A i \in 1 .. Len(q) : k[i] = q[i].act
  BY DEF ActsIn
<1>2. /\ l \in Seq(W) /\ Len(l) = Len(q) + 1 /\ l[Len(q) + 1] = m.act
      /\ \A i \in 1 .. Len(q) : l[i] = q[i].act
  BY DEF ActsIn
<1>3. m.act \in W
  OBVIOUS
<1> HIDE DEF l, k, W
<1> DEFINE r == Append(k, m.act)
<1>4. /\ r \in Seq(W) /\ Len(r) = Len(q) + 1 /\ r[Len(q) + 1] = m.act
      /\ \A i \in 1 .. Len(q) : r[i] = k[i]
  BY <1>1, <1>3
<1> HIDE DEF r
<1>5. l = r
  BY <1>1, <1>2, <1>4
<1> QED BY <1>5 DEF l, r, k

LEMMA ActsType ==
    ASSUME NEW q \in Seq(DeferredAction)
    PROVE  Acts(q) \in Seq(RequestNames)
<1> DEFINE k == Kept(q, RequestActs)
<1>1. k \in Seq(DeferredAction \cap RequestActs)
  BY KeptType
<1>2. \A a \in DeferredAction \cap RequestActs : a.act \in RequestNames
  BY DEF RequestActs, RequestNames
<1> HIDE DEF k
<1>3. ActsIn(k) \in Seq(RequestNames)
  BY <1>1, <1>2 DEF ActsIn
<1> QED BY <1>3 DEF Acts, k

LEMMA KindsType ==
    ASSUME NEW q \in Seq(PlayerMessage)
    PROVE  Kinds(q) \in Seq(RequestNames)
<1> DEFINE k == Kept(q, WantAnswer)
<1>1. k \in Seq(PlayerMessage \cap WantAnswer)
  BY KeptType
<1>2. \A m \in PlayerMessage \cap WantAnswer : m.what \in RequestNames
  BY DEF WantAnswer, RequestNames
<1> HIDE DEF k
<1>3. KindsIn(k) \in Seq(RequestNames)
  BY <1>1, <1>2 DEF KindsIn
<1> QED BY <1>3 DEF Kinds, k

LEMMA ActsBehind ==
    ASSUME NEW q \in Seq(DeferredAction)
    PROVE  /\ \A r \in Seq(OtherActs) : Joined(q, r) \in Seq(DeferredAction) /\ Acts(Joined(q, r)) = Acts(q)
           /\ \A a \in DeferredAction :
                 Acts(Append(q, a)) = IF a \in RequestActs THEN Append(Acts(q), a.act) ELSE Acts(q)
<1>1. ASSUME NEW r \in Seq(OtherActs)
      PROVE  Joined(q, r) \in Seq(DeferredAction) /\ Acts(Joined(q, r)) = Acts(q)
  <2>1. OtherActs \subseteq DeferredAction \ RequestActs
    BY ActKinds DEF OtherActs, PlainActs
  <2>2. r \in Seq(DeferredAction) /\ r \in Seq(DeferredAction \ RequestActs)
    BY <2>1
  <2>3. Joined(q, r) \in Seq(DeferredAction)
    BY <2>2, KeptJoined
  <2>4. Kept(Joined(q, r), RequestActs) = Kept(q, RequestActs)
    BY <2>2, KeptBehind
  <2> QED BY <2>3, <2>4 DEF Acts
<1>2. ASSUME NEW a \in DeferredAction
      PROVE  Acts(Append(q, a)) = IF a \in RequestActs THEN Append(Acts(q), a.act) ELSE Acts(q)
  <2> DEFINE k == Kept(q, RequestActs)
  <2>1. Kept(Append(q, a), RequestActs) = IF a \in RequestActs THEN Append(k, a) ELSE k
    BY KeptAppend
  <2>2. k \in Seq(DeferredAction \cap RequestActs)
    BY KeptType
  <2> HIDE DEF k
  <2>3. a \in RequestActs => ActsIn(Append(k, a)) = Append(ActsIn(k), a.act)
    BY <2>2, ActsAppend
  <2> QED BY <2>1, <2>3 DEF Acts, k
<1> QED BY <1>1, <1>2

LEMMA KindsBehind ==
    ASSUME NEW q \in Seq(PlayerMessage)
    PROVE  /\ \A r \in Seq(PlayerMessage \ WantAnswer) :
                 Joined(q, r) \in Seq(PlayerMessage) /\ Kinds(Joined(q, r)) = Kinds(q)
           /\ \A m \in PlayerMessage :
                 Kinds(Append(q, m)) = IF m \in WantAnswer THEN Append(Kinds(q), m.what) ELSE Kinds(q)
<1>1. ASSUME NEW r \in Seq(PlayerMessage \ WantAnswer)
      PROVE  Joined(q, r) \in Seq(PlayerMessage) /\ Kinds(Joined(q, r)) = Kinds(q)
  <2>1. r \in Seq(PlayerMessage)
    OBVIOUS
  <2>2. Joined(q, r) \in Seq(PlayerMessage)
    BY <2>1, KeptJoined
  <2>3. Kept(Joined(q, r), WantAnswer) = Kept(q, WantAnswer)
    BY <2>1, KeptBehind
  <2> QED BY <2>2, <2>3 DEF Kinds
<1>2. ASSUME NEW m \in PlayerMessage
      PROVE  Kinds(Append(q, m)) = IF m \in WantAnswer THEN Append(Kinds(q), m.what) ELSE Kinds(q)
  <2> DEFINE k == Kept(q, WantAnswer)
  <2>1. Kept(Append(q, m), WantAnswer) = IF m \in WantAnswer THEN Append(k, m) ELSE k
    BY KeptAppend
  <2>2. k \in Seq(PlayerMessage \cap WantAnswer)
    BY KeptType
  <2> HIDE DEF k
  <2>3. m \in WantAnswer => KindsIn(Append(k, m)) = Append(KindsIn(k), m.what)
    BY <2>2, KindsAppend
  <2> QED BY <2>1, <2>3 DEF Kinds, k
<1> QED BY <1>1, <1>2

LEMMA ActsTail ==
    ASSUME NEW q \in Seq(DeferredAction), q # <<>>
    PROVE  /\ Tail(q) \in Seq(DeferredAction) /\ Head(q) \in DeferredAction
           /\ Head(q) \notin RequestActs => Acts(Tail(q)) = Acts(q)
           /\ Head(q) \in RequestActs =>
                Acts(q) # <<>> /\ Head(Acts(q)) = Head(q).act /\ Tail(Acts(q)) = Acts(Tail(q))
<1> DEFINE h == Head(q)
           k == Kept(q, RequestActs)
           l == Kept(Tail(q), RequestActs)
           W == DeferredAction \cap RequestActs
<1>1. Tail(q) \in Seq(DeferredAction) /\ h \in DeferredAction
  OBVIOUS
<1>2. k \in Seq(W) /\ l \in Seq(W)
  BY <1>1, KeptType
<1>3. (h \in RequestActs => k = Joined(<<h>>, l)) /\ (h \notin RequestActs => k = l)
  BY KeptTail DEF Joined
<1> HIDE DEF h, k, l, W
<1>4. ASSUME h \in RequestActs
      PROVE  ActsIn(k) # <<>> /\ Head(ActsIn(k)) = h.act /\ Tail(ActsIn(k)) = ActsIn(l)
  <2>1. h \in W
    BY <1>1, <1>4 DEF W
  <2>2. k # <<>> /\ Head(k) = h /\ Tail(k) = l
    BY <1>2, <1>3, <1>4, <2>1, JoinedToOne
  <2> QED BY <1>2, <2>2, ActsHead
<1> QED BY <1>1, <1>3, <1>4 DEF Acts, h, k, l

LEMMA KindsTail ==
    ASSUME NEW q \in Seq(PlayerMessage), q # <<>>
    PROVE  /\ Tail(q) \in Seq(PlayerMessage) /\ Head(q) \in PlayerMessage
           /\ Head(q) \notin WantAnswer => Kinds(Tail(q)) = Kinds(q)
           /\ Head(q) \in WantAnswer =>
                Kinds(q) # <<>> /\ Head(Kinds(q)) = Head(q).what /\ Tail(Kinds(q)) = Kinds(Tail(q))
<1> DEFINE h == Head(q)
           k == Kept(q, WantAnswer)
           l == Kept(Tail(q), WantAnswer)
           W == PlayerMessage \cap WantAnswer
<1>1. Tail(q) \in Seq(PlayerMessage) /\ h \in PlayerMessage
  OBVIOUS
<1>2. k \in Seq(W) /\ l \in Seq(W)
  BY <1>1, KeptType
<1>3. (h \in WantAnswer => k = Joined(<<h>>, l)) /\ (h \notin WantAnswer => k = l)
  BY KeptTail DEF Joined
<1> HIDE DEF h, k, l, W
<1>4. ASSUME h \in WantAnswer
      PROVE  KindsIn(k) # <<>> /\ Head(KindsIn(k)) = h.what /\ Tail(KindsIn(k)) = KindsIn(l)
  <2>1. h \in W
    BY <1>1, <1>4 DEF W
  <2>2. k # <<>> /\ Head(k) = h /\ Tail(k) = l
    BY <1>2, <1>3, <1>4, <2>1, JoinedToOne
  <2> QED BY <1>2, <2>2, KindsHead
<1> QED BY <1>1, <1>3, <1>4 DEF Kinds, h, k, l

\* A request goes from the front of one line to the end of the other.
LEMMA MovedAcross ==
    ASSUME NEW T, NEW a \in Seq(T), NEW k \in Seq(T), k # <<>>
    PROVE  Joined(Append(a, Head(k)), Tail(k)) = Joined(a, k)
<1> DEFINE h == Head(k)
           t == Tail(k)
           one == <<h>>
<1>1. one \in Seq(T) /\ t \in Seq(T) /\ h \in T /\ k = Joined(one, t)
  BY HeadAndRest, JoinedBasics
<1> HIDE DEF h, t
<1>2. Append(a, h) = Joined(a, <<h>>)
  BY <1>1, JoinedBasics
<1> HIDE DEF one
<1>3. Joined(Joined(a, one), t) = Joined(a, Joined(one, t))
  BY <1>1, JoinedAssociative
<1> QED BY <1>1, <1>2, <1>3 DEF h, t, one

LEMMA TakenFirst ==
    ASSUME NEW T, NEW a \in Seq(T), NEW k \in Seq(T), a # <<>>
    PROVE  /\ Joined(a, k) # <<>> /\ Head(Joined(a, k)) = Head(a)
           /\ Tail(Joined(a, k)) = Joined(Tail(a), k)
<1> DEFINE h == Head(a)
           t == Tail(a)
           one == <<h>>
           j == Joined(t, k)
<1>1. one \in Seq(T) /\ t \in Seq(T) /\ h \in T /\ a = Joined(one, t)
  BY HeadAndRest, JoinedBasics
<1> HIDE DEF t
<1>2. j \in Seq(T)
  BY <1>1 DEF Joined
<1>3. Joined(a, k) = Joined(one, j)
  <2> HIDE DEF one
  <2> QED BY <1>1, JoinedAssociative
<1> HIDE DEF h, j
<1>4. Joined(<<h>>, j) # <<>> /\ Head(Joined(<<h>>, j)) = h /\ Tail(Joined(<<h>>, j)) = j
  BY <1>1, <1>2, JoinedToOne
<1> HIDE DEF one
<1> QED BY <1>3, <1>4 DEF h, t, one, j

\* What waits, and what is due, in terms of the two queues.
LEMMA Waits ==
    /\ Waiting = Joined(Acts(mDeferredActions), Kinds(playerQueue))
    /\ Waiting' = Joined(Acts(mDeferredActions'), Kinds(playerQueue'))
  BY DEF Waiting, Joined, Acts, Kinds

LEMMA AnswerIsDue ==
    ASSUME TypeOK, TypeOK'
    PROVE  /\ Answering <=> (mResumePending = TRUE \/ Due(mDeferredActions))
           /\ Answering' <=> (mResumePending' = TRUE \/ Due(mDeferredActions'))
<1>1. /\ mDeferredActions \in Seq(DeferredAction) /\ mDeferredActions' \in Seq(DeferredAction)
      /\ mResumePending \in BOOLEAN /\ mResumePending' \in BOOLEAN
  BY DEF TypeOK, DeferredTypeOK, ResumeTypeOK
<1>2. ASSUME NEW q \in Seq(DeferredAction)
      PROVE  Due(q) <=> q # <<>> /\ Head(q).act = "ResumeDecoder" /\ Head(q).flag
  <2>1. q # <<>> => Head(q) \in DeferredAction
    OBVIOUS
  <2> QED BY <2>1 DEF Due, Resumes
<1> QED BY <1>1, <1>2 DEF Answering

RequestStep == [Requests!Next]_(Requests!vars)

LEMMA RequestSteps ==
    /\ Waiting' = Waiting /\ (Answering' <=> Answering) => RequestStep
    /\ \A r \in RequestNames : Waiting' = Append(Waiting, r) /\ (Answering' <=> Answering) => RequestStep
    /\ Waiting # <<>> /\ Head(Waiting) = "Seek" /\ Waiting' = Tail(Waiting) /\ Answering' => RequestStep
    /\ Waiting # <<>> /\ Head(Waiting) = "Reset" /\ Waiting' = Tail(Waiting) /\ ~Answering /\ ~Answering'
          => RequestStep
    /\ Answering /\ ~Answering' /\ Waiting' = Waiting => RequestStep
<1>1. Answering \in BOOLEAN /\ Answering' \in BOOLEAN
  BY DEF Answering
<1>2. /\ (Answering' <=> Answering) => Answering' = Answering
      /\ Answering' => Answering' = TRUE
      /\ ~Answering' => Answering' = FALSE
  BY <1>1
<1> HIDE DEF Waiting, Answering
<1>3. /\ Waiting' = Waiting /\ Answering' = Answering => RequestStep
      /\ \A r \in RequestNames : Waiting' = Append(Waiting, r) /\ Answering' = Answering => RequestStep
      /\ Waiting # <<>> /\ Head(Waiting) = "Seek" /\ Waiting' = Tail(Waiting) /\ Answering' = TRUE
            => RequestStep
      /\ Waiting # <<>> /\ Head(Waiting) = "Reset" /\ Waiting' = Tail(Waiting) /\ ~Answering
         /\ Answering' = Answering => RequestStep
      /\ Answering /\ Answering' = FALSE /\ Waiting' = Waiting => RequestStep
  BY Zenon DEF RequestStep, Requests!Next, Requests!vars, Requests!Ask, Requests!Carry, Requests!CarryOutSeek,
    Requests!Answer, Requests!CarryOutReset, Requests!Request, RequestNames
<1> QED BY <1>2, <1>3

\* Something is posted: nothing, or one request, waits for its turn behind the rest.
PostsOnly ==
    \/ UNCHANGED playerQueue
    \/ \E p \in Seq(PlayerMessage \ WantAnswer) : playerQueue' = Joined(playerQueue, p)
    \/ \E m \in PlayerMessage : playerQueue' = Append(playerQueue, m)

LEMMA PostsKeepRequests ==
    ASSUME TypeOK, TypeOK', PairsInv, UNCHANGED <<mDeferredActions, mResumePending>>, PostsOnly
    PROVE  PairsInv' /\ RequestStep
<1> DEFINE a == Acts(mDeferredActions)
           k == Kinds(playerQueue)
<1>1. playerQueue \in Seq(PlayerMessage) /\ mDeferredActions \in Seq(DeferredAction)
  BY DEF TypeOK, QueueTypeOK, DeferredTypeOK
<1>2. a \in Seq(RequestNames) /\ k \in Seq(RequestNames)
  BY <1>1, ActsType, KindsType
<1>3. Waiting = Joined(a, k) /\ Waiting' = Joined(a, Kinds(playerQueue'))
  BY Waits
<1>4. Answering' <=> Answering
  <2>1. mDeferredActions' = mDeferredActions /\ mResumePending' = mResumePending
    OBVIOUS
  <2>2. /\ Answering <=> (mResumePending = TRUE \/ Due(mDeferredActions))
        /\ Answering' <=> (mResumePending' = TRUE \/ Due(mDeferredActions'))
    BY AnswerIsDue
  <2>3. (Due(mDeferredActions') <=> Due(mDeferredActions)) /\ (mResumePending' = TRUE <=> mResumePending = TRUE)
    BY <2>1
  <2> QED BY <2>2, <2>3
<1>5. PairsInv'
  BY DEF PairsInv
<1> HIDE DEF a
<1>6. CASE UNCHANGED playerQueue \/ \E p \in Seq(PlayerMessage \ WantAnswer) :
                                       playerQueue' = Joined(playerQueue, p)
  <2>1. Kinds(playerQueue') = k
    BY <1>1, <1>6, KindsBehind
  <2> QED BY <1>3, <1>4, <1>5, <2>1, RequestSteps
<1>7. ASSUME NEW m \in PlayerMessage, playerQueue' = Append(playerQueue, m)
      PROVE  RequestStep
  <2>1. Kinds(playerQueue') = IF m \in WantAnswer THEN Append(k, m.what) ELSE k
    BY <1>1, <1>7, KindsBehind
  <2>2. m \in WantAnswer => m.what \in RequestNames
    BY DEF WantAnswer, RequestNames
  <2> HIDE DEF k
  <2>3. m \in WantAnswer => Append(Joined(a, k), m.what) = Joined(a, Append(k, m.what))
    BY <1>2, <2>2, JoinedAppend
  <2> QED BY <1>3, <1>4, <2>1, <2>2, <2>3, RequestSteps
<1> QED BY <1>5, <1>6, <1>7 DEF PostsOnly

\* The client, the source, the decoders, the renderer and the scan's delay only post.
LEMMA OthersOnlyPost ==
    ASSUME TypeOK, [Next]_vars, ~PlayerStep
    PROVE  UNCHANGED mResumePending /\ PostsOnly
<1> DEFINE q == playerQueue
           U == PlayerMessage \ WantAnswer
<1>1. /\ DecoderNotify \cap RequestNames = {} /\ RendererNotify \cap RequestNames = {}
      /\ \A m \in PlayerMessage : m.what \notin RequestNames => m \in U
  BY DEF DecoderNotify, RendererNotify, RequestNames, WantAnswer
<1>2. CASE ClientStep \/ SourceStep
  <2>1. UNCHANGED mResumePending /\ \E m \in Calls : q' = Append(q, m)
    BY <1>2, CallPosts
  <2>2. Calls \subseteq PlayerMessage
    BY SentType DEF Calls
  <2> QED BY <2>1, <2>2 DEF PostsOnly
<1>3. CASE RendererLoop \/ RendererPauseTimeout \/ HALTearsDown
  <2> DEFINE quiet == UNCHANGED mResumePending
  <2>1. \A r, n : RendererStep(r, n) => quiet
    BY DEF RendererStep, playerVars, playerVarsButSurface
  <2> HIDE DEF quiet
  <2>2. \A r, error : TearDown(r, error) => quiet
    BY <2>1, Zenon DEF TearDown
  <2>3. quiet
    BY <1>3, <2>1, <2>2, Zenon DEF RendererLoop, RendererFlushes, RendererPauses, RendererResumes,
      RendererClosesSink, RendererDisablesOffload, RendererTearsDown, RendererPauseTimeout, HALTearsDown
  <2>4. PICK r \in Seq(RendererNotification) : q' = q \o r
    BY <1>3, RendererPosts
  <2>5. RendererNotification \subseteq U
    BY <1>1 DEF RendererNotification
  <2> HIDE DEF U
  <2>6. r \in Seq(U)
    BY <2>5
  <2>7. UNCHANGED mResumePending
    BY <2>3 DEF quiet
  <2> QED BY <2>4, <2>6, <2>7 DEF PostsOnly, Joined, U
<1>4. CASE ScanTimer
  <2>1. PICK t \in scanTimer :
           q' = Append(q, [Message("ScanSources", FALSE) EXCEPT !.gen = t])
    BY <1>4, Zenon DEF ScanTimer
  <2> DEFINE scan == [Message("ScanSources", FALSE) EXCEPT !.gen = t]
  <2>2. scan \in PlayerMessage /\ q' = Append(q, scan)
    BY <2>1, ScanMessageType DEF TypeOK, ScanTypeOK
  <2>3. UNCHANGED mResumePending
    BY <1>4 DEF ScanTimer
  <2> HIDE DEF scan
  <2> QED BY <2>2, <2>3 DEF PostsOnly
<1>5. ASSUME NEW s \in Streams,
             DecoderMessageStep(s) \/ DecoderPulls(s) \/ DecoderOutputs(s)
               \/ DecoderFails(s) \/ PassThroughDiscontinuity(s)
      PROVE  UNCHANGED mResumePending /\ PostsOnly
  <2>1. PICK d : \E r \in Seq(Own(s)) : DecoderStep(s, d, r)
    BY <1>5, OwnPosts
  <2>2. PICK r \in Seq(Own(s)) : DecoderStep(s, d, r)
    BY <2>1
  <2>3. q' = q \o r /\ UNCHANGED mResumePending
    BY <2>2, StepFacts
  <2>4. Own(s) \subseteq U
    BY <1>1 DEF Own
  <2> HIDE DEF U
  <2>5. r \in Seq(U)
    BY <2>4
  <2> QED BY <2>3, <2>5 DEF PostsOnly, Joined, U
<1>6. CASE UNCHANGED vars
  BY <1>6 DEF vars, playerVars, playerVarsButSurface, PostsOnly
<1> QED BY <1>2, <1>3, <1>4, <1>5, <1>6 DEF Next, Environment

\* A handler that takes a message nobody waits for, may post and may defer.
LEMMA HandlerKeepsRequests ==
    ASSUME TypeOK, TypeOK', PairsInv, UNCHANGED mResumePending,
           playerQueue # <<>>, Head(playerQueue) \notin WantAnswer,
           NEW p \in Seq(PlayerMessage \ WantAnswer), playerQueue' = Joined(Tail(playerQueue), p),
           NEW r \in Seq(OtherActs), mDeferredActions' = Joined(mDeferredActions, r)
    PROVE  PairsInv' /\ RequestStep
<1>1. playerQueue \in Seq(PlayerMessage) /\ mDeferredActions \in Seq(DeferredAction)
  BY DEF TypeOK, QueueTypeOK, DeferredTypeOK
<1>2. Kinds(playerQueue') = Kinds(playerQueue)
  <2> DEFINE t == Tail(playerQueue)
  <2>1. t \in Seq(PlayerMessage) /\ Kinds(t) = Kinds(playerQueue)
    BY <1>1, KindsTail
  <2> HIDE DEF t
  <2>2. Kinds(Joined(t, p)) = Kinds(t)
    BY <2>1, KindsBehind
  <2> QED BY <2>1, <2>2 DEF t
<1>3. Acts(mDeferredActions') = Acts(mDeferredActions)
  BY <1>1, ActsBehind
<1>4. r \in Seq(PlainActs)
  BY DEF OtherActs
<1>5. r \in Seq(DeferredAction) /\ Pairs(r) /\ (r # <<>> => r[1] \notin Resumes)
  BY <1>4, PlainPairs
<1>6. Pairs(mDeferredActions') /\ (Due(mDeferredActions') <=> Due(mDeferredActions))
  BY <1>1, <1>5, PairsLater DEF PairsInv
<1>7. PairsInv'
  BY <1>6 DEF PairsInv
<1>8. Waiting' = Waiting
  BY <1>2, <1>3, Waits
<1>9. mResumePending' = TRUE <=> mResumePending = TRUE
  OBVIOUS
<1>10. Answering' <=> Answering
  BY <1>6, <1>9, AnswerIsDue
<1> QED BY <1>7, <1>8, <1>10, RequestSteps

\* A message is taken that is not a request to be answered.
TakesOther ==
    /\ UNCHANGED mResumePending
    /\ \E w : Receive(w) /\ (w \notin RequestNames \/ (w = "Seek" /\ Received.flag = FALSE))

LEMMA TakenHandler ==
    ASSUME TypeOK, TypeOK', PairsInv, TakesOther,
           UNCHANGED mDeferredActions
             \/ \E r \in Seq(OtherActs) : mDeferredActions' = mDeferredActions \o r
    PROVE  PairsInv' /\ RequestStep
<1> DEFINE t == Tail(playerQueue)
<1>1. /\ playerQueue # <<>> /\ playerQueue' = t /\ UNCHANGED mResumePending
      /\ playerQueue \in Seq(PlayerMessage) /\ mDeferredActions \in Seq(DeferredAction)
  BY DEF TakesOther, Receive, TypeOK, QueueTypeOK, DeferredTypeOK
<1>2. Head(playerQueue) \notin WantAnswer
  <2>1. \E w : Received.what = w /\ (w \notin RequestNames \/ (w = "Seek" /\ Received.flag = FALSE))
    BY DEF TakesOther, Receive
  <2> QED BY <2>1 DEF WantAnswer, RequestNames, Received
<1>3. t \in Seq(PlayerMessage)
  BY <1>1
<1> HIDE DEF t
<1>4. <<>> \in Seq(PlayerMessage \ WantAnswer) /\ playerQueue' = Joined(t, <<>>)
  <2>1. <<>> \in Seq(PlayerMessage \ WantAnswer)
    OBVIOUS
  <2> QED BY <1>1, <1>3, <2>1, JoinedBasics
<1>5. \E r \in Seq(OtherActs) : mDeferredActions' = Joined(mDeferredActions, r)
  <2>1. <<>> \in Seq(OtherActs)
    OBVIOUS
  <2>2. Joined(mDeferredActions, <<>>) = mDeferredActions
    BY <1>1, JoinedBasics
  <2> QED BY <2>1, <2>2 DEF Joined
<1> QED BY <1>1, <1>2, <1>4, <1>5, HandlerKeepsRequests DEF t

\* Handlers that defer nothing.
LEMMA PlainHandlerKeepsRequests ==
    ASSUME TypeOK, TypeOK', PairsInv,
           \/ OnSetDataSource \/ OnPrepare \/ OnPause \/ OnStartResumes \/ OnResumeOnBufferingEnd
           \/ OnSetVideoNativeWindowAtOnce \/ OnScanSourcesStale \/ OnScanSourcesWaits
           \/ OnScanSources \/ OnSourceNotifyGone \/ OnInstantiateSecureDecoders
           \/ OnPauseOnBufferingStart \/ OnNotifyStale \/ OnErrorIgnored \/ OnErrorWhileFlushing
           \/ OnErrorWhenFlushed \/ OnAudioOffloadTearDown \/ OnFlushCompleted
           \/ OnRendererFlushComplete \/ OnShutdownCompleted
    PROVE  PairsInv' /\ RequestStep
<1> USE DEF ReceiveFromDecoder, TakesOther, RequestNames
<1>1. CASE \/ OnSetDataSource \/ OnPrepare \/ OnPause \/ OnSetVideoNativeWindowAtOnce
           \/ OnScanSourcesWaits \/ OnInstantiateSecureDecoders \/ OnPauseOnBufferingStart
  <2>1. TakesOther /\ UNCHANGED mDeferredActions
    BY <1>1 DEF OnSetDataSource, OnPrepare, OnPause, OnSetVideoNativeWindowAtOnce, OnScanSourcesWaits,
      OnInstantiateSecureDecoders, OnPauseOnBufferingStart
  <2> QED BY <2>1, TakenHandler
<1>2. CASE \/ OnScanSourcesStale \/ OnSourceNotifyGone \/ OnNotifyStale \/ OnErrorIgnored
  <2>1. TakesOther /\ UNCHANGED mDeferredActions
    BY <1>2 DEF OnScanSourcesStale, OnSourceNotifyGone, OnNotifyStale, OnErrorIgnored, DecoderNotify,
      RendererNotify, playerVars, playerVarsButSurface
  <2> QED BY <2>1, TakenHandler
<1>3. CASE \/ OnErrorWhileFlushing \/ OnErrorWhenFlushed \/ OnAudioOffloadTearDown
  <2>1. CASE OnErrorWhileFlushing \/ OnErrorWhenFlushed
    <3>1. ReceiveError /\ UNCHANGED mDeferredActions
      BY <2>1, Zenon DEF OnErrorWhileFlushing, OnErrorWhenFlushed
    <3>2. TakesOther
      BY <3>1 DEF ReceiveError
    <3> QED BY <3>1, <3>2, TakenHandler
  <2>2. CASE OnAudioOffloadTearDown
    <3>1. TakesOther /\ UNCHANGED mDeferredActions
      BY <2>2 DEF OnAudioOffloadTearDown
    <3> QED BY <3>1, TakenHandler
  <2> QED BY <1>3, <2>1, <2>2
<1>4. CASE \/ OnStartResumes \/ OnResumeOnBufferingEnd \/ OnFlushCompleted
           \/ OnRendererFlushComplete \/ OnShutdownCompleted
  <2>1. TakesOther /\ UNCHANGED mDeferredActions
    BY <1>4 DEF OnStartResumes, OnResumeOnBufferingEnd, OnFlushCompleted, OnRendererFlushComplete,
      OnShutdownCompleted
  <2> QED BY <2>1, TakenHandler
<1>5. CASE OnScanSources
  <2>1. Receive("ScanSources") /\ UNCHANGED <<mResumePending, mDeferredActions>>
    BY <1>5, Zenon DEF OnScanSources
  <2>2. TakesOther /\ UNCHANGED mDeferredActions
    BY <2>1
  <2> QED BY <2>2, TakenHandler
<1> QED BY <1>1, <1>2, <1>3, <1>4, <1>5

\* Handlers that defer what nobody waits for.
LEMMA DeferringKeepsRequests ==
    ASSUME TypeOK, TypeOK', PairsInv,
           \/ OnSetVideoNativeWindow \/ OnPrepared \/ OnQueueDecoderShutdown
           \/ OnInputDiscontinuity \/ OnErrorWhenNotFlushing \/ (OnSeek /\ Received.flag = FALSE)
    PROVE  PairsInv' /\ RequestStep
<1> USE DEF ReceiveFromDecoder
<1>1. Received \in PlayerMessage /\ TakesOther
  <2>1. playerQueue # <<>>
    BY DEF OnSeek, OnSetVideoNativeWindow, OnPrepared, OnQueueDecoderShutdown, OnInputDiscontinuity,
      OnErrorWhenNotFlushing, ReceiveError, Receive
  <2>2. TakesOther
    BY DEF OnSeek, OnSetVideoNativeWindow, OnPrepared, OnQueueDecoderShutdown, OnInputDiscontinuity,
      OnErrorWhenNotFlushing, ReceiveError, TakesOther, RequestNames
  <2> QED BY <2>1, <2>2 DEF TypeOK, QueueTypeOK, Received
<1>2. Received.flag \in BOOLEAN /\ Received.stream \in Streams
  BY <1>1 DEF PlayerMessage
<1>3. ASSUME NEW r \in Seq(OtherActs), Defer(r)
      PROVE  PairsInv' /\ RequestStep
  BY <1>1, <1>3, TakenHandler DEF Defer
<1>4. ASSUME NEW x \in OtherActs, Defer(<<x>>)
      PROVE  PairsInv' /\ RequestStep
  <2>1. <<x>> \in Seq(OtherActs)
    OBVIOUS
  <2> QED BY <1>3, <1>4, <2>1
<1>5. CASE OnSeek /\ Received.flag = FALSE
  BY <1>2, <1>3, <1>5, OtherLists DEF OnSeek
<1>6. CASE OnSetVideoNativeWindow
  <2>1. PICK refresh \in BOOLEAN : Defer(SurfaceActions(Received.flag, refresh))
    BY <1>6 DEF OnSetVideoNativeWindow, TypeOK, PauseTypeOK
  <2> QED BY <1>2, <1>3, <2>1, OtherLists
<1>7. CASE OnPrepared
  <2>1. CASE Defer(<<FlushAction(ForAll("SHUTDOWN"))>>)
    BY <1>4, <2>1, OtherActions
  <2>2. CASE UNCHANGED mDeferredActions
    BY <1>1, <2>2, TakenHandler
  <2> QED BY <1>7, <2>1, <2>2 DEF OnPrepared
<1>8. CASE OnQueueDecoderShutdown
  <2> DEFINE x == FlushAction(IF Received.flag THEN ForAll("SHUTDOWN")
                              ELSE ForOnly(Received.stream, "SHUTDOWN"))
             y == Action("ScanSources", FALSE)
             z == Action("PostMessage", FALSE)
  <2>1. x \in OtherActs /\ y \in OtherActs /\ z \in OtherActs
    BY <1>2, OtherActions, CommandTypes DEF FlushCommand
  <2>2. Defer(<<x, y, z>>)
    BY <1>8 DEF OnQueueDecoderShutdown
  <2> HIDE DEF x, y, z
  <2>3. <<x, y, z>> \in Seq(OtherActs)
    BY <2>1
  <2> QED BY <1>3, <2>2, <2>3
<1>9. CASE OnInputDiscontinuity
  BY <1>4, <1>9, OtherActions DEF OnInputDiscontinuity
<1>10. CASE OnErrorWhenNotFlushing
  <2> DEFINE x == FlushAction(ForOnly(Received.stream, "SHUTDOWN"))
  <2>1. x \in OtherActs
    BY <1>2, OtherActions, CommandTypes DEF FlushCommand
  <2>2. Defer(<<x>>)
    BY <1>10 DEF OnErrorWhenNotFlushing
  <2> HIDE DEF x
  <2> QED BY <1>4, <2>1, <2>2
<1> QED BY <1>5, <1>6, <1>7, <1>8, <1>9, <1>10

\* onStart() may post a scan.
LEMMA StartKeepsRequests ==
    ASSUME TypeOK, TypeOK', PairsInv, OnStart
    PROVE  PairsInv' /\ RequestStep
<1> DEFINE t == Tail(playerQueue)
           scan == [Message("ScanSources", FALSE) EXCEPT !.gen = mScanSourcesGeneration]
           U == PlayerMessage \ WantAnswer
<1>1. /\ playerQueue \in Seq(PlayerMessage) /\ playerQueue # <<>>
      /\ Received.what = "Start" /\ UNCHANGED <<mResumePending, mDeferredActions>>
      /\ (playerQueue' = t \/ playerQueue' = Append(t, scan))
  BY DEF OnStart, PostScanSources, TypeOK, QueueTypeOK
<1>2. scan \in PlayerMessage /\ scan.what = "ScanSources"
  BY ScanMessageType DEF TypeOK, ScanTypeOK, Message
<1>3. Head(playerQueue) \notin WantAnswer /\ t \in Seq(PlayerMessage)
  BY <1>1 DEF Received, WantAnswer
<1> HIDE DEF scan, t
<1>4. scan \in U
  BY <1>2 DEF WantAnswer
<1>5. <<>> \in Seq(U) /\ <<scan>> \in Seq(U)
  BY <1>4
<1>6. Joined(t, <<>>) = t /\ Joined(t, <<scan>>) = Append(t, scan)
  BY <1>2, <1>3, JoinedBasics
<1>7. \E p \in Seq(U) : playerQueue' = Joined(t, p)
  BY <1>1, <1>5, <1>6
<1>8. <<>> \in Seq(OtherActs) /\ mDeferredActions' = Joined(mDeferredActions, <<>>)
  <2>1. <<>> \in Seq(OtherActs)
    OBVIOUS
  <2>2. Joined(mDeferredActions, <<>>) = mDeferredActions
    BY JoinedBasics DEF TypeOK, DeferredTypeOK
  <2> QED BY <1>1, <2>1, <2>2
<1> QED BY <1>1, <1>3, <1>7, <1>8, HandlerKeepsRequests DEF t

\* A request goes from the queue to the deferred actions.
LEMMA RequestIsDeferred ==
    ASSUME TypeOK, TypeOK', PairsInv, UNCHANGED mResumePending,
           playerQueue # <<>>, Head(playerQueue) \in WantAnswer, playerQueue' = Tail(playerQueue),
           NEW r \in Seq(DeferredAction), mDeferredActions' = Joined(mDeferredActions, r),
           Pairs(r), r # <<>> => r[1] \notin Resumes,
           Acts(mDeferredActions') = Append(Acts(mDeferredActions), Head(playerQueue).what)
    PROVE  PairsInv' /\ RequestStep
<1> DEFINE a == Acts(mDeferredActions)
           k == Kinds(playerQueue)
           w == Head(playerQueue).what
<1>1. playerQueue \in Seq(PlayerMessage) /\ mDeferredActions \in Seq(DeferredAction)
  BY DEF TypeOK, QueueTypeOK, DeferredTypeOK
<1>2. a \in Seq(RequestNames) /\ k \in Seq(RequestNames)
  BY <1>1, ActsType, KindsType
<1>3. k # <<>> /\ Head(k) = w /\ Tail(k) = Kinds(playerQueue')
  BY <1>1, KindsTail
<1>4. Waiting = Joined(a, k) /\ Waiting' = Joined(Append(a, w), Kinds(playerQueue'))
  BY Waits
<1> HIDE DEF a, k, w
<1>5. Joined(Append(a, Head(k)), Tail(k)) = Joined(a, k)
  BY <1>2, <1>3, MovedAcross
<1>6. Waiting' = Waiting
  BY <1>3, <1>4, <1>5
<1>7. Pairs(mDeferredActions') /\ (Due(mDeferredActions') <=> Due(mDeferredActions))
  BY <1>1, PairsLater DEF PairsInv
<1>8. PairsInv'
  BY <1>7 DEF PairsInv
<1>9. mResumePending' = TRUE <=> mResumePending = TRUE
  OBVIOUS
<1>10. Answering' <=> Answering
  BY <1>7, <1>9, AnswerIsDue
<1> QED BY <1>6, <1>8, <1>10, RequestSteps

LEMMA JoinedTwo ==
    ASSUME NEW T, NEW q \in Seq(T), NEW x \in T, NEW y \in T
    PROVE  Joined(q, <<x, y>>) = Append(Append(q, x), y)
  BY DEF Joined

LEMMA JoinedThree ==
    ASSUME NEW T, NEW q \in Seq(T), NEW x \in T, NEW y \in T, NEW z \in T
    PROVE  Joined(q, <<x, y, z>>) = Append(Append(Append(q, x), y), z)
  BY DEF Joined

LEMMA SeekKeepsRequests ==
    ASSUME TypeOK, TypeOK', PairsInv, OnSeek, Received.flag = TRUE
    PROVE  PairsInv' /\ RequestStep
<1> DEFINE q == mDeferredActions
<1>1. /\ playerQueue # <<>> /\ playerQueue' = Tail(playerQueue) /\ UNCHANGED mResumePending
      /\ Received.what = "Seek" /\ q' = Joined(q, SeekActions(Received.flag))
      /\ q \in Seq(DeferredAction)
  BY DEF OnSeek, Receive, Defer, Joined, TypeOK, DeferredTypeOK
<1>2. Head(playerQueue) \in WantAnswer /\ Head(playerQueue).what = "Seek"
  <2>1. Head(playerQueue) \in PlayerMessage
    BY <1>1 DEF TypeOK, QueueTypeOK
  <2> QED BY <1>1, <2>1 DEF WantAnswer, Received
<1>3. \E x \in OtherActs, y \in Seeks, z \in Resumes : SeekActions(Received.flag) = <<x, y, z>>
  BY OtherLists
<1>4. PICK x \in OtherActs, y \in Seeks, z \in Resumes : q' = Joined(q, <<x, y, z>>)
  BY <1>1, <1>3
<1>5. x \in PlainActs /\ x \in DeferredAction /\ y \in DeferredAction /\ z \in DeferredAction
  BY DEF OtherActs, PlainActs, Seeks, Resumes
<1>6. /\ x \notin RequestActs /\ y \in RequestActs /\ y.act = "Seek" /\ z \notin RequestActs
  BY <1>5, ActKinds
<1>7. Acts(Joined(q, <<x, y, z>>)) = Append(Acts(q), "Seek")
  <2> DEFINE a == Append(q, x)
             b == Append(a, y)
  <2>1. a \in Seq(DeferredAction) /\ b \in Seq(DeferredAction)
    BY <1>1, <1>5
  <2>2. Joined(q, <<x, y, z>>) = Append(b, z)
    BY <1>1, <1>5, JoinedThree
  <2>3. Acts(a) = Acts(q)
    BY <1>1, <1>5, <1>6, ActsBehind
  <2> HIDE DEF a
  <2>4. Acts(b) = Append(Acts(a), "Seek")
    BY <1>5, <1>6, <2>1, ActsBehind
  <2> HIDE DEF b
  <2>5. Acts(Append(b, z)) = Acts(b)
    BY <1>5, <1>6, <2>1, ActsBehind
  <2> QED BY <2>2, <2>3, <2>4, <2>5
<1>8. /\ <<x, y, z>> \in Seq(DeferredAction) /\ Pairs(<<x, y, z>>)
      /\ <<x, y, z>>[1] \notin Resumes
  BY <1>5, SeekPairs
<1> DEFINE r == <<x, y, z>>
<1> HIDE DEF r
<1>9. r \in Seq(DeferredAction) /\ Pairs(r) /\ r[1] \notin Resumes /\ q' = Joined(q, r)
  BY <1>4, <1>8 DEF r
<1>10. Acts(q') = Append(Acts(q), Head(playerQueue).what)
  BY <1>2, <1>7, <1>9 DEF r
<1> QED BY <1>1, <1>2, <1>9, <1>10, RequestIsDeferred

LEMMA ResetKeepsRequests ==
    ASSUME TypeOK, TypeOK', PairsInv, OnReset
    PROVE  PairsInv' /\ RequestStep
<1> DEFINE q == mDeferredActions
<1>1. /\ playerQueue # <<>> /\ playerQueue' = Tail(playerQueue) /\ UNCHANGED mResumePending
      /\ Received.what = "Reset" /\ q' = Joined(q, ResetActions)
      /\ q \in Seq(DeferredAction)
  BY DEF OnReset, Receive, Defer, Joined, TypeOK, DeferredTypeOK
<1>2. Head(playerQueue) \in WantAnswer /\ Head(playerQueue).what = "Reset"
  <2>1. Head(playerQueue) \in PlayerMessage
    BY <1>1 DEF TypeOK, QueueTypeOK
  <2> QED BY <1>1, <2>1 DEF WantAnswer, Received
<1>3. \E x \in OtherActs, y \in PlainActs : ResetActions = <<x, y>> /\ y.act = "Reset"
  BY OtherLists
<1>4. PICK x \in OtherActs, y \in PlainActs : q' = Joined(q, <<x, y>>) /\ y.act = "Reset"
  BY <1>1, <1>3
<1>5. x \in PlainActs /\ x \in DeferredAction /\ y \in DeferredAction
  BY DEF OtherActs, PlainActs
<1>6. x \notin RequestActs /\ y \in RequestActs
  BY <1>4, <1>5, ActKinds
<1>7. Acts(Joined(q, <<x, y>>)) = Append(Acts(q), "Reset")
  <2> DEFINE a == Append(q, x)
  <2>1. a \in Seq(DeferredAction)
    BY <1>1, <1>5
  <2>2. Joined(q, <<x, y>>) = Append(a, y)
    BY <1>1, <1>5, JoinedTwo
  <2>3. Acts(a) = Acts(q)
    BY <1>1, <1>5, <1>6, ActsBehind
  <2> HIDE DEF a
  <2>4. Acts(Append(a, y)) = Append(Acts(a), "Reset")
    BY <1>4, <1>5, <1>6, <2>1, ActsBehind
  <2> QED BY <2>2, <2>3, <2>4
<1>8. <<x, y>> \in Seq(PlainActs)
  BY <1>5
<1> DEFINE r == <<x, y>>
<1> HIDE DEF r
<1>9. r \in Seq(DeferredAction) /\ Pairs(r) /\ (r # <<>> => r[1] \notin Resumes) /\ q' = Joined(q, r)
  BY <1>4, <1>8, PlainPairs DEF r
<1>10. Acts(q') = Append(Acts(q), Head(playerQueue).what)
  BY <1>2, <1>7, <1>9 DEF r
<1> QED BY <1>1, <1>2, <1>9, <1>10, RequestIsDeferred

\* The answer of the video decoder answers the seek, unless another one is about to
\* resume the decoders: both are then answered at once.
LEMMA ResumedAnswersRequest ==
    ASSUME TypeOK, TypeOK', PairsInv, OnResumeCompleted
    PROVE  PairsInv' /\ RequestStep
<1>1. /\ playerQueue # <<>> /\ playerQueue' = Tail(playerQueue) /\ mResumePending' = FALSE
      /\ Head(playerQueue).what = "ResumeCompleted" /\ mDeferredActions' = mDeferredActions
      /\ playerQueue \in Seq(PlayerMessage)
  BY DEF OnResumeCompleted, ReceiveFromDecoder, Receive, FinishResume, Received, TypeOK, QueueTypeOK
<1>2. Head(playerQueue) \notin WantAnswer
  BY <1>1 DEF WantAnswer
<1>3. Kinds(playerQueue') = Kinds(playerQueue)
  BY <1>1, <1>2, KindsTail
<1>4. Waiting' = Waiting
  BY <1>1, <1>3, Waits
<1>5. PairsInv'
  BY <1>1 DEF PairsInv
<1>6. Due(mDeferredActions') <=> Due(mDeferredActions)
  BY <1>1
<1>7. Answering' => Answering
  BY <1>1, <1>6, AnswerIsDue
<1> QED BY <1>4, <1>5, <1>7, RequestSteps

LEMMA MessageKeepsRequests ==
    ASSUME TypeOK, TypeOK', PairsInv, MessageStep
    PROVE  PairsInv' /\ RequestStep
<1>1. CASE OnSeek
  <2>1. Received.flag \in BOOLEAN
    <3>1. playerQueue # <<>>
      BY <1>1 DEF OnSeek, Receive
    <3>2. Received \in PlayerMessage
      BY <3>1 DEF TypeOK, QueueTypeOK, Received
    <3> QED BY <3>2 DEF PlayerMessage
  <2>2. CASE Received.flag = TRUE
    BY <1>1, <2>2, SeekKeepsRequests
  <2>3. CASE Received.flag = FALSE
    BY <1>1, <2>3, DeferringKeepsRequests
  <2> QED BY <2>1, <2>2, <2>3
<1>2. CASE OnStart \/ OnReset \/ OnResumeCompleted
  BY <1>2, StartKeepsRequests, ResetKeepsRequests, ResumedAnswersRequest
<1> QED BY <1>1, <1>2, PlainHandlerKeepsRequests, DeferringKeepsRequests DEF MessageStep

\* The player executes the first of its actions.
LEMMA Executed ==
    ASSUME TypeOK, TypeOK', PairsInv, mDeferredActions # <<>>,
           mDeferredActions' = Tail(mDeferredActions), Kinds(playerQueue') = Kinds(playerQueue)
    PROVE  LET h == Head(mDeferredActions)
           IN /\ PairsInv' /\ h \in DeferredAction
              /\ Due(mDeferredActions') <=> h \in Seeks
              /\ h \notin RequestActs => Waiting' = Waiting
              /\ h \in RequestActs => Waiting # <<>> /\ Head(Waiting) = h.act /\ Waiting' = Tail(Waiting)
<1> DEFINE q == mDeferredActions
           h == Head(q)
           a == Acts(q)
           k == Kinds(playerQueue)
<1>1. playerQueue \in Seq(PlayerMessage) /\ q \in Seq(DeferredAction) /\ h \in DeferredAction
  BY DEF TypeOK, QueueTypeOK, DeferredTypeOK
<1>2. a \in Seq(RequestNames) /\ k \in Seq(RequestNames)
  BY <1>1, ActsType, KindsType
<1>3. Pairs(q') /\ (Due(q') <=> h \in Seeks)
  BY <1>1, PairsTail DEF PairsInv
<1>4. PairsInv'
  BY <1>3 DEF PairsInv
<1>5. /\ h \notin RequestActs => Acts(q') = a
      /\ h \in RequestActs => a # <<>> /\ Head(a) = h.act /\ Tail(a) = Acts(q')
  BY <1>1, ActsTail
<1>6. Waiting = Joined(a, k) /\ Waiting' = Joined(Acts(q'), k)
  BY Waits
<1> HIDE DEF a, k, h
<1>7. a # <<>> => Joined(a, k) # <<>> /\ Head(Joined(a, k)) = Head(a)
                  /\ Tail(Joined(a, k)) = Joined(Tail(a), k)
  BY <1>2, TakenFirst
<1>8. h \notin RequestActs => Waiting' = Waiting
  BY <1>5, <1>6
<1>9. h \in RequestActs => Waiting # <<>> /\ Head(Waiting) = h.act /\ Waiting' = Tail(Waiting)
  BY <1>5, <1>6, <1>7
<1> QED BY <1>1, <1>3, <1>4, <1>8, <1>9 DEF h

\* Actions that are no request and resume nothing that is waited for.
LEMMA OtherExecuted ==
    ASSUME TypeOK, TypeOK', PairsInv, mDeferredActions # <<>>,
           mDeferredActions' = Tail(mDeferredActions), Kinds(playerQueue') = Kinds(playerQueue),
           UNCHANGED mResumePending, Head(mDeferredActions).act \notin RequestNames,
           Head(mDeferredActions).act = "ResumeDecoder" => Head(mDeferredActions).flag = FALSE
    PROVE  PairsInv' /\ RequestStep
<1> DEFINE h == Head(mDeferredActions)
<1>1. /\ PairsInv' /\ h \in DeferredAction /\ (Due(mDeferredActions') <=> h \in Seeks)
      /\ h \notin RequestActs => Waiting' = Waiting
  BY Executed
<1>2. h.act \notin RequestNames /\ (h.act = "ResumeDecoder" => h.flag = FALSE)
  OBVIOUS
<1>3. ~Due(mDeferredActions)
  BY DEF Due, Resumes
<1> HIDE DEF h
<1>4. h \notin Seeks /\ h \notin RequestActs
  BY <1>2 DEF Seeks, RequestActs, RequestNames
<1>5. mResumePending' = TRUE <=> mResumePending = TRUE
  OBVIOUS
<1>6. Answering' <=> Answering
  BY <1>1, <1>3, <1>4, <1>5, AnswerIsDue
<1> QED BY <1>1, <1>4, <1>6, RequestSteps

LEMMA PerformSeekKeepsRequests ==
    ASSUME TypeOK, TypeOK', PairsInv, PerformSeek
    PROVE  PairsInv' /\ RequestStep
<1> DEFINE h == Head(mDeferredActions)
<1>1. /\ mDeferredActions # <<>> /\ mDeferredActions' = Tail(mDeferredActions)
      /\ UNCHANGED <<mResumePending, playerQueue>> /\ h.act = "Seek"
  BY DEF PerformSeek, Execute, Next1
<1>2. Kinds(playerQueue') = Kinds(playerQueue)
  BY <1>1
<1>3. /\ PairsInv' /\ h \in DeferredAction /\ (Due(mDeferredActions') <=> h \in Seeks)
      /\ h \notin RequestActs => Waiting' = Waiting
      /\ h \in RequestActs => Waiting # <<>> /\ Head(Waiting) = h.act /\ Waiting' = Tail(Waiting)
  BY <1>1, <1>2, Executed
<1>4. ~Due(mDeferredActions)
  BY <1>1 DEF Due, Resumes
<1> HIDE DEF h
<1>5. h \in RequestActs <=> h \in Seeks
  BY <1>1, <1>3 DEF RequestActs, Seeks
<1>6. CASE h \in Seeks
  <2>1. Answering'
    BY <1>3, <1>6, AnswerIsDue
  <2> QED BY <1>1, <1>3, <1>5, <1>6, <2>1, RequestSteps
<1>7. CASE h \notin Seeks
  <2>1. mResumePending' = TRUE <=> mResumePending = TRUE
    BY <1>1
  <2>2. Answering' <=> Answering
    BY <1>3, <1>4, <1>7, <2>1, AnswerIsDue
  <2> QED BY <1>3, <1>5, <1>7, <2>2, RequestSteps
<1> QED BY <1>6, <1>7

\* The seek is answered at once, or by the video decoder.
LEMMA ResumeKeepsRequests ==
    ASSUME TypeOK, TypeOK', PairsInv, PerformResumeDecoders
    PROVE  PairsInv' /\ RequestStep
<1> DEFINE h == Head(mDeferredActions)
<1>1. /\ mDeferredActions # <<>> /\ mDeferredActions' = Tail(mDeferredActions)
      /\ UNCHANGED playerQueue /\ h.act = "ResumeDecoder" /\ AwaitResume(h.flag)
  BY DEF PerformResumeDecoders, Execute, Next1
<1>2. Kinds(playerQueue') = Kinds(playerQueue)
  BY <1>1
<1>3. /\ PairsInv' /\ h \in DeferredAction /\ (Due(mDeferredActions') <=> h \in Seeks)
      /\ h \notin RequestActs => Waiting' = Waiting
  BY <1>1, <1>2, Executed
<1>4. h \in Resumes => Due(mDeferredActions)
  BY <1>1 DEF Due
<1>5. h.flag \in BOOLEAN
  BY <1>3 DEF DeferredAction
<1>6. mResumePending \in BOOLEAN
  BY DEF TypeOK, ResumeTypeOK
<1>7. CASE h.flag = FALSE
  <2>1. mResumePending' = mResumePending
    <3>1. mResumePending' = (mResumePending \/ h.flag)
      BY <1>1, <1>7 DEF AwaitResume
    <3>2. (mResumePending \/ h.flag) = mResumePending
      BY <1>6, <1>7
    <3> QED BY <3>1, <3>2
  <2>2. h.act \notin RequestNames
    BY <1>1 DEF RequestNames
  <2> QED BY <1>1, <1>2, <1>7, <2>1, <2>2, OtherExecuted
<1> HIDE DEF h
<1>8. CASE h.flag = TRUE
  <2>1. h \in Resumes /\ h \notin RequestActs /\ h \notin Seeks
    BY <1>1, <1>3, <1>8 DEF Resumes, RequestActs, Seeks
  <2>2. Answering
    BY <1>4, <2>1, AnswerIsDue
  <2>3. mResumePending' = FALSE \/ mResumePending' = TRUE
    BY DEF TypeOK, ResumeTypeOK
  <2> QED BY <1>3, <2>1, <2>2, RequestSteps
<1> QED BY <1>5, <1>7, <1>8

\* When a reset is carried out no seek is unanswered: the video decoder is gone, and
\* it answered before.
LEMMA PerformResetKeepsRequests ==
    ASSUME TypeOK, TypeOK', PairsInv, ReleaseInv, AnswerInv, PerformReset
    PROVE  PairsInv' /\ RequestStep
<1> DEFINE h == Head(mDeferredActions)
<1>1. /\ mDeferredActions # <<>> /\ mDeferredActions' = Tail(mDeferredActions)
      /\ UNCHANGED <<playerQueue, mResumePending>> /\ h.act = "Reset" /\ NotFlushing /\ Alive
  BY DEF PerformReset, Execute, Next1, Alive, AbortStates
<1>2. Kinds(playerQueue') = Kinds(playerQueue)
  BY <1>1
<1>3. /\ PairsInv' /\ h \in DeferredAction /\ (Due(mDeferredActions') <=> h \in Seeks)
      /\ h \in RequestActs => Waiting # <<>> /\ Head(Waiting) = h.act /\ Waiting' = Tail(Waiting)
  BY <1>1, <1>2, Executed
<1>4. ResetIsNext
  BY <1>1, <1>3 DEF ResetIsNext, ResetActs
<1>5. mDecoder["video"] = "NULL"
  <2>1. \A s \in Streams : mDecoder[s] = "NULL"
    BY <1>1, <1>4 DEF ReleaseInv, Releases, ShutDownStates, NotFlushing, AllNone
  <2> QED BY <2>1 DEF Streams
<1>6. ~mResumePending
  BY <1>1, <1>5 DEF AnswerInv, Answerable
<1>7. ~Due(mDeferredActions)
  BY <1>1 DEF Due, Resumes
<1> HIDE DEF h
<1>8. h \in RequestActs /\ h \notin Seeks
  BY <1>1, <1>3 DEF RequestActs, Seeks
<1>9. ~Answering
  BY <1>6, <1>7, AnswerIsDue
<1>10. ~Answering'
  BY <1>1, <1>3, <1>6, <1>8, AnswerIsDue
<1> QED BY <1>1, <1>3, <1>8, <1>9, <1>10, RequestSteps

LEMMA DeferredKeepsRequests ==
    ASSUME TypeOK, TypeOK', PairsInv, ReleaseInv, AnswerInv, DeferredStep
    PROVE  PairsInv' /\ RequestStep
<1>1. CASE DeferredDone
  BY <1>1, PostsKeepRequests DEF DeferredDone, PostsOnly
<1>2. CASE PerformDecoderFlush \/ PerformSetSurface \/ PerformPostMessage
  <2> DEFINE h == Head(mDeferredActions)
  <2>1. /\ mDeferredActions # <<>> /\ mDeferredActions' = Tail(mDeferredActions)
        /\ UNCHANGED <<playerQueue, mResumePending>> /\ h.act \in {"Flush", "SetSurface", "PostMessage"}
    BY <1>2 DEF PerformDecoderFlush, PerformSetSurface, PerformPostMessage, Execute, Next1
  <2>2. Kinds(playerQueue') = Kinds(playerQueue)
    BY <2>1
  <2>3. h.act \notin RequestNames /\ h.act # "ResumeDecoder"
    BY <2>1 DEF RequestNames
  <2> QED BY <2>1, <2>2, <2>3, OtherExecuted
<1>3. CASE PerformScanSources
  <2> DEFINE h == Head(mDeferredActions)
             scan == [Message("ScanSources", FALSE) EXCEPT !.gen = mScanSourcesGeneration]
  <2>1. /\ mDeferredActions # <<>> /\ mDeferredActions' = Tail(mDeferredActions)
        /\ UNCHANGED mResumePending /\ h.act = "ScanSources"
        /\ playerQueue' = playerQueue \/ playerQueue' = Append(playerQueue, scan)
    BY <1>3 DEF PerformScanSources, Execute, Next1, PostScanSources
  <2>2. scan \in PlayerMessage /\ scan \notin WantAnswer
    <3>1. scan \in PlayerMessage /\ scan.what = "ScanSources"
      BY ScanMessageType DEF TypeOK, ScanTypeOK, Message
    <3> HIDE DEF scan
    <3> QED BY <3>1 DEF WantAnswer
  <2> HIDE DEF scan
  <2>3. Kinds(playerQueue') = Kinds(playerQueue)
    BY <2>1, <2>2, KindsBehind DEF TypeOK, QueueTypeOK
  <2>4. h.act \notin RequestNames /\ h.act # "ResumeDecoder"
    BY <2>1 DEF RequestNames
  <2> QED BY <2>1, <2>3, <2>4, OtherExecuted
<1> QED
  BY <1>1, <1>2, <1>3, PerformSeekKeepsRequests, ResumeKeepsRequests, PerformResetKeepsRequests DEF
    DeferredStep

LEMMA NextKeepsRequests ==
    ASSUME TypeOK, TypeOK', PairsInv, ReleaseInv, AnswerInv, [Next]_vars
    PROVE  PairsInv' /\ RequestStep
<1>1. CASE ~PlayerStep
  <2>1. UNCHANGED mDeferredActions
    BY <1>1, OthersLeaveTheStreams
  <2> QED BY <1>1, <2>1, OthersOnlyPost, PostsKeepRequests
<1>2. CASE OnAudioSinkClosed
  <2>1. UNCHANGED <<mDeferredActions, mResumePending, playerQueue>>
    BY <1>2 DEF OnAudioSinkClosed
  <2> QED BY <2>1, PostsKeepRequests DEF PostsOnly
<1> QED BY <1>1, <1>2, MessageKeepsRequests, DeferredKeepsRequests DEF PlayerStep

\* The client's seeks and resets are carried out in the order of its calls, none is
\* lost, repeated or overtaken, and a reset leaves no seek unanswered: every step of
\* the player is a step of PlayerRequests or none, for every set of formats and every
\* number of errors, surfaces, scans and buffering pauses that come in between. The
\* two hazards are left out that break the release of the decoders before a reset.
THEOREM SeeksAndResetsInOrder ==
    Spec /\ [][~TornDownInFlush]_vars /\ [][~BufferingEndsInReset]_vars => RequestsInOrder
<1>1. Init => /\ SourceInv /\ FlushInv /\ ReleaseInv /\ AnswerInv /\ PairsInv
              /\ Requests!Init
  <2>1. <<>> \in Seq(Sourced)
    OBVIOUS
  <2>2. Init => SourceInv /\ FlushInv /\ ReleaseInv /\ PairsInv
    BY <2>1, InitFlush DEF Init, SourceInv, SessionInv, ScanInv, Contains, NothingBehind, ResetWaits,
      ReleaseInv, Preceded, WaitsForFlush, Releases, ResetIsNext, PairsInv, Pairs, Followed
  <2>3. Init => Requests!Init
    <3> SUFFICES ASSUME Init PROVE Requests!Init
      OBVIOUS
    <3>1. playerQueue = <<>> /\ mDeferredActions = <<>> /\ mResumePending = FALSE
      BY DEF Init
    <3>2. Kept(<<>>, RequestActs) = <<>> /\ Kept(<<>>, WantAnswer) = <<>>
      BY KeptOne
    <3>3. ActsIn(<<>>) = <<>> /\ KindsIn(<<>>) = <<>>
      BY DEF ActsIn, KindsIn
    <3>4. Joined(<<>>, <<>>) = <<>>
      BY DEF Joined
    <3>5. Waiting = <<>>
      BY <3>1, <3>2, <3>3, <3>4, Waits DEF Acts, Kinds
    <3>6. Answering = FALSE
      BY <3>1 DEF Answering
    <3> QED BY <3>5, <3>6 DEF Requests!Init
  <2> QED BY <2>2, <2>3, InitAnswers
<1>2. /\ TypeOK /\ TypeOK' /\ SourceInv /\ FlushInv /\ ReleaseInv /\ AnswerInv /\ PairsInv
      /\ [Next]_vars /\ [~TornDownInFlush]_vars /\ [~BufferingEndsInReset]_vars
      => /\ SourceInv' /\ FlushInv' /\ ReleaseInv' /\ AnswerInv' /\ PairsInv'
         /\ [Requests!Next]_(Requests!vars)
  <2>1. UNCHANGED vars => ~TornDownInFlush
    BY DEF TornDownInFlush, OnAudioSinkClosed, vars, playerVars, playerVarsButSurface
  <2>2. UNCHANGED vars => ~BufferingEndsInReset
    BY DEF BufferingEndsInReset, vars, playerVars, playerVarsButSurface, objectVars
  <2> QED BY <2>1, <2>2, NextFlush, NextKeepsSession, NextReleases, NextAnswers, NextKeepsRequests
       DEF RequestStep
<1> QED BY <1>1, <1>2, TypeCorrect, PTL DEF Spec, RequestsInOrder, Requests!Spec

-----------------------------------------------------------------------------
(* No decoder resumes before the source has moved.                          *)

\* The source moves, or the window does, just behind a flush of both streams or
\* behind the other one.  While it is next each decoder stops: it has a flush to
\* do and nothing after it that would let it take data, or it has flushed, holds
\* nothing and stays paused.
Moves == {a \in DeferredAction : a.act \in {"Seek", "SetSurface"}}
Stops == {a \in DeferredAction : \/ a.act = "SetSurface"
                                 \/ a.act = "Flush" /\ \A s \in Streams : a.cmd[s] # "NONE"}
FlushOrders == {d \in DecoderMessage : d.what = "Flush"}
Wakes == {d \in DecoderMessage : d.what \in {"Configure", "Resume"}}
Stopping(d) ==
    /\ NothingBehind(d.queue, FlushOrders, Wakes)
    /\ Contains(d.queue, FlushOrders)
         \/ (~Contains(d.queue, Wakes) /\ d.data = "none" /\ d.paused = TRUE)
MoveIsNext == mDeferredActions # <<>> /\ Head(mDeferredActions) \in Moves
AllStop == MoveIsNext => \A s \in Streams : mDecoder[s] = "NULL" \/ Stopping(decoder[s])
StaleInv ==
    /\ NoStaleData
    /\ Preceded(mDeferredActions, Moves, Stops)
    /\ Alive => AllStop

\* The hazards that the theorem leaves out: the player that resumes creates an
\* audio decoder while a flush is awaited, and the tear down of the offloaded
\* audio moves the source under a video decoder that it does not flush.
ResumedInFlush ==
    /\ OnStartResumes \/ OnResumeOnBufferingEnd
    /\ mDecoder' # mDecoder /\ ~NotFlushing
MovedUnderVideo == OnAudioSinkClosed /\ decoder["video"].data # "none"

\* What a step of a decoder, or an order to it, leaves of that.
KeepsStopping(d, e) ==
    /\ d.data # "stale" => e.data # "stale"
    /\ Stopping(d) => Stopping(e)

LEMMA SameStopping ==
    ASSUME NEW d, NEW e, e.queue = d.queue, e.paused = d.paused,
           e.data \in {d.data, "none"} \/ (d.paused # TRUE /\ e.data # "stale")
    PROVE  KeepsStopping(d, e)
  BY DEF KeepsStopping, Stopping

LEMMA PostStops ==
    ASSUME NEW d \in DecoderState, NEW w \in {"Flush", "Shutdown"}, NEW f \in BOOLEAN
    PROVE  /\ Post(d, w, f).data = d.data
           /\ w = "Shutdown" => KeepsStopping(d, Post(d, w, f))
           /\ w = "Flush" /\ ~Contains(d.queue, FlushOrders) => Stopping(Post(d, w, f))
<1> DEFINE m == [what |-> w, flag |-> f]
           q == d.queue
           p == q \o <<m>>
<1>1. m \in DecoderMessage /\ m \notin Wakes /\ (w = "Flush" <=> m \in FlushOrders)
  BY DEF DecoderMessage, Wakes, FlushOrders
<1>2. q \in Seq(DecoderMessage)
  BY DEF DecoderState
<1>3. /\ Post(d, w, f).queue = Append(q, m) /\ Post(d, w, f).data = d.data
      /\ Post(d, w, f).paused = d.paused
  BY DEF Post, DecoderState
<1> HIDE DEF m, q
<1>4. Append(q, m) = p /\ <<m>> \in Seq(DecoderMessage)
  BY <1>1, <1>2
<1>5. /\ ~Contains(<<m>>, Wakes) /\ NothingBehind(<<m>>, FlushOrders, Wakes)
      /\ m \in FlushOrders => Contains(<<m>>, FlushOrders)
  BY <1>1 DEF Contains, NothingBehind
<1>6. NothingBehind(q, FlushOrders, Wakes) => NothingBehind(p, FlushOrders, Wakes)
  BY <1>2, <1>4, <1>5, NothingBehindLemma
<1>7. ~Contains(q, FlushOrders) => NothingBehind(q, FlushOrders, Wakes)
  BY DEF Contains, NothingBehind
<1>8. /\ Contains(q, FlushOrders) => Contains(p, FlushOrders)
      /\ m \in FlushOrders => Contains(p, FlushOrders)
  BY <1>2, <1>4, <1>5, ContainsLemma
<1>9. ~Contains(q, Wakes) => ~Contains(p, Wakes)
  BY <1>2, <1>4, <1>5, ContainsOnlyLemma
<1> HIDE DEF p
<1> QED BY <1>1, <1>3, <1>4, <1>6, <1>7, <1>8, <1>9 DEF KeepsStopping, Stopping, q

\* An order is taken: e is the decoder after it.
LEMMA TakenStops ==
    ASSUME NEW d \in DecoderState, d.queue # <<>>, NEW e, e.queue = Tail(d.queue),
           e.data \in {d.data, "none"},
           Head(d.queue).what = "Flush" => e.data = "none" /\ e.paused = TRUE,
           Head(d.queue).what = "Shutdown" => e.data = "none" /\ (d.paused = TRUE => e.paused = TRUE)
    PROVE  KeepsStopping(d, e)
<1> DEFINE q == d.queue
           h == Head(q)
           t == Tail(q)
<1>1. q \in Seq(DecoderMessage) /\ h \in DecoderMessage /\ t \in Seq(DecoderMessage)
  BY DEF DecoderState
<1>2. q # <<>> /\ e.queue = t
  OBVIOUS
<1>3. ASSUME Stopping(d)
      PROVE  Stopping(e)
  <2>1. NothingBehind(q, FlushOrders, Wakes)
    BY <1>3 DEF Stopping
  <2>2. /\ h.what \in {"Configure", "Resume"} => h \in Wakes /\ h \notin FlushOrders
        /\ h.what = "Flush" => h \in FlushOrders
        /\ h.what = "Shutdown" => h \notin FlushOrders
        /\ h.what \in {"Configure", "Resume", "Flush", "Shutdown"}
    BY <1>1 DEF Wakes, FlushOrders, DecoderMessage
  <2> HIDE DEF q
  <2>3. /\ NothingBehind(t, FlushOrders, Wakes)
        /\ h \in FlushOrders => ~Contains(t, Wakes)
    BY <1>1, <1>2, <2>1, NothingBehindLemma
  <2>4. Contains(q, FlushOrders) /\ h \notin FlushOrders => Contains(t, FlushOrders)
    BY <1>1, <1>2, ContainsLemma
  <2>5. /\ h \in Wakes => Contains(q, Wakes)
        /\ Contains(t, Wakes) => Contains(q, Wakes)
    BY <1>1, <1>2, ContainsOnlyLemma
  <2>6. Contains(q, FlushOrders) \/ (~Contains(q, Wakes) /\ d.data = "none" /\ d.paused = TRUE)
    BY <1>3 DEF Stopping, q
  <2>7. CASE h.what = "Flush"
    BY <1>2, <2>2, <2>3, <2>7 DEF Stopping, q
  <2>8. CASE h.what = "Shutdown"
    BY <1>2, <2>2, <2>3, <2>4, <2>5, <2>6, <2>8 DEF Stopping, q
  <2>9. CASE h.what \in {"Configure", "Resume"}
    BY <1>2, <2>2, <2>3, <2>4, <2>5, <2>6, <2>9 DEF Stopping
  <2> QED BY <2>2, <2>7, <2>8, <2>9
<1> QED BY <1>3 DEF KeepsStopping

LEMMA StaleFrame ==
    ASSUME StaleInv, Alive' => Alive, UNCHANGED mDeferredActions,
           \A s \in Streams : mDecoder[s] = "NULL" => mDecoder'[s] = "NULL",
           \A s \in Streams : \/ KeepsStopping(decoder[s], decoder'[s])
                              \/ mDecoder'[s] = "NULL" /\ decoder'[s].data # "stale"
    PROVE  StaleInv'
<1>1. NoStaleData'
  BY DEF StaleInv, NoStaleData, KeepsStopping
<1>2. Alive' => AllStop'
  <2> SUFFICES ASSUME Alive', MoveIsNext', NEW s \in Streams
               PROVE  mDecoder'[s] = "NULL" \/ Stopping(decoder'[s])
    BY Zenon DEF AllStop, Stopping
  <2>1. mDecoder[s] = "NULL" \/ Stopping(decoder[s])
    BY DEF StaleInv, AllStop, MoveIsNext, Moves
  <2> QED BY <2>1 DEF KeepsStopping
<1> QED BY <1>1, <1>2 DEF StaleInv, Moves, Stops

LEMMA SameDecoders ==
    ASSUME StaleInv, Alive' => Alive, UNCHANGED <<mDeferredActions, mDecoder, decoder>>
    PROVE  StaleInv'
<1>1. \A s \in Streams : KeepsStopping(decoder[s], decoder'[s])
  BY DEF StaleInv, NoStaleData, KeepsStopping
<1> QED BY <1>1, StaleFrame

\* What is created while no move is next may take data.
LEMMA CreatingStops ==
    ASSUME StaleInv, ~MoveIsNext, UNCHANGED mDeferredActions,
           \A s \in Streams : decoder'[s].data # "stale"
    PROVE  StaleInv'
<1>1. ~MoveIsNext'
  BY DEF MoveIsNext, Moves
<1> QED BY <1>1 DEF StaleInv, AllStop, NoStaleData, Moves, Stops

LEMMA DeferKeepsStopping ==
    ASSUME TypeOK, StaleInv, looper = "idle", UNCHANGED <<mDecoder, decoder>>,
           NEW r \in Seq(DeferredAction), r # <<>>, r[1] \notin Moves,
           Preceded(r, Moves, Stops), Defer(r)
    PROVE  StaleInv'
<1> DEFINE q == mDeferredActions
<1>1. q \in Seq(DeferredAction) /\ mDeferredActions' = q \o r
  BY DEF TypeOK, DeferredTypeOK, Defer
<1>2. q # <<>> => q \o r # <<>> /\ Head(q \o r) = Head(q)
  BY <1>1
<1>3. q = <<>> => Head(q \o r) = r[1]
  BY <1>1
<1>4. MoveIsNext' => MoveIsNext
  BY <1>1, <1>2, <1>3 DEF MoveIsNext, Moves
<1>5. Preceded(q \o r, Moves, Stops)
  BY <1>1, PrecededLemma DEF StaleInv
<1>6. Alive
  BY DEF Alive, AbortStates
<1>7. AllStop'
  <2> SUFFICES ASSUME MoveIsNext, NEW s \in Streams
               PROVE  mDecoder'[s] = "NULL" \/ Stopping(decoder'[s])
    BY <1>4, Zenon DEF AllStop, Stopping
  <2> QED BY <1>6 DEF StaleInv, AllStop
<1> QED BY <1>1, <1>5, <1>7 DEF StaleInv, NoStaleData, Moves, Stops

\* While the looper rests a move that is next waits for a flush.
LEMMA MoveIsWaited ==
    ASSUME ReleaseInv, MoveIsNext, looper \in {"idle", "tearError", "tearTimeout"}
    PROVE  ~NotFlushing
<1>1. Alive /\ Resting
  BY DEF Alive, AbortStates, Resting
<1> QED BY <1>1 DEF ReleaseInv, WaitsForFlush, MoveIsNext

-----------------------------------------------------------------------------
(* The steps and what the decoders hold.                                    *)

\* Handlers that leave the decoders and the actions alone.
LEMMA PlainHandlerStops ==
    ASSUME StaleInv,
           \/ OnSetDataSource \/ OnPrepare \/ OnStart \/ OnPause \/ OnSetVideoNativeWindowAtOnce
           \/ OnScanSourcesStale \/ OnScanSourcesWaits \/ OnSourceNotifyGone
           \/ OnInstantiateSecureDecoders \/ OnPauseOnBufferingStart \/ OnNotifyStale
           \/ OnResumeCompleted \/ OnErrorIgnored \/ OnAudioOffloadTearDown
    PROVE  StaleInv'
<1> USE DEF Receive, ReceiveFromDecoder, objectVars, flushVars
<1>1. CASE \/ OnSetDataSource \/ OnPrepare \/ OnStart \/ OnPause \/ OnSetVideoNativeWindowAtOnce
           \/ OnScanSourcesStale \/ OnScanSourcesWaits \/ OnSourceNotifyGone
  <2>1. looper = "idle" /\ UNCHANGED <<mDeferredActions, mDecoder, decoder>>
    BY <1>1 DEF OnSetDataSource, OnPrepare, OnStart, OnPause, OnSetVideoNativeWindowAtOnce,
      OnScanSourcesStale, OnScanSourcesWaits, OnSourceNotifyGone, playerVars, playerVarsButSurface
  <2> QED BY <2>1, SameDecoders DEF Alive, AbortStates
<1>2. CASE \/ OnInstantiateSecureDecoders \/ OnPauseOnBufferingStart \/ OnNotifyStale
           \/ OnResumeCompleted \/ OnErrorIgnored \/ OnAudioOffloadTearDown
  <2>1. looper = "idle" /\ UNCHANGED <<mDeferredActions, mDecoder, decoder>>
    BY <1>2 DEF OnInstantiateSecureDecoders, OnPauseOnBufferingStart, OnNotifyStale, OnResumeCompleted,
      OnErrorIgnored, OnAudioOffloadTearDown, playerVars, playerVarsButSurface
  <2> QED BY <2>1, SameDecoders DEF Alive, AbortStates
<1> QED BY <1>1, <1>2

LEMMA PrecededAcross ==
    ASSUME NEW T, NEW q \in Seq(T), NEW r \in Seq(T), NEW M, NEW N, Preceded(q, M, N),
           Preceded(r, M, N), q # <<>>, r # <<>> /\ r[1] \in M => q[Len(q)] \in N
    PROVE  Preceded(q \o r, M, N) /\ q \o r \in Seq(T) /\ q \o r # <<>> /\ (q \o r)[1] = q[1]
<1> DEFINE both == q \o r
<1>1. both \in Seq(T) /\ both # <<>> /\ both[1] = q[1]
  OBVIOUS
<1>2. Preceded(both, M, N)
  <2> SUFFICES ASSUME NEW i \in DOMAIN both, i > 1, both[i] \in M
               PROVE  both[i - 1] \in N
    BY DEF Preceded
  <2>1. CASE i <= Len(q)
    <3>1. i \in DOMAIN q /\ both[i] = q[i] /\ both[i - 1] = q[i - 1]
      BY <2>1
    <3> QED BY <3>1 DEF Preceded
  <2>2. CASE i = Len(q) + 1
    <3>1. r # <<>> /\ both[i] = r[1] /\ both[i - 1] = q[Len(q)]
      BY <2>2
    <3> QED BY <3>1
  <2>3. CASE i > Len(q) + 1
    <3>1. /\ i - Len(q) \in DOMAIN r /\ i - Len(q) > 1 /\ both[i] = r[i - Len(q)]
          /\ both[i - 1] = r[(i - Len(q)) - 1]
      BY <2>3
    <3> HIDE DEF both
    <3> QED BY <3>1 DEF Preceded
  <2> QED BY <2>1, <2>2, <2>3
<1> QED BY <1>1, <1>2

LEMMA PrecededShort ==
    ASSUME NEW T, NEW M, NEW N, NEW a \in T, NEW b \in T, b \in M => a \in N
    PROVE  /\ <<a>> \in Seq(T) /\ Preceded(<<a>>, M, N) /\ <<a>> # <<>> /\ <<a>>[1] = a
           /\ <<a, b>> \in Seq(T) /\ Preceded(<<a, b>>, M, N) /\ <<a, b>> # <<>>
           /\ <<a, b>>[1] = a /\ <<a, b>>[Len(<<a, b>>)] = b
           /\ <<>> \in Seq(T) /\ Preceded(<<>>, M, N)
  BY DEF Preceded

\* What the handlers defer.
LEMMA MovesFollowStops ==
    /\ \A f \in BOOLEAN : /\ Preceded(SeekActions(f), Moves, Stops)
                          /\ SeekActions(f) # <<>> /\ SeekActions(f)[1] \notin Moves
    /\ \A w, r \in BOOLEAN : /\ Preceded(SurfaceActions(w, r), Moves, Stops)
                             /\ SurfaceActions(w, r) # <<>> /\ SurfaceActions(w, r)[1] \notin Moves
<1> DEFINE flush == FlushAction(ForAll("FLUSH"))
           release == FlushAction([ForAll("FLUSH") EXCEPT !["video"] = "SHUTDOWN"])
           do(a, f) == Action(a, f)
           T == DeferredAction
<1>1. flush \in (Stops \ Moves) \cap T /\ release \in (Stops \ Moves) \cap T
  <2>1. /\ ForAll("FLUSH") \in [Streams -> FlushCommand]
        /\ [ForAll("FLUSH") EXCEPT !["video"] = "SHUTDOWN"] \in [Streams -> FlushCommand]
    BY CommandTypes DEF FlushCommand, Streams
  <2>2. flush \in DeferredAction /\ release \in DeferredAction
    BY <2>1, FlushActionType
  <2>3. \A s \in Streams : /\ ForAll("FLUSH")[s] # "NONE"
                           /\ [ForAll("FLUSH") EXCEPT !["video"] = "SHUTDOWN"][s] # "NONE"
    BY DEF ForAll
  <2> QED BY <2>2, <2>3 DEF Stops, Moves, FlushAction
<1>2. ASSUME NEW f \in BOOLEAN
      PROVE  /\ do("Seek", f) \in T /\ do("SetSurface", f) \in Stops \cap T
             /\ do("ResumeDecoder", f) \in T \ Moves /\ do("ScanSources", f) \in T \ Moves
  <2>1. /\ do("Seek", f) \in T /\ do("SetSurface", f) \in T
        /\ do("ResumeDecoder", f) \in T /\ do("ScanSources", f) \in T
    BY ActionType
  <2> QED BY <2>1 DEF Stops, Moves, Action
<1>3. ASSUME NEW f \in BOOLEAN
      PROVE  SeekActions(f) = <<flush, do("Seek", f), do("ResumeDecoder", f)>>
  BY DEF SeekActions
<1>4. ASSUME NEW w \in BOOLEAN, NEW r \in BOOLEAN
      PROVE  SurfaceActions(w, r) =
               (<<release, do("SetSurface", w)>>
                 \o (IF w THEN (IF r THEN <<do("Seek", FALSE)>> ELSE <<>>)
                               \o <<do("ScanSources", FALSE)>> ELSE <<>>))
               \o <<do("ResumeDecoder", FALSE)>>
  BY DEF SurfaceActions, RefreshActions
<1> HIDE DEF flush, release, do, T
<1>5. ASSUME NEW f \in BOOLEAN
      PROVE  /\ Preceded(SeekActions(f), Moves, Stops)
             /\ SeekActions(f) # <<>> /\ SeekActions(f)[1] \notin Moves
  <2>1. Preceded(<<flush, do("Seek", f), do("ResumeDecoder", f)>>, Moves, Stops)
    BY <1>1, <1>2 DEF Preceded
  <2> QED BY <1>1, <1>3, <2>1
<1>6. ASSUME NEW w \in BOOLEAN, NEW r \in BOOLEAN
      PROVE  /\ Preceded(SurfaceActions(w, r), Moves, Stops)
             /\ SurfaceActions(w, r) # <<>> /\ SurfaceActions(w, r)[1] \notin Moves
  <2> DEFINE s == do("SetSurface", w)
             k == do("Seek", FALSE)
             c == do("ScanSources", FALSE)
             d == do("ResumeDecoder", FALSE)
             p == <<release, s>>
             refresh == IF r THEN <<k>> ELSE <<>>
             tail == IF w THEN refresh \o <<c>> ELSE <<>>
             most == p \o tail
  <2>1. SurfaceActions(w, r) = most \o <<d>>
    BY <1>4
  <2>2. /\ s \in Stops /\ s \in T /\ k \in T /\ c \in T \ Moves /\ d \in T \ Moves
        /\ release \in T /\ release \in Stops /\ release \notin Moves
    BY <1>1, <1>2
  <2> HIDE DEF s, k, c, d
  <2>3. /\ p \in Seq(T) /\ Preceded(p, Moves, Stops) /\ p # <<>> /\ p[1] = release /\ p[Len(p)] = s
        /\ <<c>> \in Seq(T) /\ Preceded(<<c>>, Moves, Stops) /\ <<c>>[1] = c
        /\ <<d>> \in Seq(T) /\ Preceded(<<d>>, Moves, Stops) /\ <<d>>[1] = d
        /\ refresh \in Seq(T) /\ Preceded(refresh, Moves, Stops)
    BY <2>2, PrecededShort
  <2> HIDE DEF refresh, p
  <2>4. refresh \o <<c>> \in Seq(T) /\ Preceded(refresh \o <<c>>, Moves, Stops)
    <3>1. CASE refresh # <<>>
      BY <2>2, <2>3, <3>1, PrecededAcross
    <3>2. CASE refresh = <<>>
      BY <2>2, <2>3, <3>2
    <3> QED BY <3>1, <3>2
  <2>5. tail \in Seq(T) /\ Preceded(tail, Moves, Stops)
    BY <2>2, <2>4, PrecededShort
  <2> HIDE DEF tail
  <2>6. /\ most \in Seq(T) /\ Preceded(most, Moves, Stops) /\ most # <<>>
        /\ most[1] = release
    BY <2>2, <2>3, <2>5, PrecededAcross
  <2> HIDE DEF most
  <2>7. /\ Preceded(most \o <<d>>, Moves, Stops) /\ most \o <<d>> # <<>>
        /\ (most \o <<d>>)[1] = release
    BY <2>2, <2>3, <2>6, PrecededAcross
  <2> QED BY <2>1, <2>2, <2>7
<1> QED BY <1>5, <1>6

\* Handlers that defer actions.
LEMMA DeferringHandlerStops ==
    ASSUME TypeOK, StaleInv,
           \/ OnSeek \/ OnReset \/ OnSetVideoNativeWindow \/ OnPrepared \/ OnQueueDecoderShutdown
           \/ OnInputDiscontinuity \/ OnErrorWhenNotFlushing
    PROVE  StaleInv'
<1> USE DEF Receive, ReceiveFromDecoder, objectVars, flushVars
<1>1. looper = "idle" /\ playerQueue # <<>> /\ UNCHANGED <<mDecoder, decoder>>
  BY DEF OnSeek, OnReset, OnSetVideoNativeWindow, OnPrepared, OnQueueDecoderShutdown, OnInputDiscontinuity,
    OnErrorWhenNotFlushing, ReceiveError
<1>2. Received.flag \in BOOLEAN /\ Received.stream \in Streams
  <2>1. Received \in PlayerMessage
    BY <1>1 DEF TypeOK, QueueTypeOK, Received
  <2> QED BY <2>1 DEF PlayerMessage
<1>3. ASSUME NEW r \in Seq(DeferredAction), r # <<>>, \A i \in DOMAIN r : r[i] \notin Moves, Defer(r)
      PROVE  StaleInv'
  <2>1. Preceded(r, Moves, Stops) /\ r[1] \notin Moves
    BY <1>3 DEF Preceded
  <2> QED BY <1>1, <1>3, <2>1, DeferKeepsStopping
<1>4. ASSUME NEW x \in DeferredAction \ Moves, Defer(<<x>>)
      PROVE  StaleInv'
  <2>1. <<x>> \in Seq(DeferredAction) /\ <<x>> # <<>> /\ \A i \in DOMAIN <<x>> : <<x>>[i] \notin Moves
    BY <1>4
  <2> QED BY <1>3, <1>4, <2>1
<1>5. \A cmd \in [Streams -> FlushCommand] : FlushAction(cmd) \in DeferredAction \ Moves
  BY FlushActionType DEF FlushAction, Moves
<1>6. CASE OnSeek
  <2> DEFINE r == SeekActions(Received.flag)
  <2>1. r \in Seq(DeferredAction) /\ Preceded(r, Moves, Stops) /\ r # <<>> /\ r[1] \notin Moves
    BY <1>2, MovesFollowStops, RequestLists DEF CasualActs
  <2>2. Defer(r)
    BY <1>6 DEF OnSeek
  <2> HIDE DEF r
  <2> QED BY <1>1, <2>1, <2>2, DeferKeepsStopping
<1>7. CASE OnSetVideoNativeWindow
  <2>1. PICK refresh \in BOOLEAN : Defer(SurfaceActions(Received.flag, refresh))
    BY <1>7 DEF OnSetVideoNativeWindow, TypeOK, PauseTypeOK
  <2> DEFINE r == SurfaceActions(Received.flag, refresh)
  <2>2. r \in Seq(DeferredAction) /\ Preceded(r, Moves, Stops) /\ r # <<>> /\ r[1] \notin Moves
    BY <1>2, MovesFollowStops, RequestLists DEF CasualActs
  <2>3. Defer(r)
    BY <2>1
  <2> HIDE DEF r
  <2> QED BY <1>1, <2>2, <2>3, DeferKeepsStopping
<1>8. CASE OnPrepared
  <2>1. CASE Defer(<<FlushAction(ForAll("SHUTDOWN"))>>)
    BY <1>4, <1>5, <2>1, CommandTypes DEF FlushCommand, Streams
  <2>2. CASE looper' \in {looper, "abortDriver"} /\ UNCHANGED mDeferredActions
    BY <1>1, <2>2, SameDecoders DEF Alive, AbortStates
  <2> QED BY <1>8, <2>1, <2>2 DEF OnPrepared
<1>9. CASE OnQueueDecoderShutdown
  <2> DEFINE x == FlushAction(IF Received.flag THEN ForAll("SHUTDOWN")
                              ELSE ForOnly(Received.stream, "SHUTDOWN"))
             y == Action("ScanSources", FALSE)
             z == Action("PostMessage", FALSE)
  <2>1. x \in DeferredAction \ Moves
    BY <1>2, <1>5, CommandTypes DEF FlushCommand
  <2>2. y \in DeferredAction \ Moves /\ z \in DeferredAction \ Moves
    BY ActionType DEF Action, Moves
  <2>3. Defer(<<x, y, z>>)
    BY <1>9 DEF OnQueueDecoderShutdown
  <2> HIDE DEF x, y, z
  <2>4. /\ <<x, y, z>> \in Seq(DeferredAction) /\ <<x, y, z>> # <<>>
        /\ \A i \in DOMAIN <<x, y, z>> : <<x, y, z>>[i] \notin Moves
    BY <2>1, <2>2
  <2> QED BY <1>3, <2>3, <2>4
<1>10. CASE OnInputDiscontinuity
  <2>1. Action("ScanSources", FALSE) \in DeferredAction \ Moves
    BY ActionType DEF Action, Moves
  <2> QED BY <1>4, <1>10, <2>1 DEF OnInputDiscontinuity
<1>11. CASE OnErrorWhenNotFlushing
  <2> DEFINE x == FlushAction(ForOnly(Received.stream, "SHUTDOWN"))
  <2>1. x \in DeferredAction \ Moves
    BY <1>2, <1>5, CommandTypes DEF FlushCommand
  <2>2. Defer(<<x>>)
    BY <1>11 DEF OnErrorWhenNotFlushing
  <2> HIDE DEF x
  <2> QED BY <1>4, <2>1, <2>2
<1>12. CASE OnReset
  <2> DEFINE x == FlushAction(ForAll("SHUTDOWN"))
             y == Action("Reset", FALSE)
  <2>1. x \in DeferredAction \ Moves
    BY <1>5, CommandTypes DEF FlushCommand, Streams
  <2>2. y \in DeferredAction \ Moves
    BY ActionType DEF Action, Moves
  <2>3. Defer(<<x, y>>)
    BY <1>12 DEF OnReset, ResetActions
  <2> HIDE DEF x, y
  <2>4. /\ <<x, y>> \in Seq(DeferredAction) /\ <<x, y>> # <<>>
        /\ \A i \in DOMAIN <<x, y>> : <<x, y>>[i] \notin Moves
    BY <2>1, <2>2
  <2> QED BY <1>3, <2>3, <2>4
<1> QED BY <1>6, <1>7, <1>8, <1>9, <1>10, <1>11, <1>12

\* A new decoder holds nothing.
LEMMA NewDecoderIsFresh ==
    ASSUME NEW S, NEW offload, Instantiate(S, offload), TypeOK, NEW s \in Streams
    PROVE  decoder'[s] = decoder[s] \/ (mDecoder'[s] # "NULL" /\ s \in S /\ decoder'[s].data = "none")
<1> DEFINE kind(t) == IF t = "audio" /\ offload THEN "DecoderPassThrough" ELSE "Decoder"
<1>1. /\ mDecoder'[s] = IF s \in S THEN kind(s) ELSE mDecoder[s]
      /\ decoder'[s] = IF s \in S THEN NewDecoder(kind(s) = "DecoderPassThrough") ELSE decoder[s]
  BY DEF Instantiate
<1>2. \A p : NewDecoder(p).data = "none"
  BY DEF NewDecoder
<1> QED BY <1>1, <1>2

LEMMA ResumeStops ==
    ASSUME TypeOK, ReleaseInv, StaleInv, OnStartResumes \/ OnResumeOnBufferingEnd, ~ResumedInFlush
    PROVE  StaleInv'
<1>1. /\ looper = "idle" /\ UNCHANGED mDeferredActions
      /\ Resume \/ UNCHANGED <<looper, mDecoder, decoder>>
  BY DEF OnStartResumes, OnResumeOnBufferingEnd, Receive
<1>2. Alive
  BY <1>1 DEF Alive, AbortStates
<1>3. CASE UNCHANGED <<looper, mDecoder, decoder>>
  BY <1>1, <1>3, SameDecoders DEF Alive
<1>4. CASE Resume
  <2> DEFINE S == IF MissingAudioDecoder THEN Formats \cap {"audio"} ELSE {}
  <2>1. Instantiate(S, mOffloadAudio)
    BY <1>4 DEF Resume
  <2>2. S = {} \/ (S = {"audio"} /\ mDecoder["audio"] = "NULL")
    BY DEF MissingAudioDecoder
  <2> HIDE DEF S
  <2>3. CASE MoveIsNext
    <3>1. mDecoder' = mDecoder
      BY <1>1, <2>3, MoveIsWaited DEF ResumedInFlush
    <3>2. \A s \in Streams : decoder'[s] = decoder[s]
      BY <2>1, <2>2, <3>1, NewDecoderIsFresh
    <3>3. \A s \in Streams : KeepsStopping(decoder[s], decoder'[s])
      BY <3>2 DEF KeepsStopping
    <3> QED BY <1>1, <1>2, <3>1, <3>3, StaleFrame
  <2>4. CASE ~MoveIsNext
    <3>1. \A s \in Streams : decoder'[s].data # "stale"
      BY <2>1, NewDecoderIsFresh DEF StaleInv, NoStaleData
    <3> QED BY <1>1, <2>4, <3>1, CreatingStops
  <2> QED BY <2>3, <2>4
<1> QED BY <1>1, <1>3, <1>4

LEMMA ScanStops ==
    ASSUME TypeOK, FlushInv, ReleaseInv, StaleInv, OnScanSources
    PROVE  StaleInv'
<1>1. /\ Receive("ScanSources") /\ Received.gen = mScanSourcesGeneration
      /\ UNCHANGED mDeferredActions
  BY DEF OnScanSources
<1>2. looper = "idle" /\ Alive
  BY <1>1 DEF Receive, Alive, AbortStates
<1>3. ~MoveIsNext
  BY <1>1, <1>2, ScanIsDue, MoveIsWaited
<1>4. \E S, offload : Instantiate(S, offload)
  BY Zenon DEF OnScanSources
<1>5. \A s \in Streams : decoder'[s].data # "stale"
  BY <1>4, NewDecoderIsFresh DEF StaleInv, NoStaleData
<1> QED BY <1>1, <1>3, <1>5, CreatingStops

LEMMA TearDownStops ==
    ASSUME TypeOK, ReleaseInv, StaleInv, OnAudioSinkClosed, ~TornDownInFlush, ~MovedUnderVideo
    PROVE  StaleInv'
<1>1. looper \in {"tearError", "tearTimeout"} /\ UNCHANGED mDeferredActions
  BY DEF OnAudioSinkClosed
<1>2. ~MoveIsNext
  BY <1>1, MoveIsWaited DEF TornDownInFlush
<1>3. decoder["video"].data = "none"
  BY DEF MovedUnderVideo
<1>4. Outdated(decoder["video"]).data = "none"
  BY <1>3 DEF Outdated, TypeOK, DecoderTypeOK, DecoderState, Streams
<1>5. \E software \in BOOLEAN :
         decoder' = [decoder EXCEPT !["audio"] = IF software THEN NewDecoder(FALSE) ELSE NoDecoder,
                                    !["video"] = Outdated(@)]
  BY DEF OnAudioSinkClosed
<1>6. \A s \in Streams : decoder'[s].data = "none"
  BY <1>4, <1>5 DEF TypeOK, DecoderTypeOK, Streams, NewDecoder, NoDecoder
<1> QED BY <1>1, <1>2, <1>6, CreatingStops

LEMMA ReceivedStream ==
    ASSUME TypeOK, playerQueue # <<>>
    PROVE  Received.stream \in Streams
<1>1. Received \in PlayerMessage
  BY DEF TypeOK, QueueTypeOK, Received
<1> QED BY <1>1 DEF PlayerMessage

\* The player orders a decoder to shut down.
LEMMA ShutdownStops ==
    ASSUME TypeOK, StaleInv, Alive, UNCHANGED <<mDeferredActions, mDecoder>>, NEW t \in Streams,
           decoder' = decoder \/ decoder' = [decoder EXCEPT ![t] = Post(@, "Shutdown", FALSE)]
    PROVE  StaleInv'
<1>1. ASSUME NEW s \in Streams
      PROVE  KeepsStopping(decoder[s], decoder'[s])
  <2>1. decoder[s] \in DecoderState
    BY DEF TypeOK, DecoderTypeOK
  <2>2. decoder'[s] = decoder[s] \/ decoder'[s] = Post(decoder[s], "Shutdown", FALSE)
    BY DEF TypeOK, DecoderTypeOK
  <2>3. KeepsStopping(decoder[s], Post(decoder[s], "Shutdown", FALSE))
    BY <2>1, PostStops
  <2>4. KeepsStopping(decoder[s], decoder[s])
    BY DEF KeepsStopping
  <2> QED BY <2>2, <2>3, <2>4
<1> QED BY <1>1, StaleFrame

LEMMA FlushCompleteStops ==
    ASSUME TypeOK, StaleInv, OnFlushCompleted \/ OnRendererFlushComplete
    PROVE  StaleInv'
<1>1. /\ looper = "idle" /\ playerQueue # <<>> /\ UNCHANGED <<mDecoder, mDeferredActions>>
      /\ \E party : HandleFlushComplete(Received.stream, party)
  BY DEF OnFlushCompleted, OnRendererFlushComplete, Receive, ReceiveFromDecoder, objectVars
<1>2. Alive
  BY <1>1 DEF Alive, AbortStates
<1>3. Received.stream \in Streams
  BY <1>1, ReceivedStream
<1> DEFINE t == Received.stream
<1>4. decoder' = decoder \/ decoder' = [decoder EXCEPT ![t] = Post(@, "Shutdown", FALSE)]
  BY <1>1, Zenon DEF HandleFlushComplete
<1> HIDE DEF t
<1> QED BY <1>1, <1>2, <1>3, <1>4, ShutdownStops DEF t

LEMMA ShutdownCompletedStops ==
    ASSUME TypeOK, StaleInv, OnShutdownCompleted
    PROVE  StaleInv'
<1> DEFINE t == Received.stream
<1>1. /\ looper = "idle" /\ UNCHANGED mDeferredActions
      /\ mDecoder' = [mDecoder EXCEPT ![t] = "NULL"]
      /\ decoder' = [decoder EXCEPT ![t] = NoDecoder]
  BY DEF OnShutdownCompleted, Receive, ReceiveFromDecoder
<1>2. Alive
  BY <1>1 DEF Alive, AbortStates
<1>3. \A s \in Streams : /\ mDecoder'[s] = IF s = t THEN "NULL" ELSE mDecoder[s]
                         /\ decoder'[s] = IF s = t THEN NoDecoder ELSE decoder[s]
  BY <1>1 DEF TypeOK, ObjectTypeOK, DecoderTypeOK
<1> HIDE DEF t
<1>4. ASSUME NEW s \in Streams
      PROVE  \/ KeepsStopping(decoder[s], decoder'[s])
             \/ mDecoder'[s] = "NULL" /\ decoder'[s].data # "stale"
  BY <1>3 DEF KeepsStopping, NoDecoder
<1> QED BY <1>1, <1>2, <1>3, <1>4, StaleFrame

LEMMA ErrorStops ==
    ASSUME TypeOK, StaleInv, OnErrorWhileFlushing \/ OnErrorWhenFlushed
    PROVE  StaleInv'
<1> DEFINE t == Received.stream
<1>1. /\ looper = "idle" /\ UNCHANGED <<mDecoder, mDeferredActions>>
      /\ playerQueue # <<>>
      /\ decoder' = decoder \/ decoder' = [decoder EXCEPT ![t] = Post(@, "Shutdown", FALSE)]
  BY DEF OnErrorWhileFlushing, OnErrorWhenFlushed, ReceiveError, ReceiveFromDecoder, Receive, objectVars
<1>2. Alive
  BY <1>1 DEF Alive, AbortStates
<1>3. t \in Streams
  BY <1>1, ReceivedStream
<1> HIDE DEF t
<1> QED BY <1>1, <1>2, <1>3, ShutdownStops

\* A decoder that waits for no flush has none to do.
LEMMA NothingToFlush ==
    ASSUME TypeOK, FlushInv, Alive, NotFlushing, NEW s \in Streams
    PROVE  ~Contains(decoder[s].queue, FlushOrders)
<1>1. NothingAhead /\ Balanced(s) /\ mFlushing[s] = "NONE"
  BY DEF FlushInv, HandshakeInv, NotFlushing, AllNone
<1>2. Ordered(s, "Flush") = 0
  BY <1>1 DEF Balanced, Balance, Flushing
<1> DEFINE o == decoder[s].queue
<1>3. o \in Seq(Orders)
  BY <1>1 DEF NothingAhead
<1>4. Occurrences(o, Order("Flush")) = 0
  BY <1>2 DEF Ordered
<1> HIDE DEF o
<1>5. \A i \in DOMAIN o : o[i] # Order("Flush")
  BY <1>3, <1>4, OccurrencesType
<1>6. \A m \in Orders : m \in FlushOrders => m = Order("Flush")
  BY DEF Orders, FlushOrders, DecoderMessage, Order
<1>7. \A i \in DOMAIN o : o[i] \in Orders
  BY <1>3
<1> QED BY <1>5, <1>6, <1>7 DEF Contains, o

LEMMA FlushStops ==
    ASSUME TypeOK, FlushInv, StaleInv, PerformDecoderFlush
    PROVE  StaleInv'
<1> DEFINE q == mDeferredActions
<1>1. /\ looper = "deferred" /\ looper' = looper /\ NotFlushing
      /\ q # <<>> /\ q' = Tail(q) /\ Next1.act = "Flush" /\ UNCHANGED mDecoder
      /\ decoder' = [s \in Streams |-> IF s \in {t \in Streams : Next1.cmd[t] # "NONE" /\ mDecoder[t] # "NULL"}
                                       THEN Post(decoder[s], "Flush", FALSE) ELSE decoder[s]]
  BY DEF PerformDecoderFlush, Execute, objectVars
<1>2. q \in Seq(DeferredAction) /\ Alive
  BY <1>1 DEF TypeOK, DeferredTypeOK, Alive, AbortStates
<1>3. ASSUME NEW s \in Streams
      PROVE  /\ decoder'[s].data # "stale"
             /\ Next1.cmd[s] # "NONE" => mDecoder[s] = "NULL" \/ Stopping(decoder'[s])
  <2>1. decoder[s] \in DecoderState /\ decoder[s].data # "stale"
    BY DEF TypeOK, DecoderTypeOK, StaleInv, NoStaleData
  <2>2. decoder'[s] = decoder[s] \/ decoder'[s] = Post(decoder[s], "Flush", FALSE)
    BY <1>1
  <2>3. Next1.cmd[s] # "NONE" /\ mDecoder[s] # "NULL" => decoder'[s] = Post(decoder[s], "Flush", FALSE)
    BY <1>1
  <2>4. /\ Post(decoder[s], "Flush", FALSE).data = decoder[s].data
        /\ Stopping(Post(decoder[s], "Flush", FALSE))
    BY <1>1, <1>2, <2>1, PostStops, NothingToFlush
  <2> QED BY <2>1, <2>2, <2>3, <2>4
<1>4. Preceded(q', Moves, Stops)
  BY <1>1, <1>2, PrecededLemma DEF StaleInv
<1>5. MoveIsNext' => Next1 \in Stops
  <2> SUFFICES ASSUME MoveIsNext' PROVE Next1 \in Stops
    OBVIOUS
  <2>1. Tail(q) # <<>> /\ Head(Tail(q)) \in Moves
    BY <1>1 DEF MoveIsNext, Moves
  <2> QED BY <1>1, <1>2, <2>1, PrecededLemma DEF StaleInv, Next1
<1>6. Next1 \in Stops => \A s \in Streams : Next1.cmd[s] # "NONE"
  BY <1>1 DEF Stops
<1>7. AllStop'
  <2> SUFFICES ASSUME MoveIsNext', NEW s \in Streams
               PROVE  mDecoder'[s] = "NULL" \/ Stopping(decoder'[s])
    BY Zenon DEF AllStop, Stopping
  <2> QED BY <1>1, <1>3, <1>5, <1>6
<1> QED BY <1>3, <1>4, <1>7 DEF StaleInv, NoStaleData, Moves, Stops

LEMMA SeekFindsNothing ==
    ASSUME TypeOK, FlushInv, StaleInv, PerformSeek
    PROVE  \A s \in Streams : decoder[s].data = "none"
<1>1. looper = "deferred" /\ NotFlushing /\ mDeferredActions # <<>> /\ Next1.act = "Seek"
  BY DEF PerformSeek, Execute
<1>2. Alive /\ Next1 \in DeferredAction
  BY <1>1 DEF TypeOK, DeferredTypeOK, Alive, AbortStates, Next1
<1>3. MoveIsNext
  BY <1>1, <1>2 DEF MoveIsNext, Moves, Next1
<1> SUFFICES ASSUME NEW s \in Streams PROVE decoder[s].data = "none"
  OBVIOUS
<1>4. CASE mDecoder[s] = "NULL"
  BY <1>2, <1>4 DEF FlushInv, HandshakeInv, DecodersExist, NoDecoder
<1>5. CASE Stopping(decoder[s])
  <2>1. ~Contains(decoder[s].queue, FlushOrders)
    BY <1>1, <1>2, NothingToFlush
  <2> QED BY <1>5, <2>1 DEF Stopping
<1> QED BY <1>2, <1>3, <1>4, <1>5 DEF StaleInv, AllStop

LEMMA ActionStops ==
    ASSUME TypeOK, FlushInv, StaleInv, DeferredStep
    PROVE  StaleInv'
<1> DEFINE q == mDeferredActions
<1>1. looper = "deferred" /\ Alive
  BY DEF DeferredStep, DeferredDone, PerformDecoderFlush, PerformSeek, PerformSetSurface,
    PerformResumeDecoders, PerformScanSources, PerformPostMessage, PerformReset, Execute, Alive, AbortStates
<1>2. CASE DeferredDone
  BY <1>1, <1>2, SameDecoders DEF DeferredDone, objectVars
<1>3. ASSUME NEW a, Execute(a), \A s \in Streams : decoder'[s].data # "stale",
             a = "Flush" => PerformDecoderFlush,
             a = "SetSurface" => UNCHANGED <<mDecoder, decoder>>
      PROVE  StaleInv'
  <2>1. /\ q \in Seq(DeferredAction) /\ q # <<>> /\ q' = Tail(q) /\ Next1 = Head(q)
        /\ Head(q).act = a /\ NotFlushing
    BY <1>3 DEF Execute, Next1, TypeOK, DeferredTypeOK
  <2>2. Preceded(q', Moves, Stops)
    BY <2>1, PrecededLemma DEF StaleInv
  <2>3. CASE ~MoveIsNext'
    BY <1>3, <2>2, <2>3 DEF StaleInv, NoStaleData, AllStop, Moves, Stops
  <2>4. CASE MoveIsNext' /\ a # "Flush"
    <3>1. Tail(q) # <<>> /\ Head(Tail(q)) \in Moves
      BY <2>1, <2>4 DEF MoveIsNext, Moves
    <3>2. Head(q) \in Stops
      BY <2>1, <3>1, PrecededLemma DEF StaleInv
    <3>3. a = "SetSurface" /\ Head(q) \in Moves
      BY <2>1, <2>4, <3>2 DEF Stops, Moves
    <3>4. AllStop'
      <4> SUFFICES ASSUME NEW s \in Streams
                   PROVE  mDecoder'[s] = "NULL" \/ Stopping(decoder'[s])
        BY Zenon DEF AllStop, Stopping
      <4> QED BY <1>1, <1>3, <2>1, <3>3 DEF StaleInv, AllStop, MoveIsNext
    <3> QED BY <1>3, <2>2, <3>4 DEF StaleInv, NoStaleData, Moves, Stops
  <2>5. CASE a = "Flush"
    BY <1>3, <2>5, FlushStops
  <2> QED BY <2>3, <2>4, <2>5
<1>4. CASE PerformDecoderFlush
  BY <1>4, FlushStops
<1>5. CASE PerformSeek
  <2>1. \A s \in Streams : decoder'[s].data # "stale"
    BY <1>5, SeekFindsNothing DEF PerformSeek, Outdated
  <2> QED BY <1>3, <1>5, <2>1 DEF PerformSeek
<1>6. CASE PerformSetSurface \/ PerformScanSources \/ PerformPostMessage \/ PerformReset
  <2>1. /\ \E a \in {"SetSurface", "ScanSources", "PostMessage", "Reset"} : Execute(a)
        /\ UNCHANGED <<mDecoder, decoder>>
    BY <1>6 DEF PerformSetSurface, PerformScanSources, PerformPostMessage, PerformReset, objectVars
  <2> QED BY <1>3, <2>1 DEF StaleInv, NoStaleData
<1>7. CASE PerformResumeDecoders
  <2>1. \A d \in DecoderState, f \in BOOLEAN : Post(d, "Resume", f).data = d.data
    BY DEF Post, DecoderState
  <2>2. Execute("ResumeDecoder") /\ Next1.flag \in BOOLEAN
    <3>1. Execute("ResumeDecoder") /\ Next1 \in DeferredAction
      BY <1>7 DEF PerformResumeDecoders, Execute, Next1, TypeOK, DeferredTypeOK
    <3> QED BY <3>1 DEF DeferredAction
  <2>3. decoder' = [s \in Streams |-> IF mDecoder[s] = "NULL" THEN decoder[s]
                                      ELSE Post(decoder[s], "Resume", Next1.flag /\ s = "video")]
    BY <1>7 DEF PerformResumeDecoders
  <2>4. \A s \in Streams : decoder[s] \in DecoderState /\ (Next1.flag /\ s = "video") \in BOOLEAN
                           /\ decoder[s].data # "stale"
    BY DEF TypeOK, DecoderTypeOK, StaleInv, NoStaleData
  <2>5. \A s \in Streams : decoder'[s].data = decoder[s].data
    BY <2>1, <2>3, <2>4
  <2> QED BY <1>3, <2>2, <2>4, <2>5
<1> QED BY <1>2, <1>4, <1>5, <1>6, <1>7 DEF DeferredStep

\* A decoder takes data only while it is not paused, and a stopping one goes on
\* to stop.
LEMMA DecoderStops ==
    ASSUME TypeOK, StaleInv, NEW s \in Streams,
           \/ DecoderMessageStep(s) \/ DecoderPulls(s) \/ DecoderOutputs(s)
           \/ DecoderFails(s) \/ PassThroughDiscontinuity(s)
    PROVE  KeepsStopping(decoder[s], decoder'[s]) /\ \A t \in Streams : t # s => decoder'[t] = decoder[t]
<1> DEFINE d == decoder[s]
<1>1. d \in DecoderState
  BY DEF TypeOK, DecoderTypeOK
<1>2. ASSUME NEW e, NEW r, DecoderStep(s, e, r), KeepsStopping(d, e)
      PROVE  KeepsStopping(decoder[s], decoder'[s]) /\ \A t \in Streams : t # s => decoder'[t] = decoder[t]
  BY <1>2, StepFacts
<1> DEFINE h == Handled(d)
<1>3. /\ h = [d EXCEPT !.queue = Tail(@)]
      /\ h.queue = Tail(d.queue) /\ h.data = d.data /\ h.paused = d.paused
  BY <1>1 DEF Handled, DecoderState
<1>4. CASE DecoderConfigures(s) \/ PassThroughConfigures(s) \/ DecoderResumes(s)
  <2>1. \E e, r : /\ DecoderStep(s, e, r) /\ d.queue # <<>>
                  /\ Head(d.queue).what \in {"Configure", "Resume"}
                  /\ e.queue = Tail(d.queue) /\ e.data = d.data
    <3>1. CASE DecoderConfigures(s)
      <4>1. d.queue # <<>> /\ Head(d.queue).what = "Configure"
        BY <3>1 DEF DecoderConfigures, DecoderReceives
      <4>2. PICK e, r : /\ DecoderStep(s, e, r)
                        /\ e \in {[h EXCEPT !.codec = TRUE, !.paused = FALSE, !.resumePending = FALSE], h}
        BY <3>1, Zenon DEF DecoderConfigures
      <4>3. e.queue = Tail(d.queue) /\ e.data = d.data
        BY <1>1, <1>3, <4>2 DEF DecoderState
      <4> QED BY <4>1, <4>2, <4>3
    <3>2. CASE PassThroughConfigures(s)
      <4> DEFINE e == [h EXCEPT !.codec = TRUE]
      <4>1. d.queue # <<>> /\ Head(d.queue).what = "Configure" /\ DecoderStep(s, e, <<>>)
        BY <3>2 DEF PassThroughConfigures, DecoderReceives
      <4>2. e.queue = Tail(d.queue) /\ e.data = d.data
        BY <1>1, <1>3 DEF DecoderState
      <4> HIDE DEF e
      <4> QED BY <4>1, <4>2
    <3>3. CASE DecoderResumes(s)
      <4> DEFINE e == [h EXCEPT !.paused = FALSE, !.resumePending = @ \/ Head(d.queue).flag]
      <4>1. d.queue # <<>> /\ Head(d.queue).what = "Resume" /\ DecoderStep(s, e, <<>>)
        BY <3>3 DEF DecoderResumes, DecoderReceives
      <4>2. e.queue = Tail(d.queue) /\ e.data = d.data
        BY <1>1, <1>3 DEF DecoderState
      <4> HIDE DEF e
      <4> QED BY <4>1, <4>2
    <3> QED BY <1>4, <3>1, <3>2, <3>3
  <2>2. PICK e, r : /\ DecoderStep(s, e, r) /\ d.queue # <<>>
                    /\ Head(d.queue).what \in {"Configure", "Resume"}
                    /\ e.queue = Tail(d.queue) /\ e.data = d.data
    BY <2>1
  <2> HIDE DEF d, h
  <2>3. KeepsStopping(d, e)
    BY <1>1, <2>2, TakenStops
  <2> QED BY <1>2, <2>2, <2>3
<1>5. CASE DecoderFlushes(s)
  <2> DEFINE e == [h EXCEPT !.data = "none", !.paused = TRUE]
  <2>1. d.queue # <<>> /\ Head(d.queue).what = "Flush" /\ \E r : DecoderStep(s, e, r)
    BY <1>5 DEF DecoderFlushes, DecoderReceives
  <2>2. e.queue = Tail(d.queue) /\ e.data = "none" /\ e.paused = TRUE
    BY <1>1, <1>3 DEF DecoderState
  <2> HIDE DEF e, d, h
  <2>3. KeepsStopping(d, e)
    BY <1>1, <2>1, <2>2, TakenStops
  <2> QED BY <1>2, <2>1, <2>3
<1>6. CASE DecoderShutsDown(s)
  <2> DEFINE e == [h EXCEPT !.resumePending = FALSE, !.codec = FALSE, !.data = "none",
                            !.paused = (mDecoder[s] = "Decoder") \/ @]
  <2>1. d.queue # <<>> /\ Head(d.queue).what = "Shutdown" /\ \E r : DecoderStep(s, e, r)
    BY <1>6 DEF DecoderShutsDown, DecoderReceives
  <2>2. e.queue = Tail(d.queue) /\ e.data = "none" /\ (d.paused = TRUE => e.paused = TRUE)
    BY <1>1, <1>3 DEF DecoderState
  <2> HIDE DEF e, d, h
  <2>3. KeepsStopping(d, e)
    BY <1>1, <2>1, <2>2, TakenStops
  <2> QED BY <1>2, <2>1, <2>3
<1>7. CASE DecoderPulls(s)
  <2> DEFINE e == [d EXCEPT !.data = "fresh"]
  <2>1. d.paused # TRUE /\ DecoderStep(s, e, <<>>)
    BY <1>7 DEF DecoderPulls
  <2>2. e.queue = d.queue /\ e.data = "fresh" /\ e.paused = d.paused
    BY <1>1 DEF DecoderState
  <2> HIDE DEF e, d, h
  <2>3. KeepsStopping(d, e)
    BY <2>1, <2>2, SameStopping
  <2> QED BY <1>2, <2>1, <2>3
<1>8. CASE DecoderOutputs(s) \/ DecoderFails(s) \/ PassThroughDiscontinuity(s)
  <2>1. PICK e, r : /\ DecoderStep(s, e, r)
                    /\ \/ e \in {[d EXCEPT !.resumePending = FALSE], d}
                       \/ \E t \in BOOLEAN : e = [d EXCEPT !.data = IF t THEN "none" ELSE @]
    BY <1>8 DEF DecoderOutputs, DecoderFails, PassThroughDiscontinuity
  <2>2. e.queue = d.queue /\ e.data \in {d.data, "none"} /\ e.paused = d.paused
    BY <1>1, <2>1 DEF DecoderState
  <2> HIDE DEF d, h
  <2>3. KeepsStopping(d, e)
    BY <2>2, SameStopping
  <2> QED BY <1>2, <2>1, <2>3
<1> QED BY <1>4, <1>5, <1>6, <1>7, <1>8 DEF DecoderMessageStep

LEMMA OthersKeepStopping ==
    ASSUME TypeOK, StaleInv, [Next]_vars, ~PlayerStep
    PROVE  StaleInv'
<1>1. UNCHANGED <<looper, mDecoder, mDeferredActions>>
  BY OthersLeaveTheStreams
<1>2. \A s \in Streams : KeepsStopping(decoder[s], decoder[s])
  BY DEF KeepsStopping
<1>3. Alive' => Alive
  BY <1>1 DEF Alive
<1>4. CASE decoder' = decoder
  BY <1>1, <1>3, <1>4, SameDecoders
<1>5. CASE \E s \in Streams : \/ DecoderMessageStep(s) \/ DecoderPulls(s) \/ DecoderOutputs(s)
                              \/ DecoderFails(s) \/ PassThroughDiscontinuity(s)
  <2>1. PICK s \in Streams : \/ DecoderMessageStep(s) \/ DecoderPulls(s) \/ DecoderOutputs(s)
                            \/ DecoderFails(s) \/ PassThroughDiscontinuity(s)
    BY <1>5
  <2>2. \A t \in Streams : KeepsStopping(decoder[t], decoder'[t])
    <3>1. KeepsStopping(decoder[s], decoder'[s]) /\ \A t \in Streams : t # s => decoder'[t] = decoder[t]
      BY <2>1, DecoderStops
    <3> QED BY <1>2, <3>1
  <2> QED BY <1>1, <1>3, <2>2, StaleFrame
<1>6. CASE ClientStep \/ SourceStep
  <2>1. decoder' = decoder
    BY <1>6 DEF ClientStep, ClientSetDataSource, ClientPrepare, ClientStart, ClientPause, ClientSeek,
      ClientSetSurface, ClientReset, Call, SourceStep, SourcePrepared, SourcePrepareError,
      SourceInstantiateSecureDecoders, SourcePauseOnBuffering, SourceResumeOnBuffering,
      SourceQueueDecoderShutdown, OldSourcePrepared, SourcePosts
  <2> QED BY <1>4, <2>1
<1>7. CASE RendererLoop \/ ScanTimer \/ RendererPauseTimeout \/ HALTearsDown
  <2>1. decoder' = decoder
    BY <1>7 DEF RendererLoop, RendererFlushes, RendererPauses, RendererResumes, RendererClosesSink,
      RendererDisablesOffload, RendererTearsDown, TearDown, RendererStep, ScanTimer, RendererPauseTimeout,
      HALTearsDown
  <2> QED BY <1>4, <2>1
<1>8. CASE UNCHANGED vars
  BY <1>4, <1>8 DEF vars
<1> QED BY <1>5, <1>6, <1>7, <1>8 DEF Next, Environment

LEMMA NextStops ==
    ASSUME TypeOK, FlushInv, ReleaseInv, StaleInv, [Next]_vars, ~TornDownInFlush, ~MovedUnderVideo,
           ~ResumedInFlush
    PROVE  StaleInv'
<1>1. CASE MessageStep
  BY <1>1, PlainHandlerStops, DeferringHandlerStops, ResumeStops, ScanStops, FlushCompleteStops,
    ShutdownCompletedStops, ErrorStops DEF MessageStep
<1> QED BY <1>1, OthersKeepStopping, ActionStops, TearDownStops DEF PlayerStep

LEMMA NextKeepsData ==
    ASSUME TypeOK, TypeOK', SourceInv, FlushInv, ReleaseInv, StaleInv, [Next]_vars,
           ~TornDownInFlush, ~MovedUnderVideo, ~ResumedInFlush
    PROVE  SourceInv' /\ FlushInv' /\ ReleaseInv' /\ StaleInv'
<1>1. ~BufferingEndsInReset
  BY DEF BufferingEndsInReset, ResumedInFlush
<1>2. SourceInv'
  BY NextKeepsSession
<1>3. FlushInv'
  BY NextFlush
<1>4. ReleaseInv'
  BY <1>1, NextReleases
<1>5. StaleInv'
  BY NextStops
<1> QED BY <1>2, <1>3, <1>4, <1>5

LEMMA InitKeepsData == Init => SourceInv /\ FlushInv /\ ReleaseInv /\ StaleInv
<1> SUFFICES ASSUME Init PROVE SourceInv /\ FlushInv /\ ReleaseInv /\ StaleInv
  OBVIOUS
<1>1. <<>> \in Seq(Sourced)
  OBVIOUS
<1>2. SourceInv /\ FlushInv /\ ReleaseInv
  BY <1>1, InitFlush DEF Init, SourceInv, SessionInv, ScanInv, Contains, NothingBehind, ResetWaits,
    ReleaseInv, Preceded, WaitsForFlush, Releases, ResetIsNext
<1>3. NoStaleData /\ Preceded(mDeferredActions, Moves, Stops) /\ ~MoveIsNext
  BY DEF Init, NoStaleData, NoDecoder, Preceded, MoveIsNext
<1> QED BY <1>2, <1>3 DEF StaleInv, AllStop

\* A step that changes nothing is none of the hazards.
LEMMA NoHazard ==
    ASSUME UNCHANGED vars
    PROVE  ~TornDownInFlush /\ ~ResumedInFlush /\ ~MovedUnderVideo
<1>1. UNCHANGED <<looper, mDecoder>>
  BY DEF vars, playerVars, playerVarsButSurface, objectVars
<1> QED BY <1>1 DEF TornDownInFlush, MovedUnderVideo, ResumedInFlush, OnAudioSinkClosed

\* "Don't resume it until source seek is done, otherwise it could start pulling
\* stale data too soon": no decoder holds data from before the last seek, for
\* every set of formats and every number of seeks, surface changes, errors and
\* resets, unless the player that resumes creates an audio decoder behind the
\* flush, or the tear down of the offloaded audio seeks under the video decoder.
THEOREM DecodersHoldFreshData ==
    Spec /\ [][~TornDownInFlush]_vars /\ [][~MovedUnderVideo]_vars /\ [][~ResumedInFlush]_vars
      => []NoStaleData
<1>1. /\ TypeOK /\ TypeOK' /\ SourceInv /\ FlushInv /\ ReleaseInv /\ StaleInv /\ [Next]_vars
      /\ [~TornDownInFlush]_vars /\ [~MovedUnderVideo]_vars /\ [~ResumedInFlush]_vars
      => SourceInv' /\ FlushInv' /\ ReleaseInv' /\ StaleInv'
  BY NextKeepsData, NoHazard
<1>2. StaleInv => NoStaleData
  BY DEF StaleInv
<1> QED BY <1>1, <1>2, InitKeepsData, TypeCorrect, PTL DEF Spec

\* Of a device that offloads no audio only the resume is left.
THEOREM FreshDataWithoutOffload ==
    ~CanOffload => (Spec /\ [][~ResumedInFlush]_vars => []NoStaleData)
<1> SUFFICES ASSUME ~CanOffload PROVE Spec /\ [][~ResumedInFlush]_vars => []NoStaleData
  OBVIOUS
<1>1. Init => NoTearDown
  <2>1. <<>> \in Seq(Untorn)
    OBVIOUS
  <2> QED BY <2>1, CalmNewRenderer DEF Init, NoTearDown
<1>2. /\ TypeOK /\ TypeOK' /\ SourceInv /\ FlushInv /\ ReleaseInv /\ StaleInv /\ NoTearDown
      /\ [Next]_vars /\ [~ResumedInFlush]_vars
      => SourceInv' /\ FlushInv' /\ ReleaseInv' /\ StaleInv' /\ NoTearDown'
  <2>1. NoTearDown => ~MovedUnderVideo
    BY DEF NoTearDown, MovedUnderVideo, OnAudioSinkClosed
  <2> QED BY <2>1, NextIsCalm, NextKeepsData, NoHazard
<1>3. StaleInv => NoStaleData
  BY DEF StaleInv
<1> QED BY <1>1, <1>2, <1>3, InitKeepsData, TypeCorrect, PTL DEF Spec
===============================================================================
