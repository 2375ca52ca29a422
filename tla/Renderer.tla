------------------------------ MODULE Renderer ------------------------------
(***************************************************************************)
(* The renderer of Am-NuPlayer with the two decoders that feed it: the     *)
(* renderer's looper (one FIFO of messages and the drain messages it posts *)
(* to itself with a delay), the callback thread of an offloaded audio      *)
(* sink, the output buffers of each decoder's codec, and the flushes,      *)
(* pauses and tear downs the player asks for.                              *)
(*                                                                         *)
(* Time is left out: a delayed message may come due at any time, the sink  *)
(* takes any number of buffers, timestamps decide by a choice.             *)
(***************************************************************************)
EXTENDS Naturals, Sequences, FiniteSets, Queues

CONSTANTS
    TrackSets,       \* the sets of streams a session may have
    NumBuffers,      \* the number of output buffers of each codec, by the session's streams
    CanOffload,      \* canOffloadStream(): audio may be offloaded
    EnableSlowSync,  \* the property media.hls.slowsync
    Budgets          \* how many times each bounded event may happen: one of these

Streams == {"audio", "video"}
BoundedEvents == {"pause", "seek", "endOfStream", "format", "tearDown"}

ASSUME TracksAssumption == TrackSets \subseteq ((SUBSET Streams) \ {{}})
ASSUME BuffersAssumption == NumBuffers \in [TrackSets -> [Streams -> Nat \ {0}]]
ASSUME SwitchAssumption == CanOffload \in BOOLEAN /\ EnableSlowSync \in BOOLEAN
ASSUME EventsAssumption == Budgets \subseteq [BoundedEvents -> Nat]

-----------------------------------------------------------------------------
VARIABLES
    \* Renderer
    mHas,                    \* the streams with mHasAudio, mHasVideo
    inbox,                   \* the messages due, in order
    timers,                  \* the drain messages posted with a delay
    queue,                   \* mAudioQueue, mVideoQueue
    mFlushing,               \* mFlushingAudio, mFlushingVideo
    mNotifyComplete,         \* mNotifyCompleteAudio, mNotifyCompleteVideo
    mDrainPending,           \* mDrainAudioQueuePending, mDrainVideoQueuePending
    mGeneration,             \* mAudioQueueGeneration, mVideoQueueGeneration
    mPaused,
    mRenderStarted,
    mQueueInitial,
    mAudioEOS,
    mVideoSampleReceived,
    mOffload,                \* offloadingAudio()
    mTornDown,               \* mAudioOffloadTornDown
    aborted,                 \* the process has died here
    \* AudioSink
    sink,                    \* 0 if closed, else the PCM format it is open for
    stopping,                \* an offloaded sink plays out what it has
    \* the decoders
    decoder,
    replies,                 \* their loopers: the notifyConsumed messages
    \* the player
    player,                  \* its looper: "idle", "closing" the sink, "tornDown" told
    seeking,                 \* mFlushingAudio or mFlushingVideo is FLUSHING_DECODER
    answered,                \* the streams with the renderer's kWhatFlushComplete since
    flushed,                 \* those with a decoder's kWhatFlushCompleted that counts
    told,                    \* the streams with kWhatEOS since their last flush
    tearDownTold,            \* kWhatAudioOffloadTearDown is on its way
    resumable,               \* the client has paused
    budget

rendererVars == <<queue, mFlushing, mNotifyComplete, mDrainPending, mGeneration,
                  mPaused, mRenderStarted, mQueueInitial, mAudioEOS,
                  mVideoSampleReceived, mOffload, mTornDown>>
sinkVars    == <<sink, stopping>>
decoderVars == <<decoder, replies>>
playerVars  == <<player, seeking, answered, flushed, told, tearDownTold, resumable, budget>>
vars == <<mHas, inbox, timers, rendererVars, aborted, sinkVars, decoderVars, playerVars>>

BuffersOf(s) == 1 .. NumBuffers[mHas][s]
Buffers == UNION {BuffersOf(s) : s \in Streams}
EOS     == 0                       \* an entry whose mBuffer is NULL

\* QueueEntry: buffer, and the decoder's mBufferGeneration its notifyConsumed
\* carries.
Entry == [buffer : Buffers \cup {EOS}, gen : Nat]
BufferEntry == [buffer : Buffers, gen : Nat]

\* A message of the renderer's looper.  gen is the decoder's mBufferGeneration
\* in QueueBuffer and QueueEOS, the queue's generation in a drain message, the
\* PCM format in OpenAudioSink.  A signal carries nothing.
Msg(w, s, b, g) == [what |-> w, stream |-> s, buffer |-> b, gen |-> g]
Signal(w)       == Msg(w, "audio", EOS, 0)

DrainWhat  == {"DrainAudioQueue", "DrainVideoQueue", "PostDrainVideoQueue"}
DataWhat   == {"QueueBuffer", "QueueEOS", "Flush", "OpenAudioSink"}
SignalWhat == {"Pause", "Resume", "CloseAudioSink", "StopAudioSink",
               "DisableOffloadAudio", "AudioOffloadTearDown"}
Drain   == [what : {"DrainAudioQueue"}, stream : {"audio"}, buffer : {EOS}, gen : Nat]
           \cup [what : DrainWhat \ {"DrainAudioQueue"}, stream : {"video"}, buffer : {EOS},
                 gen : Nat]
Message == [what : DataWhat, stream : Streams, buffer : Buffers \cup {EOS}, gen : Nat]
           \cup Drain \cup {Signal(w) : w \in SignalWhat}

\* A decoder: the buffers its codec owns, mBufferGeneration, whether the codec
\* has put out its end of stream, mPaused after a flush, a flush in its looper,
\* waiting in openAudioSink(), the format of its output (0: none yet), and
\* whether it is a DecoderPassThrough, of which the buffers are access units.
DecoderState == [codec : SUBSET Buffers, gen : Nat, ended : BOOLEAN, paused : BOOLEAN,
                 flushDue : BOOLEAN, opening : BOOLEAN, format : Nat,
                 passThrough : BOOLEAN]
NewDecoder(s, g, p) == [codec |-> BuffersOf(s), gen |-> g, ended |-> FALSE, paused |-> FALSE,
                        flushDue |-> FALSE, opening |-> FALSE, format |-> 0,
                        passThrough |-> p]

AbortReasons == {"no", "nullBuffer", "sinkChanged"}

RendererTypeOK ==
    /\ queue \in [Streams -> Seq(Entry)]
    /\ mFlushing \in [Streams -> BOOLEAN] /\ mNotifyComplete \in [Streams -> BOOLEAN]
    /\ mDrainPending \in [Streams -> BOOLEAN] /\ mGeneration \in [Streams -> Nat]
    /\ {mPaused, mRenderStarted, mQueueInitial, mAudioEOS, mVideoSampleReceived,
        mOffload, mTornDown} \subseteq BOOLEAN
LooperTypeOK  == inbox \in Seq(Message) /\ timers \subseteq Drain
SinkTypeOK    == aborted \in AbortReasons /\ sink \in Nat /\ stopping \in BOOLEAN
DecoderTypeOK == /\ decoder \in [Streams -> DecoderState]
                 /\ replies \in [Streams -> Seq(BufferEntry)]
PlayerTypeOK  == /\ player \in {"idle", "closing", "tornDown"}
                 /\ answered \subseteq Streams /\ flushed \subseteq Streams
                 /\ told \subseteq Streams
                 /\ {seeking, tearDownTold, resumable} \subseteq BOOLEAN
                 /\ budget \in [BoundedEvents -> Nat]

TypeOK ==
    /\ mHas \in TrackSets
    /\ RendererTypeOK /\ LooperTypeOK /\ SinkTypeOK /\ DecoderTypeOK /\ PlayerTypeOK

\* setHasMedia() has been called for every decoder that was instantiated; an
\* offloaded sink has been opened early by tryOpenAudioSinkForOffload().
Init ==
    /\ mHas \in TrackSets
    /\ mOffload \in {o \in BOOLEAN : o => CanOffload /\ "audio" \in mHas}
    /\ sink = IF mOffload THEN 1 ELSE 0
    /\ inbox = <<>> /\ timers = {}
    /\ queue = [s \in Streams |-> <<>>]
    /\ mFlushing = [s \in Streams |-> FALSE]
    /\ mNotifyComplete = [s \in Streams |-> FALSE]
    /\ mDrainPending = [s \in Streams |-> FALSE]
    /\ mGeneration = [s \in Streams |-> 0]
    /\ mPaused = FALSE /\ mRenderStarted = FALSE /\ mQueueInitial = TRUE
    /\ mAudioEOS = FALSE /\ mVideoSampleReceived = FALSE /\ mTornDown = FALSE
    /\ aborted = "no" /\ stopping = FALSE
    /\ decoder = [s \in Streams |-> NewDecoder(s, 0, s = "audio" /\ mOffload)]
    /\ replies = [s \in Streams |-> <<>>]
    /\ player = "idle" /\ seeking = FALSE /\ answered = {} /\ flushed = {} /\ told = {}
    /\ tearDownTold = FALSE /\ resumable = FALSE
    /\ budget \in Budgets

Spend(e) == budget[e] > 0 /\ budget' = [budget EXCEPT ![e] = @ - 1]

\* entry.mNotifyConsumed->post(), for each entry of es that is a buffer.
IsBuffer(e) == e.buffer # EOS
Consumed(s, es) == replies' = [replies EXCEPT ![s] = @ \o Kept(es, BufferEntry)]

First(s, n) == SubSeq(queue[s], 1, n)
Rest(s, n)  == SubSeq(queue[s], n + 1, Len(queue[s]))

-----------------------------------------------------------------------------
(* Posting of drain messages.                                              *)

\* The conditions of postDrainAudioQueue_l() and postDrainVideoQueue_l(), for
\* the queues q and the given values of the flags.
DrainWanted(s, q, paused, received, audioEOS) ==
    /\ q[s] # <<>>
    /\ IF s = "audio" THEN ~paused /\ ~mOffload
       ELSE /\ ~(paused /\ received)
            /\ "audio" \in mHas /\ ~audioEOS => q["audio"] # <<>>

\* Drains are posted for the streams of S that want one and have none pending;
\* pend is what the handler has made of mDrainPending before.  A frame that is
\* far ahead of the clock is looked at again later (kWhatPostDrainVideoQueue).
PostDrains(S, q, pend, paused, received, audioEOS) ==
    LET due == {s \in S : ~pend[s] /\ DrainWanted(s, q, paused, received, audioEOS)}
    IN  /\ mDrainPending' = [s \in Streams |-> pend[s] \/ s \in due]
        /\ \E w \in {"DrainVideoQueue", "PostDrainVideoQueue"} :
              /\ w = "PostDrainVideoQueue" =>
                    "video" \in due /\ IsBuffer(Head(q["video"]))
              /\ timers' = timers \cup
                    {Msg(IF s = "audio" THEN "DrainAudioQueue" ELSE w, s, EOS, mGeneration[s]) :
                        s \in due}

\* A message of an older generation does nothing when it comes due: those still
\* delayed are forgotten when the generation moves on.
ForgetObsolete == timers' = {m \in timers : m.gen = mGeneration'[m.stream]}

\* The looper takes the next message, which is a w.
Take(w) ==
    /\ aborted = "no" /\ inbox # <<>> /\ Head(inbox).what = w
    /\ inbox' = Tail(inbox)

\* A delayed message comes due, behind what is due already.
TimerDue ==
    /\ aborted = "no"
    /\ \E m \in timers : timers' = timers \ {m} /\ inbox' = Append(inbox, m)
    /\ UNCHANGED <<mHas, rendererVars, aborted, sinkVars, decoderVars, playerVars>>

-----------------------------------------------------------------------------
(* The renderer's looper: buffers and ends of streams come in.             *)

\* Mutant of DropWhileFlushing: the decoder is not told of its buffer.
DropSilently(w) ==
    /\ Take(w) /\ mFlushing[Head(inbox).stream]
    /\ UNCHANGED <<mHas, timers, rendererVars, aborted, sinkVars, decoderVars, playerVars>>

\* dropBufferWhileFlushing(): what was posted before the flush goes back.
DropWhileFlushing(w) ==
    /\ Take(w) /\ mFlushing[Head(inbox).stream]
    /\ Consumed(Head(inbox).stream,
                IF w = "QueueBuffer"
                THEN <<[buffer |-> Head(inbox).buffer, gen |-> Head(inbox).gen]>> ELSE <<>>)
    /\ UNCHANGED <<mHas, timers, rendererVars, aborted, sinkVars, decoder, playerVars>>

Queued(m) == [queue EXCEPT ![m.stream] = Append(@, [buffer |-> m.buffer, gen |-> m.gen])]

\* The buffer is queued and the queues are left alone: rendering starts when
\* both streams have something, and so do the queues fill after a flush.
Waits(q) == Cardinality(mHas) = 2 /\ \E s \in Streams : q[s] = <<>>

QueueAndWait ==
    /\ Take("QueueBuffer") /\ ~mFlushing[Head(inbox).stream]
    /\ LET q == Queued(Head(inbox))
       IN  /\ ~mRenderStarted \/ mQueueInitial
           /\ Waits(q)
           /\ queue' = q
    /\ UNCHANGED <<mHas, timers, mFlushing, mNotifyComplete, mDrainPending, mGeneration,
                   mPaused, mRenderStarted, mQueueInitial, mAudioEOS,
                   mVideoSampleReceived, mOffload, mTornDown, aborted, sinkVars,
                   decoderVars, playerVars>>

\* The first entries are compared: mBuffer of an EOS is a NULL pointer.
QueueAndCompare ==
    /\ Take("QueueBuffer") /\ ~mFlushing[Head(inbox).stream]
    /\ mQueueInitial /\ Cardinality(mHas) = 2
    /\ LET q == Queued(Head(inbox))
       IN  /\ ~Waits(q)
           /\ mRenderStarted' = TRUE
           /\ \/ /\ \E s \in Streams : ~IsBuffer(Head(q[s]))
                 /\ aborted' = "nullBuffer"
                 /\ queue' = q
                 /\ UNCHANGED <<mQueueInitial, mDrainPending, timers, replies>>
              \/ \* audio starts more than 100 ms before video: its first goes back
                 /\ \A s \in Streams : IsBuffer(Head(q[s]))
                 /\ ~EnableSlowSync
                 /\ queue' = [q EXCEPT !["audio"] = Tail(@)]
                 /\ Consumed("audio", <<Head(q["audio"])>>)
                 /\ UNCHANGED <<mQueueInitial, mDrainPending, timers, aborted>>
              \/ /\ \A s \in Streams : IsBuffer(Head(q[s]))
                 /\ queue' = q
                 /\ mQueueInitial' = FALSE
                 /\ PostDrains(Streams, q, mDrainPending, mPaused,
                               mVideoSampleReceived, mAudioEOS)
                 /\ UNCHANGED <<replies, aborted>>
    /\ UNCHANGED <<mHas, mFlushing, mNotifyComplete, mGeneration, mPaused, mAudioEOS,
                   mVideoSampleReceived, mOffload, mTornDown, sinkVars, decoder,
                   playerVars>>

QueueAndDrain ==
    /\ Take("QueueBuffer") /\ ~mFlushing[Head(inbox).stream]
    /\ LET q == Queued(Head(inbox))
       IN  /\ Cardinality(mHas) = 2 => ~mQueueInitial /\ (mRenderStarted \/ ~Waits(q))
           /\ queue' = q
           /\ PostDrains(Streams, q, mDrainPending, mPaused,
                         mVideoSampleReceived, mAudioEOS)
    /\ mRenderStarted' = (mRenderStarted \/ Cardinality(mHas) = 2)
    /\ mQueueInitial' = FALSE
    /\ UNCHANGED <<mHas, mFlushing, mNotifyComplete, mGeneration, mPaused, mAudioEOS,
                   mVideoSampleReceived, mOffload, mTornDown, aborted, sinkVars,
                   decoderVars, playerVars>>

\* onQueueEOS()
QueueEOS ==
    /\ Take("QueueEOS") /\ ~mFlushing[Head(inbox).stream]
    /\ LET q == Queued(Head(inbox))
       IN  /\ queue' = q
           /\ PostDrains({Head(inbox).stream}, q, mDrainPending, mPaused,
                         mVideoSampleReceived, mAudioEOS)
    /\ UNCHANGED <<mHas, mFlushing, mNotifyComplete, mGeneration, mPaused, mRenderStarted,
                   mQueueInitial, mAudioEOS, mVideoSampleReceived, mOffload, mTornDown,
                   aborted, sinkVars, decoderVars, playerVars>>

-----------------------------------------------------------------------------
(* The renderer's looper: drains.                                          *)

Current(m) == m.gen = mGeneration[m.stream]

DrainObsolete ==
    \E w \in DrainWhat :
        /\ Take(w) /\ ~Current(Head(inbox))
        /\ UNCHANGED <<mHas, timers, rendererVars, aborted, sinkVars, decoderVars,
                       playerVars>>

\* onDrainAudioQueue(): the sink takes the first n buffers, all that it has room
\* for.  With no end of stream among them the queue is drained on.
DrainAudioBuffers ==
    /\ Take("DrainAudioQueue") /\ Current(Head(inbox))
    /\ sink # 0
    /\ \E n \in 0 .. Len(queue["audio"]) :
          /\ \A i \in 1 .. n : IsBuffer(queue["audio"][i])
          /\ Consumed("audio", First("audio", n))
          /\ queue' = [queue EXCEPT !["audio"] = Rest("audio", n)]
    /\ PostDrains({"audio"}, queue', [mDrainPending EXCEPT !["audio"] = FALSE],
                  mPaused, mVideoSampleReceived, mAudioEOS)
    /\ UNCHANGED <<mHas, mFlushing, mNotifyComplete, mGeneration, mPaused, mRenderStarted,
                   mQueueInitial, mAudioEOS, mVideoSampleReceived, mOffload, mTornDown,
                   aborted, sinkVars, decoder, playerVars>>

\* At the end of stream it returns false: nothing more is posted.
DrainAudioEOS ==
    /\ Take("DrainAudioQueue") /\ Current(Head(inbox))
    /\ sink # 0
    /\ \E n \in 0 .. Len(queue["audio"]) - 1 :
          /\ \A i \in 1 .. n : IsBuffer(queue["audio"][i])
          /\ ~IsBuffer(queue["audio"][n + 1])
          /\ Consumed("audio", First("audio", n))
          /\ queue' = [queue EXCEPT !["audio"] = Rest("audio", n + 1)]
    /\ told' = told \cup {"audio"}
    /\ mAudioEOS' = TRUE
    /\ mDrainPending' = [mDrainPending EXCEPT !["audio"] = FALSE]
    /\ UNCHANGED <<mHas, timers, mFlushing, mNotifyComplete, mGeneration, mPaused,
                   mRenderStarted, mQueueInitial, mVideoSampleReceived, mOffload,
                   mTornDown, aborted, sinkVars, decoder, player, seeking, answered,
                   flushed, tearDownTold, resumable, budget>>

\* getPosition() fails when the sink is not open.
DrainAudioClosed ==
    /\ Take("DrainAudioQueue") /\ Current(Head(inbox))
    /\ sink = 0
    /\ mDrainPending' = [mDrainPending EXCEPT !["audio"] = FALSE]
    /\ UNCHANGED <<mHas, timers, queue, mFlushing, mNotifyComplete, mGeneration, mPaused,
                   mRenderStarted, mQueueInitial, mAudioEOS, mVideoSampleReceived,
                   mOffload, mTornDown, aborted, sinkVars, decoderVars, playerVars>>

\* onDrainVideoQueue() hands the first frame on, to be rendered, or tells the
\* end of the stream; then the next drain is posted.
DrainVideo ==
    /\ Take("DrainVideoQueue") /\ Current(Head(inbox))
    /\ LET n == IF queue["video"] = <<>> THEN 0 ELSE 1
           frame == n = 1 /\ IsBuffer(Head(queue["video"]))
       IN  /\ Consumed("video", First("video", n))
           /\ queue' = [queue EXCEPT !["video"] = Rest("video", n)]
           /\ told' = IF n = 1 /\ ~frame THEN told \cup {"video"} ELSE told
           /\ mVideoSampleReceived' = (mVideoSampleReceived \/ frame)
    /\ PostDrains({"video"}, queue', [mDrainPending EXCEPT !["video"] = FALSE],
                  mPaused, mVideoSampleReceived', mAudioEOS)
    /\ UNCHANGED <<mHas, mFlushing, mNotifyComplete, mGeneration, mPaused, mRenderStarted,
                   mQueueInitial, mAudioEOS, mOffload, mTornDown, aborted, sinkVars,
                   decoder, player, seeking, answered, flushed, tearDownTold, resumable,
                   budget>>

PostDrainVideo ==
    /\ Take("PostDrainVideoQueue") /\ Current(Head(inbox))
    /\ PostDrains({"video"}, queue, [mDrainPending EXCEPT !["video"] = FALSE],
                  mPaused, mVideoSampleReceived, mAudioEOS)
    /\ UNCHANGED <<mHas, queue, mFlushing, mNotifyComplete, mGeneration, mPaused,
                   mRenderStarted, mQueueInitial, mAudioEOS, mVideoSampleReceived,
                   mOffload, mTornDown, aborted, sinkVars, decoderVars, playerVars>>

-----------------------------------------------------------------------------
(* The renderer's looper: flush, pause, the sink.                          *)

\* Mutant of Flush: a paused renderer keeps its queue.
FlushWhenPlaying ==
    /\ Take("Flush")
    /\ LET s == Head(inbox).stream
       IN  /\ mFlushing' = [mFlushing EXCEPT ![s] = FALSE]
           /\ mNotifyComplete' = [mNotifyComplete EXCEPT ![s] = FALSE]
           /\ Consumed(s, IF mPaused THEN <<>> ELSE queue[s])
           /\ queue' = [queue EXCEPT ![s] = IF mPaused THEN @ ELSE <<>>]
           /\ mGeneration' = [mGeneration EXCEPT ![s] = @ + 1]
           /\ mDrainPending' = [mDrainPending EXCEPT ![s] = FALSE]
           /\ stopping' = (stopping /\ ~(s = "audio" /\ mOffload))
           /\ told' = told \ {s}
           /\ answered' = IF mNotifyComplete[s] THEN answered \cup {s} ELSE answered
    /\ mVideoSampleReceived' = FALSE
    /\ mQueueInitial' = TRUE
    /\ ForgetObsolete
    /\ UNCHANGED <<mHas, mPaused, mRenderStarted, mAudioEOS, mOffload, mTornDown,
                   aborted, sink, decoder, player, seeking, flushed, tearDownTold, resumable,
                   budget>>

\* onFlush().  The player is told only if notifyComplete was asked for since
\* the last one.  An offloaded sink is flushed and started again.
Flush ==
    /\ Take("Flush")
    /\ LET s == Head(inbox).stream
       IN  /\ mFlushing' = [mFlushing EXCEPT ![s] = FALSE]
           /\ mNotifyComplete' = [mNotifyComplete EXCEPT ![s] = FALSE]
           /\ Consumed(s, queue[s])
           /\ queue' = [queue EXCEPT ![s] = <<>>]
           /\ mGeneration' = [mGeneration EXCEPT ![s] = @ + 1]
           /\ mDrainPending' = [mDrainPending EXCEPT ![s] = FALSE]
           /\ stopping' = (stopping /\ ~(s = "audio" /\ mOffload))
           /\ told' = told \ {s}
           /\ answered' = IF mNotifyComplete[s] THEN answered \cup {s} ELSE answered
    /\ mVideoSampleReceived' = FALSE
    /\ mQueueInitial' = TRUE
    /\ ForgetObsolete
    /\ UNCHANGED <<mHas, mPaused, mRenderStarted, mAudioEOS, mOffload, mTornDown,
                   aborted, sink, decoder, player, seeking, flushed, tearDownTold, resumable,
                   budget>>

\* Mutants of Pause: the pending flags, or the generations, are left as they are.
PauseStillPending ==
    /\ Take("Pause")
    /\ mPaused' = TRUE
    /\ mGeneration' = IF mPaused THEN mGeneration ELSE [s \in Streams |-> mGeneration[s] + 1]
    /\ ForgetObsolete
    /\ UNCHANGED <<mHas, queue, mFlushing, mNotifyComplete, mDrainPending, mRenderStarted,
                   mQueueInitial, mAudioEOS, mVideoSampleReceived, mOffload, mTornDown,
                   aborted, sinkVars, decoderVars, playerVars>>

PauseSameGeneration ==
    /\ Take("Pause")
    /\ mPaused' = TRUE
    /\ UNCHANGED <<mHas, timers, queue, mFlushing, mNotifyComplete, mDrainPending,
                   mGeneration, mRenderStarted, mQueueInitial, mAudioEOS,
                   mVideoSampleReceived, mOffload, mTornDown, aborted, sinkVars,
                   decoderVars, playerVars>>

\* onPause(): a new generation makes the drains on their way obsolete.
Pause ==
    /\ Take("Pause")
    /\ IF mPaused
       THEN UNCHANGED <<mPaused, mGeneration, mDrainPending>>
       ELSE /\ mPaused' = TRUE
            /\ mGeneration' = [s \in Streams |-> mGeneration[s] + 1]
            /\ mDrainPending' = [s \in Streams |-> FALSE]
    /\ ForgetObsolete
    /\ UNCHANGED <<mHas, queue, mFlushing, mNotifyComplete, mRenderStarted,
                   mQueueInitial, mAudioEOS, mVideoSampleReceived, mOffload, mTornDown,
                   aborted, sinkVars, decoderVars, playerVars>>

\* Mutant of Resume: only video is drained on.
ResumeVideo ==
    /\ Take("Resume")
    /\ mPaused' = FALSE
    /\ IF mPaused
       THEN PostDrains({"video"}, queue, mDrainPending, FALSE, mVideoSampleReceived, mAudioEOS)
       ELSE UNCHANGED <<mDrainPending, timers>>
    /\ UNCHANGED <<mHas, queue, mFlushing, mNotifyComplete, mGeneration, mRenderStarted,
                   mQueueInitial, mAudioEOS, mVideoSampleReceived, mOffload, mTornDown,
                   aborted, sinkVars, decoderVars, playerVars>>

\* onResume()
Resume ==
    /\ Take("Resume")
    /\ mPaused' = FALSE
    /\ IF mPaused
       THEN PostDrains(Streams, queue, mDrainPending, FALSE, mVideoSampleReceived, mAudioEOS)
       ELSE UNCHANGED <<mDrainPending, timers>>
    /\ UNCHANGED <<mHas, queue, mFlushing, mNotifyComplete, mGeneration, mRenderStarted,
                   mQueueInitial, mAudioEOS, mVideoSampleReceived, mOffload, mTornDown,
                   aborted, sinkVars, decoderVars, playerVars>>

\* onOpenAudioSink() for a decoder's PCM format, which waits for the answer.  A
\* sink that changes must find no drain pending: onAudioSinkChanged().
OpenAudioSink ==
    /\ Take("OpenAudioSink")
    /\ sink' = Head(inbox).gen
    /\ aborted' = IF sink # sink' /\ mDrainPending["audio"] THEN "sinkChanged" ELSE aborted
    /\ decoder' = [decoder EXCEPT !["audio"].opening = FALSE,
                                  !["audio"].format = Head(inbox).gen]
    /\ UNCHANGED <<mHas, timers, rendererVars, stopping, replies, playerVars>>

\* onCloseAudioSink() for the player, which waits for the answer.
CloseAudioSink ==
    /\ Take("CloseAudioSink")
    /\ sink' = 0 /\ stopping' = FALSE
    /\ player' = "tornDown"
    /\ UNCHANGED <<mHas, timers, rendererVars, aborted, decoderVars, seeking, answered,
                   flushed, told, tearDownTold, resumable, budget>>

StopAudioSink ==
    /\ Take("StopAudioSink")
    /\ stopping' = (sink # 0)
    /\ UNCHANGED <<mHas, timers, rendererVars, aborted, sink, decoderVars, playerVars>>

\* onDisableOffloadAudio()
DisableOffloadAudio ==
    /\ Take("DisableOffloadAudio")
    /\ mOffload' = FALSE
    /\ mGeneration' = [mGeneration EXCEPT !["audio"] = @ + 1]
    /\ ForgetObsolete
    /\ UNCHANGED <<mHas, queue, mFlushing, mNotifyComplete, mDrainPending, mPaused,
                   mRenderStarted, mQueueInitial, mAudioEOS, mVideoSampleReceived,
                   mTornDown, aborted, sinkVars, decoderVars, playerVars>>

\* onAudioOffloadTearDown(): the sink is stopped and the player told, once.
AudioOffloadTearDown ==
    /\ Take("AudioOffloadTearDown")
    /\ mTornDown' = TRUE
    /\ stopping' = (stopping /\ mTornDown)
    /\ tearDownTold' = (tearDownTold \/ ~mTornDown)
    /\ UNCHANGED <<mHas, timers, queue, mFlushing, mNotifyComplete, mDrainPending,
                   mGeneration, mPaused, mRenderStarted, mQueueInitial, mAudioEOS,
                   mVideoSampleReceived, mOffload, aborted, sink, decoderVars, player,
                   seeking, answered, flushed, told, resumable, budget>>

-----------------------------------------------------------------------------
(* The callback thread of an offloaded sink.                               *)

\* fillAudioBuffer(), under mLock: the first n buffers fill what the sink asks
\* for; an end of stream behind them stops the sink.
FillAudioBuffer ==
    /\ aborted = "no" /\ sink # 0 /\ mOffload /\ ~mPaused /\ ~stopping
    /\ \E n \in 0 .. Len(queue["audio"]), eos \in BOOLEAN :
          /\ \A i \in 1 .. n : IsBuffer(queue["audio"][i])
          /\ eos => n < Len(queue["audio"]) /\ ~IsBuffer(queue["audio"][n + 1])
          /\ n > 0 \/ eos
          /\ Consumed("audio", First("audio", n))
          /\ queue' = [queue EXCEPT !["audio"] = Rest("audio", IF eos THEN n + 1 ELSE n)]
          /\ inbox' = IF eos THEN Append(inbox, Signal("StopAudioSink")) ELSE inbox
    /\ UNCHANGED <<mHas, timers, mFlushing, mNotifyComplete, mDrainPending, mGeneration,
                   mPaused, mRenderStarted, mQueueInitial, mAudioEOS,
                   mVideoSampleReceived, mOffload, mTornDown, aborted, sinkVars, decoder,
                   playerVars>>

\* CB_EVENT_STREAM_END: a stopped sink has played out what it had.
StreamEnd ==
    /\ aborted = "no" /\ stopping /\ mOffload /\ ~mPaused
    /\ stopping' = FALSE
    /\ told' = told \cup {"audio"}
    /\ UNCHANGED <<mHas, inbox, timers, rendererVars, aborted, sink, decoderVars, player,
                   seeking, answered, flushed, tearDownTold, resumable, budget>>

\* CB_EVENT_TEAR_DOWN: the sink is lost.
SinkLost ==
    /\ aborted = "no" /\ sink # 0 /\ mOffload
    /\ Spend("tearDown")
    /\ inbox' = Append(inbox, Signal("AudioOffloadTearDown"))
    /\ UNCHANGED <<mHas, timers, rendererVars, aborted, sinkVars, decoderVars, player,
                   seeking, answered, flushed, told, tearDownTold, resumable>>

-----------------------------------------------------------------------------
(* The decoders' loopers.                                                  *)

\* A decoder puts out when it runs; before its first data an audio codec puts out
\* its format, which opens the sink.
Runs(s) == aborted = "no" /\ s \in mHas /\ ~decoder[s].paused /\ ~decoder[s].opening
PutsOut(s) == Runs(s) /\ ~decoder[s].ended
HasFormat(s) == s = "audio" => decoder[s].passThrough \/ decoder[s].format # 0

QueueBufferMsg(s, b) == Msg("QueueBuffer", s, b, decoder[s].gen)
QueueEOSMsg(s)       == Msg("QueueEOS", s, EOS, decoder[s].gen)

\* handleAnOutputBuffer(): a buffer of the codec goes to the renderer; the last
\* one carries the end of the stream, and may be empty.
OutputBuffer(s) ==
    /\ PutsOut(s)
    /\ \E b \in decoder[s].codec :
          /\ \A c \in decoder[s].codec : b <= c
          /\ \/ /\ HasFormat(s)
                /\ inbox' = Append(inbox, QueueBufferMsg(s, b))
                /\ decoder' = [decoder EXCEPT ![s].codec = @ \ {b}]
                /\ UNCHANGED budget
             \/ /\ Spend("endOfStream") /\ ~decoder[s].passThrough
                /\ inbox' = inbox \o <<QueueBufferMsg(s, b), QueueEOSMsg(s)>>
                /\ decoder' = [decoder EXCEPT ![s].codec = @ \ {b}, ![s].ended = TRUE]
    /\ UNCHANGED <<mHas, timers, rendererVars, aborted, sinkVars, replies, player,
                   seeking, answered, flushed, told, tearDownTold, resumable>>

\* DecoderPassThrough: the end of the stream comes without a buffer.
PassThroughEOS ==
    /\ decoder["audio"].passThrough /\ PutsOut("audio")
    /\ Spend("endOfStream")
    /\ inbox' = Append(inbox, QueueEOSMsg("audio"))
    /\ decoder' = [decoder EXCEPT !["audio"].ended = TRUE]
    /\ UNCHANGED <<mHas, timers, rendererVars, aborted, sinkVars, replies, player,
                   seeking, answered, flushed, told, tearDownTold, resumable>>

\* INFO_FORMAT_CHANGED: openAudioSink() waits for the renderer.
FormatChanged ==
    /\ Runs("audio") /\ ~decoder["audio"].passThrough /\ ~decoder["audio"].ended
    /\ Spend("format")
    /\ inbox' = Append(inbox, Msg("OpenAudioSink", "audio", EOS, decoder["audio"].format + 1))
    /\ decoder' = [decoder EXCEPT !["audio"].opening = TRUE]
    /\ UNCHANGED <<mHas, timers, rendererVars, aborted, sinkVars, replies, player,
                   seeking, answered, flushed, told, tearDownTold, resumable>>

\* onRenderBuffer(), onBufferConsumed(): a reply of the current generation gives
\* the buffer back to the codec.
RenderBuffer(s) ==
    /\ aborted = "no" /\ replies[s] # <<>> /\ ~decoder[s].opening
    /\ replies' = [replies EXCEPT ![s] = Tail(@)]
    /\ decoder' = IF Head(replies[s]).gen = decoder[s].gen
                  THEN [decoder EXCEPT ![s].codec = @ \cup {Head(replies[s]).buffer}]
                  ELSE decoder
    /\ UNCHANGED <<mHas, inbox, timers, rendererVars, aborted, sinkVars, playerVars>>

\* Mutant of AfterFlushOf: the request to be told is lost when a flush is merged.
AfterFlushOfForgets(S, notify) ==
    /\ mNotifyComplete' = [s \in Streams |-> IF s \in S /\ ~mFlushing[s] THEN notify
                                             ELSE mNotifyComplete[s]]
    /\ mFlushing' = [s \in Streams |-> mFlushing[s] \/ s \in S]

\* Renderer::flush(), on the caller's thread.
AfterFlushOf(S, notify) ==
    /\ mNotifyComplete' = [s \in Streams |-> mNotifyComplete[s] \/ (s \in S /\ notify)]
    /\ mFlushing' = [s \in Streams |-> mFlushing[s] \/ s \in S]

FlushMsgs(S) ==
    LET FlushOf(s) == IF s \in S /\ ~mFlushing[s] THEN <<Msg("Flush", s, EOS, 0)>> ELSE <<>>
    IN  FlushOf("audio") \o FlushOf("video")

\* The kWhatFlushCompleted a decoder posts comes behind what the player has been
\* told.  Behind a tear down the audio decoder's is of an older generation
\* (mAudioDecoderGeneration) and not heard.
AnswerCounts(s) == s = "audio" => player = "idle" /\ ~tearDownTold

\* Decoder::onFlush(): the codec has all its buffers again, and replies to what
\* was sent before are of an older generation.
FlushDecoder(s) ==
    /\ aborted = "no" /\ decoder[s].flushDue /\ ~decoder[s].opening
    /\ AfterFlushOf({s}, TRUE)
    /\ inbox' = inbox \o FlushMsgs({s})
    /\ decoder' = [decoder EXCEPT ![s].codec = BuffersOf(s), ![s].gen = @ + 1,
                                  ![s].ended = FALSE, ![s].paused = TRUE,
                                  ![s].flushDue = FALSE]
    /\ flushed' = IF AnswerCounts(s) THEN flushed \cup {s} ELSE flushed
    /\ UNCHANGED <<mHas, timers, queue, mDrainPending, mGeneration, mPaused,
                   mRenderStarted, mQueueInitial, mAudioEOS, mVideoSampleReceived,
                   mOffload, mTornDown, aborted, sinkVars, replies, player, seeking,
                   answered, told, tearDownTold, resumable, budget>>

-----------------------------------------------------------------------------
(* The player.                                                             *)

ClientPauses ==
    /\ aborted = "no" /\ player = "idle" /\ ~resumable
    /\ Spend("pause")
    /\ inbox' = Append(inbox, Signal("Pause"))
    /\ resumable' = TRUE
    /\ UNCHANGED <<mHas, timers, rendererVars, aborted, sinkVars, decoderVars, player,
                   seeking, answered, flushed, told, tearDownTold>>

ClientResumes ==
    /\ aborted = "no" /\ player = "idle" /\ resumable
    /\ inbox' = Append(inbox, Signal("Resume"))
    /\ resumable' = FALSE
    /\ UNCHANGED <<mHas, timers, rendererVars, aborted, sinkVars, decoderVars, player,
                   seeking, answered, flushed, told, tearDownTold, budget>>

\* A seek flushes every decoder ...
Seek ==
    /\ aborted = "no" /\ player = "idle" /\ ~seeking
    /\ Spend("seek")
    /\ seeking' = TRUE /\ answered' = {} /\ flushed' = {}
    /\ decoder' = [s \in Streams |-> [decoder[s] EXCEPT !.flushDue = s \in mHas]]
    /\ UNCHANGED <<mHas, inbox, timers, rendererVars, aborted, sinkVars, replies, player,
                   told, tearDownTold, resumable>>

\* ... and resumes them when each decoder and the renderer have answered.
SeekDone ==
    /\ aborted = "no" /\ player = "idle" /\ seeking
    /\ answered = mHas /\ flushed = mHas
    /\ seeking' = FALSE /\ answered' = {} /\ flushed' = {}
    /\ decoder' = [s \in Streams |-> [decoder[s] EXCEPT !.paused = FALSE]]
    /\ UNCHANGED <<mHas, inbox, timers, rendererVars, aborted, sinkVars, replies, player,
                   told, tearDownTold, resumable, budget>>

\* kWhatAudioOffloadTearDown, which no flush puts off: the sink is closed, which
\* is waited for, ...
TearDownBegins ==
    /\ aborted = "no" /\ player = "idle" /\ tearDownTold
    /\ tearDownTold' = FALSE
    /\ player' = "closing"
    /\ inbox' = Append(inbox, Signal("CloseAudioSink"))
    /\ UNCHANGED <<mHas, timers, rendererVars, aborted, sinkVars, decoderVars, seeking,
                   answered, flushed, told, resumable, budget>>

\* ... both streams are flushed in the renderer, without a word to the decoders,
\* and a decoder of its own replaces the pass-through.
TearDownEnds ==
    /\ aborted = "no" /\ player = "tornDown"
    /\ player' = "idle"
    /\ AfterFlushOf(mHas, FALSE)
    /\ inbox' = inbox \o FlushMsgs(mHas) \o <<Signal("DisableOffloadAudio")>>
    /\ decoder' = [decoder EXCEPT !["audio"] = NewDecoder("audio", @.gen + 1, FALSE)]
    /\ UNCHANGED <<mHas, timers, queue, mDrainPending, mGeneration, mPaused,
                   mRenderStarted, mQueueInitial, mAudioEOS, mVideoSampleReceived,
                   mOffload, mTornDown, aborted, sinkVars, replies, seeking, answered,
                   flushed, told, tearDownTold, resumable, budget>>

-----------------------------------------------------------------------------
RendererNext ==
    \/ TimerDue
    \/ \E w \in {"QueueBuffer", "QueueEOS"} : DropWhileFlushing(w)
    \/ QueueAndWait \/ QueueAndCompare \/ QueueAndDrain \/ QueueEOS
    \/ DrainObsolete \/ DrainAudioBuffers \/ DrainAudioEOS \/ DrainAudioClosed
    \/ DrainVideo \/ PostDrainVideo
    \/ Flush \/ Pause \/ Resume \/ OpenAudioSink \/ CloseAudioSink \/ StopAudioSink
    \/ DisableOffloadAudio \/ AudioOffloadTearDown
SinkNext == FillAudioBuffer \/ StreamEnd \/ SinkLost
DecoderNext ==
    \/ \E s \in Streams : OutputBuffer(s) \/ RenderBuffer(s) \/ FlushDecoder(s)
    \/ PassThroughEOS \/ FormatChanged
PlayerNext ==
    \/ ClientPauses \/ ClientResumes \/ Seek \/ SeekDone
    \/ TearDownBegins \/ TearDownEnds

Next == RendererNext \/ SinkNext \/ DecoderNext \/ PlayerNext
Spec == Init /\ [][Next]_vars

\* Loopers and threads go on; the sink takes what is offered to it, if not each
\* time then again and again; a frame that is ahead of the clock comes due.  The
\* client and the codecs are free.
Fairness ==
    /\ WF_vars(RendererNext)
    /\ SF_vars(DrainAudioBuffers /\ Len(queue'["audio"]) < Len(queue["audio"]))
    /\ SF_vars(DrainAudioEOS)
    /\ SF_vars(DrainVideo)
    /\ SF_vars(PostDrainVideo /\ \E m \in timers' : m.what = "DrainVideoQueue")
    /\ WF_vars(FillAudioBuffer) /\ WF_vars(StreamEnd)
    /\ \A s \in Streams : WF_vars(RenderBuffer(s)) /\ WF_vars(FlushDecoder(s))
    /\ WF_vars(SeekDone) /\ WF_vars(TearDownBegins) /\ WF_vars(TearDownEnds)
FairSpec == Spec /\ Fairness

-----------------------------------------------------------------------------
(* Properties.                                                             *)

\* A buffer as an entry its decoder still knows.
EntryOf(s, b) == [buffer |-> b, gen |-> decoder[s].gen]

\* Every output buffer of a codec is in one place: with the codec, or once, and
\* not twice, on its way to the renderer, in its queue or on its way back.
\* queueBuffer(), the drains, the drop while flushing, the flushes of the decoder
\* and of the player and the callback thread pass them on.
BuffersConserved ==
    \A s \in mHas : \A b \in BuffersOf(s) :
        Occurrences(inbox, QueueBufferMsg(s, b)) + Occurrences(queue[s], EntryOf(s, b))
            + Occurrences(replies[s], EntryOf(s, b))
            = IF b \in decoder[s].codec THEN 0 ELSE 1

IsDrainOf(s, m) == m.what \in DrainWhat /\ m.stream = s /\ Current(m)
CurrentDrains(s) == Cardinality({m \in timers : IsDrainOf(s, m)})
                    + Cardinality({i \in DOMAIN inbox : IsDrainOf(s, inbox[i])})

\* mDrainAudioQueuePending and mDrainVideoQueuePending are true exactly while one
\* drain message of the current generation is on its way: a flag left true would
\* stop the stream for good, one cleared too early would drain it twice as fast.
PendingDrainIsPosted ==
    \A s \in Streams : CurrentDrains(s) = IF mDrainPending[s] THEN 1 ELSE 0

\* A paused renderer gives the sink nothing and shows one frame at most, the first
\* after a flush: drains under way when onPause() runs come to nothing.
PausedIsStill ==
    [][mPaused => /\ ~DrainAudioBuffers /\ ~DrainAudioEOS /\ ~FillAudioBuffer
                  /\ DrainVideo => ~mVideoSampleReceived]_vars

\* A queue holds nothing of before its decoder's last flush once the renderer has
\* handled that flush: after a seek nothing of the old position is played.  (A
\* tear down flushes the renderer behind the decoders' backs: flush() merges the
\* decoder's own flush with one posted before the buffers it is to drop.)
QueueIsOfThisPosition ==
    \A s \in mHas : ~mFlushing[s] /\ ~mTornDown =>
        \A i \in DOMAIN queue[s] : queue[s][i].gen = decoder[s].gen

\* A session of one stream that has put out its end comes to tell it, unless it
\* is paused again and again: no buffer is left without a drain.  (Audio that ends
\* before it has a format has no sink, and its end is never told.)
LoneStreamCompletes ==
    \A s \in Streams :
        <>[](mHas = {s} /\ HasFormat(s) /\ decoder[s].ended /\ ~mPaused) => <>(s \in told)

\* A seek waits for an audio decoder that a tear down has released: no answer of
\* it is heard any more, and its successor is not asked for one.
WaitsForReleased == mTornDown /\ "audio" \in mHas \ flushed /\ ~decoder["audio"].flushDue

\* A seek ends: every flush the decoders ask for is answered by the renderer,
\* also when it meets a flush of the player that nobody is to be told of, before,
\* during and after a tear down; only a decoder released before the player has
\* heard of its flush keeps it from ending.
SeekEnds == seeking ~> (~seeking \/ aborted # "no" \/ WaitsForReleased)

\* A seek ends whatever comes between.  kWhatAudioOffloadTearDown clears
\* mAudioDecoder while mFlushingAudio is FLUSHING_DECODER, which refutes it.
SeekAlwaysEnds == seeking ~> (~seeking \/ aborted # "no")

\* CHECK(!mDrainAudioQueuePending) of onAudioSinkChanged(): a sink that changes
\* finds no drain on its way.  A decoder that changes its format in the middle of
\* a stream, with buffers before it in the queue, refutes it.
SinkChangeFindsNoDrain == aborted # "sinkChanged"

\* "EOS signalled on either queue": once one stream has come to its end the other
\* is not held back for it.  onQueueBuffer() holds it back for good when the end
\* comes before both queues have been filled.
EndDoesNotStarve ==
    \A s, t \in Streams :
        (mHas = {s, t} /\ s # t /\ s \in told /\ queue[t] # <<>>)
            ~> (queue[t] = <<>> \/ mPaused \/ s \notin told \/ aborted # "no")
=============================================================================
