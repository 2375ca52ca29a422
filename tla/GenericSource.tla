--------------------------- MODULE GenericSource ---------------------------
(***************************************************************************)
(* The source of local files, HTTP and Widevine: AmGenericSource on a      *)
(* looper of its own, which reads the tracks' access units into packet     *)
(* sources and polls how full the cache is; the decoders, which take the   *)
(* units on their loopers and ask for more; and the player, which          *)
(* prepares, starts, seeks, selects tracks and stops, and which pauses     *)
(* when the source tells it to.                                            *)
(*                                                                         *)
(* A seek finds the decoders flushed.  An access unit is known by its      *)
(* position (the number of seeks before it), the version of its track (the *)
(* number of selections before it) and its time in it.                     *)
(***************************************************************************)
EXTENDS Integers, Sequences, FiniteSets, Queues

CONSTANTS
    NumUnits,        \* access units from a position to the end
    MaxBuffers,      \* maxBuffers of readBuffer(), for each kind of source and stream
    \* bounds and choices of the environment
    Mishaps,         \* "lapse", "seekFails"
    MaxPositions,    \* the most often anything happens
    Sessions         \* the streams, the kind of source and how often each thing
                     \* happens: one of these

Streams == {"audio", "video"}
SourceKinds == {"file", "http", "widevine"}
BoundedEvents == {"pause", "seek", "select", "drain", "readError", "videoFails"}

ASSUME SizesAssumption ==
    NumUnits \in Nat \ {0} /\ MaxBuffers \in [SourceKinds -> [Streams -> Nat \ {0}]]
ASSUME EnvironmentAssumption ==
    /\ Mishaps \subseteq {"lapse", "seekFails"}
    /\ MaxPositions \in Nat
    /\ Sessions \subseteq [streams : (SUBSET Streams) \ {{}}, kind : SourceKinds,
                           budget : [BoundedEvents -> 0 .. MaxPositions]]

VARIABLES
    \* the session
    mHas, kind,
    cache,           \* what NuCachedSource2 holds: below the low water mark,
                     \* between the marks, above the high one, or all there is
    budget,
    \* the player's looper
    state,           \* "new", "preparing", "prepared", "started", "failed", "gone"
    call,            \* the synchronous call it waits in
    position,        \* the seeks so far
    mPaused, mPausedByClient,
    mail,            \* the source's notifications
    noVideo,         \* the video decoder has failed
    \* GenericSource
    inbox, delayed,  \* its messages, and those posted with a delay
    mPrepareBuffering, mBuffering,
    mStopRead,
    mPendingReadBufferTypes,
    track,           \* mAudioTrack, mVideoTrack: where each reads on
    mBuffers, mEOSResult,    \* their mPackets
    mLastDequeueTime,
    work,            \* the readBuffer() it is in
    \* the decoders
    reader,          \* how far each is in dequeueAccessUnit()
    unit,            \* the last access unit each has got
    ended            \* those that have been told of the end

sessionVars == <<mHas, kind>>
playerVars  == <<state, call, position, mPaused, mPausedByClient, noVideo>>
pollVars    == <<mPrepareBuffering, mBuffering>>
sourceVars  == <<mStopRead, track, mLastDequeueTime, work>>
packetVars  == <<mBuffers, mEOSResult>>
readerVars  == <<reader, unit, ended>>
vars == <<sessionVars, cache, budget, playerVars, mail, inbox, delayed, pollVars,
          mPendingReadBufferTypes, sourceVars, packetVars, readerVars>>

mIsStreaming == kind # "file"
mIsWidevine  == kind = "widevine"

Msg(w)     == [what |-> w, stream |-> "audio"]
Read(s)    == [what |-> "readBuffer", stream |-> s]
Unit == [pos : 0 .. MaxPositions, version : Nat, time : 0 .. NumUnits + 1]
FormatChange == [pos |-> -1, version |-> 0, time |-> 0]     \* INFO_DISCONTINUITY
Idle == [what |-> "none", stream |-> "audio", left |-> 0, seek |-> FALSE, format |-> FALSE,
         holds |-> FALSE]

TypeOK ==
    /\ mHas \subseteq Streams /\ kind \in SourceKinds
    /\ cache \in {"low", "middle", "high", "ended"}
    /\ budget \in [BoundedEvents -> Nat]
    /\ state \in {"new", "preparing", "prepared", "started", "failed", "gone"}
    /\ call \in {"none", "seek", "selectTrack", "stop"}
    /\ position \in 0 .. MaxPositions
    /\ {mPaused, mPausedByClient, noVideo, mPrepareBuffering, mBuffering, mStopRead} \subseteq BOOLEAN
    /\ mail \in Seq({"prepared", "failed", "pauseOnBufferingStart", "resumeOnBufferingEnd"})
    /\ inbox \in Seq([what : {"prepareAsync", "start", "resume", "pollBuffering", "readBuffer",
                              "seek", "selectTrack", "changeAVSource", "stopWidevine"},
                      stream : Streams])
    /\ delayed \subseteq {"prepareAsync", "pollBuffering"}
    /\ mPendingReadBufferTypes \subseteq Streams
    /\ track \in [Streams -> Unit]
    /\ mBuffers \in [Streams -> Seq(Unit \cup {FormatChange})]
    /\ mEOSResult \in [Streams -> BOOLEAN]
    /\ mLastDequeueTime \in [Streams -> 0 .. NumUnits]
    /\ work \in [what : {"none", "readBuffer", "seek", "changeAVSource"}, stream : Streams,
                 left : Nat, seek : BOOLEAN, format : BOOLEAN, holds : BOOLEAN]
    /\ reader \in [Streams -> {"idle", "available", "gotUnit", "gotOther"}]
    /\ unit \in [Streams -> Unit]
    /\ ended \subseteq Streams

Start == [pos |-> 0, version |-> 0, time |-> 1]

Init ==
    /\ \E d \in Sessions : mHas = d.streams /\ kind = d.kind /\ budget = d.budget
    /\ cache = "low"
    /\ state = "new" /\ call = "none" /\ position = 0
    /\ mPaused = FALSE /\ mPausedByClient = FALSE /\ noVideo = FALSE
    /\ mail = <<>> /\ inbox = <<>> /\ delayed = {}
    /\ mPrepareBuffering = FALSE /\ mBuffering = FALSE
    /\ mStopRead = TRUE
    /\ mPendingReadBufferTypes = {}
    /\ track = [s \in Streams |-> Start]
    /\ mBuffers = [s \in Streams |-> <<>>] /\ mEOSResult = [s \in Streams |-> FALSE]
    /\ mLastDequeueTime = [s \in Streams |-> 0]
    /\ work = Idle
    /\ reader = [s \in Streams |-> "idle"]
    /\ unit = [s \in Streams |-> [Start EXCEPT !.time = 0]]
    /\ ended = {}

Spend(e) == budget[e] > 0 /\ budget' = [budget EXCEPT ![e] = @ - 1]

-----------------------------------------------------------------------------
(* The cache.                                                              *)

Holds(seq, w) == \E i \in DOMAIN seq : seq[i].what = w

\* A pause for buffering that the player has not seen, or a restart of the poll
\* that the source has not, while the source takes the player to be paused.
Crossing ==
    mBuffering /\ (\/ Holds(inbox, "start") \/ Holds(inbox, "resume")
                   \/ \E i \in DOMAIN mail : mail[i] = "pauseOnBufferingStart")

CacheFills ==
    /\ mIsStreaming /\ cache \in {"low", "middle"}
    /\ cache = "low" /\ Crossing => "lapse" \in Mishaps
    /\ cache' = IF cache = "low" THEN "middle" ELSE "high"
    /\ UNCHANGED <<sessionVars, budget, playerVars, mail, inbox, delayed, pollVars,
                   mPendingReadBufferTypes, sourceVars, packetVars, readerVars>>

\* All there is has been fetched, or fetching has failed.
CacheEnds ==
    /\ mIsStreaming /\ cache = "high"
    /\ cache' = "ended"
    /\ UNCHANGED <<sessionVars, budget, playerVars, mail, inbox, delayed, pollVars,
                   mPendingReadBufferTypes, sourceVars, packetVars, readerVars>>

\* Playback is faster than the network, or begins elsewhere.
CacheDrains ==
    /\ mIsStreaming /\ state = "started"
    /\ \/ call = "seek" /\ cache # "low"
       \/ ~mPaused /\ cache \in {"middle", "high"}
    /\ Spend("drain")
    /\ cache' = "low"
    /\ UNCHANGED <<sessionVars, playerVars, mail, inbox, delayed, pollVars,
                   mPendingReadBufferTypes, sourceVars, packetVars, readerVars>>

-----------------------------------------------------------------------------
(* The source's looper: preparing and polling the cache.                   *)

SourceRuns == state # "gone" /\ work.what = "none"

Take(w) == SourceRuns /\ inbox # <<>> /\ Head(inbox).what = w

\* onPollBuffering(), with mPrepareBuffering and mBuffering as given, after the
\* notifications notes: which water mark has been passed decides.  At the end of
\* the data no other poll follows.
OnPollBuffering(prepares, buffers, notes) ==
    LET starts == cache = "low" /\ ~prepares /\ ~buffers
        stops  == cache \in {"high", "ended"}
        note   == CASE stops /\ prepares         -> <<"prepared">>
                    [] stops /\ ~prepares /\ buffers -> <<"resumeOnBufferingEnd">>
                    [] starts                    -> <<"pauseOnBufferingStart">>
                    [] OTHER                     -> <<>>
    IN  /\ mPrepareBuffering' = (prepares /\ ~stops)
        /\ mBuffering' = IF stops /\ ~prepares THEN FALSE ELSE buffers \/ starts
        /\ mail' = mail \o notes \o note
        /\ delayed' = IF cache = "ended" THEN delayed \ {"pollBuffering"}
                      ELSE delayed \cup {"pollBuffering"}

\* restartPollBuffering(): a poll of an older mPollBufferingGeneration does
\* nothing when it comes; it is forgotten here.  There is one at most.
PollsIn(q) == {i \in DOMAIN q : q[i].what = "pollBuffering"}
WithoutPoll(q) ==
    IF PollsIn(q) = {} THEN q
    ELSE LET poll == CHOOSE i \in PollsIn(q) : TRUE
         IN  [i \in 1 .. Len(q) - 1 |-> IF i < poll THEN q[i] ELSE q[i + 1]]
RestartPollBuffering(prepares, notes, rest) ==
    IF mIsStreaming
    THEN /\ OnPollBuffering(prepares, FALSE, notes)
         /\ inbox' = WithoutPoll(rest)
    ELSE /\ mPrepareBuffering' = prepares /\ mail' = mail \o notes /\ inbox' = rest
         /\ UNCHANGED <<mBuffering, delayed>>

\* onPrepareAsync(): a cache with too little to tell the format is looked at
\* again in 200 ms.
PrefillCache ==
    /\ Take("prepareAsync") /\ mIsStreaming /\ cache = "low"
    /\ inbox' = Tail(inbox) /\ delayed' = delayed \cup {"prepareAsync"}
    /\ UNCHANGED <<sessionVars, cache, budget, playerVars, mail, pollVars,
                   mPendingReadBufferTypes, sourceVars, packetVars, readerVars>>

PrepareFails ==
    /\ Take("prepareAsync")
    /\ inbox' = Tail(inbox) /\ mail' = Append(mail, "failed")
    /\ UNCHANGED <<sessionVars, cache, budget, playerVars, delayed, pollVars,
                   mPendingReadBufferTypes, sourceVars, packetVars, readerVars>>

\* finishPrepareAsync(): what is streamed is prepared when enough has been cached.
Prepare ==
    /\ Take("prepareAsync")
    /\ IF mIsStreaming THEN RestartPollBuffering(TRUE, <<>>, Tail(inbox))
       ELSE RestartPollBuffering(FALSE, <<"prepared">>, Tail(inbox))
    /\ UNCHANGED <<sessionVars, cache, budget, playerVars, mPendingReadBufferTypes, sourceVars,
                   packetVars, readerVars>>

PollBuffering ==
    /\ Take("pollBuffering")
    /\ inbox' = Tail(inbox)
    /\ OnPollBuffering(mPrepareBuffering, mBuffering, <<>>)
    /\ UNCHANGED <<sessionVars, cache, budget, playerVars, mPendingReadBufferTypes, sourceVars,
                   packetVars, readerVars>>

\* kWhatStart, kWhatResume
RestartsPoll ==
    /\ Take("start") \/ Take("resume")
    /\ RestartPollBuffering(mPrepareBuffering, <<>>, Tail(inbox))
    /\ UNCHANGED <<sessionVars, cache, budget, playerVars, mPendingReadBufferTypes, sourceVars,
                   packetVars, readerVars>>

\* A message posted with a delay comes due.
DelayPasses ==
    /\ state # "gone"
    /\ \E w \in delayed : delayed' = delayed \ {w} /\ inbox' = Append(inbox, Msg(w))
    /\ UNCHANGED <<sessionVars, cache, budget, playerVars, mail, pollVars,
                   mPendingReadBufferTypes, sourceVars, packetVars, readerVars>>

-----------------------------------------------------------------------------
(* The source's looper: reading.                                           *)

\* readBuffer() begins; it returns at once when mStopRead is set.
ReadBuffer(w, s, seek, format) ==
    work' = [what |-> w, stream |-> s, left |-> IF mStopRead THEN 0 ELSE MaxBuffers[kind][s],
             seek |-> seek, format |-> format, holds |-> FALSE]

\* Mutant: the bit is cleared before the read.
OnReadBufferClearsFirst ==
    /\ Take("readBuffer")
    /\ inbox' = Tail(inbox)
    /\ ReadBuffer("readBuffer", Head(inbox).stream, FALSE, FALSE)
    /\ mPendingReadBufferTypes' = mPendingReadBufferTypes \ {Head(inbox).stream}
    /\ UNCHANGED <<sessionVars, cache, budget, playerVars, mail, delayed, pollVars,
                   mStopRead, track, mLastDequeueTime, packetVars, readerVars>>

OnReadBuffer ==
    /\ Take("readBuffer")
    /\ inbox' = Tail(inbox)
    /\ ReadBuffer("readBuffer", Head(inbox).stream, FALSE, FALSE)
    /\ UNCHANGED <<sessionVars, cache, budget, playerVars, mail, delayed, pollVars,
                   mPendingReadBufferTypes, mStopRead, track, mLastDequeueTime, packetVars,
                   readerVars>>

\* doSeek(): the video first, the audio from where the video has got to.
OnSeek ==
    /\ Take("seek")
    /\ inbox' = Tail(inbox)
    /\ IF mStopRead
       THEN call' = "none" /\ UNCHANGED <<work, track>>
       ELSE /\ ReadBuffer("seek", IF "video" \in mHas THEN "video" ELSE "audio", TRUE, FALSE)
            /\ track' = [s \in Streams |-> [track[s] EXCEPT !.pos = position, !.time = 1]]
            /\ UNCHANGED call
    /\ UNCHANGED <<sessionVars, cache, budget, state, position, mPaused, mPausedByClient,
                   noVideo, mail, delayed, pollVars, mPendingReadBufferTypes, mStopRead,
                   mLastDequeueTime, packetVars, readerVars>>

\* The player is answered when the change has been posted.
OnSelectTrack ==
    /\ Take("selectTrack")
    /\ inbox' = Append(Tail(inbox), Msg("changeAVSource"))
    /\ call' = "none"
    /\ UNCHANGED <<sessionVars, cache, budget, state, position, mPaused, mPausedByClient,
                   noVideo, mail, delayed, pollVars, mPendingReadBufferTypes, sourceVars,
                   packetVars, readerVars>>

\* The new track is read from where the decoder is.
OnChangeAVSource ==
    /\ Take("changeAVSource")
    /\ inbox' = Tail(inbox)
    /\ LET last == mLastDequeueTime["audio"]
       IN  track' = [track EXCEPT !["audio"].version = @ + 1,
                                  !["audio"].time = IF last = 0 THEN 1 ELSE last]
    /\ ReadBuffer("changeAVSource", "audio", TRUE, TRUE)
    /\ UNCHANGED <<sessionVars, cache, budget, playerVars, mail, delayed, pollVars,
                   mPendingReadBufferTypes, mStopRead, mLastDequeueTime, packetVars, readerVars>>

StopWidevine ==
    /\ Take("stopWidevine")
    /\ inbox' = Tail(inbox)
    /\ mStopRead' = TRUE
    /\ mBuffers' = [mBuffers EXCEPT !["video"] = <<>>]
    /\ mEOSResult' = [mEOSResult EXCEPT !["video"] = FALSE]
    /\ call' = "none"
    /\ UNCHANGED <<sessionVars, cache, budget, state, position, mPaused, mPausedByClient,
                   noVideo, mail, delayed, pollVars, mPendingReadBufferTypes, track,
                   mLastDequeueTime, work, readerVars>>

ReadFrame == UNCHANGED <<sessionVars, cache, playerVars, mail, inbox, delayed, pollVars,
                         mPendingReadBufferTypes, mStopRead, mLastDequeueTime, readerVars>>

Reading == state # "gone" /\ work.left > 0 /\ ~work.holds

\* Mutant: a seek keeps what is queued.
ReadsFirstUnitKeeps ==
    /\ Reading /\ (work.seek \/ work.format)
    /\ track[work.stream].time <= NumUnits
    /\ mBuffers' = IF work.format
                   THEN [mBuffers EXCEPT ![work.stream] = Kept(@, {FormatChange})]
                   ELSE mBuffers
    /\ mEOSResult' = [mEOSResult EXCEPT ![work.stream] = FALSE]
    /\ work' = [work EXCEPT !.holds = TRUE]
    /\ UNCHANGED track
    /\ UNCHANGED budget /\ ReadFrame

\* The first unit read after a seek or a selection: queueDiscontinuity() drops what
\* is queued, and announces another track.
ReadsFirstUnit ==
    /\ Reading /\ (work.seek \/ work.format)
    /\ track[work.stream].time <= NumUnits
    /\ mBuffers' = [mBuffers EXCEPT ![work.stream] =
                       Kept(@, {FormatChange})
                       \o (IF work.seek /\ work.format THEN <<FormatChange>> ELSE <<>>)]
    /\ mEOSResult' = [mEOSResult EXCEPT ![work.stream] = FALSE]
    /\ work' = [work EXCEPT !.holds = TRUE]
    /\ track' = IF work.format /\ ~work.seek
                THEN [track EXCEPT ![work.stream].version = @ + 1] ELSE track
    /\ UNCHANGED budget /\ ReadFrame

\* queueAccessUnit(), of that unit or of one that follows
QueuesUnit ==
    /\ \/ work.holds
       \/ Reading /\ ~work.seek /\ ~work.format /\ track[work.stream].time <= NumUnits
    /\ state # "gone"
    /\ mBuffers' = [mBuffers EXCEPT ![work.stream] = Append(@, track[work.stream])]
    /\ track' = [track EXCEPT ![work.stream].time = @ + 1]
    /\ work' = [work EXCEPT !.left = @ - 1, !.seek = FALSE, !.format = FALSE, !.holds = FALSE]
    /\ UNCHANGED <<budget, mEOSResult>> /\ ReadFrame

\* The end of the track, or an error, which ends the stream as well: signalEOS().
ReadsEnd ==
    /\ Reading
    /\ \/ track[work.stream].time > NumUnits /\ UNCHANGED budget
       \/ /\ Spend("readError")
          /\ work.what # "readBuffer" => "seekFails" \in Mishaps
    /\ mEOSResult' = [mEOSResult EXCEPT ![work.stream] = TRUE]
    /\ work' = [work EXCEPT !.left = 0]
    /\ UNCHANGED <<mBuffers, track>> /\ ReadFrame

\* A Widevine source does not wait for data.
ReadWouldBlock ==
    /\ Reading /\ mIsWidevine
    /\ work.seek => "seekFails" \in Mishaps
    /\ work' = [work EXCEPT !.left = 0]
    /\ UNCHANGED <<budget, packetVars, track>> /\ ReadFrame

Returns(w) == state # "gone" /\ work.what = w /\ work.left = 0

\* onReadBuffer(): only now another one may be posted.
ReadBufferReturns ==
    /\ Returns("readBuffer")
    /\ work' = Idle
    /\ mPendingReadBufferTypes' = mPendingReadBufferTypes \ {work.stream}
    /\ UNCHANGED <<sessionVars, cache, budget, playerVars, mail, inbox, delayed, pollVars,
                   mStopRead, track, mLastDequeueTime, packetVars, readerVars>>

SeeksAudio ==
    /\ Returns("seek") /\ work.stream = "video" /\ "audio" \in mHas
    /\ mLastDequeueTime' = [mLastDequeueTime EXCEPT !["video"] = 1]
    /\ ReadBuffer("seek", "audio", TRUE, FALSE)
    /\ UNCHANGED <<sessionVars, cache, budget, playerVars, mail, inbox, delayed, pollVars,
                   mPendingReadBufferTypes, mStopRead, track, packetVars, readerVars>>

\* Mutant: the pause is not ended before the poll begins anew.
SeekReturnsBuffering ==
    /\ Returns("seek") /\ (work.stream = "audio" \/ "audio" \notin mHas)
    /\ mLastDequeueTime' = [mLastDequeueTime EXCEPT ![work.stream] = 1]
    /\ work' = Idle
    /\ RestartPollBuffering(FALSE, <<>>, inbox)
    /\ call' = "none"
    /\ UNCHANGED <<sessionVars, cache, budget, state, position, mPaused, mPausedByClient,
                   noVideo, mPendingReadBufferTypes, mStopRead, track, packetVars, readerVars>>

\* A buffering pause is ended before the poll begins anew, and the player answered.
SeekReturns ==
    /\ Returns("seek") /\ (work.stream = "audio" \/ "audio" \notin mHas)
    /\ mLastDequeueTime' = [mLastDequeueTime EXCEPT ![work.stream] = 1]
    /\ work' = Idle
    /\ RestartPollBuffering(FALSE, IF mBuffering THEN <<"resumeOnBufferingEnd">> ELSE <<>>, inbox)
    /\ call' = "none"
    /\ UNCHANGED <<sessionVars, cache, budget, state, position, mPaused, mPausedByClient,
                   noVideo, mPendingReadBufferTypes, mStopRead, track, packetVars, readerVars>>

\* The queue of the other stream is dropped too, without a seek.
ReadsCounterpart ==
    /\ Returns("changeAVSource") /\ work.stream = "audio" /\ "video" \in mHas
    /\ ReadBuffer("changeAVSource", "video", FALSE, TRUE)
    /\ UNCHANGED <<sessionVars, cache, budget, playerVars, mail, inbox, delayed, pollVars,
                   mPendingReadBufferTypes, mStopRead, track, mLastDequeueTime, packetVars,
                   readerVars>>

ChangeReturns ==
    /\ Returns("changeAVSource") /\ (work.stream = "video" \/ "video" \notin mHas)
    /\ work' = Idle
    /\ UNCHANGED <<sessionVars, cache, budget, playerVars, mail, inbox, delayed, pollVars,
                   mPendingReadBufferTypes, mStopRead, track, mLastDequeueTime, packetVars,
                   readerVars>>

-----------------------------------------------------------------------------
(* The decoders.                                                           *)

\* postReadBuffer() for each stream of S.
PostReadBuffer(S) ==
    LET new == S \ mPendingReadBufferTypes
    IN  /\ mPendingReadBufferTypes' = mPendingReadBufferTypes \cup new
        /\ inbox' = inbox \o (IF "audio" \in new THEN <<Read("audio")>> ELSE <<>>)
                          \o (IF "video" \in new THEN <<Read("video")>> ELSE <<>>)

DecoderRuns(s) ==
    state = "started" /\ s \in mHas /\ call # "seek" /\ ~(s = "video" /\ noVideo)

DecoderFrame == UNCHANGED <<sessionVars, cache, budget, playerVars, mail, delayed, pollVars,
                            mStopRead, track, work, mEOSResult>>

\* Mutant: only a unit that is taken has more data read.
AsksOnlyTakes(s) ==
    /\ DecoderRuns(s) /\ reader[s] = "idle"
    /\ LET none == mBuffers[s] = <<>>
       IN  /\ PostReadBuffer(IF mIsWidevine /\ s = "video" THEN {s} ELSE {})
           /\ reader' = IF none THEN reader ELSE [reader EXCEPT ![s] = "available"]
           /\ ended' = IF none /\ mEOSResult[s] THEN ended \cup {s} ELSE ended
    /\ UNCHANGED <<mBuffers, mLastDequeueTime, unit>> /\ DecoderFrame

\* dequeueAccessUnit() up to hasBufferAvailable().
Asks(s) ==
    /\ DecoderRuns(s) /\ reader[s] = "idle"
    /\ LET none == mBuffers[s] = <<>>
       IN  /\ PostReadBuffer(IF (none /\ ~mEOSResult[s]) \/ (mIsWidevine /\ s = "video")
                             THEN {s} ELSE {})
           /\ reader' = IF none THEN reader ELSE [reader EXCEPT ![s] = "available"]
           /\ ended' = IF none /\ mEOSResult[s] THEN ended \cup {s} ELSE ended
    /\ UNCHANGED <<mBuffers, mLastDequeueTime, unit>> /\ DecoderFrame

\* mPackets->dequeueAccessUnit(), which waits while the queue is empty.
Dequeues(s) ==
    /\ reader[s] = "available"
    /\ IF mBuffers[s] = <<>>
       THEN /\ mEOSResult[s]
            /\ ended' = ended \cup {s} /\ reader' = [reader EXCEPT ![s] = "gotOther"]
            /\ UNCHANGED <<mBuffers, unit>>
       ELSE LET b == Head(mBuffers[s])
            IN  /\ mBuffers' = [mBuffers EXCEPT ![s] = Tail(@)]
                /\ ended' = ended \ {s}
                /\ IF b = FormatChange
                   THEN reader' = [reader EXCEPT ![s] = "gotOther"] /\ UNCHANGED unit
                   ELSE /\ reader' = [reader EXCEPT ![s] = "gotUnit"]
                        /\ unit' = [unit EXCEPT ![s] = b]
    /\ UNCHANGED <<inbox, mPendingReadBufferTypes, mLastDequeueTime>> /\ DecoderFrame

\* An empty queue is to be filled again.
AsksForMore(s) ==
    /\ reader[s] \in {"gotUnit", "gotOther"}
    /\ PostReadBuffer(IF mBuffers[s] = <<>> THEN {s} ELSE {})
    /\ reader' = [reader EXCEPT ![s] = "idle"]
    /\ mLastDequeueTime' = IF reader[s] = "gotUnit"
                           THEN [mLastDequeueTime EXCEPT ![s] = unit[s].time]
                           ELSE mLastDequeueTime
    /\ UNCHANGED <<mBuffers, unit, ended>> /\ DecoderFrame

-----------------------------------------------------------------------------
(* The player's looper.                                                    *)

PlayerFree == call = "none" /\ state # "gone"

Quiet(S) == \A s \in S : reader[s] = "idle"

PrepareAsync ==
    /\ PlayerFree /\ state = "new"
    /\ state' = "preparing"
    /\ inbox' = Append(inbox, Msg("prepareAsync"))
    /\ UNCHANGED <<sessionVars, cache, budget, call, position, mPaused, mPausedByClient, noVideo,
                   mail, delayed, pollVars, mPendingReadBufferTypes, sourceVars, packetVars,
                   readerVars>>

OnPrepared ==
    /\ PlayerFree /\ mail # <<>> /\ Head(mail) \in {"prepared", "failed"}
    /\ mail' = Tail(mail)
    /\ state' = Head(mail)
    /\ UNCHANGED <<sessionVars, cache, budget, call, position, mPaused, mPausedByClient, noVideo,
                   inbox, delayed, pollVars, mPendingReadBufferTypes, sourceVars, packetVars,
                   readerVars>>

\* onPause() tells the source nothing that matters here; onResume() has it look at
\* the cache again.
OnBufferingNotify ==
    /\ PlayerFree /\ mail # <<>>
    /\ Head(mail) \in {"pauseOnBufferingStart", "resumeOnBufferingEnd"}
    /\ mail' = Tail(mail)
    /\ LET heard == state = "started" /\ ~mPausedByClient
           pause == Head(mail) = "pauseOnBufferingStart"
       IN  /\ mPaused' = IF heard THEN pause ELSE mPaused
           /\ inbox' = IF heard /\ ~pause /\ mPaused THEN Append(inbox, Msg("resume")) ELSE inbox
    /\ UNCHANGED <<sessionVars, cache, budget, state, call, position, mPausedByClient, noVideo,
                   delayed, pollVars, mPendingReadBufferTypes, sourceVars, packetVars, readerVars>>

\* start(): reading begins.
OnStart ==
    /\ PlayerFree /\ state = "prepared"
    /\ state' = "started"
    /\ mStopRead' = FALSE
    /\ LET new == mHas \ mPendingReadBufferTypes
       IN  /\ mPendingReadBufferTypes' = mPendingReadBufferTypes \cup new
           /\ inbox' = inbox \o (IF "audio" \in new THEN <<Read("audio")>> ELSE <<>>)
                             \o (IF "video" \in new THEN <<Read("video")>> ELSE <<>>)
                             \o <<Msg("start")>>
    /\ UNCHANGED <<sessionVars, cache, budget, call, position, mPaused, mPausedByClient, noVideo,
                   mail, delayed, pollVars, track, mLastDequeueTime, work, packetVars,
                   readerVars>>

ClientPauses ==
    /\ PlayerFree /\ state = "started" /\ ~mPausedByClient
    /\ Spend("pause")
    /\ mPaused' = TRUE /\ mPausedByClient' = TRUE
    /\ UNCHANGED <<sessionVars, cache, state, call, position, noVideo, mail, inbox, delayed,
                   pollVars, mPendingReadBufferTypes, sourceVars, packetVars, readerVars>>

ClientResumes ==
    /\ PlayerFree /\ state = "started" /\ mPaused
    /\ mPausedByClient
    /\ mPaused' = FALSE /\ mPausedByClient' = FALSE
    /\ inbox' = Append(inbox, Msg("resume"))
    /\ UNCHANGED <<sessionVars, cache, budget, state, call, position, noVideo, mail, delayed,
                   pollVars, mPendingReadBufferTypes, sourceVars, packetVars, readerVars>>

\* The decoders have been flushed when the source is sought in.
SeekTo ==
    /\ PlayerFree /\ state = "started" /\ Quiet(mHas)
    /\ Spend("seek") /\ position < MaxPositions
    /\ position' = position + 1
    /\ ended' = {}
    /\ call' = "seek" /\ inbox' = Append(inbox, Msg("seek"))
    /\ UNCHANGED <<sessionVars, cache, state, mPaused, mPausedByClient, noVideo, mail, delayed,
                   pollVars, mPendingReadBufferTypes, sourceVars, packetVars, reader, unit>>

\* Another audio track
SelectTrack ==
    /\ PlayerFree /\ state \in {"prepared", "started"} /\ "audio" \in mHas
    /\ Spend("select")
    /\ call' = "selectTrack" /\ inbox' = Append(inbox, Msg("selectTrack"))
    /\ UNCHANGED <<sessionVars, cache, state, position, mPaused, mPausedByClient, noVideo, mail,
                   delayed, pollVars, mPendingReadBufferTypes, sourceVars, packetVars,
                   readerVars>>

\* The video decoder of a Widevine source has failed and been flushed: reading is
\* stopped before it is released.
StopForVideo ==
    /\ PlayerFree /\ state = "started" /\ mIsWidevine /\ "video" \in mHas /\ ~noVideo
    /\ Quiet({"video"})
    /\ Spend("videoFails")
    /\ noVideo' = TRUE
    /\ call' = "stop" /\ inbox' = Append(inbox, Msg("stopWidevine"))
    /\ UNCHANGED <<sessionVars, cache, state, position, mPaused, mPausedByClient, mail, delayed,
                   pollVars, mPendingReadBufferTypes, sourceVars, packetVars, readerVars>>

\* performReset(): the source is stopped, if Widevine, and released.
Reset ==
    /\ PlayerFree /\ state # "new" /\ Quiet(mHas)
    /\ state' = "gone"
    /\ UNCHANGED <<sessionVars, cache, budget, call, position, mPaused, mPausedByClient, noVideo,
                   mail, inbox, delayed, pollVars, mPendingReadBufferTypes, sourceVars,
                   packetVars, readerVars>>

-----------------------------------------------------------------------------
Reads == ReadsFirstUnit \/ QueuesUnit \/ ReadsEnd \/ ReadWouldBlock
SourceNext ==
    \/ PrefillCache \/ PrepareFails \/ Prepare \/ PollBuffering \/ RestartsPoll
    \/ OnReadBuffer \/ OnSeek \/ OnSelectTrack \/ OnChangeAVSource \/ StopWidevine
    \/ Reads \/ ReadBufferReturns
    \/ SeeksAudio \/ SeekReturns \/ ReadsCounterpart \/ ChangeReturns
DecoderNext(s) == Asks(s) \/ Dequeues(s) \/ AsksForMore(s)
ClientNext == ClientPauses \/ ClientResumes \/ SeekTo \/ SelectTrack \/ StopForVideo \/ Reset
PlayerNext == PrepareAsync \/ OnPrepared \/ OnBufferingNotify \/ OnStart

Next ==
    \/ CacheFills \/ CacheEnds \/ CacheDrains
    \/ SourceNext \/ DelayPasses
    \/ \E s \in Streams : DecoderNext(s)
    \/ PlayerNext \/ ClientNext

Spec == Init /\ [][Next]_vars

\* Loopers go on and timers fire; data comes; what a Widevine source reads is not
\* late for ever; a decoder asks for data while the player plays.
Fairness ==
    /\ WF_vars(SourceNext) /\ WF_vars(DelayPasses) /\ WF_vars(CacheFills)
    /\ \A s \in Streams : SF_vars(work.stream = s /\ (ReadsFirstUnit \/ QueuesUnit \/ ReadsEnd))
    /\ WF_vars(OnPrepared) /\ WF_vars(OnBufferingNotify)
    /\ \A s \in Streams : WF_vars(~mPaused /\ DecoderNext(s))
FairSpec == Spec /\ Fairness

-----------------------------------------------------------------------------
(* Properties.                                                             *)

\* What WithoutPoll relies on.
OnePoll == \A i, j \in PollsIn(inbox) : i = j

Posted(s) == Cardinality({i \in DOMAIN inbox : inbox[i] = Read(s)})
             + IF work.what = "readBuffer" /\ work.stream = s THEN 1 ELSE 0

\* A bit of mPendingReadBufferTypes is set exactly while one kWhatReadBuffer of the
\* stream is posted or being handled.  The player and both decoders post it on
\* their threads: one that is lost would end the stream, one too many would read
\* ahead without bound.
PendingReadIsPosted ==
    state # "gone" =>
        \A s \in Streams : Posted(s) = IF s \in mPendingReadBufferTypes THEN 1 ELSE 0

\* Each decoder gets the units of the position in order, as AccessUnits says,
\* whatever is read, sought and selected on the looper meanwhile.
Units == INSTANCE AccessUnits
UnitsInOrder == Units!Spec

\* Two things break that.  The seek of a source that has been stopped for its video
\* decoder is refused (doSeek()), and nobody hears of it: the audio decoder goes on
\* with what was queued before.
SoughtAfterStop == OnSeek /\ mStopRead /\ "audio" \in mHas

\* The audio track is changed when the decoder is still taking what had been read of
\* the track before it, from further back than it had got to: mLastDequeueTime is
\* ahead of the units that it has yet to get, and they are left out.
SelectedAhead ==
    /\ OnChangeAVSource
    /\ \E u \in {unit["audio"]} \cup {mBuffers["audio"][i] : i \in DOMAIN mBuffers["audio"]} :
          u.pos = track["audio"].pos /\ u.time + 1 < mLastDequeueTime["audio"]

\* "Otherwise, if cache hits high watermark before new polling happens, no one will
\* resume the playback" (AmGenericSource.cpp:1387): preparing ends, and so does a
\* pause for buffering.
BufferingEnds ==
    /\ state = "preparing" ~> state # "preparing"
    /\ (state = "started" /\ mPaused /\ ~mPausedByClient)
          ~> (~mPaused \/ mPausedByClient \/ state = "gone")

\* Every stream is read to its end, unless it is paused, sought in or stopped: no
\* request for data is lost between the decoder that finds its queue empty and the
\* looper that has just filled it.
StreamsAreRead ==
    \A s \in Streams :
        <>[](state = "started" /\ s \in mHas /\ ~mPaused /\ ~mStopRead /\ ~noVideo)
            => <>(s \in ended)
=============================================================================
