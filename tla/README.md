# Am-NuPlayer: a TLA+ verification of the Amlogic media framework

This directory holds TLA+ models of the control logic of the Amlogic media
framework (`src/media`, `src/LibScreenSource`), the TLC configurations that
check them on small instances, and proofs that TLAPS checks for every instance.
The model follows the code, not its comments; where a comment or an assertion
and the code disagree, a run shows the disagreement (see *Findings*).

## 1. Inventory

### The player

| Component | State | Operations | Talks to |
|---|---|---|---|
| `AmNuPlayerDriver` | `mState` (11 states), `mIsAsyncPrepare`, `mSetSurfaceInProgress`, `mSeekInProgress`, `mAtEOS`, `mStartupSeekTimeUs`, under `mLock`/`mCondition` | the client's calls, which block; `notify...()` callbacks | the client (binder threads), the player's looper |
| `AmNuPlayer` | source, decoders, renderer and a generation for each; `mFlushingAudio/Video`, `mFlushComplete[2][2]`, `mResumePending`, `mPaused`, `mPausedByClient`, `mDeferredActions`, scan generation | one handler per message, on one looper | everything below, by messages |
| `Decoder`, `DecoderPassThrough` (`DecoderBase`) | `mPaused`, buffer generation, resume-pending flag, codec state | configure, flush, resume, shutdown, pull of input, output, error | player (notifications), renderer (queueing, flush), source (`dequeueAccessUnit`) |
| `Renderer` | two queues and their flush/generation counters, pause state, offload flags, pause timeout | queue, flush, pause, resume, open/close sink, tear down | audio sink (its callback thread), player |
| `Source` and its kinds: `GenericSource`, `HTTPLiveSource`, `StreamingSource`, `RTSPSource` | preparation, buffering, streams known so far | prepare, start, stop, pause, resume, `seekTo`, `feedMoreTSData`, `dequeueAccessUnit` | player (`kWhatSourceNotify`) |
| `LiveSession`, `PlaylistFetcher` | fetchers per URI, packet sources, switch in progress, seek position | bandwidth switch, fetch, discontinuities, seek | `HTTPLiveSource`, `AnotherPacketSource` |
| `AnotherPacketSource` | queue of access units, EOS result, discontinuities, under a lock | queue, dequeue, clear, meta data | parsers and fetchers write, the source reads |
| `NuPlayerStreamListener` | buffers owned by either side, EOS flag | start, read, queue, command | a remote `IStreamSource` |
| `ATSParser`, `ESQueue`, `M3UParser`, `CCDecoder` | parser state | parse | sequential |
| `AmSuperPlayer` | the player installed, what the client asked for, the type probed, stored messages, under two mutexes or none | calls forwarded, choice of the player by a thread of its own, `Notify()` | `AmlogicPlayer`, `AmNuPlayerDriver`, `StagefrightPlayer`, the client |

Requests go down as messages posted to loopers, answers come up as
notifications that carry the generation of the object that sent them.  What
makes this hard: an operation that needs quiet decoders (seek, new surface,
reset) *flushes* or *shuts down* both, which takes an answer of the decoder and
one of the renderer per stream, in any order; what comes next waits in
`mDeferredActions`.  Decoder errors, scans for new streams, buffering, pauses,
tear downs of the audio sink and further requests arrive meanwhile.  The
client's threads wait without a timeout for the end of it.

### Beside the player

| Component | State | What makes it correct |
|---|---|---|
| Wi-Fi display sink (`WifiDisplaySink`) | RTSP session state, pending responses by CSeq | responses matched to requests, one session, tear down |
| `RTPSink`, `TunnelRenderer` | per-source sequence extension (RFC 3550), reorder list, requested retransmissions | packets leave in order of the extended sequence number, at most once; a lost packet does not stop the stream for good |
| `ScreenMediaSource`, `ScreenCatch` | clients, frames shared with the capture callback, reference counts | a frame goes back exactly once, after all its readers; client ids are unique |
| `ESConvertor`, `TSPacker` | encoder input/output queues, continuity counters | no buffer lost or used twice; stop ends both threads |
| `AmlogicPlayer`, FFmpeg adapter, extractors, codecs, retrievers | glue over libraries | not concurrent logic of this repository |

What of this is modelled is said in section 2, what is not in section 6.
`PROJECT.json` lists every component with its modules, and under `hazards` the places, by line, where the code can go wrong in ways a test would
hardly reach.

## 2. Modules

| Module | Models | Lines of code behind it |
|---|---|---|
| `NuPlayer` | `AmNuPlayer` with its decoders, renderer, source notifications and a coarse driver | `AmNuPlayer.cpp`, `AmNuPlayerDecoder*.cpp`, `AmNuPlayerRenderer.cpp` |
| `PlayerRequests` | abstract: seeks and resets are carried out in order and each is answered | (a promise, not code) |
| `NuPlayerDriver` | `AmNuPlayerDriver` under `mLock`, several client threads, the player's looper | `AmNuPlayerDriver.cpp` |
| `Renderer` | the renderer with the output side of both decoders, the audio sink and its callback thread, the player's flushes and pauses | `AmNuPlayerRenderer.cpp`, `AmNuPlayerDecoder.cpp`, `AmNuPlayerDecoderPassThrough.cpp` |
| `GenericSource` | the source of files, HTTP and Widevine, between its looper, the decoders' loopers and the player | `AmGenericSource.cpp`, `AmAnotherPacketSource.cpp` |
| `AccessUnits` | abstract: each decoder gets the units of the position that was sought, in order | (a promise, not code) |
| `LiveSession` | HLS: the session, its playlist fetchers, the packet sources they fill, the decoders that read them | `AmLiveSession.cpp`, `AmPlaylistFetcher.cpp`, `AmAnotherPacketSource.cpp` |
| `TunnelSink` | the Wi-Fi display sink from RTP packets to the player's parser | `RTPSink.cpp`, `TunnelRenderer.cpp`, `AmNuPlayerStreamListener.cpp`, `AmStreamingSource.cpp` |
| `TransportStream` | abstract: the parser is fed whole packets in order, none twice | (a promise, not code) |
| `SuperPlayer` | `AmSuperPlayer` with its thread, the players it tries and installs, and their callbacks | `AmSuperPlayer.cpp` |
| `Queues` | operators on queues: how often a message is in one (`Occurrences`), what is kept of one (`Kept`), what kinds of messages it holds (`KindsIn`) | used by `NuPlayer`, `Renderer`, `TunnelSink`, `GenericSource` |
| `NuPlayerProofs` | theorems about `NuPlayer`: types, pause flags, scans, tear downs, the source after a reset | |
| `NuPlayerFlushProofs` | theorems about the flush handshake of `NuPlayer`, its resets, the freshness of what its decoders hold, and its refinement of `PlayerRequests` | |
| `RendererProofs` | theorems about `Renderer` | |
| `NuPlayerDriverProofs` | theorems about `NuPlayerDriver` | |
| `GenericSourceProofs` | theorems about `GenericSource`, among them its refinement of `AccessUnits` | |
| `LiveSessionProofs` | theorems about `LiveSession` | |
| `TunnelSinkProofs` | theorems about `TunnelSink`, among them its refinement of `TransportStream` | |
| `SuperPlayerProofs` | theorems about `SuperPlayer` | |
| `MCNuPlayer`, `MCNuPlayerDriver`, `MCRenderer`, `MCGenericSource`, `MCLiveSession`, `MCTunnelSink`, `MCSuperPlayer` | bounds for TLC | |

`NuPlayer` sees the sources and the renderer by their messages only.
`Renderer`, `GenericSource` and `LiveSession` open these up one at a time; in
each the player is reduced to the calls that matter there, made in the order in
which `NuPlayer`'s flush protocol makes them (a seek finds the decoders flushed,
a released source has no decoder that reads).  `TunnelSink` ends where a
`StreamingSource` hands its data to the parser.  `SuperPlayer` is above the
player: `AmNuPlayerDriver` is one of the kinds it may create.

### `NuPlayer`

*State.*  The variables have the names of `AmNuPlayer`'s fields; what exists per
stream is a function on `Streams` (`mDecoder`, `mDecoderGeneration`, `mFlushing`,
`mFlushComplete`).  `playerQueue` is the player's looper, with messages that
carry a stream, a generation and one flag; `decoder[s]` and `renderer` are the
other objects, each with its looper's queue.  `scanTimer` holds the scan messages
posted with a delay.  `looper` is what the player's thread is at: idle, inside
`processDeferredActions()`, blocked in `closeAudioSink()`, or dead.  `driver` and
two flags are a coarse driver: which requests can be outstanding in which state.

*Actions.*  One per message handler of each looper (`On...` for the player), one
per call of the client (`Client...`), one per notification of the source
(`Source...`), and the environment: errors and timers.  A handler that
ends with `processDeferredActions()` leaves `looper = "deferred"`: the actions
are carried out one per step until one leaves a stream flushing, and no message
is taken meanwhile.  Handlers of different loopers interleave.  A message of an
object that is gone is received and discarded by its generation (`OnNotifyStale`),
as in the code.  A synchronous call to another looper blocks: `openAudioSink()`
is a guard on the renderer's queue, for `closeAudioSink()` the player rests in
`tearError` or `tearTimeout` until the sink is closed.

*Abstractions.*
- Data is *fresh* or *stale* with respect to the last seek; frames, times and
  formats are not represented.  `formatChange` is false: the decoder is flushed,
  never shut down, for a discontinuity of time.
- The audio sink is there; `enableOffloadAudio` is folded into the scan.
- A format is known once the source has found it (`found`), which may be after start.
- The decoder always has a renderer; instantiating secure decoders without one
  ends in the state `abortNullRenderer`.
- A failed `CHECK`, a `LOG_ALWAYS_FATAL` or a NULL pointer that is used ends the
  execution in a state that names it (`AbortStates`); invariants say which of
  these cannot be reached.
- The driver of `NuPlayer` merges `STOPPED` and its kin with `PAUSED`;
  `NuPlayerDriver` is the detailed one.
- Left out: track selection, closed captions and subtitles, duration polling,
  the video size, DTS configuration through sysfs, the ends of the streams.

### `NuPlayerDriver`

A step is what a thread does from one moment at which `mLock` is free to the
next: up to the return of a call, up to `mCondition.wait`, or up to
`notifyListener_l()`, which frees `mLock` while the client is told.  `pc` says
where each thread is, `woken` which waiting threads a `broadcast` has reached
and which have not looked yet; a thread that was not reached sleeps, so a
missing broadcast shows.  The threads of `Controls` control playback, those of
`Surfaces` only set the surface.

The player is reduced to what the driver sees: `requests` (the looper's queue),
`deferred` (requests behind a flush), and callbacks.  It carries requests out in
the order they were asked for and answers a seek before a reset; that the code of
`AmNuPlayer` does is nothing this module can show: `NuPlayer` implements
`PlayerRequests` (`RequestsInOrder`, which is also proved).

*Abstractions.*  The position, `mSourceReady` and the `0xffff` notification,
parameters and metadata are left out.  Steps that only free the lock at their
end are merged with it.  `notifyDuration()` is merged with
`notifyPrepareCompleted()`.  The client seeks only when it knows the player to
be prepared, as `MediaPlayer` does.

### `PlayerRequests`

`waiting`, the requests that want an answer, in order, and `answering`, a seek
that was carried out and not answered.  A seek may be answered together with an
earlier one; a reset is carried out only when no answer to a seek is owed.

### `Renderer`

*State.*  `inbox` is the renderer's looper, `timers` the drain messages it posts
to itself with a delay; `queue`, `mDrainPending`, `mGeneration`, `mFlushing` and
`mNotifyComplete` are the fields of each stream.  `sink` and `stopping` are the
audio sink.  `decoder[s]` has the output buffers its codec owns, its buffer
generation and what it waits for, `replies` the `notifyConsumed` messages on
their way back to it.  `seeking`, `answered` and `flushed` are the player's flush
of both streams for a seek, the renderer's answers and the decoders'; `player` is
where the player is in a tear down.

*Actions.*  One for each message of the renderer's looper, split where a handler
has several outcomes (`Queued`, `QueueAndWait`, `QueueAndCompare`,
`QueueAndDrain` are the ends of `onQueueBuffer()`); the callback thread of an
offloaded sink (`FillAudioBuffer`, `StreamEnd`, `SinkLost`), which works on the
queue under `mLock` while the looper runs; output, end of stream and format
changes of the codecs; seeks, pauses, resumes and tear downs by the player.  A tear
down is handled whenever it comes, during the flush of a seek too: it replaces the
audio decoder and its generation, so that an answer of the old one that comes later
is dropped (`AnswerCounts`).

*Abstractions.*  Time is left out: a delayed message may come due at any time
and a comparison of timestamps is a choice; the sink takes any number of
buffers.  A message of an obsolete drain generation is forgotten at once.  Two
decoders share one renderer; `DecoderPassThrough` is a decoder whose buffers are
access units.  A failed `CHECK` and the use of a NULL buffer are recorded in
`aborted`.  Left out: the media clock, latencies, time discontinuities, playback
rates, late frames, closed captions, the pause timeout (it is in `NuPlayer`).

### `GenericSource`

*State.*  `inbox` and `delayed` are the source's looper, `mail` its
notifications, `work` the `readBuffer()` it is in, one access unit per step;
`mBuffers` and `mEOSResult` are the packets of each track.  `reader` says how
far each decoder is in `dequeueAccessUnit()`, which looks at the queue, takes
from it, looks at it again and posts a read, each under another lock.  `cache`
is what `NuCachedSource2` holds, relative to the water marks.  `call` is the
synchronous call in which the player's looper waits.  An access unit is known by
its position (the number of seeks before it), the version of its track (the
number of selections) and its time in it.

*Refinement.*  `AccessUnits` keeps the position and the last unit each decoder
got: a decoder continues with the next unit, begins the position that was
sought, or changes to another track, in which case units may be repeated on the
stream it is for and left out on the other one, whose queue is discarded.  Two
actions are named because they break this, and the theorems about it exclude
them: `SoughtAfterStop` and `SelectedAhead` (finding 20).

*Abstractions.*  `Session` records say which streams there are and what kind of
source; a Widevine source is taken to be secure, as `StopForVideo` is only for
those.  A poll of an older `mPollBufferingGeneration` is forgotten when it is
made obsolete.  An error of the extractor and the end of a track are the same to
the packets.  Left out: subtitles and timed text, DRM status, format queries
(no state), `disconnect()`, the prefill's exception for `audio/` content, the
instantiation of secure decoders (it is in `NuPlayer`).

### `LiveSession`

*State.*  `session` has the fields of `AmLiveSession` that a reconfiguration
uses (the continuation that waits for the fetchers' answers, their counter, the
reply tokens), `fetcher` and `mail` the fetchers with a looper each, `mBuffers`,
`mEOSResult` and `mDiscontinuities` what they fill.  `client` is the blocking
call in which the player is, `told` the position and rendition each decoder has
been told of by a discontinuity, `got` what it was given last.

*Actions.*  The session's handlers (`On...`), the fetchers' (`OnStart`,
`OnPause`, `OnStop`, `OnFetcherSeek`, `OnMonitorQueue`, `OnDownload...`), the
decoders' calls, which look for a discontinuity first and wait for a packet
then, and the player's.  A download ends, fails, or is interrupted by the
player's `thread_interrupt()`.

*Abstractions.*  Each audio rendition and the video have a playlist of their
own, so a fetcher has one stream; `MaxFetchers` leaves room for two in each
configuration.  Segments are packets.  Left out: muxed
renditions, subtitles and metadata, unselecting a track, bandwidth switches
(`reconfigFetcher`, `resumeUntil`), the refresh and retries of live playlists,
decryption and parsing, the pause for buffering (it is in `NuPlayer`).

### `TunnelSink`

*State.*  `network` has the packets still under way; `source` is
`RTPSink::Source` with `mMaxSeq`, `mCycles`, `mBadSeq` and `mProbation` modulo
`SeqMod`; `mPackets` is the reorder list with extended numbers;
`mIndicesAvailable`, `toListener`, `mQueue` and `toSource` are the places where
an index of the shared memory can be.  `worker` says which of the two threads
that call `doSomeWork()` has the lock, waits for it or loops.

*Actions.*  Arrival, probation, large jumps; queueing in order; what
`dequeueBuffer()` returns (the next packet, nothing, a request for a missing
one, the packet behind a gap once 10 ms have passed); the calls between the two
processes; `read()` by `StreamingSource` in rounds.

*Refinement.*  `TransportStream`: after a discontinuity, whole packets in order
and none twice.

*Abstractions.*  Time is whether a first failed attempt is recent or old.  One
source (SSRC).  Left out: RTCP reports, BYE, statistics, the legacy in-band
discontinuities and the end command, `AmlogicPlayer`'s own listener.  The network
may delay, double and lose any packet, around a wrap of the numbers too.
`wrapsWell` records whether one has come that `RTPSink` numbers in the wrong cycle:
one of before a wrap that comes behind it, one that wraps on probation, or a large
jump around a wrap.  `DeliversInOrder` speaks of the steps before that, and finding 8
of those after it.

### `SuperPlayer`

*State.*  The names of `AmSuperPlayer`'s fields; `source` merges `url_valid` and
`fd_valid`.  `thread` are the runs of `initThread()`, `player` the objects
`createPlayer()` has returned (with what each has said so far), `waiting` those
that wait for `mCondition`, `notifying` a callback between its two looks at
`mPlayer`, under `mNotifyMutex`.  `client` is what the client's thread is at, in
a call or between two.

*Actions.*  The client's calls, of which `setDataSource(fd)` and `release()`
wait; `initThread()` and `CreatePlayer()` in the steps between which another
thread may come (most flags are read and written without a mutex);
`Notify()`: the type (`NotifyType`), the first look at `mPlayer` with what is
stored (`NotifyBegins`), the second with what is sent (`NotifySends`).  A signal
wakes one of those that wait and is lost when nobody does (`Signalled`): in
`TypeLoop`, `TypeWaits` and `ReleaseLoop`, `ReleaseWaits` the flag is looked at
before the mutex is taken.

*Abstractions.*  A file is the type that `SuperGetPlayerType()` decides by.  The
phases a player goes through, and that an error ends them, stand for the players,
whose code is elsewhere.  The kind is the one `playerType()` tells, which is not
always the one asked for (`PlayerType`).  A client calls in the order
`MediaPlayer` allows.  Left out: `prepare()`, which `MediaPlayerService` does not
call, the restart for Widevine over HTTP (`0x12000`), `MEDIA_BLURAY_INFO` and
`MEDIA_BUFFERING_UPDATE`, calls that are only passed on, spurious wake-ups.

### `PlayerRequests`, `AccessUnits`, `TransportStream`

These are the abstract specifications.  They say what a component promises, in a
few actions over the few variables its users see; the detailed modules implement
them with `INSTANCE`, checked as a `PROPERTY` of a run.

## 3. What the runs check

Every run starts in the program's initial state.  The budgets bound how often
each call of the client and each event of the environment may happen; nothing
else is bounded.  `CHECK_DEADLOCK FALSE` is right in every run: once the
budgets are spent and all is answered, the system rests; `SuperPlayer` may also
rest in a `release()` whose signal was lost (finding 16).

| Run | Bounds | Shows |
|---|---|---|
| `play` | audio and video; 2 seeks, 1 surface, 1 decoder error, 1 reset (649,000 states) | the flush handshake keeps in step (`FlushProtocolHolds`), is always answered and never twice (`FlushIsAnswered`), a reset finds no decoder, scans are not forgotten, no decoder keeps data of before a seek, and `RequestsInOrder` |
| `live` | the same with 1 seek (87,000) | resets, seeks and surface changes end |
| `buffering` | video; 2 starts, 1 pause, 1 buffering pause, streams change, 1 surface, 1 surface error (1.4 million) | types, no use of what a reset has cleared, the pause flags |
| `offload` | audio, offloaded; 3 starts, 2 pauses, 2 tear downs, discontinuity, secure decoders, failed preparation (1.9 million) | a tear down of an open sink is not lost |
| `driver_session` | 1 control and 1 surface thread; 3 control calls, 1 seek or end or error each, 1 surface, 1 reset (130,000) | callbacks are expected, driver and player agree, a seek in progress ends, waits end |
| `renderer` | audio, video (2 buffers) or both (1 each), offloaded or not; pairs of pause, seek, end of stream, lost sink (140,000) | no output buffer is lost or given back twice, a pending drain is posted, nothing old is left in a queue by a seek, a pause is quiet, a lone stream comes to its end, and a seek too unless it waits for a decoder that a tear down has released (finding 21) |
| `tunnel` | 3-bit numbers, 2 shared buffers; 6 packets with 2 losses, 5 with a loss and a late one, or 4 with a late one and a copy (4.1 million) | `DeliversInOrder` (`TransportStream`, up to a packet numbered in the wrong cycle), only missing packets are passed over, indices circulate |
| `live_session` | 2 audio renditions and video; three of a seek, a selection, a failed download, a disconnection (123,000) | no `CHECK` fails, nothing of before a seek is read after it, blocking calls return, what is sought is played |
| `generic_source` | two units a position; files with both streams, HTTP with one, Widevine; pairs of seek, selection, read error, emptied cache, client's pause, failing decoder (150,000) | reads are posted once (`PendingReadIsPosted`), `UnitsInOrder` (`AccessUnits`), pauses for buffering and preparing end, every stream is read to its end |
| `super_player` | a DRM file or HEVC in a transport stream, by address or descriptor, both start modes; 2 players at a time, 1 preparation, 1 surface, 1 info each (319,000) | what came before the installation is made up for (`InstalledCatchesUp`), the client is told of the installed player alone and once it has asked (`ToldRightly`), its calls are answered unless a signal is missed (`CallsAreAnswered`) |
| `resume_in_reset`, `live_session_seek` | as little as shows it | findings 1 and 6 |

*Why the bounds are enough.*  A flush involves two streams and two answers for
each; the interesting cases are a second request, an error, a scan or a pause
between them, and the budgets allow each of these inside every flush, twice
where a repetition matters (seeks that merge, starts after pauses, tear downs).
Two surfaces, one seek and one error were checked with `play`'s properties too
(1.9 million states), and `driver_session`'s safety properties with 4 control
calls (720,000 states).  A drain, a flush and a pause meet on one queue with one
or two buffers; the second buffer shows a pending flag that should not be set.
Numbers of three bits start at 5, so that they wrap at the fourth packet; they
jump "largely" from 3 on and leave room for a retransmission on both sides of a gap.  In `LiveSession` the
number of fetchers is bounded by the calls; one segment is enough for a fetcher
to be downloading, waiting or at its end when a call comes.  In `GenericSource`
the queue is empty, filled or at its end with two units, and audio is read ahead
by as many: a read in progress can have filled the queue or not when a decoder
looks.  Sessions with other pairs of events (a Widevine seek with an emptied
cache; HTTP audio with a pause, a selection and an emptied cache: 115,000 states)
were checked as well; none of these is a run of the project because of their
length.  That a tunnelled packet which is next is played in the end
(`NextPacketIsPlayed`, unless the parser has failed or an earlier packet is
missing) is checked by `TunnelSinkLive.cfg` (4 packets, one lost, late or refused
by the parser, 164,000 states).  The two files of `super_player` are the longest
ways through `CreatePlayer()`: a second address, another kind of player, and the
fallback when AmlogicPlayer refuses the source; one file of each other type takes
a part of these ways.  With two preparations `ToldRightly` is refuted (finding 17)
and `InstalledCatchesUp` too, as the second thread clears what the first has stored.

*Fairness.*  Loopers and threads go on, timers of a component fire where one of
its promises rests on them, and data comes.

- `NuPlayer`, `NuPlayerDriver`: weak fairness of a looper that has a message, of
  a decoder that may pull and of the frame that follows, of waiting threads that
  have been woken.
- `Renderer`: weak fairness of the looper, the callback thread and the decoders;
  strong fairness of drains that take something, since the sink may be full now
  and then and a frame may be early, but not for ever.
- `TunnelSink`: weak fairness of the threads, strong fairness of the lock two of
  them contend for.  Nothing of the network or of the clock.
- `LiveSession`: weak fairness of each looper, each fetcher and each reader;
  downloads end in one way or another.
- `GenericSource`: weak fairness of the looper, the delayed messages and the
  network; strong fairness of a Widevine read, which may find no data but not
  each time; decoders ask while the player is not paused.

- `SuperPlayer`: weak fairness of the threads, of a callback that has begun and of
  a client that waits or releases; strong fairness of a player that opens a file,
  which comes to some end with it (prepared or failed).

Nothing is assumed of other calls of a client, of errors, or of the end of streams.

Each property has a mutant: a definition changed as a plausible bug would
change it (`Mutant:` in the modules), under which TLC finds the property
violated.

## 4. What is proved

For every set of formats, with and without offload, for every budget (that is,
for executions of any length), every set of threads, every kind of source and
every size of its queues, every number of shared buffers and packets:

- `NuPlayerProofs!TypeCorrect`: `Spec => []TypeOK`.  The invariant is inductive
  as it stands; the proof has a lemma for each helper (what kind of message,
  action or record it builds), one for each group of handlers, and one step per
  action.  It is more than bookkeeping: it shows that a flush status stays in its
  enumeration whatever handler runs, and that no message of a kind its receiver
  does not know is ever queued.
- `NuPlayerProofs!PausedByClient`: `Spec => []PausedByClientImpliesPaused`.
  `PauseFrame` first collects which steps touch neither flag; the others are the
  pause, resume and buffering handlers.
- `NuPlayerProofs!PendingScan`: `Spec => []PendingScanIsPosted`, inductive with
  `TypeOK`.  Every thread but the player's only appends to the queue
  (`PostingKeepsScan`, `DecoderPosts`, `RendererPosts`); a handler takes another
  message or a scan of an obsolete generation (`TakingKeepsScan`); the scan
  handlers, the timer and the flushes that drop scans are the other cases.
- `NuPlayerProofs!TearDownHandled`: `Spec => []TearDownIsHandled`.  The renderer
  tells the player of one tear down per opening of the sink, so a torn down sink
  that is open must be known to the player or be about to be closed.  The
  invariant `TearDownInv` says which: a notification of the current renderer is
  queued (`Told`), or the looper waits in `closeAudioSink()` and the renderer's
  queue holds the order (`Closing`).  The second half is what the property leaves
  out and the proof needs: the wait ends when the order has been taken, and what
  is open and torn down then was opened again and told again.
- `NuPlayerProofs!PausedAsThePlayer`:
  `Spec /\ StartsUnpaused => []RendererFollowsPause`.  The property speaks of a
  renderer with no order waiting; `PauseInv` adds that the last order that waits
  is the one `mPaused` calls for, so that whatever is in the queue, carrying it
  out ends in the player's state.  Each handler that changes `mPaused` posts the
  order that goes with it, a new renderer starts resumed, and no other step adds,
  drops or carries out an order.  The hypothesis,
  `[][OnStart => ~mPaused]_vars`, excludes the one way out, the session of
  finding 3 that is started while `mPaused` is left over from the one before.
- `NuPlayerProofs!SourceIsNotUsedAfterReset`: `Spec => []NoUseAfterReset`.  The
  property is about one moment, the invariant `SourceInv` about everything on its
  way to it.  `SessionInv`: there is a source whenever playback has started or a
  start or preparation waits; a reset waits, in the queue or deferred, only while
  the driver is in `RESET_IN_PROGRESS`, once, and behind it nothing the driver
  asks for.  `ScanInv`: no scan that was posted, or that the timer holds, is of
  the current generation while there is no source.  The reset handler clears the
  source and advances the generation in one step, which is what makes the two
  parts meet.
- `NuPlayerFlushProofs!FlushProtocol`, `FlushAnswered`: `FlushProtocolHolds` and
  `FlushIsAnswered`, for every client, source, error and budget, under the one
  hypothesis `[][~TornDownInFlush]_vars`: the tear down of offloaded audio is
  not handled while a flush waits, which is the hazard of AmNuPlayer.cpp:1410 and
  what refutes both invariants otherwise.  `FlushWithoutOffload` discharges it:
  where `CanOffload` is false both hold of every execution (no renderer ever has
  offload, a sink or a tear down: `NoTearDown`).
  The invariant `FlushInv` *counts*.  For each stream `Balance` adds up the
  orders in the decoder's queue, the answers on their way back, and what the
  renderer was asked and has answered: while the stream flushes, one answer of
  each kind is somewhere or was taken, and otherwise none is anywhere.  Existence
  alone is not inductive, as a second copy would survive the first one's arrival.
  `NothingAhead`: no notification is of a decoder, renderer or scan yet to come,
  else a new object would begin with answers.  `DecodersExist`: a stream that
  waits has a decoder, a decoder has a renderer.  `FlushEnds`: a flush whose
  streams are all settled is over, the hidden assumption of
  `finishFlushIfPossible()`.  `ScansHaveTheirTime`: no scan of the current
  generation is under way during a flush, since the decoder it instantiates would
  be taken for one that was ordered to flush: that is why `flushDecoder()`
  raises the generation.
- `NuPlayerFlushProofs!DecodersAreGone`: `Spec => []ResetFindsNoDecoder`, under the
  same hypothesis and `[][~BufferingEndsInReset]_vars`: no buffering pause that
  ends while a reset is under way creates an audio decoder behind the flush
  (finding 1, the run `resume_in_reset`).  `ReleaseInv` follows the reset
  through the deferred actions: `performReset()` comes just behind a flush that is
  to shut both decoders down (`Preceded`, `ResetFlushes`), whatever else was
  deferred before them; when the reset is next, each decoder is gone or has been
  ordered to shut down (`Releases`), and the looper rests only while a flush is
  awaited (`WaitsForFlush`).  A decoder that is ordered is not made anew: by
  `FlushInv` no scan of the current generation is due then, and by `SourceInv` at
  most one reset waits.
- `NuPlayerFlushProofs!SeeksAndResetsInOrder`: `Spec => RequestsInOrder`, under the
  same two hypotheses: the player implements `PlayerRequests`, step by step.  What
  waits is what the two queues hold of it (`Waiting`: first the deferred actions,
  then the looper's messages), so a seek or reset that is deferred, or flushed for,
  is a stutter of the abstract specification, and its performance takes the head.
  The difficulty is the answer.  A seek is performed long before it is answered,
  and `performReset()` forgets `mResumePending`: the abstract reset requires that no
  seek is left unanswered.  Three invariants show it.  `PairsInv`: a deferred seek
  that notifies is followed at once by the `ResumeDecoder` that notifies, and no
  other action notifies.  `AnswerInv`: while `mResumePending` is set the video
  decoder exists and owes its `ResumeCompleted`, or that message is on its way, and
  it comes before any `ShutdownCompleted`.  `ReleaseInv`: at the reset both decoders
  are gone; so the answer has been taken.  `NextKeepsRequests` has a lemma for each
  kind of handler; the lemmas on `Acts`, `Kinds` and `Joined` say what each does to
  the two queues.
- `NuPlayerFlushProofs!DecodersHoldFreshData`, `FreshDataWithoutOffload`:
  `Spec => []NoStaleData` under the hazards' absence.  The first leaves out
  `TornDownInFlush`, `MovedUnderVideo` (the tear down of the offloaded audio seeks
  the source under a video decoder that it does not flush) and `ResumedInFlush`
  (an `onResume()` creates an audio decoder while a flush is awaited); where
  `CanOffload` is false only the last is left.  That one is real, and of the same
  origin as finding 1: under `SeekResumedBudget` TLC finds `NoStaleData` violated
  in 27 steps.  While a seek waits for the video
  decoder's flush, pause and start make `onResume()` create the audio decoder that
  the first scan had no format for; it takes data, and then the source seeks.
  `StaleInv` follows a seek through the deferred actions: a seek, or the change of
  the surface before it, comes just behind a flush of *both* streams (`Preceded`,
  `Stops`), and while it is next each decoder is `Stopping`: a flush is in its queue
  with nothing behind it that wakes it, or it has flushed, holds nothing, is paused
  and will stay so.  By `FlushInv` no flush is in any queue once `mFlushing` is
  `NONE` again, which leaves the second case when `performSeek()` runs.  A new
  decoder would break it: no scan is due during a flush (`ScanIsDue`) and the looper
  rests only while one is awaited (`WaitsForFlush`), so only a resume can.
- `NuPlayerDriverProofs!DriverTypeCorrect`: `Spec => []TypeOK`, which says of
  `woken` that mCondition only wakes threads that wait.
- `NuPlayerDriverProofs!SeekInProgress`: `Spec => []SeekInProgressEnds`.  The
  invariant is inductive together with `TypeOK`: `Kept` gives the steps that
  begin no seek and drop none, by what happens to the two queues (`HoldsLemma`);
  what is left is each place where a seek moves on: from the thread to the
  queue, behind a flush, to the player, to its answer.
- `NuPlayerDriverProofs!CallbacksFindTheirState`, `PlayerIsFollowed`:
  `Spec => []CallbacksExpected` and `Spec => []DriverFollowsPlayer`, for one thread
  that controls playback (`OneControls`: the driver's calls are made under
  `MediaPlayer`'s lock) and any number that set surfaces, under the hypothesis
  `[]StaleAnswerFindsNone`: a source that was cleared while preparing answers
  before the next one is set.  That is what `notifyPrepareCompleted()` expects
  and nothing ensures (finding 5).  `CallbacksOfOneSource` and
  `OneSourceIsFollowed` discharge it: with one `setDataSource()` both hold of every
  execution (`OnceInv`).
  `CheckInv` relates `mState` to the requests on their way and to the player:
  there is a source exactly when one was set (`SourceInv`); one reset is on its way
  and nothing behind it needs the source (`ResetInv`, `ResetIsLast`), which is
  why `start()` after `reset()` cannot find none; what a thread has told the client
  is still so when it holds `mLock` again (`ThreadInv`).  `FollowInv` says what the
  player will do when it has taken all requests (`WillPlay`: the last start or pause
  decides), which is what the driver believes unless its thread is telling the
  client of a pause it has not posted.  `HasPosted`, `HasTaken`, `HasOutdated`,
  `LastPosted` and `LastTaken` say what the operations on a queue do to such facts,
  over indices; `CalmStep` and `FollowKept` cover the steps that post nothing of
  consequence; the others have a lemma each.
- `GenericSourceProofs!PendingRead`: `Spec => []PendingReadIsPosted`.  Two bits and
  a queue are kept by three threads without a lock over both; if they part, a
  stream is never read again.  The invariant `ReadsTracked` says of each stream
  that its read is in the queue at most once, is not there while it is handled,
  and is one of these exactly when the bit is set.  Lemmas say what appending,
  taking the head, dropping the poll (`WithoutPoll`) and asking for streams do to
  the reads of a queue, over indices, so that no induction is needed; then there
  is a lemma for each group of steps.  `Cardinality` comes in only when the
  property is derived.
- `GenericSourceProofs!TypeCorrect`: `Spec => []TypeOK`.  The numbers need bounds
  that the types do not tell: a unit that is queued is never from behind the end of
  its track (`Taken`), and while a unit is held there is one (`WorkBounds`).
- `GenericSourceProofs!UnitsAreInOrder`: `Spec => UnitsInOrder`, the source
  implements `AccessUnits` for every set of sessions, every length of a track and
  every `maxBuffers`, if a read behind a seek does not fail (`"seekFails"`, finding
  13) and no step is `SoughtAfterStop` or `SelectedAhead` (finding 20).  What the
  decoder of a stream is going to get is its `Line`: what is queued, and behind it
  the unit the track is at, unless the first unit of another position or track has
  yet to be read, in which case the queue is about to be dropped (`Awaits`).
  `LineInv` says that neighbours on it follow one another and that its head
  follows what the decoder got last, by `Continues`, `Begins` or `Switches`.
  That is not inductive alone, because a line is allowed to be out of date while
  the player waits in `seekTo()` (`Stale`): then no decoder takes from it, which
  needs that the message of a seek is in the queue or being handled only while
  the player waits (`CallInv`), and that a decoder is in `dequeueAccessUnit()` only
  outside of seeks (`IdleInv`).  `PosInv`, `UnitInv` and `ItemInv` relate position,
  track and unit; `Superseded` says that a queue about to be dropped for another
  audio track is not left behind by it.  `PrepInv` and `StopInv` follow preparing
  and stopping, as nothing is read before the start; `WorkInv` what `readBuffer()`
  may be at.  The lemmas about lines (`LineExtends`, `FreshLine`, `LineTail`) are
  proved over indices.  Each step of the source is then `Seek`, `Deliver` or a
  stutter of `AccessUnits` (`NextUnits`).
- `GenericSourceProofs!PlainSessionsAreInOrder`: the same with no hypothesis on the
  steps, where `SessionsArePlain`: the audio track is changed once at most in each
  session, and no Widevine session with audio has both a seek and a failure of the
  video decoder.  The sessions of the run are such.  `ChoiceInv` follows the one
  change from the budget through `kWhatSelectTrack` and `kWhatChangeAVSource` to
  the track, `StoppedInv` that the video has not failed where there is a seek, and
  `FreshInv` that until the change the times of the audio strictly rise from the
  decoder over the queue to the track, with `mLastDequeueTime` not ahead of them.
- `TunnelSinkProofs!BuffersAreKept`: `Spec => []BuffersCirculate`.  The invariant
  `Circulates` adds that an index is nowhere before `StreamingSource::start()`
  and what the entries of the listener's queue look like.  `GrownCount` and
  `ShrunkCount` say how often a key is in a list that grows at its end or loses
  its head; every step that moves an index takes it from one list by the one
  and puts it into another by the other.
- `TunnelSinkProofs!TypeCorrect`, from what the code's constants satisfy: 3000
  (`kMaxDropout`) and 100 (`kMaxMisorder`) make together no more than 65536.
- `TunnelSinkProofs!OnlyMissing`: `Spec => OnlyMissingIsPassedOver`, an action
  property.  `mPackets` is strictly sorted by the extended number (`Sorted`):
  `InsertedSorted` for `queueBuffer()`, `FreshSorted` and `TailSorted` for
  `dequeueBuffer()`.  What is returned is then the least of what is queued.
- `TunnelSinkProofs!DeliversPunctualPackets`:
  `Spec /\ [][ArrivesInTime]_vars => DeliversInOrder`, the whole sink implements
  `TransportStream` in every step taken while `wrapsWell`.  No packet is kept from
  coming: a packet of before a wrap that comes behind it ends `wrapsWell`, and the
  claim is about the steps up to it.  `ArrivesInTime` says that no packet comes 100 or more behind
  the last one that came, and none more than 2900 ahead of it: what `RTPSink`
  takes for order and disorder, seen from the packets and not from its own state.
  The argument has two halves.  *Numbers* (`NumbersInv`): there is a number c such
  that packet p has the extended number p + c in every message and in `mPackets`,
  and `mLastDequeuedExtSeqNo` is that of the packet returned last; on probation
  `mCycles` is 0 and the cycle is that of the newest packet, afterwards `mMaxSeq` is
  the number of a packet less than 100 behind it (`SourceFollowsOn`, with
  `NumbersDiffer` and `DeltaIs` for the arithmetic modulo 65536).  So what
  `dequeueBuffer()` returns is later than all before (`ReturnIsLater`).  *The line*
  (`LineInv`): `mQueue` followed by the calls on their way is one line that grows
  at its end and is read at its head; the discontinuity leads it until it is read,
  its packets are in order behind what was parsed, and only the first may have been
  begun.  Each operation on the queues has a lemma (`LineGrows`, `LineBegins`,
  `DiscontinuityRead`, `PacketRead`).  Both are invariant while `wrapsWell`, which never
  becomes true again (`OrderlyStep`).  The run `tunnel` does not assume
  `ArrivesInTime`: large jumps are among its behaviours, and its bounds exclude a
  packet that comes almost a cycle too late.

- `RendererProofs!TypeCorrect`: messages, entries and replies are of the stream
  they are said to be of; a reply returns a buffer, never an end of stream.
- `RendererProofs!DrainsArePosted`: `Spec => []PendingDrainIsPosted`.  The invariant
  `DrainInv` adds to it that delayed drains are of the current generation and
  none is ahead of it, that an offloaded queue has none pending, and
  `TearsDownOnce`: `onDisableOffloadAudio()` raises the generation and leaves the
  pending flag, which is sound only since the tear down comes once, while the
  sink still offloads.
- `RendererProofs!PauseStops`: `Spec => PausedIsStill`, an action property.  A paused
  renderer has no audio drain of the current generation under way and no video
  drain but that of the first frame after a flush (`PausedDrains`).
- `RendererProofs!BuffersAreConserved`: `Spec => []BuffersConserved`.  Every step that
  moves a buffer takes it from one of four places and puts it into another;
  the sum of its occurrences is one for each buffer (`Placed`), over steps that
  filter, cut or hand back whole queues.
- `RendererProofs!QueuesAreOfThisPosition`: `Spec => []QueueIsOfThisPosition`.  The
  invariant `PositionInv` follows one seek: a stream that flushes has one flush
  in the looper, behind all of its data (`FlushBehind`), its decoder is paused and
  not to be flushed again; a stream that does not flush has no flush in the
  looper and only data of its decoder's generation there (`Fresh`).  That
  `flush()` never finds a flush under way, whose place in the looper it would
  share, rests on `answered`: the player resumes the decoders when each stream's
  flush is answered, and seeks no earlier.  `TearsDownOnce` is needed to know that
  a sink is closed only after `mAudioOffloadTornDown` is set, where the property
  ends (section 5, the merged flushes).
- `LiveSessionProofs!TypeCorrect`, `NoCheckFails`, `SeekIsAlone`: `Spec => []TypeInv`,
  `Spec => []ChecksHold`, and while the player seeks nothing is being changed, for
  every set of renditions, length of a playlist and number of calls, under `NoHaste`:
  the player neither seeks nor selects a rendition *while the session is being
  reconfigured*.  Both are needed: finding 6 is the one, and with two selections the
  other runs the counter out.  Connecting, disconnecting, failed downloads and the
  fetchers' work interleave with everything.  The three `CHECK`s are of `mContinuationCounter`
  (767), of the seek's reply token (679) and of a fetcher that exists already
  (2143).  `SessionInv` has seven parts.  `Answered` counts: what was asked of the
  fetchers and not answered, and the answers on their way, are together no more
  than the counter while the session waits and none while it does not (`Pending`);
  the continuation is posted once, when nothing is pending.  `Reconfigurations`,
  `Seeks`, `Disconnects` and `NothingDone` say that there is one call at a time:
  a seek excludes a change, and what comes behind a disconnection asks for nothing.
  `FetchersAreNumbered` and `FetchersDiffer` give the third `CHECK`: a change keeps
  only fetchers whose streams resume.  `Handled` says what the looper's taking a
  message, and posting another, does to all counts.
- *Lemmas about queues* begin each module that uses them: what `Kept` (the buffers
  `flushQueue()` and the drains give back) holds of a sequence, that occurrences add
  up over `\o`, `Append`, `Tail` and `SubSeq`.  They need induction over the length of
  a sequence.  The library's induction theorems take an operator, which the provers
  cannot instantiate; `UpTo` states it of *sets* of numbers instead, from the
  well-foundedness of strict inclusion.

- `SuperPlayerProofs!TypeCorrect`: `Spec => []TypeOK`, for every number of
  preparations; with it that `oldmsg` stays within its room.
- `SuperPlayerProofs!ToldOfTheInstalled`: `Spec => []ToldRightly` for one
  preparation (`Sessions = 1`; finding 17 refutes it for two).  The invariant
  `RunInv` says who owns what: the thread holds the only player there is
  (`HeldInv`), a callback under way, the stored messages and `mPlayer` are of
  that player (`OwnInv`), and once the thread sends, the client has asked or goes
  away (`AskedInv`).  That a message of a player given up is never sent rests on
  two places of the code: `CreatePlayer()` clears `oldmsg`, and the destructor of
  a player waits for its callback.  `ClientEffect`, `MoveEffect`, `CreateEffect`,
  `DropEffect`, `InstallEffect`, `FlushEffect` and `NotifyEffect` say what the
  steps do to this part of the state; each part of the invariant is proved once
  for each effect.
- `SuperPlayerProofs!InstalledCatches`: `Spec => []InstalledCatchesUp` for one
  preparation and `OldMessages >= MaxInfos + 3`.  The code has nine places, so the
  theorem is about players that send up to six MEDIA_INFOs; what a player sends
  beyond is dropped (section 5), and a run with less room refutes the property.
  `CountInv` counts what a player may have told in each phase, so that there is
  room whenever a message is to be stored; `ReachedInv` follows a message from
  `oldmsg` or the callback to the client; `SurfaceInv` the surface from
  `msurfaceTexture` to the player when it is installed.

Every invariant the passing runs check is proved, where said so under a hypothesis.  Only model-checked: everything
else, among it `LiveSession!ReadsItsPosition`.
Liveness and refinement under fairness are out of the prover's reach.  Recursion
in the proved modules is by functions over `Nat`, so that what they compute can
be proved.  `SelectSeq` is opaque to the prover, which is why `TunnelSink` and the
refinement mapping of `NuPlayer` are written with `Kept`.

## 5. Findings

Two are runs of the project; for the others there is a configuration `X.cfg`, to
be run with `tlc -config X.cfg MCModule`, that ends in a counterexample.

1. `resume_in_reset` (run): when buffering ends while a reset waits for the video
   decoder's shutdown, `onResume()` creates an audio decoder (AmNuPlayer.cpp:1530)
   and `performReset()` fails its `CHECK` (2153).
   Behind the flush of a seek the same `onResume()` gives stale data (`NoStaleData`
   under `SeekResumedBudget` of `MCNuPlayer`): the new decoder takes data from before
   the seek, where the code keeps a decoder from being woken that "could start pulling stale
   data too soon" (1486).
2. `NuPlayerFirstSurface.cfg` (`MCNuPlayer`): the error of a decoder that cannot
   connect to the first and only window is ignored in expectation of a second
   one (1290-1303), although the comment means surfaces that were replaced.
3. `NuPlayerSecondSession.cfg` (`MCNuPlayer`): `mPaused`, "actual pause state",
   survives a reset; the next session's pause is taken for done.
4. `NuPlayerDriverStopped.cfg` (`MCNuPlayerDriver`): `prepare()` of a stopped
   player waits for ever when playback comes to its end meanwhile: the state is
   overwritten without a broadcast (AmNuPlayerDriver.cpp:698).
5. `NuPlayerDriverStale.cfg` (`MCNuPlayerDriver`): a source that was preparing
   when the client reset and answers after the next `setDataSource()` fails a
   `CHECK` (AmNuPlayerDriver.cpp:741), or prepares the wrong source: the test for
   a stale answer is `mSource == NULL` (AmNuPlayer.cpp:2277).
6. `live_session_seek` (run): a seek that comes while the audio track is being
   changed is posted again by `AmLiveSession` (AmLiveSession.cpp:683-688); its
   reply token has been taken already, so the `CHECK` at 679 fails.  A selection that
   comes then, with one more behind it (`Hastes = {"selectWhileChanging"}`), fails the
   `CHECK` of `mContinuationCounter`.
7. `LiveSessionTrack.cfg` (`MCLiveSession`): a packet of a newly selected
   rendition may be read before the format change that announces it, although
   discontinuities are queued "before content" (2204): a decoder that found no
   discontinuity waits for a packet under another lock (316).
8. `TunnelSinkWrap.cfg` (`MCTunnelSink`): when the numbers wrap while a source is
   on probation, `mMaxSeq + 1` is an `int` and never equal to 0 (RTPSink.cpp:109):
   the probation begins anew without a new cycle, and packets are dropped as
   retransmissions or overtake earlier ones.  The other way to the same end is a
   packet of before a wrap that comes behind it, as any late, doubled or
   retransmitted one may: the branch "Duplicate or reordered packet" (175) numbers it
   `mCycles | seq` (182) with the cycle counted meanwhile, a cycle too high.  It is
   returned when its turn seems to have come, and all that comes after it is discarded as a
   retransmission (`TunnelSink.cfg` with `FirstSeqs = {4}`, `NumPackets = 5`,
   `Budgets <- OneTwice` and the property `DeliversAcrossWraps` in place of the others: packet 4,
   with number 7, comes again behind packet 5, with number 0).
9. `TunnelSinkWaits.cfg` (`MCTunnelSink`): "We're willing to wait a little while
   to get the right packet" (TunnelRenderer.cpp:401), but the time of the first
   failed attempt is also set when the queue was empty; after a pause of the
   source a missing packet is neither waited for nor asked for.
10. `RendererSinkChange.cfg` (`MCRenderer`): the `CHECK` that no audio drain is
    pending when the sink changes (AmNuPlayerRenderer.cpp:1496) can fail when
    the format changes in the middle of a stream.
11. `RendererStarves.cfg` (`MCRenderer`): "EOS signalled on either queue" (1281)
    ends the initial synchronisation of the queues only when it is met at their
    head there; a stream that ends at once leaves the other one queued and not
    drained (1389-1396).
12. `GenericSourceLapse.cfg` (`MCGenericSource`): `restartPollBuffering()` forgets
    `mBuffering` (AmGenericSource.cpp:624-634).  `doSeek()` ends the pause first,
    because else "no one will resume the playback" (1387); `kWhatStart` and
    `kWhatResume` do not: a client's pause and resume that meets a pause for
    buffering, with the cache past its low mark, leaves the player paused.
13. `GenericSourceSeekFails.cfg` (`MCGenericSource`): the packets queued before a
    seek are dropped only once the first read after it has succeeded
    (1556-1575).  If it fails, or would block, the decoder gets packets of the
    old position after the seek.
14. `SuperPlayerM3u8.cfg` (`MCSuperPlayer`): "if m3u8 file, only NU_Player can
    handle" (AmSuperPlayer.cpp:728).  For HEVC behind an m3u8 address
    `SuperGetPlayerType()` returns `AMNUPLAYER`; the `AmNuPlayerDriver` made for it
    calls itself `NU_PLAYER` (AmNuPlayerDriver.cpp:481), so the comparison at 937
    replaces it by another one of its kind, for ever: `prepareAsync()` is never
    answered.  `SONIVOX_PLAYER` (MIDI) is the same.
15. `SuperPlayerHevc.cfg` (`MCSuperPlayer`): "hevc/h.265 in ts format not support
    by libplayer now" (711), but when AmlogicPlayer tells the type before
    `initThread()` looks at `mTypeReady` (895), the type is not asked for and
    AmlogicPlayer stays.
16. `SuperPlayerLostSignal.cfg`, `SuperPlayerUnborn.cfg` (`MCSuperPlayer`):
    `release()` may wait for ever for a signal that came between its look at
    `mRenderTid` and its wait (344-349); and it returns, and the object goes, when
    `initThread()` has been created and not begun.
17. `SuperPlayerOrder.cfg`, `SuperPlayerAgain.cfg` (`MCSuperPlayer`): a message that
    is stored when there is no player, and sent as there is one at the second look
    (590-599), is told twice, or before earlier ones.  After a stop and a second
    preparation what the tried players tell is told the client.
18. `SuperPlayerEarly.cfg` (`MCSuperPlayer`): "waite until libplayer prepare" (184):
    the wait ends with `Prepared`, which the player sets before it is installed; a
    `setDataSource()` that succeeds returns `UNKNOWN_ERROR`.
19. `NuPlayerPauseTimeout.cfg` (`MCNuPlayer`): "Maximum time in paused state
    [...] When elapsed, the AudioSink is closed" (AmNuPlayerRenderer.cpp:39).
    `cancelAudioOffloadPauseTimeout()` (1688) does nothing unless audio is
    offloaded at that moment.  When the offload was given up during the pause (the
    sink cannot be opened again), `onResume()` leaves the timeout armed, and it
    tears down a renderer that plays.
20. `GenericSource.cfg` with `Sessions <- SeekAfterStop` or `Sessions <- SelectAgain`
    of `MCGenericSource`, `NumUnits = 4` and `MaxPositions = 2`: a Widevine source
    that has been stopped because its video decoder failed refuses to seek
    (`mStopRead`, AmGenericSource.cpp:1349-1374), the player is not told, and the
    audio decoder goes on with what was queued for the old position.  A second
    change of the audio track that comes when the decoder begins to take the repeated
    units of the first one starts at `mLastDequeueTime`, which may still be that of
    the last unit it took of the old track; units between are left out (813-850).
21. `RendererPlayback.cfg` with the property `SeekAlwaysEnds` in place of `SeekEnds`:
    `kWhatAudioOffloadTearDown` (AmNuPlayer.cpp:1410-1431) clears `mAudioDecoder` and
    raises its generation whenever it comes.  During the flush of a seek the old
    decoder's `kWhatFlushCompleted` is then taken for one of an old decoder
    (1200-1212), `mFlushingAudio` stays `FLUSHING_DECODER`, and what is deferred behind the
    flush, the resumption of the video among it, is never carried out.  In
    `NuPlayer` the same step breaks the flush handshake (`TornDownInFlush`).

Seen while modelling, without a run:

- Renderer: the first entry of a queue may be an end of stream whose `mBuffer` is
  NULL when the queues are compared (1290-1298); an offloaded sink never sets
  `mAudioEOS`, so video waits for audio that has ended (895); a drained audio end
  posts no video drain; `flush()` merged into a tear down's flush lets buffers of
  before it be queued (184-193); `onDisableOffloadAudio()` raises a generation and
  clears no pending flag (1505); audio that ends before it has a format is never
  told as ended.
- `GenericSource`: the selection of a track drops the other stream's queued units
  (813-855), up to 64 for audio; when a Widevine video decoder fails, `mStopRead`
  stops the audio as well (912-925, 1499).
- `LiveSession`: after the end of one stream is known, a newly selected rendition
  may be ended by the other stream's end (240-246); one fetcher's error or end
  signals the end to the audio, video and subtitle sources (862-867); an error
  before 300 ms are buffered leaves `prepareAsync()` unanswered; `seekTo()`
  without fetchers is not replied.
- Screen capture: the id for a client is the last mismatch of a loop over the
  clients (ScreenMediaSource.cpp:143-148), so ids may be equal and a frame released twice;
  `stop()` of the encoder threads signals without the lock its waiter holds.
- `AmSuperPlayer`: `oldmsg` has room for nine messages, more are dropped; a second
  `initThread()` clears those of the first.
- `RTSPSource`: the reply of `stop()` is commented out, a transport stream never
  sets `mState` to connected, a seek while not connected is dropped.

## 6. Plan

Done: `NuPlayer`, `PlayerRequests`, `NuPlayerDriver`, with theorems; `Renderer`
with the output side of the decoders; `TunnelSink` with `RTPSink`,
`StreamListener` and `StreamingSource`; `LiveSession`; `GenericSource`;
`SuperPlayer`.  Proved: the reads of `GenericSource` and its refinement of `AccessUnits`,
the safety of `TunnelSink` and its refinement of `TransportStream`, the drains, pauses, buffers and queues of
`Renderer`, the flush handshake, the pause state, the tear downs, the resets and the use of the source after
them, the freshness of the decoders' data in `NuPlayer` and its refinement of
`PlayerRequests`, the `CHECK`s of `LiveSession`, the callbacks of `NuPlayerDriver` and
what it believes of the player, the safety of `SuperPlayer`.

To be proved next: `LiveSession!ReadsItsPosition`.

### Not modelled

- Parts of modelled components: what each section of section 2 lists as left out.
- Screen capture (`ScreenMediaSource`, `ScreenCatch`, `ESConvertor`): threads and
  shared frames, within TLC's reach and next on the list, after the proofs.
- `RTSPSource`, the RTSP session of the Wi-Fi display sink: sessions over
  protocols most of whose state is in other repositories (`MyHandler`,
  `ANetworkSession`).
- Codecs, container extractors, `ATSParser`, `ESQueue`, `M3UParser`, the FFmpeg
  adapter, metadata retrievers, captions and subtitles, sysfs control: sequential
  conversions of data, where a model would be a transliteration.  They are the
  greater part of the repository's lines (software codecs alone are more than
  half), which is why the map covers a small share of them.
- The glue over `libamplayer`, whose code is not in the repository.
