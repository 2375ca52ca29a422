---------------------------- MODULE LiveSession ----------------------------
(***************************************************************************)
(* HTTP live streaming: AmLiveSession on its looper, one AmPlaylistFetcher *)
(* on a looper of its own for each playlist it fetches, the packet sources *)
(* they fill, and the player, which connects, seeks, selects tracks and    *)
(* disconnects on its looper and reads the sources on its decoders'.       *)
(*                                                                         *)
(* The audio renditions and the video each have a playlist of their own,   *)
(* so a fetcher has one stream.  Where a packet belongs is told by the     *)
(* position (the number of seeks before it) and the playlist it is from.   *)
(* A CHECK that fails ends the process: it is recorded in `failed'.        *)
(***************************************************************************)
EXTENDS Integers, Sequences, FiniteSets

CONSTANTS
    AudioURIs,      \* the audio renditions' playlists, one of which is selected
    FirstAudioURI,  \* the one pickRandomMediaItems() picks
    VideoURI,
    NumSegments,    \* packets from a position to the end of a playlist
    MinPackets,     \* the packets fetched ahead of the reader
    \* bounds and choices of the environment
    Hastes,         \* the calls the player makes although the session is not ready
    MaxCalls,       \* the most often any of them does
    Budgets         \* how often each thing happens: one of these

Streams == {"audio", "video"}
URIs == AudioURIs \cup {VideoURI}
BoundedEvents == {"seek", "select", "fetchError", "disconnect"}

ASSUME PlaylistsAssumption == FirstAudioURI \in AudioURIs /\ VideoURI \notin AudioURIs
ASSUME SizesAssumption == NumSegments \in Nat \ {0} /\ MinPackets \in Nat \ {0}
ASSUME EnvironmentAssumption ==
    /\ Hastes \subseteq {"seekWhileChanging", "selectWhileChanging", "selectBeforeReading"}
    /\ MaxCalls \in Nat
    /\ Budgets \subseteq [BoundedEvents -> 0 .. MaxCalls]

MaxFetchers == 2 + 2 * MaxCalls
Fetchers == 1 .. MaxFetchers

VARIABLES
    \* the player's looper
    client,         \* the call it is in
    position,       \* the last position it asked for
    prepared,       \* what it was told of its preparation
    selected,       \* the rendition selected in mPlaylist
    budget,
    \* AmLiveSession
    session,
    mFetcherInfos,  \* the fetchers in it
    mIsPrepared,    \* those that have been done fetching
    inbox, delayed, \* its messages, and those posted with a delay
    mDiscontinuities,
    mLastSeek,      \* mLastSeekTimeUs
    \* AmPlaylistFetcher
    fetcher, mail,
    \* AmAnotherPacketSource, one for each stream
    mBuffers,
    mEOSResult,
    mLatestDequeued,
    \* the decoders, which read them
    reader,         \* how far each is in dequeueAccessUnit()
    got,            \* what it last got
    told,           \* the position and the playlist it was last told of
    failed

clientVars  == <<client, position, prepared, selected, budget>>
sessionVars == <<session, mFetcherInfos, mIsPrepared, inbox, delayed>>
fetcherVars == <<fetcher, mail>>
sourceVars  == <<mBuffers, mEOSResult>>
readerVars  == <<reader, got, told, mLatestDequeued, mLastSeek>>
vars == <<clientVars, sessionVars, mDiscontinuities, fetcherVars, sourceVars,
          readerVars, failed>>

None == [what |-> "none"]
Msg(what) == [what |-> what]
From(what, f) == [what |-> what, from |-> f]
Ok == [err |-> "OK", pos |-> 0]
Packet(p, u) == [what |-> "packet", pos |-> p, uri |-> u]
Gap == [what |-> "corruption"]
Time(p) == [what |-> "time", pos |-> p]
FormatChange(u) == [what |-> "formatChange", uri |-> u]

NoFetcher == [uri |-> VideoURI, stream |-> "video", pos |-> 0, left |-> 0,
              work |-> "none", posted |-> FALSE]

Init ==
    /\ client = "new" /\ position = 0 /\ prepared = "no" /\ selected = FirstAudioURI
    /\ budget \in Budgets
    /\ session = [reconfiguring |-> FALSE, counter |-> 0, continuation |-> None,
                  seekReply |-> FALSE, disconnectReply |-> FALSE, preparing |-> TRUE,
                  mask |-> {}, created |-> 0]
    /\ mFetcherInfos = {} /\ mIsPrepared = {} /\ inbox = <<>> /\ delayed = {}
    /\ mDiscontinuities = [s \in Streams |-> <<>>]
    /\ mLastSeek = 0
    /\ fetcher = [f \in Fetchers |-> NoFetcher]
    /\ mail = [f \in Fetchers |-> <<>>]
    /\ mBuffers = [s \in Streams |-> <<>>] /\ mEOSResult = [s \in Streams |-> Ok]
    /\ mLatestDequeued = [s \in Streams |-> -1]
    /\ reader = [s \in Streams |-> "idle"]
    /\ got = [s \in Streams |-> None]
    /\ told = [s \in Streams |-> [pos |-> 0, uri |-> IF s = "audio" THEN FirstAudioURI ELSE VideoURI]]
    /\ failed = "none"

Spend(e) == budget[e] > 0 /\ budget' = [budget EXCEPT ![e] = @ - 1]

\* thread_interrupt(): while it seeks or resets, downloads return and their errors are ignored
Interrupted == client \in {"seeking", "disconnecting"}

\* A CHECK that fails: nothing else happens
Fails(check) ==
    /\ failed' = check
    /\ UNCHANGED <<clientVars, sessionVars, mDiscontinuities, fetcherVars, sourceVars, readerVars>>

---------------------------------------------------------------------------
(* The player *)

Changing ==
    \/ session.reconfiguring
    \/ \E i \in 1 .. Len(inbox) : inbox[i].what = "changeConfiguration"
    \/ Msg("changeConfiguration") \in delayed

Idle == client = "idle" /\ \A s \in Streams : reader[s] = "idle"

ConnectAsync ==
    /\ client = "new"
    /\ client' = "idle"
    /\ inbox' = Append(inbox, Msg("connect"))
    /\ UNCHANGED <<position, prepared, selected, budget, session, mFetcherInfos, mIsPrepared,
                   delayed, mDiscontinuities, fetcherVars, sourceVars, readerVars, failed>>

\* The playlist's selection changes at once, on the player's looper
SelectTrack(u) ==
    /\ client = "idle" /\ prepared = "yes" /\ u # selected
    /\ Changing => "selectWhileChanging" \in Hastes
    /\ mLatestDequeued["audio"] # position => "selectBeforeReading" \in Hastes
    /\ Spend("select")
    /\ selected' = u
    /\ inbox' = Append(inbox, Msg("changeConfiguration"))
    /\ UNCHANGED <<client, position, prepared, session, mFetcherInfos, mIsPrepared, delayed,
                   mDiscontinuities, fetcherVars, sourceVars, readerVars, failed>>

\* The decoders have been flushed; the caller waits for the reply
SeekTo ==
    /\ Idle /\ prepared = "yes"
    /\ Changing => "seekWhileChanging" \in Hastes
    /\ Spend("seek")
    /\ client' = "seeking" /\ position' = position + 1
    /\ inbox' = Append(inbox, [what |-> "seek", pos |-> position + 1, awaited |-> TRUE])
    /\ UNCHANGED <<prepared, selected, session, mFetcherInfos, mIsPrepared, delayed,
                   mDiscontinuities, fetcherVars, sourceVars, readerVars, failed>>

\* The decoders have been shut down; the caller waits for the reply
Disconnect ==
    /\ Idle
    /\ Spend("disconnect")
    /\ client' = "disconnecting"
    /\ inbox' = Append(inbox, Msg("disconnect"))
    /\ UNCHANGED <<position, prepared, selected, session, mFetcherInfos, mIsPrepared, delayed,
                   mDiscontinuities, fetcherVars, sourceVars, readerVars, failed>>

---------------------------------------------------------------------------
(* AmLiveSession *)

URIOf(s) == IF s = "audio" THEN selected ELSE VideoURI

\* What a handler posts to the fetchers: m[f], or None
Mails(m) == [f \in Fetchers |-> IF m[f] = None THEN mail[f] ELSE Append(mail[f], m[f])]
ToAll(fs, m) == Mails([f \in Fetchers |-> IF f \in fs THEN m ELSE None])

\* The seek's reply, if one is due, from the session s
SeekReplied(s) == [s EXCEPT !.seekReply = FALSE]
ClientReplied(s) == IF s.seekReply THEN "idle" ELSE client

\* changeConfiguration(): stop the fetchers of other playlists and, unless the
\* position changes, pause those that will go on
ChangesConfiguration(timeUs) ==
    LET goesOn == IF timeUs < 0
                  THEN {f \in mFetcherInfos : fetcher[f].uri = URIOf(fetcher[f].stream)}
                  ELSE {}
        resume == {fetcher[f].stream : f \in goesOn}
        msg == [what |-> IF timeUs < 0 THEN "changeConfiguration3" ELSE "changeConfiguration2",
                streams |-> Streams \ resume, resume |-> resume, pos |-> timeUs,
                uris |-> [s \in Streams |-> URIOf(s)]]
        changed == [session EXCEPT !.reconfiguring = TRUE, !.counter = Cardinality(mFetcherInfos),
                                   !.continuation = msg]
    IN  /\ mail' = Mails([f \in Fetchers |-> IF f \notin mFetcherInfos THEN None
                                             ELSE Msg(IF f \in goesOn THEN "pause" ELSE "stop")])
        /\ IF mFetcherInfos = {}
           THEN /\ inbox' = Append(Tail(inbox), msg)
                /\ session' = SeekReplied(changed)
                /\ client' = ClientReplied(changed)
           ELSE inbox' = Tail(inbox) /\ session' = changed /\ client' = client
        /\ UNCHANGED <<mFetcherInfos, mIsPrepared, mDiscontinuities, fetcher, sourceVars,
                       readerVars, failed>>

\* finishDisconnect(): m is the mail so far, infos the fetchers there are
Stopping(s, infos) ==
    [s EXCEPT !.counter = Cardinality(infos), !.continuation = Msg("finishDisconnect2")]
StoppedMails(m, infos) ==
    [f \in Fetchers |-> IF f \in infos THEN Append(m[f], Msg("stop")) ELSE m[f]]
\* Mutant of StoppedInbox: the continuation is posted by the fetchers' answers only
StoppedInboxByAnswers(i, infos) == i
StoppedInbox(i, infos) == IF infos = {} THEN Append(i, Msg("finishDisconnect2")) ELSE i

Handles(what) == inbox # <<>> /\ Head(inbox).what = what

OnConnect ==
    /\ Handles("connect")
    /\ ChangesConfiguration(0)
    /\ UNCHANGED <<position, prepared, selected, budget, delayed>>

\* The master playlist cannot be fetched
OnConnectFails ==
    /\ Handles("connect")
    /\ Spend("fetchError")
    /\ inbox' = Tail(inbox)
    /\ prepared' = "failed"
    /\ session' = [session EXCEPT !.preparing = FALSE]
    /\ UNCHANGED <<client, position, selected, mFetcherInfos, mIsPrepared, delayed,
                   mDiscontinuities, fetcherVars, sourceVars, readerVars, failed>>

\* Mutant of OnDisconnect: a reconfiguration is not waited for
OnDisconnectAtOnce ==
    /\ Handles("disconnect")
    /\ session' = Stopping([session EXCEPT !.disconnectReply = TRUE], mFetcherInfos)
    /\ inbox' = StoppedInbox(Tail(inbox), mFetcherInfos)
    /\ mail' = StoppedMails(mail, mFetcherInfos)
    /\ UNCHANGED <<clientVars, mFetcherInfos, mIsPrepared, delayed, mDiscontinuities, fetcher,
                   sourceVars, readerVars, failed>>
OnDisconnect ==
    /\ Handles("disconnect")
    /\ LET asked == [session EXCEPT !.disconnectReply = TRUE]
       IN  IF session.reconfiguring
           THEN session' = asked /\ inbox' = Tail(inbox) /\ mail' = mail
           ELSE /\ session' = Stopping(asked, mFetcherInfos)
                /\ inbox' = StoppedInbox(Tail(inbox), mFetcherInfos)
                /\ mail' = StoppedMails(mail, mFetcherInfos)
    /\ UNCHANGED <<clientVars, mFetcherInfos, mIsPrepared, delayed, mDiscontinuities, fetcher,
                   sourceVars, readerVars, failed>>

\* A message's sender awaits one response: senderAwaitsResponse() takes the reply's token,
\* and a message that is posted again has none
OnSeek ==
    /\ Handles("seek")
    /\ LET m == Head(inbox)
       IN  IF ~m.awaited THEN Fails("senderAwaitsResponse")
           ELSE /\ mDiscontinuities' = [s \in Streams |-> <<>>]
                /\ inbox' = Tail(inbox)
                /\ IF session.reconfiguring
                   THEN /\ session' = [session EXCEPT !.seekReply = TRUE]
                        /\ delayed' = delayed \cup {[m EXCEPT !.awaited = FALSE]}
                        /\ mail' = mail
                   ELSE /\ session' = [session EXCEPT !.seekReply = TRUE,
                                                      !.counter = Cardinality(mFetcherInfos)]
                        /\ mail' = ToAll(mFetcherInfos, [what |-> "seek", pos |-> m.pos])
                        /\ delayed' = delayed
                /\ UNCHANGED <<clientVars, mFetcherInfos, mIsPrepared, fetcher, sourceVars,
                               readerVars, failed>>

\* Every packet source that has not ended is looked at, for 300 ms of packets
OnPostPrepared ==
    /\ Handles("postPrepared")
    /\ inbox' = Tail(inbox)
    /\ LET open == {fetcher[f].stream : f \in mFetcherInfos} \cap
                   {s \in Streams : mEOSResult[s] = Ok}
       IN  IF open # {} /\ \A s \in open : mBuffers[s] # <<>>
           THEN prepared' = "yes" /\ delayed' = delayed
           ELSE prepared' = prepared /\ delayed' = delayed \cup {Msg("postPrepared")}
    /\ UNCHANGED <<client, position, selected, budget, session, mFetcherInfos, mIsPrepared,
                   mDiscontinuities, fetcherVars, sourceVars, readerVars, failed>>

\* kWhatPaused and kWhatStopped: the last one expected lets the session go on
OnAcknowledged ==
    /\ Handles("paused") \/ Handles("stopped")
    /\ LET f == Head(inbox).from
           counted == [session EXCEPT !.counter = @ - 1]
           goesOn == session.continuation # None /\ counted.counter = 0
       IN  IF session.continuation # None /\ session.counter <= 0 THEN Fails("mContinuationCounter")
           ELSE /\ mFetcherInfos' = IF Head(inbox).what = "paused" THEN mFetcherInfos
                                    ELSE {g \in mFetcherInfos : fetcher[g].uri # fetcher[f].uri}
                /\ inbox' = IF goesOn THEN Append(Tail(inbox), session.continuation)
                            ELSE Tail(inbox)
                /\ session' = IF session.continuation = None THEN session
                              ELSE IF goesOn THEN SeekReplied(counted) ELSE counted
                /\ client' = IF goesOn THEN ClientReplied(session) ELSE client
                /\ mail' = IF Head(inbox).what = "paused" THEN mail ELSE [mail EXCEPT ![f] = <<>>]
                /\ UNCHANGED <<position, prepared, selected, budget, mIsPrepared, delayed,
                               mDiscontinuities, fetcher, sourceVars, readerVars, failed>>

\* The last fetcher has sought: announce it, reply, and let them download
OnSeeked ==
    /\ Handles("seeked")
    /\ LET m == Head(inbox)
           counted == [session EXCEPT !.counter = @ - 1]
       IN  /\ inbox' = Tail(inbox)
           /\ IF counted.counter # 0
              THEN /\ session' = counted
                   /\ UNCHANGED <<client, mDiscontinuities, fetcher>>
              ELSE /\ session' = SeekReplied(counted)
                   /\ client' = ClientReplied(session)
                   /\ mDiscontinuities' = [s \in Streams |-> Append(mDiscontinuities[s], Time(m.pos))]
                   /\ fetcher' = [f \in Fetchers |-> IF f \in mFetcherInfos
                                                     THEN [fetcher[f] EXCEPT !.work = "monitor"]
                                                     ELSE fetcher[f]]
    /\ UNCHANGED <<position, prepared, selected, budget, mFetcherInfos, mIsPrepared, delayed,
                   mail, sourceVars, readerVars, failed>>

\* Mutant of OnError: an error is not ignored while the player seeks or resets
OnErrorAlways ==
    /\ Handles("error")
    /\ inbox' = Tail(inbox)
    /\ prepared' = IF ~session.preparing THEN prepared
                   ELSE IF Head(inbox).result.err = "EOS" THEN "yes" ELSE "failed"
    /\ session' = [session EXCEPT !.preparing = FALSE]
    /\ mEOSResult' = [s \in Streams |-> Head(inbox).result]
    /\ UNCHANGED <<client, position, selected, budget, mFetcherInfos, mIsPrepared, delayed,
                   mDiscontinuities, fetcherVars, mBuffers, readerVars, failed>>
\* The end of one playlist, or an error, ends all the sources
OnError ==
    /\ Handles("error")
    /\ inbox' = Tail(inbox)
    /\ IF Interrupted THEN UNCHANGED <<prepared, session, mEOSResult>>
       ELSE /\ prepared' = IF ~session.preparing THEN prepared
                           ELSE IF Head(inbox).result.err = "EOS" THEN "yes" ELSE "failed"
            /\ session' = [session EXCEPT !.preparing = FALSE]
            /\ mEOSResult' = [s \in Streams |-> Head(inbox).result]
    /\ UNCHANGED <<client, position, selected, budget, mFetcherInfos, mIsPrepared, delayed,
                   mDiscontinuities, fetcherVars, mBuffers, readerVars, failed>>

OnTemporarilyDone ==
    /\ Handles("temporarilyDone")
    /\ LET done == mIsPrepared \cup ({Head(inbox).from} \cap mFetcherInfos)
           all == /\ session.preparing /\ Head(inbox).from \in mFetcherInfos
                  /\ mFetcherInfos \subseteq done
       IN  /\ mIsPrepared' = done
           /\ session' = [session EXCEPT !.preparing = @ /\ ~all]
           /\ inbox' = IF all THEN Append(Tail(inbox), Msg("postPrepared")) ELSE Tail(inbox)
    /\ UNCHANGED <<clientVars, mFetcherInfos, delayed, mDiscontinuities, fetcherVars, sourceVars,
                   readerVars, failed>>

OnChangeConfiguration ==
    /\ Handles("changeConfiguration")
    /\ IF session.reconfiguring
       THEN /\ inbox' = Tail(inbox) /\ delayed' = delayed \cup {Msg("changeConfiguration")}
            /\ UNCHANGED <<client, session, mFetcherInfos, mIsPrepared, mDiscontinuities,
                           fetcherVars, sourceVars, readerVars, failed>>
       ELSE ChangesConfiguration(-1) /\ delayed' = delayed
    /\ UNCHANGED <<position, prepared, selected, budget>>

\* Where a new fetcher starts: where the change says, or where its stream was last read
StartOf(s, m) ==
    IF m.pos >= 0 THEN m.pos
    ELSE IF mLatestDequeued[s] >= 0 THEN mLatestDequeued[s] ELSE mLastSeek

\* The fetcher created for stream s: the audio stream's first
Created(s, m) ==
    session.created + (IF s = "video" /\ "audio" \in m.streams THEN 2 ELSE 1)

\* onChangeConfiguration2() finds no decoder to shut down, and goes on with
\* onChangeConfiguration3(): the fetchers that were paused go on, new ones start
OnChangeConfiguration3 ==
    /\ Handles("changeConfiguration2") \/ Handles("changeConfiguration3")
    /\ LET m == Head(inbox)
           new == [f \in {Created(s, m) : s \in m.streams} |->
                      CHOOSE s \in m.streams : Created(s, m) = f]
           infos == mFetcherInfos \cup DOMAIN new
           started == Mails([f \in Fetchers |->
               IF f \in DOMAIN new
               THEN [what |-> "start", pos |-> StartOf(new[f], m)]
               ELSE IF f \in mFetcherInfos /\ fetcher[f].stream \in m.resume
                         /\ fetcher[f].uri = m.uris[fetcher[f].stream]
                    THEN [what |-> "start", pos |-> -1] ELSE None])
           done == [session EXCEPT !.continuation = None, !.reconfiguring = FALSE,
                                   !.mask = m.streams \cup m.resume,
                                   !.created = @ + Cardinality(DOMAIN new)]
       IN  IF \E f \in mFetcherInfos : \E s \in m.streams : fetcher[f].uri = m.uris[s]
           THEN Fails("addFetcher")
           ELSE /\ fetcher' = [f \in Fetchers |->
                       IF f \in DOMAIN new
                       THEN [NoFetcher EXCEPT !.uri = m.uris[new[f]], !.stream = new[f]]
                       ELSE fetcher[f]]
                /\ mFetcherInfos' = infos
                /\ mBuffers' = [s \in Streams |-> IF s \in m.streams THEN <<>> ELSE mBuffers[s]]
                /\ mEOSResult' = [s \in Streams |-> IF s \in m.streams THEN Ok ELSE mEOSResult[s]]
                /\ mDiscontinuities' = [s \in Streams |->
                       IF s \notin m.streams THEN mDiscontinuities[s]
                       ELSE Append(mDiscontinuities[s],
                                   IF m.pos >= 0 THEN Time(m.pos) ELSE FormatChange(m.uris[s]))]
                /\ IF session.disconnectReply
                   THEN /\ session' = Stopping(done, infos)
                        /\ mail' = StoppedMails(started, infos)
                        /\ inbox' = StoppedInbox(Tail(inbox), infos)
                   ELSE session' = done /\ mail' = started /\ inbox' = Tail(inbox)
                /\ UNCHANGED <<clientVars, mIsPrepared, delayed, readerVars, failed>>

OnFinishDisconnect2 ==
    /\ Handles("finishDisconnect2")
    /\ inbox' = Tail(inbox)
    /\ session' = [session EXCEPT !.continuation = None, !.disconnectReply = FALSE]
    /\ mEOSResult' = [s \in Streams |-> [err |-> "EOS", pos |-> position]]
    /\ client' = IF session.disconnectReply THEN "gone" ELSE client
    /\ UNCHANGED <<position, prepared, selected, budget, mFetcherInfos, mIsPrepared, delayed,
                   mDiscontinuities, fetcherVars, mBuffers, readerVars, failed>>

\* A message that was posted again comes after its delay
DelayPasses(m) ==
    /\ m \in delayed
    /\ delayed' = delayed \ {m}
    /\ inbox' = Append(inbox, m)
    /\ UNCHANGED <<clientVars, session, mFetcherInfos, mIsPrepared, mDiscontinuities, fetcherVars,
                   sourceVars, readerVars, failed>>

Session ==
    \/ OnConnect \/ OnConnectFails \/ OnDisconnect \/ OnSeek \/ OnPostPrepared
    \/ OnAcknowledged \/ OnSeeked \/ OnError \/ OnTemporarilyDone
    \/ OnChangeConfiguration \/ OnChangeConfiguration3 \/ OnFinishDisconnect2

---------------------------------------------------------------------------
(* AmPlaylistFetcher.  A message of an older generation is dropped when it   *)
(* comes, so cancelMonitorQueue() leaves the fetcher without work.           *)

Notify(m) == inbox' = Append(inbox, m)
Mail(f, what) == mail[f] # <<>> /\ Head(mail[f]).what = what
TakeMail(f) == mail' = [mail EXCEPT ![f] = Tail(@)]
Sets(f, change) == fetcher' = [fetcher EXCEPT ![f] = change]
\* Mutant of Clear: mEOSResult is not reset
ClearKeepsEnd(s) ==
    /\ mBuffers' = [mBuffers EXCEPT ![s] = <<>>]
    /\ UNCHANGED mEOSResult
Clear(s) ==
    /\ mBuffers' = [mBuffers EXCEPT ![s] = <<>>]
    /\ mEOSResult' = [mEOSResult EXCEPT ![s] = Ok]
FetcherFrame ==
    UNCHANGED <<clientVars, session, mFetcherInfos, mIsPrepared, delayed, mDiscontinuities,
                readerVars, failed>>

\* Without a start time it goes on where it was
OnStart(f) ==
    /\ Mail(f, "start") /\ TakeMail(f)
    /\ LET pos == Head(mail[f]).pos
       IN  Sets(f, IF pos < 0 THEN [fetcher[f] EXCEPT !.work = "monitor"]
                   ELSE [fetcher[f] EXCEPT !.work = "monitor", !.pos = pos, !.left = NumSegments])
    /\ UNCHANGED <<inbox, sourceVars>> /\ FetcherFrame

OnPause(f) ==
    /\ Mail(f, "pause") /\ TakeMail(f)
    /\ Sets(f, [fetcher[f] EXCEPT !.work = "none"])
    /\ Notify(From("paused", f))
    /\ UNCHANGED sourceVars /\ FetcherFrame

OnStop(f) ==
    /\ Mail(f, "stop") /\ TakeMail(f)
    /\ Sets(f, [fetcher[f] EXCEPT !.work = "none"])
    /\ Clear(fetcher[f].stream)
    /\ Notify(From("stopped", f))
    /\ FetcherFrame

OnFetcherSeek(f) ==
    /\ Mail(f, "seek") /\ TakeMail(f)
    /\ LET pos == Head(mail[f]).pos
       IN  /\ Sets(f, [fetcher[f] EXCEPT !.work = "none", !.pos = pos, !.left = NumSegments])
           /\ Notify([what |-> "seeked", pos |-> pos])
    /\ Clear(fetcher[f].stream)
    /\ FetcherFrame

\* A fetcher that has said it is done while preparing has no need to say so again
SaysDone(f) ==
    IF session.preparing /\ f \notin mIsPrepared /\ From("temporarilyDone", f) \notin
            {inbox[i] : i \in 1 .. Len(inbox)}
    THEN Notify(From("temporarilyDone", f)) ELSE inbox' = inbox

\* It downloads while its source has room and has not ended
OnMonitorQueue(f) ==
    /\ fetcher[f].work = "monitor"
    /\ LET s == fetcher[f].stream
           downloads == /\ mEOSResult[s] = Ok
                        /\ Len(mBuffers[s]) < MinPackets \/ ~fetcher[f].posted
       IN  IF downloads
           THEN Sets(f, [fetcher[f] EXCEPT !.work = "download"]) /\ UNCHANGED inbox
           ELSE SaysDone(f) /\ UNCHANGED fetcher
    /\ UNCHANGED <<mail, sourceVars>> /\ FetcherFrame

OnDownloadNext(f) ==
    /\ fetcher[f].work = "download" /\ fetcher[f].left > 0
    /\ mBuffers' = [mBuffers EXCEPT ![fetcher[f].stream] =
                        Append(@, Packet(fetcher[f].pos, fetcher[f].uri))]
    /\ Sets(f, [fetcher[f] EXCEPT !.work = "monitor", !.left = @ - 1, !.posted = TRUE])
    /\ IF fetcher[f].posted THEN UNCHANGED inbox ELSE SaysDone(f)
    /\ UNCHANGED <<mail, mEOSResult>> /\ FetcherFrame

NotifyError(f, err) == Notify([what |-> "error", result |-> [err |-> err, pos |-> fetcher[f].pos]])

\* The playlist has no more segments: the fetcher stays idle until a seek
OnDownloadEnds(f) ==
    /\ fetcher[f].work = "download" /\ fetcher[f].left = 0
    /\ Sets(f, [fetcher[f] EXCEPT !.work = "none"])
    /\ NotifyError(f, "EOS")
    /\ UNCHANGED <<mail, sourceVars>> /\ FetcherFrame

\* An interrupted download: it is given up, or tried again.  Bound: one such error at a time
OnDownloadInterrupted(f) ==
    /\ Interrupted
    /\ \A i \in 1 .. Len(inbox) : inbox[i].what # "error"
    /\ fetcher[f].work = "download" /\ fetcher[f].left > 0
    /\ \E work \in {"none", "monitor"} : Sets(f, [fetcher[f] EXCEPT !.work = work])
    /\ NotifyError(f, "ERROR_IO")
    /\ UNCHANGED <<mail, sourceVars>> /\ FetcherFrame

\* A download fails for good
OnDownloadFails(f) ==
    /\ fetcher[f].work = "download" /\ fetcher[f].left > 0
    /\ Spend("fetchError")
    /\ Sets(f, [fetcher[f] EXCEPT !.work = "none"])
    /\ NotifyError(f, "ERROR_IO")
    /\ UNCHANGED <<client, position, prepared, selected, session, mFetcherInfos, mIsPrepared,
                   delayed, mDiscontinuities, mail, sourceVars, readerVars, failed>>

\* Or its segment is passed over, and queueDiscontinuity() forgets an end that was signalled
OnDownloadSkips(f) ==
    /\ fetcher[f].work = "download" /\ fetcher[f].left > 0
    /\ Spend("fetchError")
    /\ Sets(f, [fetcher[f] EXCEPT !.work = "monitor", !.left = @ - 1])
    /\ mBuffers' = [mBuffers EXCEPT ![fetcher[f].stream] = Append(@, Gap)]
    /\ mEOSResult' = [mEOSResult EXCEPT ![fetcher[f].stream] = Ok]
    /\ UNCHANGED <<client, position, prepared, selected, session, mFetcherInfos, mIsPrepared,
                   delayed, inbox, mDiscontinuities, mail, readerVars, failed>>

TakesMail(f) == OnStart(f) \/ OnPause(f) \/ OnStop(f) \/ OnFetcherSeek(f)
Works(f) ==
    \/ OnMonitorQueue(f) \/ OnDownloadNext(f) \/ OnDownloadEnds(f)
    \/ OnDownloadInterrupted(f) \/ OnDownloadFails(f) \/ OnDownloadSkips(f)

---------------------------------------------------------------------------
(* dequeueAccessUnit(), on a decoder's looper.  Each of its steps takes the  *)
(* lock of one packet source: other loopers come between them.               *)

Gets(s, unit) == got' = [got EXCEPT ![s] = unit]
Goes(s, where) == reader' = [reader EXCEPT ![s] = where]
ReaderFrame ==
    UNCHANGED <<clientVars, sessionVars, fetcherVars, mEOSResult, failed>>

\* hasBufferAvailable(): an empty source has ended, or is tried again later
ReadBegins(s) ==
    /\ client = "idle" /\ prepared = "yes" /\ s \in session.mask /\ reader[s] = "idle"
    /\ IF mBuffers[s] # <<>> THEN Goes(s, "available") /\ UNCHANGED got
       ELSE /\ mEOSResult[s] # Ok
            /\ Gets(s, [what |-> "end", pos |-> mEOSResult[s].pos, err |-> mEOSResult[s].err])
            /\ UNCHANGED reader
    /\ UNCHANGED <<told, mLatestDequeued, mLastSeek, mDiscontinuities, mBuffers>> /\ ReaderFrame

\* AmLiveSession::hasBufferAvailable(): a source that has run dry ends when the other one
\* has ended and run dry; by the time it is told so it may have been cleared and filled
HearsOfEnd(s) ==
    /\ client = "idle" /\ prepared = "yes" /\ reader[s] = "idle"
    /\ mBuffers[s] = <<>> /\ mEOSResult[s] = Ok
    /\ \E t \in Streams \ {s} : mBuffers[t] = <<>> /\ mEOSResult[t].err = "EOS"
    /\ Goes(s, "otherEnded")
    /\ UNCHANGED <<got, told, mLatestDequeued, mLastSeek, mDiscontinuities, mBuffers>> /\ ReaderFrame
EndsWithOther(s) ==
    /\ reader[s] = "otherEnded"
    /\ Goes(s, "idle")
    /\ mEOSResult' = [mEOSResult EXCEPT ![s] = [err |-> "EOS", pos |-> position]]
    /\ UNCHANGED <<clientVars, sessionVars, mDiscontinuities, fetcherVars, mBuffers, got, told,
                   mLatestDequeued, mLastSeek, failed>>

\* A discontinuity of the session goes before what the source holds
ReadDiscontinuity(s) ==
    /\ reader[s] = "available"
    /\ IF mDiscontinuities[s] = <<>>
       THEN Goes(s, "dequeues") /\ UNCHANGED <<got, told, mLastSeek, mDiscontinuities>>
       ELSE LET d == Head(mDiscontinuities[s])
            IN  /\ mDiscontinuities' = [mDiscontinuities EXCEPT ![s] = Tail(@)]
                /\ Goes(s, "idle") /\ Gets(s, d)
                /\ IF d.what = "time"
                   THEN told' = [told EXCEPT ![s].pos = d.pos] /\ mLastSeek' = d.pos
                   ELSE told' = [told EXCEPT ![s].uri = d.uri] /\ UNCHANGED mLastSeek
    /\ UNCHANGED <<mLatestDequeued, mBuffers>> /\ ReaderFrame

\* AmAnotherPacketSource::dequeueAccessUnit() waits while the source is empty
ReadPacket(s) ==
    /\ reader[s] = "dequeues"
    /\ IF mBuffers[s] # <<>>
       THEN LET p == Head(mBuffers[s])
            IN  /\ mBuffers' = [mBuffers EXCEPT ![s] = Tail(@)]
                /\ Gets(s, p)
                /\ mLatestDequeued' = IF p = Gap THEN mLatestDequeued
                                      ELSE [mLatestDequeued EXCEPT ![s] = p.pos]
       ELSE /\ mEOSResult[s] # Ok
            /\ Gets(s, [what |-> "end", pos |-> mEOSResult[s].pos, err |-> mEOSResult[s].err])
            /\ UNCHANGED <<mBuffers, mLatestDequeued>>
    /\ Goes(s, "idle")
    /\ UNCHANGED <<told, mLastSeek, mDiscontinuities>> /\ ReaderFrame

Reader(s) ==
    \/ ReadBegins(s) \/ ReadDiscontinuity(s) \/ ReadPacket(s)
    \/ HearsOfEnd(s) \/ EndsWithOther(s)

---------------------------------------------------------------------------

Client == ConnectAsync \/ (\E u \in AudioURIs : SelectTrack(u)) \/ SeekTo \/ Disconnect

Runs == failed = "none" /\ client # "gone"

Next ==
    /\ Runs
    /\ \/ Client \/ Session
       \/ \E m \in delayed : DelayPasses(m)
       \/ \E f \in Fetchers : TakesMail(f) \/ Works(f)
       \/ \E s \in Streams : Reader(s)

Spec == Init /\ [][Next]_vars

\* Every looper handles what it was sent, and its timers fire: a step of one is not
\* put off for ever by the others
FairSpec ==
    /\ Spec
    /\ WF_vars(Runs /\ Session)
    /\ WF_vars(Runs /\ \E m \in delayed : DelayPasses(m))
    /\ \A f \in Fetchers : WF_vars(Runs /\ TakesMail(f)) /\ WF_vars(Runs /\ Works(f))
    /\ \A s \in Streams : WF_vars(Runs /\ Reader(s))

---------------------------------------------------------------------------
(* Properties *)

\* No CHECK fails: not the ones that count the fetchers' answers, expect one reply for a
\* message, or create a fetcher where there is none (679, 767, 2143).
ChecksHold == failed = "none"

\* After a seek a decoder gets nothing of an earlier position: no packet that was still
\* queued or under way, and no end of stream that an error signalled late; and a packet of
\* the new position only after the discontinuity that announces it.
ReadsItsPosition ==
    [][\A s \in Streams : got'[s] # got[s] =>
          /\ got'[s].what \in {"packet", "end"} => got'[s].pos = position
          /\ got'[s].what = "packet" => told[s].pos = position]_vars

\* "selecting track, queue discontinuities before content" (AmLiveSession.cpp:2204): a
\* packet of a newly selected rendition comes after the format change.
TrackIsAnnounced ==
    \A s \in Streams : got[s].what = "packet" => got[s].uri = told[s].uri

\* seekTo() and disconnect(), which block the player, return, whatever the fetchers are
\* doing when they are called.
CallsReturn ==
    /\ client = "seeking" ~> client = "idle"
    /\ client = "disconnecting" ~> client = "gone"

\* What is sought is played: unless it is interrupted by another call, each decoder gets
\* a packet of the position, or is told that the stream has ended.
Played(s, p) == got[s].what \in {"packet", "end"} /\ got[s].pos = p
SeekIsPlayed ==
    \A s \in Streams, p \in 0 .. MaxCalls :
        (client = "idle" /\ prepared = "yes" /\ position = p) ~>
            (client # "idle" \/ position # p \/ Played(s, p))
=============================================================================
