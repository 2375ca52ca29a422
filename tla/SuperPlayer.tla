----------------------------- MODULE SuperPlayer -----------------------------
(***************************************************************************)
(* AmSuperPlayer: a client of it plays a file with the player that suits   *)
(* the file.  A thread of its own (initThread) opens the file with         *)
(* AmlogicPlayer, waits until that player tells the file's type, replaces  *)
(* the player by another kind where the type asks for it and installs the  *)
(* result in mPlayer.  The players call back on threads of their own       *)
(* (Notify); the client calls at any time.                                 *)
(*                                                                         *)
(* mMutex is held over one call of the client or one assignment of         *)
(* mPlayer: what it covers is one step.  mNotifyMutex is held by a         *)
(* callback from its first look at mPlayer to its second (notifying).      *)
(* Most flags are read and written with neither.                           *)
(***************************************************************************)
EXTENDS Naturals, Sequences, FiniteSets

CONSTANTS
    FileTypes,   \* the files a session may be about, see SuperGetPlayerType
    StartModes,  \* media.amplayer.startmode: TRUE starts in setDataSource(fd)
    PlayerIds,   \* the objects the thread may create at a time
    Sessions,    \* how often the client may prepare
    Surfaces,    \* the surfaces a client may set, NoSurface at first
    OldMessages, \* room of oldmsg (9 in the code)
    MaxInfos,    \* bound: MEDIA_INFOs of one player
    MaxSurfaces  \* bound: calls of setVideoSurfaceTexture()

ASSUME FileTypesAssumption == FileTypes \subseteq {"video", "drm", "midi", "hevcTs", "hevcHls"}
ASSUME StartModesAssumption == StartModes \subseteq BOOLEAN
ASSUME PlayerIdsAssumption == PlayerIds \subseteq Nat \ {0}
ASSUME BoundsAssumption == {Sessions, OldMessages, MaxInfos, MaxSurfaces} \subseteq Nat

VARIABLES
    fileType, startMode,   \* the file and the property of this session
    \* AmSuperPlayer's fields
    source,                \* url_valid, fd_valid: "none", "url" or "fd"
    isStartedPrepared, mRequestPrepared, Prepared, mPrepareErr,
    mTypeReady, isSwitchURL, mEXIT, subplayer_inited,
    mRenderTid,            \* the thread that runs, or NoThread
    mPlayer,               \* the player installed, or NoPlayer
    msurfaceTexture, oldmsg,
    waiting,               \* who waits for mCondition
    \* the objects and threads around it
    player,                \* the players created
    thread,                \* initThread's runs
    notifying,             \* a callback that holds mNotifyMutex
    client,                \* what the client's thread is at
    requests, surfacesSet, \* calls made
    told                   \* the client's listener: what it was sent

config == <<fileType, startMode>>
prepareVars == <<isStartedPrepared, mRequestPrepared, Prepared, mPrepareErr>>
probeVars == <<mTypeReady, isSwitchURL>>
exitVars == <<mEXIT, mRenderTid, waiting>>
installVars == <<mPlayer, msurfaceTexture, subplayer_inited>>
clientVars == <<client, requests, surfacesSet>>
vars == <<config, source, prepareVars, probeVars, exitVars, installVars, oldmsg,
          player, thread, notifying, clientVars, told>>

NoPlayer == 0
NoThread == 0
Client == 0
NoSurface == "none"
Threads == 1..Sessions
Kinds == {"AMLOGIC_PLAYER", "STAGEFRIGHT_PLAYER", "SONIVOX_PLAYER", "AMNUPLAYER", "NU_PLAYER"}

\* What is told the client; a file's type is told AmSuperPlayer alone.
Messages == {"size", "prepared", "error", "info"}
NoMessage == [from |-> NoPlayer, msg |-> "none"]

\* The kind for a file.  "hevcTs" is HEVC in a transport stream, "hevcHls" the
\* same behind an m3u8 address, "drm" what the DRM demuxer reads.
SuperGetPlayerType(type) ==
    CASE type \in {"video", "drm"} -> "AMLOGIC_PLAYER"
      [] type = "midi" -> "SONIVOX_PLAYER"
      [] type = "hevcHls" -> "AMNUPLAYER"
      [] type \in {"hevcTs", "unknown"} -> "STAGEFRIGHT_PLAYER"

\* createPlayer() answers two kinds with an AmNuPlayerDriver, whose playerType()
\* is a third one.
PlayerType(kind) == IF kind \in {"SONIVOX_PLAYER", "AMNUPLAYER"} THEN "NU_PLAYER" ELSE kind

\* A player: what it is, how far it is, and what it has told.
Phases == {"absent", "opening", "typed", "sized", "prepared", "failed", "stopped"}
Absent == [kind |-> "NU_PLAYER", phase |-> "absent", typeTold |-> FALSE, said |-> <<>>,
           surface |-> NoSurface]
Created(kind) == [Absent EXCEPT !.kind = PlayerType(kind), !.phase = "opening"]
Infos(p) == Cardinality({i \in DOMAIN player[p].said : player[p].said[i] = "info"})

\* Where a run of initThread() is.
Places == {"none", "born", "create", "probe", "typeLoop", "typeLock", "typeWait", "typed",
           "compare", "replace", "install", "request", "flush", "end", "ended"}

-----------------------------------------------------------------------------
(* mCondition.  A signal wakes one of those that wait: it is lost when      *)
(* nobody does.                                                             *)

Signalled(W) == IF W = {} THEN {W} ELSE {W \ {w} : w \in W}

Init ==
    /\ fileType \in FileTypes /\ startMode \in StartModes
    /\ source = "none"
    /\ isStartedPrepared = FALSE /\ mRequestPrepared = FALSE /\ Prepared = FALSE
    /\ mPrepareErr = FALSE /\ mTypeReady = FALSE /\ isSwitchURL = FALSE
    /\ mEXIT = FALSE /\ subplayer_inited = FALSE
    /\ mRenderTid = NoThread /\ mPlayer = NoPlayer
    /\ msurfaceTexture = NoSurface /\ oldmsg = <<>> /\ waiting = {}
    /\ player = [p \in PlayerIds |-> Absent]
    /\ thread = [t \in Threads |-> [at |-> "none", p |-> NoPlayer, newtype |-> "AMLOGIC_PLAYER"]]
    /\ notifying = NoMessage
    /\ client = "idle" /\ requests = 0 /\ surfacesSet = 0
    /\ told = <<>>

-----------------------------------------------------------------------------
(* The client.                                                              *)

\* Nothing is modelled of an object that is destroyed.
Alive == client # "released"
Said(msg) == \E i \in DOMAIN told : told[i].msg = msg /\ told[i].request = requests
ClientIn(states) == client \in states

\* prepareAsync_nolock()
StartsThread ==
    \E t \in Threads :
        /\ \A u \in Threads : thread[u].at = "none" <=> u >= t
        /\ thread' = [thread EXCEPT ![t].at = "born"]
        /\ Prepared' = FALSE /\ isStartedPrepared' = TRUE

\* setDataSource(httpService, uri, headers)
SetDataSourceUrl ==
    /\ ClientIn({"idle"})
    /\ source' = "url" /\ isSwitchURL' = FALSE /\ client' = "initialized"
    /\ UNCHANGED <<config, prepareVars, mTypeReady, exitVars, installVars, oldmsg, player,
                   thread, notifying, requests, surfacesSet, told>>

\* setDataSource(fd, offset, length), which in start mode 1 prepares and waits.
SetDataSourceFd ==
    /\ ClientIn({"idle"}) /\ fileType # "hevcHls"
    /\ source' = "fd" /\ mPrepareErr' = FALSE
    /\ IF startMode
       THEN StartsThread /\ client' = "setDataSource"
       ELSE client' = "initialized" /\ UNCHANGED <<thread, Prepared, isStartedPrepared>>
    /\ UNCHANGED <<config, mRequestPrepared, probeVars, exitVars, installVars, oldmsg,
                   player, notifying, requests, surfacesSet, told>>

SetDataSourceReturns ==
    /\ ClientIn({"setDataSource"})
    /\ Prepared \/ mEXIT \/ mPrepareErr
    /\ client' = IF mPlayer # NoPlayer /\ ~mPrepareErr THEN "initialized" ELSE "error"
    /\ UNCHANGED <<config, source, prepareVars, probeVars, exitVars, installVars, oldmsg,
                   player, thread, notifying, requests, surfacesSet, told>>

SetVideoSurfaceTexture ==
    /\ ClientIn({"initialized", "preparing"}) /\ surfacesSet < MaxSurfaces
    /\ \E s \in Surfaces :
        /\ msurfaceTexture' = s
        /\ player' = IF mPlayer = NoPlayer THEN player
                     ELSE [player EXCEPT ![mPlayer].surface = s]
    /\ surfacesSet' = surfacesSet + 1
    /\ UNCHANGED <<config, source, prepareVars, probeVars, exitVars, mPlayer,
                   subplayer_inited, oldmsg, thread, notifying, client, requests, told>>

PrepareAsync ==
    /\ ClientIn({"initialized", "stopped"}) /\ ~Said("error") /\ requests < Sessions
    /\ mRequestPrepared' = TRUE
    /\ IF isStartedPrepared THEN UNCHANGED <<thread, Prepared, isStartedPrepared>> ELSE StartsThread
    /\ requests' = requests + 1 /\ client' = "preparing"
    /\ UNCHANGED <<config, source, mPrepareErr, probeVars, exitVars, installVars, oldmsg,
                   player, notifying, surfacesSet, told>>

Stopped == IF mPlayer = NoPlayer THEN player ELSE [player EXCEPT ![mPlayer].phase = "stopped"]

\* stop(), by a client that was told it is prepared.
Stop ==
    /\ ClientIn({"preparing"}) /\ Said("prepared")
    /\ isStartedPrepared' = FALSE /\ player' = Stopped /\ client' = "stopped"
    /\ UNCHANGED <<config, source, mRequestPrepared, Prepared, mPrepareErr, probeVars,
                   exitVars, installVars, oldmsg, thread, notifying, requests, surfacesSet, told>>

\* reset(), with which a client goes away; a descriptor is closed.
Reset ==
    /\ ClientIn({"initialized", "preparing", "stopped", "error"})
    /\ source' = IF source = "fd" THEN "none" ELSE source
    /\ player' = Stopped /\ client' = "reset"
    /\ UNCHANGED <<config, prepareVars, probeVars, exitVars, installVars, oldmsg, thread,
                   notifying, requests, surfacesSet, told>>

\* release(), from the destructor: stop(), then while (mRenderTid > 0), read with
\* no lock, ...
Release ==
    /\ ClientIn({"reset"})
    /\ isStartedPrepared' = FALSE /\ player' = Stopped /\ client' = "releasing"
    /\ UNCHANGED <<config, source, mRequestPrepared, Prepared, mPrepareErr, probeVars,
                   exitVars, installVars, oldmsg, thread, notifying, requests, surfacesSet, told>>

ReleaseLoop ==
    /\ ClientIn({"releasing"})
    /\ client' = IF mRenderTid = NoThread THEN "released" ELSE "locking"
    /\ UNCHANGED <<config, source, prepareVars, probeVars, exitVars, installVars, oldmsg,
                   player, thread, notifying, requests, surfacesSet, told>>

\* ... lock, ask the thread to exit and wait for it.
ReleaseWaits ==
    /\ ClientIn({"locking"})
    /\ mEXIT' = TRUE
    /\ \E W \in Signalled(waiting) : waiting' = W \cup {Client}
    /\ client' = "waiting"
    /\ UNCHANGED <<config, source, prepareVars, probeVars, mRenderTid, installVars, oldmsg,
                   player, thread, notifying, requests, surfacesSet, told>>

ReleaseWakes ==
    /\ ClientIn({"waiting"}) /\ Client \notin waiting
    /\ client' = "releasing"
    /\ UNCHANGED <<config, source, prepareVars, probeVars, exitVars, installVars, oldmsg,
                   player, thread, notifying, requests, surfacesSet, told>>

Releasing == client \in {"reset", "releasing", "locking", "waiting", "released"}
ClientNext ==
    \/ SetDataSourceUrl \/ SetDataSourceFd \/ SetDataSourceReturns
    \/ SetVideoSurfaceTexture \/ PrepareAsync \/ Stop \/ Reset
    \/ Release \/ ReleaseLoop \/ ReleaseWaits \/ ReleaseWakes

-----------------------------------------------------------------------------
(* The callbacks of the players.                                            *)

\* A player tells what its phase allows.  A file's type is known before anything
\* else of it, an error comes at any time.
MaySay(p, msg) ==
    CASE msg = "size" -> player[p].phase = IF player[p].kind = "AMLOGIC_PLAYER" THEN "typed" ELSE "opening"
      [] msg = "prepared" -> player[p].phase = "sized"
      [] msg = "error" -> player[p].phase \in {"opening", "typed", "sized", "prepared"}
      [] msg = "info" -> player[p].phase \in {"sized", "prepared"} /\ Infos(p) < MaxInfos

PhaseAfter(p, msg) ==
    CASE msg = "size" -> "sized" [] msg = "error" -> "failed" [] msg = "prepared" -> "prepared"
      [] OTHER -> player[p].phase

\* Notify(0x11000): the type is ready.  Neither mutex of the waiting thread's
\* condition is held.
NotifyType(p) ==
    /\ Alive /\ notifying = NoMessage
    /\ player[p].kind = "AMLOGIC_PLAYER" /\ player[p].phase = "opening"
    /\ player' = [player EXCEPT ![p].phase = "typed", ![p].typeTold = TRUE]
    /\ mTypeReady' = TRUE
    /\ waiting' \in Signalled(waiting)
    /\ UNCHANGED <<config, source, prepareVars, isSwitchURL, mEXIT, mRenderTid, installVars,
                   oldmsg, thread, notifying, clientVars, told>>

HasRoom == Len(oldmsg) < OldMessages /\ ~subplayer_inited
Entry(p, msg) == [from |-> p, msg |-> msg]

\* Mutant: what comes before there is a player is dropped.
IsStoredUnasked(asked) == HasRoom /\ ~asked
IsStored(asked) == HasRoom /\ (~asked \/ mPlayer = NoPlayer)

\* Notify() up to the message's first look at mPlayer.  What a client did not ask
\* for yet is stored; so is what comes before there is a player.
NotifyBegins(p, msg) ==
    LET asked == msg \in {"size", "prepared"} => mRequestPrepared
    IN /\ Alive /\ notifying = NoMessage
       /\ MaySay(p, msg)
       /\ player' = [player EXCEPT ![p].phase = PhaseAfter(p, msg), ![p].said = Append(@, msg)]
       /\ Prepared' = (Prepared \/ msg \in {"size", "prepared"})
       /\ mPrepareErr' = (mPrepareErr \/ (msg = "error" /\ ~Prepared /\ mPlayer # NoPlayer))
       /\ IF asked /\ ~mTypeReady
          THEN mTypeReady' = TRUE /\ waiting' \in Signalled(waiting)
          ELSE UNCHANGED <<mTypeReady, waiting>>
       /\ oldmsg' = IF IsStored(asked) THEN Append(oldmsg, Entry(p, msg)) ELSE oldmsg
       /\ notifying' = IF asked THEN Entry(p, msg) ELSE NoMessage
       /\ UNCHANGED <<config, source, isStartedPrepared, mRequestPrepared, isSwitchURL,
                      mEXIT, mRenderTid, installVars, thread, clientVars, told>>

Tell(m) == [from |-> player[m.from].kind, by |-> m.from, msg |-> m.msg, request |-> requests]

\* Notify()'s second look at mPlayer: sendEvent().
NotifySends ==
    /\ Alive /\ notifying # NoMessage
    /\ told' = IF mPlayer = NoPlayer THEN told ELSE Append(told, Tell(notifying))
    /\ notifying' = NoMessage
    /\ UNCHANGED <<config, source, prepareVars, probeVars, exitVars, installVars, oldmsg,
                   player, thread, clientVars>>

\* What opening a file comes to in the end.
Opens(p) == NotifyType(p) \/ \E msg \in Messages \ {"info"} : NotifyBegins(p, msg)
PlayerNext == NotifySends \/ \E p \in PlayerIds : Opens(p) \/ NotifyBegins(p, "info")

-----------------------------------------------------------------------------
(* initThread() and CreatePlayer().                                         *)

At(t, where) == Alive /\ thread[t].at = where
Goes(t, where) == thread' = [thread EXCEPT ![t].at = where]

ThreadBegins(t) ==
    /\ At(t, "born")
    /\ mRenderTid' = t
    /\ Goes(t, "create")
    /\ UNCHANGED <<config, source, prepareVars, probeVars, mEXIT, waiting, installVars, oldmsg,
                   player, notifying, clientVars, told>>

\* Retry: forgets what the last player told, creates one, gives it the source and
\* prepares it.  Where AmlogicPlayer refuses the source, another kind is tried; no
\* player is left when that refuses or the source is gone.
Creates(t) ==
    /\ At(t, "create") /\ notifying = NoMessage
    /\ mTypeReady' = FALSE /\ oldmsg' = <<>>
    /\ LET newtype == thread[t].newtype
       IN \/ /\ source # "none"
             /\ \E p \in PlayerIds :
                 /\ player[p] = Absent /\ \A q \in PlayerIds : player[q] = Absent => p <= q
                 /\ player' = [player EXCEPT ![p] = Created(newtype)]
                 /\ thread' = [thread EXCEPT ![t] = [at |-> "probe", p |-> p, newtype |-> newtype]]
          \/ /\ source # "none" /\ newtype = "AMLOGIC_PLAYER"
             /\ thread' = [thread EXCEPT ![t].newtype = "STAGEFRIGHT_PLAYER"]
             /\ UNCHANGED player
          \/ /\ source = "none" \/ newtype # "AMLOGIC_PLAYER"
             /\ thread' = [thread EXCEPT ![t].at = "install", ![t].p = NoPlayer]
             /\ UNCHANGED player
    /\ UNCHANGED <<config, source, prepareVars, isSwitchURL, exitVars, installVars, notifying,
                   clientVars, told>>

\* if (!mTypeReady && p->playerType() == AMLOGIC_PLAYER)
Probes(t) ==
    /\ At(t, "probe")
    /\ Goes(t, IF ~mTypeReady /\ player[thread[t].p].kind = "AMLOGIC_PLAYER"
               THEN "typeLoop" ELSE "compare")
    /\ UNCHANGED <<config, source, prepareVars, probeVars, exitVars, installVars, oldmsg,
                   player, notifying, clientVars, told>>

\* while (!mTypeReady), read with no lock, ...
TypeLoop(t) ==
    /\ At(t, "typeLoop")
    /\ Goes(t, IF mTypeReady THEN "typed" ELSE "typeLock")
    /\ UNCHANGED <<config, source, prepareVars, probeVars, exitVars, installVars, oldmsg,
                   player, notifying, clientVars, told>>

\* ... lock and wait.
TypeWaits(t) ==
    /\ At(t, "typeLock")
    /\ waiting' = waiting \cup {t}
    /\ Goes(t, "typeWait")
    /\ UNCHANGED <<config, source, prepareVars, probeVars, mEXIT, mRenderTid, installVars,
                   oldmsg, player, notifying, clientVars, told>>

TypeWakes(t) ==
    /\ At(t, "typeWait") /\ t \notin waiting
    /\ Goes(t, IF mEXIT THEN "typed" ELSE "typeLoop")
    /\ UNCHANGED <<config, source, prepareVars, probeVars, exitVars, installVars, oldmsg,
                   player, notifying, clientVars, told>>

\* A DRM file behind an address is tried once more, with another address.
NeedRetry(t) ==
    fileType = "drm" /\ ~isSwitchURL /\ source = "url" /\ player[thread[t].p].typeTold

\* The kind the type asks for, where the player knows one.
GetsType(t) ==
    /\ At(t, "typed")
    /\ LET known == mTypeReady /\ player[thread[t].p].typeTold
           retry == known /\ NeedRetry(t)
       IN /\ isSwitchURL' = (isSwitchURL \/ retry)
          /\ thread' = [thread EXCEPT ![t].at = IF retry /\ ~mEXIT THEN "replace" ELSE "compare",
                                      ![t].newtype = SuperGetPlayerType(IF known THEN fileType ELSE "unknown")]
    /\ UNCHANGED <<config, source, prepareVars, mTypeReady, exitVars, installVars, oldmsg,
                   player, notifying, clientVars, told>>

\* A player that goes away finishes its callback and makes none after it.
Gone(p) == [player EXCEPT ![p] = Absent]
IsQuiet(p) == notifying.from # p

\* On exit the player is dropped, another kind is created anew, else it stays.
Compares(t) ==
    /\ At(t, "compare")
    /\ LET p == thread[t].p
       IN IF ~mEXIT /\ thread[t].newtype = player[p].kind
          THEN Goes(t, "install") /\ UNCHANGED player
          ELSE /\ IsQuiet(p) /\ player' = Gone(p)
               /\ thread' = [thread EXCEPT ![t].p = NoPlayer,
                                           ![t].at = IF mEXIT THEN "install" ELSE "create"]
    /\ UNCHANGED <<config, source, prepareVars, probeVars, exitVars, installVars, oldmsg,
                   notifying, clientVars, told>>

Replaces(t) ==
    /\ At(t, "replace") /\ IsQuiet(thread[t].p)
    /\ player' = Gone(thread[t].p)
    /\ thread' = [thread EXCEPT ![t].p = NoPlayer, ![t].at = "create"]
    /\ UNCHANGED <<config, source, prepareVars, probeVars, exitVars, installVars, oldmsg,
                   notifying, clientVars, told>>

\* Under mMutex; the player of an earlier preparation goes away.
Installs(t) ==
    LET p == thread[t].p
        surfaced == IF p = NoPlayer \/ msurfaceTexture = NoSurface THEN player
                    ELSE [player EXCEPT ![p].surface = msurfaceTexture]
    IN /\ At(t, "install")
       /\ mEXIT' = (mEXIT \/ p = NoPlayer)
       /\ mPlayer' = p
       /\ IF mPlayer = NoPlayer THEN player' = surfaced
          ELSE IsQuiet(mPlayer) /\ player' = [surfaced EXCEPT ![mPlayer] = Absent]
       /\ Goes(t, "request")
       /\ UNCHANGED <<config, source, prepareVars, probeVars, mRenderTid, waiting,
                      msurfaceTexture, subplayer_inited, oldmsg, notifying, clientVars, told>>

\* Mutant: goes on before the client has asked.
AwaitsNothing(t) ==
    /\ At(t, "request") /\ Goes(t, "flush")
    /\ UNCHANGED <<config, source, prepareVars, probeVars, exitVars, installVars, oldmsg,
                   player, notifying, clientVars, told>>

\* while (mPlayer != NULL && !mRequestPrepared), unless mEXIT
AwaitsRequest(t) ==
    /\ At(t, "request")
    /\ mPlayer = NoPlayer \/ mRequestPrepared \/ mEXIT
    /\ Goes(t, "flush")
    /\ UNCHANGED <<config, source, prepareVars, probeVars, exitVars, installVars, oldmsg,
                   player, notifying, clientVars, told>>

\* Sends what was stored, in its order, under mNotifyMutex; an error if there is
\* no player.
Flushes(t) ==
    /\ At(t, "flush")
    /\ IF mPlayer # NoPlayer
       THEN /\ notifying = NoMessage
            /\ told' = told \o [i \in DOMAIN oldmsg |-> Tell(oldmsg[i])]
            /\ oldmsg' = <<>> /\ subplayer_inited' = TRUE
       ELSE /\ told' = Append(told, [from |-> "AMSUPER_PLAYER", by |-> NoPlayer, msg |-> "error",
                                     request |-> requests])
            /\ UNCHANGED <<oldmsg, subplayer_inited>>
    /\ Goes(t, "end")
    /\ UNCHANGED <<config, source, prepareVars, probeVars, exitVars, mPlayer, msurfaceTexture,
                   player, notifying, clientVars>>

\* Mutant: ends without a signal.
ThreadEndsSilently(t) ==
    /\ At(t, "end") /\ Goes(t, "ended")
    /\ mRenderTid' = NoThread
    /\ UNCHANGED <<config, source, prepareVars, probeVars, mEXIT, waiting, installVars, oldmsg,
                   player, notifying, clientVars, told>>

ThreadEnds(t) ==
    /\ At(t, "end")
    /\ mRenderTid' = NoThread
    /\ waiting' \in Signalled(waiting)
    /\ Goes(t, "ended")
    /\ UNCHANGED <<config, source, prepareVars, probeVars, mEXIT, installVars, oldmsg, player,
                   notifying, clientVars, told>>

ThreadNext(t) ==
    \/ ThreadBegins(t) \/ Creates(t) \/ Probes(t) \/ TypeLoop(t) \/ TypeWaits(t) \/ TypeWakes(t)
    \/ GetsType(t) \/ Compares(t) \/ Replaces(t) \/ Installs(t) \/ AwaitsRequest(t)
    \/ Flushes(t) \/ ThreadEnds(t)

Next == ClientNext \/ PlayerNext \/ \E t \in Threads : ThreadNext(t)

Spec == Init /\ [][Next]_vars

\* Threads run; a player that opens a file comes to an end with it; a client that
\* releases goes on with it.
Fairness ==
    /\ \A t \in Threads : WF_vars(ThreadNext(t))
    /\ WF_vars(NotifySends)
    /\ \A p \in PlayerIds :
         SF_vars(player[p].phase \in {"opening", "typed", "sized"} /\ Opens(p))
    /\ WF_vars(SetDataSourceReturns)
    /\ WF_vars(Release \/ ReleaseLoop \/ ReleaseWaits \/ ReleaseWakes)
FairSpec == Spec /\ Fairness

-----------------------------------------------------------------------------
(* Properties.                                                              *)

PlayerState == [kind : Kinds, phase : Phases, typeTold : BOOLEAN, said : Seq(Messages),
                surface : {NoSurface} \cup Surfaces]
ThreadState == [at : Places, p : {NoPlayer} \cup PlayerIds, newtype : Kinds]
Entries == [from : PlayerIds, msg : Messages]
Events == [from : Kinds \cup {"AMSUPER_PLAYER"}, by : {NoPlayer} \cup PlayerIds,
           msg : Messages, request : 0..Sessions]

TypeOK ==
    /\ source \in {"none", "url", "fd"}
    /\ {isStartedPrepared, mRequestPrepared, Prepared, mPrepareErr, mTypeReady, isSwitchURL,
        mEXIT, subplayer_inited} \subseteq BOOLEAN
    /\ mRenderTid \in {NoThread} \cup Threads /\ mPlayer \in {NoPlayer} \cup PlayerIds
    /\ msurfaceTexture \in {NoSurface} \cup Surfaces
    /\ oldmsg \in Seq(Entries) /\ Len(oldmsg) <= OldMessages
    /\ waiting \subseteq {Client} \cup Threads
    /\ player \in [PlayerIds -> PlayerState] /\ thread \in [Threads -> ThreadState]
    /\ notifying \in Entries \cup {NoMessage} /\ told \in Seq(Events)
    /\ requests \in 0..Sessions /\ surfacesSet \in 0..MaxSurfaces

\* What came before the player was installed is made up for, whichever thread was
\* faster (Notify, setVideoSurfaceTexture, initThread): all it told has reached the
\* client or is stored for it, and it shows on the surface set last.
InstalledCatchesUp ==
    mPlayer # NoPlayer =>
        /\ player[mPlayer].surface = msurfaceTexture
        /\ notifying = NoMessage /\ ~mEXIT => \A i \in DOMAIN player[mPlayer].said :
            LET msg == player[mPlayer].said[i]
            IN \/ \E j \in DOMAIN told : told[j].by = mPlayer /\ told[j].msg = msg
               \/ \E j \in DOMAIN oldmsg : oldmsg[j] = Entry(mPlayer, msg)

\* The client hears of no player that was only tried: AmlogicPlayer may have told an
\* error, a size or that it is prepared before another kind replaced it.  Nor is it
\* told that a file is prepared before it has asked, though the player is prepared
\* as soon as the source is set (start mode 1).
ToldRightly ==
    \A i \in DOMAIN told :
        /\ told[i].from \in {"AMSUPER_PLAYER"} \cup {player[p].kind : p \in {mPlayer} \ {NoPlayer}}
        /\ told[i].msg \in {"size", "prepared"} => told[i].request > 0 \/ mEXIT

\* The signal of mTypeReady came between initThread's look at it and its wait.
MissedType(t) == At(t, "typeWait") /\ t \in waiting /\ mTypeReady
TypeIsMissed == \E t \in Threads : MissedType(t)

\* What the client waits for comes: MEDIA_PREPARED or MEDIA_ERROR after prepareAsync(),
\* through all changes of the player, unless it goes away; and a signal for release()
\* while initThread() runs.  Either may be missed with the signal of the type.
CallsAreAnswered ==
    /\ client = "preparing" ~>
          Said("prepared") \/ Said("error") \/ client # "preparing" \/ TypeIsMissed
    /\ client = "waiting" /\ mRenderTid # NoThread ~> client # "waiting" \/ TypeIsMissed

-----------------------------------------------------------------------------
(* Promises of comments that the code does not keep.                        *)

\* "if m3u8 file, only NU_Player can handle" (AmSuperPlayer.cpp:728): such a file is
\* given to a player of that kind in the end.
M3u8IsHandled ==
    client = "preparing" /\ fileType = "hevcHls" ~>
        mPlayer # NoPlayer \/ Said("error") \/ client # "preparing" \/ TypeIsMissed

\* "hevc/h.265 in ts format not support by libplayer now" (AmSuperPlayer.cpp:711): no
\* such file is played by AmlogicPlayer, which is libplayer's.
HevcTsNotByLibplayer ==
    fileType = "hevcTs" /\ mPlayer # NoPlayer => player[mPlayer].kind # "AMLOGIC_PLAYER"

\* "waite until libplayer prepare" (AmSuperPlayer.cpp:184): setDataSource() fails only
\* when preparing has failed.
WaitsUntilPrepared ==
    client = "error" => mPrepareErr \/ mEXIT

\* What one would expect beyond: every thread has ended with release(), release()
\* returns, and no message is told twice or before an earlier one.
NoThreadAfterRelease == client = "released" => \A t \in Threads : thread[t].at \in {"none", "ended"}
ReleaseReturns == client = "releasing" ~> client = "released"
ToldInOrder ==
    LET of(p) == SelectSeq(told, LAMBDA m : m.by = p)
    IN mPlayer # NoPlayer =>
        \A i \in DOMAIN of(mPlayer) :
            i \in DOMAIN player[mPlayer].said /\ of(mPlayer)[i].msg = player[mPlayer].said[i]
=============================================================================
