-------------------------- MODULE SuperPlayerProofs --------------------------
(* What AmSuperPlayer's client is told, proved for every file, start mode,    *)
(* number of players and of messages.                                         *)
EXTENDS SuperPlayer, Queues, Integers, FiniteSetTheorems, TLAPS

-----------------------------------------------------------------------------
(* Queues, whatever they hold: how often something is in one.             *)

LEMMA PlacesAreFinite ==
    ASSUME NEW n \in Nat, NEW P \in SUBSET (1 .. n)
    PROVE  IsFiniteSet(P) /\ Cardinality(P) \in Nat
<1>1. IsFiniteSet(1 .. n)
  BY FS_Interval
<1>2. IsFiniteSet(P)
  BY <1>1, FS_Subset
<1> QED BY <1>2, FS_CardinalityType

LEMMA OccurrencesType ==
    ASSUME NEW T, NEW q \in Seq(T), NEW x
    PROVE  /\ Occurrences(q, x) \in Nat
           /\ Occurrences(q, x) = 0 <=> \A i \in DOMAIN q : q[i] # x
<1> DEFINE P == {i \in DOMAIN q : q[i] = x}
<1>1. Len(q) \in Nat /\ P \in SUBSET (1 .. Len(q))
  OBVIOUS
<1>2. IsFiniteSet(P) /\ Cardinality(P) \in Nat
  <2> HIDE DEF P
  <2> QED BY <1>1, PlacesAreFinite
<1>3. Cardinality(P) = 0 <=> P = {}
  BY <1>2, FS_EmptySet
<1> QED BY <1>2, <1>3 DEF Occurrences

LEMMA OccurrencesOne ==
    ASSUME NEW a, NEW x
    PROVE  /\ Occurrences(<<>>, x) = 0
           /\ Occurrences(<<a>>, x) = IF a = x THEN 1 ELSE 0
<1>1. {i \in DOMAIN <<>> : <<>>[i] = x} = {}
  OBVIOUS
<1>2. {i \in DOMAIN <<a>> : <<a>>[i] = x} = IF a = x THEN {1} ELSE {}
  OBVIOUS
<1> QED BY <1>1, <1>2, FS_EmptySet, FS_Singleton DEF Occurrences

LEMMA OccurrencesAppend ==
    ASSUME NEW T, NEW q \in Seq(T), NEW a \in T, NEW x
    PROVE  /\ Append(q, a) \in Seq(T)
           /\ Occurrences(Append(q, a), x) = Occurrences(q, x) + (IF a = x THEN 1 ELSE 0)
<1> DEFINE n == Len(q)
           r == Append(q, a)
           P == {i \in 1 .. n : q[i] = x}
           R == {i \in 1 .. n + 1 : r[i] = x}
<1>1. /\ n \in Nat /\ DOMAIN q = 1 .. n /\ r \in Seq(T) /\ DOMAIN r = 1 .. n + 1
      /\ r[n + 1] = a /\ \A i \in 1 .. n : r[i] = q[i]
  OBVIOUS
<1> HIDE DEF n, r
<1>2. P \in SUBSET (1 .. n) /\ n + 1 \notin P /\ R = IF a = x THEN P \cup {n + 1} ELSE P
  BY <1>1
<1> HIDE DEF P, R
<1>3. IsFiniteSet(P) /\ Cardinality(P) \in Nat
  BY <1>1, <1>2, PlacesAreFinite
<1>4. Cardinality(R) = Cardinality(P) + (IF a = x THEN 1 ELSE 0)
  <2>1. Cardinality(P \cup {n + 1}) = Cardinality(P) + 1
    BY <1>2, <1>3, FS_AddElement
  <2> QED BY <1>2, <1>3, <2>1
<1> QED BY <1>1, <1>4 DEF Occurrences, P, R, r

-----------------------------------------------------------------------------
(* Types.                                                                     *)

SourceTypeOK == source \in {"none", "url", "fd"} /\ fileType \in FileTypes
FlagTypeOK ==
    /\ isStartedPrepared \in BOOLEAN /\ mRequestPrepared \in BOOLEAN /\ Prepared \in BOOLEAN
    /\ mPrepareErr \in BOOLEAN /\ mTypeReady \in BOOLEAN /\ isSwitchURL \in BOOLEAN
    /\ mEXIT \in BOOLEAN /\ subplayer_inited \in BOOLEAN
WaitTypeOK == mRenderTid \in {NoThread} \cup Threads /\ waiting \subseteq {Client} \cup Threads
InstallTypeOK == mPlayer \in {NoPlayer} \cup PlayerIds /\ msurfaceTexture \in {NoSurface} \cup Surfaces
StoreTypeOK == oldmsg \in Seq(Entries) /\ Len(oldmsg) <= OldMessages
PlayerTypeOK == player \in [PlayerIds -> PlayerState]
ThreadTypeOK == thread \in [Threads -> ThreadState]
NotifyTypeOK == notifying \in Entries \cup {NoMessage}
ToldTypeOK == told \in Seq(Events)
CountTypeOK == requests \in 0..Sessions /\ surfacesSet \in 0..MaxSurfaces
Types ==
    /\ SourceTypeOK /\ FlagTypeOK /\ WaitTypeOK /\ InstallTypeOK /\ StoreTypeOK /\ PlayerTypeOK
    /\ ThreadTypeOK /\ NotifyTypeOK /\ ToldTypeOK /\ CountTypeOK

LEMMA TypesAre == Types => TypeOK
  BY DEF Types, TypeOK, SourceTypeOK, FlagTypeOK, WaitTypeOK, InstallTypeOK, StoreTypeOK, PlayerTypeOK,
    ThreadTypeOK, NotifyTypeOK, ToldTypeOK, CountTypeOK

LEMMA Bounds == Sessions \in Nat /\ OldMessages \in Nat /\ MaxInfos \in Nat /\ MaxSurfaces \in Nat
  BY BoundsAssumption

LEMMA PlayerIdsAre == PlayerIds \subseteq Nat /\ NoPlayer \notin PlayerIds
  BY PlayerIdsAssumption DEF NoPlayer

\* The states of a player, and what becomes of one.
LEMMA PlayerStates ==
    /\ Absent \in PlayerState
    /\ \A kind \in Kinds : Created(kind) \in PlayerState
    /\ \A r \in PlayerState, phase \in Phases : [r EXCEPT !.phase = phase] \in PlayerState
    /\ \A r \in PlayerState, s \in {NoSurface} \cup Surfaces : [r EXCEPT !.surface = s] \in PlayerState
<1>1. Absent \in PlayerState
  BY DEF Absent, PlayerState, Kinds, Phases
<1>2. \A kind \in Kinds : Created(kind) \in PlayerState
  <2>1. \A kind \in Kinds : PlayerType(kind) \in Kinds
    BY DEF PlayerType, Kinds
  <2> QED BY <1>1, <2>1 DEF Created, PlayerState, Phases
<1>3. \A r \in PlayerState, phase \in Phases : [r EXCEPT !.phase = phase] \in PlayerState
  BY DEF PlayerState
<1>4. \A r \in PlayerState, s \in {NoSurface} \cup Surfaces : [r EXCEPT !.surface = s] \in PlayerState
  BY DEF PlayerState
<1> QED BY <1>1, <1>2, <1>3, <1>4

LEMMA KindOfType == \A type \in FileTypes \cup {"unknown"} : SuperGetPlayerType(type) \in Kinds
  BY FileTypesAssumption DEF SuperGetPlayerType, Kinds

LEMMA WaitersAre ==
    ASSUME WaitTypeOK, NEW W \in Signalled(waiting)
    PROVE  W \subseteq {Client} \cup Threads
  BY DEF WaitTypeOK, Signalled

LEMMA StoppedType ==
    ASSUME Types
    PROVE  Stopped \in [PlayerIds -> PlayerState]
<1>1. \A p \in PlayerIds : [player EXCEPT ![p].phase = "stopped"] \in [PlayerIds -> PlayerState]
  BY PlayerStates DEF Types, PlayerTypeOK, Phases
<1> QED BY <1>1 DEF Stopped, Types, PlayerTypeOK, InstallTypeOK

LEMMA SurfacedType ==
    ASSUME Types, NEW p \in PlayerIds, NEW s \in {NoSurface} \cup Surfaces
    PROVE  [player EXCEPT ![p].surface = s] \in [PlayerIds -> PlayerState]
  BY PlayerStates DEF Types, PlayerTypeOK

LEMMA GoneType ==
    ASSUME Types, NEW p
    PROVE  Gone(p) \in [PlayerIds -> PlayerState]
  BY PlayerStates DEF Types, PlayerTypeOK, Gone

\* A run of initThread() goes on.
LEMMA GoesType ==
    ASSUME Types, NEW t \in Threads, NEW where \in Places, Goes(t, where)
    PROVE  ThreadTypeOK'
  BY DEF Types, ThreadTypeOK, Goes, ThreadState

LEMMA StartsType ==
    ASSUME Types, StartsThread
    PROVE  ThreadTypeOK' /\ Prepared' \in BOOLEAN /\ isStartedPrepared' \in BOOLEAN
  BY DEF Types, ThreadTypeOK, StartsThread, ThreadState, Places

LEMMA ClientKeepsTypes ==
    ASSUME Types, ClientNext
    PROVE  Types'
<1> USE Bounds DEF Types, config, prepareVars, probeVars, exitVars, installVars, clientVars
<1>1. CASE SetDataSourceUrl \/ SetDataSourceReturns \/ ReleaseLoop \/ ReleaseWakes
  <2> USE DEF SourceTypeOK, FlagTypeOK, WaitTypeOK, InstallTypeOK, StoreTypeOK, PlayerTypeOK,
              ThreadTypeOK, NotifyTypeOK, ToldTypeOK, CountTypeOK
  <2>1. CASE SetDataSourceUrl
    BY <2>1 DEF SetDataSourceUrl
  <2>2. CASE SetDataSourceReturns
    BY <2>2 DEF SetDataSourceReturns
  <2>3. CASE ReleaseLoop
    BY <2>3 DEF ReleaseLoop
  <2>4. CASE ReleaseWakes
    BY <2>4 DEF ReleaseWakes
  <2> QED BY <1>1, <2>1, <2>2, <2>3, <2>4
<1>2. CASE SetDataSourceFd
  <2>1. ThreadTypeOK' /\ FlagTypeOK'
    BY <1>2, StartsType DEF SetDataSourceFd, ThreadTypeOK, FlagTypeOK
  <2> QED BY <1>2, <2>1 DEF SetDataSourceFd, SourceTypeOK, WaitTypeOK, InstallTypeOK, StoreTypeOK,
         PlayerTypeOK, NotifyTypeOK, ToldTypeOK, CountTypeOK
<1>3. CASE SetVideoSurfaceTexture
  <2>1. PICK s \in Surfaces :
           /\ msurfaceTexture' = s
           /\ player' = IF mPlayer = NoPlayer THEN player
                        ELSE [player EXCEPT ![mPlayer].surface = s]
    BY <1>3 DEF SetVideoSurfaceTexture
  <2>2. PlayerTypeOK' /\ InstallTypeOK'
    BY <1>3, <2>1, SurfacedType DEF SetVideoSurfaceTexture, PlayerTypeOK, InstallTypeOK
  <2> QED
    BY <1>3, <2>2 DEF SetVideoSurfaceTexture, SourceTypeOK, FlagTypeOK, WaitTypeOK, StoreTypeOK, ThreadTypeOK,
      NotifyTypeOK, ToldTypeOK, CountTypeOK
<1>4. CASE PrepareAsync
  <2>1. ThreadTypeOK' /\ FlagTypeOK'
    BY <1>4, StartsType DEF PrepareAsync, ThreadTypeOK, FlagTypeOK
  <2> QED BY <1>4, <2>1 DEF PrepareAsync, SourceTypeOK, WaitTypeOK, InstallTypeOK, StoreTypeOK,
         PlayerTypeOK, NotifyTypeOK, ToldTypeOK, CountTypeOK
<1>5. CASE Stop \/ Reset \/ Release
  <2>1. PlayerTypeOK'
    BY <1>5, StoppedType DEF Stop, Reset, Release, PlayerTypeOK
  <2>2. FlagTypeOK'
    <3>1. isStartedPrepared' \in BOOLEAN
      BY <1>5 DEF Stop, Reset, Release, FlagTypeOK
    <3>2. UNCHANGED <<mRequestPrepared, Prepared, mPrepareErr, mTypeReady, isSwitchURL, mEXIT,
                      subplayer_inited>>
      BY <1>5 DEF Stop, Reset, Release
    <3> QED BY <3>1, <3>2 DEF FlagTypeOK
  <2>3. SourceTypeOK' /\ WaitTypeOK' /\ InstallTypeOK'
    BY <1>5 DEF Stop, Reset, Release, SourceTypeOK, WaitTypeOK, InstallTypeOK
  <2>4. StoreTypeOK' /\ ThreadTypeOK' /\ NotifyTypeOK' /\ ToldTypeOK' /\ CountTypeOK'
    BY <1>5 DEF Stop, Reset, Release, StoreTypeOK, ThreadTypeOK, NotifyTypeOK, ToldTypeOK, CountTypeOK
  <2> QED BY <2>1, <2>2, <2>3, <2>4
<1>6. CASE ReleaseWaits
  <2>1. WaitTypeOK'
    BY <1>6, WaitersAre DEF ReleaseWaits, WaitTypeOK
  <2> QED BY <1>6, <2>1 DEF ReleaseWaits, SourceTypeOK, FlagTypeOK, InstallTypeOK,
         StoreTypeOK, PlayerTypeOK, ThreadTypeOK, NotifyTypeOK, ToldTypeOK, CountTypeOK
<1> QED BY <1>1, <1>2, <1>3, <1>4, <1>5, <1>6 DEF ClientNext

LEMMA PlayersKeepTypes ==
    ASSUME Types, PlayerNext
    PROVE  Types'
<1> USE Bounds DEF Types, config, prepareVars, probeVars, exitVars, installVars, clientVars
<1>1. CASE NotifySends
  <2>1. ToldTypeOK'
    <3>1. notifying \in Entries
      BY <1>1 DEF NotifySends, NotifyTypeOK
    <3>2. Tell(notifying) \in Events
      BY <3>1 DEF Tell, Events, Entries, PlayerTypeOK, PlayerState, CountTypeOK
    <3> QED BY <1>1, <3>2 DEF NotifySends, ToldTypeOK
  <2>2. NotifyTypeOK'
    BY <1>1 DEF NotifySends, NotifyTypeOK
  <2> QED BY <1>1, <2>1, <2>2 DEF NotifySends, SourceTypeOK, FlagTypeOK, WaitTypeOK, InstallTypeOK,
         StoreTypeOK, PlayerTypeOK, ThreadTypeOK, CountTypeOK
<1>2. ASSUME NEW p \in PlayerIds, NotifyType(p)
      PROVE  Types'
  <2>1. PlayerTypeOK'
    BY <1>2 DEF NotifyType, PlayerTypeOK, PlayerState, Phases
  <2>2. WaitTypeOK'
    BY <1>2, WaitersAre DEF NotifyType, WaitTypeOK
  <2> QED BY <1>2, <2>1, <2>2 DEF NotifyType, SourceTypeOK, FlagTypeOK, InstallTypeOK, StoreTypeOK,
         ThreadTypeOK, NotifyTypeOK, ToldTypeOK, CountTypeOK
<1>3. ASSUME NEW p \in PlayerIds, NEW msg \in Messages, NotifyBegins(p, msg)
      PROVE  Types'
  <2>1. PhaseAfter(p, msg) \in Phases
    BY DEF PhaseAfter, Phases, Messages, PlayerTypeOK, PlayerState
  <2>2. PlayerTypeOK'
    BY <1>3, <2>1 DEF NotifyBegins, PlayerTypeOK, PlayerState
  <2>3. WaitTypeOK'
    BY <1>3, WaitersAre DEF NotifyBegins, WaitTypeOK
  <2>4. Entry(p, msg) \in Entries
    BY DEF Entry, Entries
  <2>5. StoreTypeOK'
    BY <1>3, <2>4 DEF NotifyBegins, StoreTypeOK, IsStored, HasRoom
  <2>6. NotifyTypeOK'
    BY <1>3, <2>4 DEF NotifyBegins, NotifyTypeOK
  <2>7. Prepared' \in BOOLEAN /\ mPrepareErr' \in BOOLEAN /\ mTypeReady' \in BOOLEAN
    BY <1>3 DEF NotifyBegins, FlagTypeOK
  <2>8. FlagTypeOK'
    BY <1>3, <2>7 DEF NotifyBegins, FlagTypeOK
  <2> QED BY <1>3, <2>2, <2>3, <2>5, <2>6, <2>8 DEF NotifyBegins, SourceTypeOK, InstallTypeOK,
         ThreadTypeOK, ToldTypeOK, CountTypeOK
<1> QED BY <1>1, <1>2, <1>3 DEF PlayerNext, Opens, Messages

\* What a flush sends.
LEMMA SentType ==
    ASSUME Types
    PROVE  [i \in DOMAIN oldmsg |-> Tell(oldmsg[i])] \in Seq(Events)
<1>1. \A i \in DOMAIN oldmsg : oldmsg[i] \in Entries
  BY DEF Types, StoreTypeOK
<1>2. \A i \in DOMAIN oldmsg : Tell(oldmsg[i]) \in Events
  BY <1>1 DEF Tell, Events, Entries, Types, PlayerTypeOK, PlayerState, CountTypeOK
<1>3. DOMAIN oldmsg = 1..Len(oldmsg) /\ Len(oldmsg) \in Nat
  BY DEF Types, StoreTypeOK
<1> QED BY <1>2, <1>3

LEMMA ThreadsKeepTypes ==
    ASSUME Types, NEW t \in Threads, ThreadNext(t)
    PROVE  Types'
<1> USE Bounds DEF Types, config, prepareVars, probeVars, exitVars, installVars, clientVars
<1>1. CASE ThreadBegins(t) \/ Probes(t) \/ TypeLoop(t) \/ TypeWaits(t) \/ TypeWakes(t)
           \/ AwaitsRequest(t)
  <2>1. ThreadTypeOK'
    BY <1>1, GoesType DEF ThreadBegins, Probes, TypeLoop, TypeWaits, TypeWakes, AwaitsRequest, Places
  <2>2. WaitTypeOK'
    BY <1>1 DEF ThreadBegins, Probes, TypeLoop, TypeWaits, TypeWakes, AwaitsRequest, WaitTypeOK
  <2> QED
    BY <1>1, <2>1, <2>2 DEF ThreadBegins, Probes, TypeLoop, TypeWaits, TypeWakes, AwaitsRequest, SourceTypeOK,
      FlagTypeOK, InstallTypeOK, StoreTypeOK, PlayerTypeOK, NotifyTypeOK, ToldTypeOK, CountTypeOK
<1>2. CASE Creates(t)
  <2> DEFINE newtype == thread[t].newtype
  <2>1. newtype \in Kinds
    BY DEF ThreadTypeOK, ThreadState
  <2>2. PlayerTypeOK' /\ ThreadTypeOK'
    <3>1. CASE \E p \in PlayerIds :
                 /\ player' = [player EXCEPT ![p] = Created(newtype)]
                 /\ thread' = [thread EXCEPT ![t] = [at |-> "probe", p |-> p, newtype |-> newtype]]
      BY <2>1, <3>1, PlayerStates DEF PlayerTypeOK, ThreadTypeOK, ThreadState, Places
    <3>2. CASE /\ thread' = [thread EXCEPT ![t].newtype = "STAGEFRIGHT_PLAYER"]
               /\ UNCHANGED player
      BY <3>2 DEF PlayerTypeOK, ThreadTypeOK, ThreadState, Kinds
    <3>3. CASE /\ thread' = [thread EXCEPT ![t].at = "install", ![t].p = NoPlayer]
               /\ UNCHANGED player
      BY <3>3 DEF PlayerTypeOK, ThreadTypeOK, ThreadState, Places
    <3> QED BY <1>2, <3>1, <3>2, <3>3 DEF Creates
  <2>3. StoreTypeOK'
    <3>1. oldmsg' = <<>> /\ Len(<<>>) = 0 /\ <<>> \in Seq(Entries)
      BY <1>2 DEF Creates
    <3> QED BY <3>1 DEF StoreTypeOK
  <2>4. FlagTypeOK'
    <3>1. mTypeReady' = FALSE /\ UNCHANGED <<prepareVars, isSwitchURL, mEXIT, subplayer_inited>>
      BY <1>2 DEF Creates
    <3> QED BY <3>1 DEF FlagTypeOK
  <2> QED
    BY <1>2, <2>2, <2>3, <2>4 DEF Creates, SourceTypeOK, WaitTypeOK, InstallTypeOK, NotifyTypeOK, ToldTypeOK,
      CountTypeOK
<1>3. CASE GetsType(t)
  <2>1. PICK where \in Places, kind \in Kinds :
           thread' = [thread EXCEPT ![t].at = where, ![t].newtype = kind]
    <3> DEFINE known == mTypeReady /\ player[thread[t].p].typeTold
    <3>1. SuperGetPlayerType(IF known THEN fileType ELSE "unknown") \in Kinds
      BY KindOfType DEF SourceTypeOK
    <3>2. (IF (known /\ NeedRetry(t)) /\ ~mEXIT THEN "replace" ELSE "compare") \in Places
      BY DEF Places
    <3>3. thread' = [thread EXCEPT
              ![t].at = IF (known /\ NeedRetry(t)) /\ ~mEXIT THEN "replace" ELSE "compare",
              ![t].newtype = SuperGetPlayerType(IF known THEN fileType ELSE "unknown")]
      BY <1>3, Zenon DEF GetsType
    <3> QED BY <3>1, <3>2, <3>3
  <2>2. ThreadTypeOK'
    BY <2>1 DEF ThreadTypeOK, ThreadState
  <2>3. isSwitchURL' \in BOOLEAN
    BY <1>3 DEF GetsType, FlagTypeOK
  <2>4. FlagTypeOK'
    BY <1>3, <2>3 DEF GetsType, FlagTypeOK
  <2> QED BY <1>3, <2>2, <2>4 DEF GetsType, SourceTypeOK, WaitTypeOK, InstallTypeOK, StoreTypeOK,
         PlayerTypeOK, NotifyTypeOK, ToldTypeOK, CountTypeOK
<1>4. CASE Compares(t) \/ Replaces(t)
  <2>1. PlayerTypeOK'
    BY <1>4, GoneType DEF Compares, Replaces, PlayerTypeOK
  <2>2. ThreadTypeOK'
    <3>1. CASE Goes(t, "install")
      BY <3>1, GoesType DEF Places
    <3>2. CASE \E where \in {"install", "create"} :
                 thread' = [thread EXCEPT ![t].p = NoPlayer, ![t].at = where]
      <4>1. PICK where \in {"install", "create"} :
               thread' = [thread EXCEPT ![t].p = NoPlayer, ![t].at = where]
        BY <3>2
      <4>2. [thread[t] EXCEPT !.p = NoPlayer, !.at = where] \in ThreadState
        BY DEF ThreadTypeOK, ThreadState, Places
      <4> QED BY <4>1, <4>2 DEF ThreadTypeOK
    <3> QED BY <1>4, <3>1, <3>2 DEF Compares, Replaces
  <2> QED BY <1>4, <2>1, <2>2 DEF Compares, Replaces, SourceTypeOK, FlagTypeOK, WaitTypeOK,
         InstallTypeOK, StoreTypeOK, NotifyTypeOK, ToldTypeOK, CountTypeOK
<1>5. CASE Installs(t)
  <2> DEFINE p == thread[t].p
             surfaced == IF p = NoPlayer \/ msurfaceTexture = NoSurface THEN player
                         ELSE [player EXCEPT ![p].surface = msurfaceTexture]
  <2>1. p \in {NoPlayer} \cup PlayerIds
    BY DEF ThreadTypeOK, ThreadState
  <2>2. surfaced \in [PlayerIds -> PlayerState]
    <3>1. p # NoPlayer =>
            [player EXCEPT ![p].surface = msurfaceTexture] \in [PlayerIds -> PlayerState]
      BY <2>1, SurfacedType DEF InstallTypeOK
    <3> QED BY <3>1 DEF PlayerTypeOK
  <2>3. player' = surfaced \/ player' = [surfaced EXCEPT ![mPlayer] = Absent]
    BY <1>5, Zenon DEF Installs
  <2> HIDE DEF surfaced
  <2>4. PlayerTypeOK'
    BY <2>2, <2>3, PlayerStates DEF PlayerTypeOK
  <2>5. ThreadTypeOK'
    BY <1>5, GoesType DEF Installs, Places
  <2>6. InstallTypeOK'
    BY <1>5, <2>1 DEF Installs, InstallTypeOK
  <2>7. mEXIT' \in BOOLEAN
    BY <1>5 DEF Installs, FlagTypeOK
  <2>8. FlagTypeOK'
    BY <1>5, <2>7 DEF Installs, FlagTypeOK
  <2> QED BY <1>5, <2>4, <2>5, <2>6, <2>8 DEF Installs, SourceTypeOK, WaitTypeOK, StoreTypeOK,
         NotifyTypeOK, ToldTypeOK, CountTypeOK
<1>6. CASE Flushes(t)
  <2>1. ThreadTypeOK'
    BY <1>6, GoesType DEF Flushes, Places
  <2>2. StoreTypeOK'
    <3>1. Len(<<>>) = 0 /\ <<>> \in Seq(Entries)
      OBVIOUS
    <3>2. oldmsg' = oldmsg \/ oldmsg' = <<>>
      BY <1>6 DEF Flushes
    <3>3. CASE oldmsg' = oldmsg
      BY <3>3 DEF StoreTypeOK
    <3>4. CASE oldmsg' = <<>>
      BY <3>1, <3>4 DEF StoreTypeOK
    <3> QED BY <3>2, <3>3, <3>4
  <2>3. FlagTypeOK'
    <3>1. /\ subplayer_inited' = subplayer_inited \/ subplayer_inited' = TRUE
          /\ UNCHANGED <<prepareVars, mTypeReady, isSwitchURL, mEXIT>>
      BY <1>6 DEF Flushes
    <3> QED BY <3>1 DEF FlagTypeOK
  <2>4. ToldTypeOK'
    <3> DEFINE sent == [i \in DOMAIN oldmsg |-> Tell(oldmsg[i])]
               failed == [from |-> "AMSUPER_PLAYER", by |-> NoPlayer, msg |-> "error",
                          request |-> requests]
    <3>1. sent \in Seq(Events)
      BY SentType
    <3>2. failed \in Events
      BY DEF Events, Messages, CountTypeOK
    <3>3. told' = told \o sent \/ told' = Append(told, failed)
      BY <1>6, Zenon DEF Flushes
    <3>4. told \in Seq(Events)
      BY DEF ToldTypeOK
    <3> HIDE DEF sent, failed
    <3>5. told \o sent \in Seq(Events) /\ Append(told, failed) \in Seq(Events)
      BY <3>1, <3>2, <3>4
    <3> QED BY <3>3, <3>5 DEF ToldTypeOK
  <2> QED BY <1>6, <2>1, <2>2, <2>3, <2>4 DEF Flushes, SourceTypeOK, WaitTypeOK, InstallTypeOK,
         PlayerTypeOK, NotifyTypeOK, CountTypeOK
<1>7. CASE ThreadEnds(t)
  <2>1. ThreadTypeOK'
    BY <1>7, GoesType DEF ThreadEnds, Places
  <2>2. WaitTypeOK'
    BY <1>7, WaitersAre DEF ThreadEnds, WaitTypeOK
  <2> QED BY <1>7, <2>1, <2>2 DEF ThreadEnds, SourceTypeOK, FlagTypeOK, InstallTypeOK, StoreTypeOK,
         PlayerTypeOK, NotifyTypeOK, ToldTypeOK, CountTypeOK
<1> QED BY <1>1, <1>2, <1>3, <1>4, <1>5, <1>6, <1>7 DEF ThreadNext

LEMMA InitTypes == Init => Types
<1> SUFFICES ASSUME Init
             PROVE  Types
  OBVIOUS
<1>1. [at |-> "none", p |-> NoPlayer, newtype |-> "AMLOGIC_PLAYER"] \in ThreadState
  BY DEF ThreadState, Places, Kinds
<1>2. PlayerTypeOK /\ ThreadTypeOK
  BY <1>1, PlayerStates DEF Init, PlayerTypeOK, ThreadTypeOK
<1>3. StoreTypeOK /\ ToldTypeOK
  <2>1. oldmsg = <<>> /\ told = <<>> /\ Len(<<>>) = 0 /\ <<>> \in Seq(Entries) /\ <<>> \in Seq(Events)
    BY DEF Init
  <2> QED BY <2>1, Bounds DEF StoreTypeOK, ToldTypeOK
<1>4. SourceTypeOK /\ FlagTypeOK
  BY DEF Init, SourceTypeOK, FlagTypeOK
<1>5. WaitTypeOK /\ InstallTypeOK /\ NotifyTypeOK /\ CountTypeOK
  BY Bounds DEF Init, WaitTypeOK, InstallTypeOK, NotifyTypeOK, CountTypeOK
<1> QED BY <1>2, <1>3, <1>4, <1>5 DEF Types

LEMMA NextTypes == Types /\ [Next]_vars => Types'
<1>1. Types /\ UNCHANGED vars => Types'
  BY DEF vars, config, prepareVars, probeVars, exitVars, installVars, clientVars, Types, SourceTypeOK,
    FlagTypeOK, WaitTypeOK, InstallTypeOK, StoreTypeOK, PlayerTypeOK, ThreadTypeOK, NotifyTypeOK, ToldTypeOK,
    CountTypeOK
<1> QED BY <1>1, ClientKeepsTypes, PlayersKeepTypes, ThreadsKeepTypes DEF Next

\* For every file, every number of preparations, players and messages: what the
\* threads of AmSuperPlayer hand each other stays well typed, and oldmsg is never
\* filled beyond its room.
THEOREM TypeCorrect == Spec => []TypeOK
<1> QED BY InitTypes, NextTypes, TypesAre, PTL DEF Spec

-----------------------------------------------------------------------------
(* One preparation: one run of initThread(), and whose messages there are.    *)

Run == thread[1]
Trying == {"probe", "typeLoop", "typeLock", "typeWait", "typed", "compare", "replace"}
Installed == {"request", "flush", "end", "ended"}

\* The thread holds the only player there is, and only once it has created one.
HeldInv ==
    /\ \A p \in PlayerIds : p # Run.p => player[p] = Absent
    /\ Run.p # NoPlayer => player[Run.p].phase # "absent"
    /\ Run.at \in {"none", "born", "create"} => Run.p = NoPlayer
    /\ Run.at \in Trying => Run.p # NoPlayer

\* What calls back, what is stored and what is installed is of that player.
OwnInv ==
    /\ mPlayer = IF Run.at \in Installed THEN Run.p ELSE NoPlayer
    /\ notifying # NoMessage => Run.p # NoPlayer /\ notifying.from = Run.p
    /\ Run.p # NoPlayer => \A j \in DOMAIN oldmsg : oldmsg[j].from = Run.p

\* Once the thread sends, the client has asked or goes away.
AskedInv ==
    /\ mRequestPrepared => requests > 0
    /\ notifying # NoMessage /\ notifying.msg \in {"size", "prepared"} => mRequestPrepared
    /\ Run.at \in {"flush", "end", "ended"} /\ mPlayer # NoPlayer => mRequestPrepared \/ mEXIT
    /\ subplayer_inited => Run.at \in {"end", "ended"} /\ mPlayer # NoPlayer

RunInv == Types /\ HeldInv /\ OwnInv /\ AskedInv

LEMMA OneRun ==
    ASSUME Sessions = 1, Types
    PROVE  /\ Threads = {1}
           /\ Run \in ThreadState
           /\ mPlayer \in {NoPlayer} \cup PlayerIds /\ Run.p \in {NoPlayer} \cup PlayerIds
           /\ requests \in Nat
<1>1. Threads = {1} /\ requests \in Nat
  BY DEF Threads, Types, CountTypeOK
<1>2. Run \in ThreadState
  BY <1>1 DEF Run, Types, ThreadTypeOK
<1> QED BY <1>1, <1>2 DEF ThreadState, Types, InstallTypeOK

\* What a step of the client may do to the run.
ClientEffect ==
    /\ UNCHANGED <<mPlayer, notifying, oldmsg, told, subplayer_inited>>
    /\ Run'.p = Run.p
    /\ Run'.at = Run.at \/ (Run.at = "none" /\ Run'.at = "born")
    /\ requests' >= requests
    /\ mRequestPrepared => mRequestPrepared'
    /\ mRequestPrepared' => mRequestPrepared \/ requests' > 0
    /\ mEXIT => mEXIT'

PlayerEffect ==
    \/ UNCHANGED <<player, msurfaceTexture>>
    \/ mPlayer = NoPlayer /\ UNCHANGED player
    \/ /\ mPlayer # NoPlayer /\ UNCHANGED msurfaceTexture
       /\ player' = [player EXCEPT ![mPlayer].phase = "stopped"]
    \/ /\ mPlayer # NoPlayer
       /\ player' = [player EXCEPT ![mPlayer].surface = msurfaceTexture']

LEMMA ClientDoes ==
    ASSUME Sessions = 1, Types, ClientNext
    PROVE  ClientEffect /\ PlayerEffect
<1> USE DEF config, prepareVars, probeVars, exitVars, installVars, clientVars
<1>n. requests \in Nat /\ Run \in ThreadState /\ Threads = {1}
  BY OneRun
<1>0. StartsThread => Run'.p = Run.p /\ Run.at = "none" /\ Run'.at = "born"
  BY <1>n DEF StartsThread, Run, Types, ThreadTypeOK, ThreadState
<1>1. CASE SetDataSourceUrl \/ SetDataSourceReturns \/ ReleaseLoop \/ ReleaseWakes
  <2>1. UNCHANGED <<mPlayer, notifying, oldmsg, told, subplayer_inited, thread, requests,
                    mRequestPrepared, mEXIT, player, msurfaceTexture>>
    BY <1>1 DEF SetDataSourceUrl, SetDataSourceReturns, ReleaseLoop, ReleaseWakes
  <2> QED BY <1>n, <2>1 DEF ClientEffect, PlayerEffect, Run
<1>2. CASE SetDataSourceFd
  <2>1. UNCHANGED <<mPlayer, notifying, oldmsg, told, subplayer_inited, requests,
                    mRequestPrepared, mEXIT, player, msurfaceTexture>>
    BY <1>2 DEF SetDataSourceFd
  <2>2. StartsThread \/ UNCHANGED thread
    BY <1>2 DEF SetDataSourceFd
  <2> QED BY <1>n, <1>0, <2>1, <2>2 DEF ClientEffect, PlayerEffect, Run
<1>3. CASE SetVideoSurfaceTexture
  <2>1. UNCHANGED <<mPlayer, notifying, oldmsg, told, subplayer_inited, thread, requests,
                    mRequestPrepared, mEXIT>>
    BY <1>3 DEF SetVideoSurfaceTexture
  <2>2. player' = IF mPlayer = NoPlayer THEN player
                  ELSE [player EXCEPT ![mPlayer].surface = msurfaceTexture']
    BY <1>3 DEF SetVideoSurfaceTexture
  <2> QED BY <1>n, <2>1, <2>2 DEF ClientEffect, PlayerEffect, Run
<1>4. CASE PrepareAsync
  <2>1. UNCHANGED <<mPlayer, notifying, oldmsg, told, subplayer_inited, mEXIT, player,
                    msurfaceTexture>>
    BY <1>4 DEF PrepareAsync
  <2>2. StartsThread \/ UNCHANGED thread
    BY <1>4 DEF PrepareAsync
  <2>3. requests' = requests + 1 /\ mRequestPrepared'
    BY <1>4 DEF PrepareAsync
  <2> QED BY <1>n, <1>0, <2>1, <2>2, <2>3 DEF ClientEffect, PlayerEffect, Run
<1>5. CASE Stop \/ Reset \/ Release
  <2>1. UNCHANGED <<mPlayer, notifying, oldmsg, told, subplayer_inited, thread, requests,
                    mRequestPrepared, mEXIT, msurfaceTexture>>
    BY <1>5 DEF Stop, Reset, Release
  <2>2. player' = IF mPlayer = NoPlayer THEN player
                  ELSE [player EXCEPT ![mPlayer].phase = "stopped"]
    BY <1>5 DEF Stop, Reset, Release, Stopped
  <2> QED BY <1>n, <2>1, <2>2 DEF ClientEffect, PlayerEffect, Run
<1>6. CASE ReleaseWaits
  <2>1. UNCHANGED <<mPlayer, notifying, oldmsg, told, subplayer_inited, thread, requests,
                    mRequestPrepared, player, msurfaceTexture>> /\ mEXIT'
    BY <1>6 DEF ReleaseWaits
  <2> QED BY <1>n, <2>1 DEF ClientEffect, PlayerEffect, Run
<1> QED BY <1>1, <1>2, <1>3, <1>4, <1>5, <1>6 DEF ClientNext

\* The steps of the thread that only move it.
Moves(t) ==
    \/ ThreadBegins(t) \/ Probes(t) \/ TypeLoop(t) \/ TypeWaits(t) \/ TypeWakes(t)
    \/ GetsType(t) \/ AwaitsRequest(t) \/ ThreadEnds(t)

MoveEffect ==
    /\ UNCHANGED <<mPlayer, msurfaceTexture, notifying, oldmsg, told, subplayer_inited, player,
                   requests, mRequestPrepared, mEXIT>>
    /\ Run'.p = Run.p
    /\ \/ Run.at = "born" /\ Run'.at = "create"
       \/ Run.at \in Trying /\ Run'.at \in Trying
       \/ /\ Run.at = "request" /\ Run'.at = "flush"
          /\ mPlayer = NoPlayer \/ mRequestPrepared \/ mEXIT
       \/ Run.at = "end" /\ Run'.at = "ended"
       \/ Run.at = "compare" /\ Run'.at = "install"

LEMMA ThreadMoves ==
    ASSUME Sessions = 1, Types, NEW t \in Threads, Moves(t)
    PROVE  MoveEffect
<1> USE OneRun DEF config, prepareVars, probeVars, exitVars, installVars, clientVars
<1>1. t = 1
  OBVIOUS
<1>2. \A where : Goes(t, where) => Run'.p = Run.p /\ Run'.at = where
  BY <1>1 DEF Goes, Run, Types, ThreadTypeOK, ThreadState
<1>3. CASE ThreadBegins(t)
  BY <1>1, <1>2, <1>3 DEF ThreadBegins, MoveEffect, At, Run
<1>4. CASE Probes(t)
  BY <1>1, <1>2, <1>4 DEF Probes, MoveEffect, At, Run, Trying
<1>5. CASE TypeLoop(t)
  BY <1>1, <1>2, <1>5 DEF TypeLoop, MoveEffect, At, Run, Trying
<1>6. CASE TypeWaits(t)
  BY <1>1, <1>2, <1>6 DEF TypeWaits, MoveEffect, At, Run, Trying
<1>7. CASE TypeWakes(t)
  BY <1>1, <1>2, <1>7 DEF TypeWakes, MoveEffect, At, Run, Trying
<1>8. CASE GetsType(t)
  <2>1. PICK where \in {"replace", "compare"} :
           \E kind : thread' = [thread EXCEPT ![t].at = where, ![t].newtype = kind]
    BY <1>8 DEF GetsType
  <2>2. Run'.p = Run.p /\ Run'.at = where
    BY <1>1, <2>1 DEF Run, Types, ThreadTypeOK, ThreadState
  <2>3. UNCHANGED <<mPlayer, msurfaceTexture, notifying, oldmsg, told, subplayer_inited, player,
                   requests, mRequestPrepared, mEXIT>> /\ Run.at = "typed"
    BY <1>1, <1>8 DEF GetsType, At, Run
  <2> QED BY <2>2, <2>3 DEF MoveEffect, Trying
<1>9. CASE AwaitsRequest(t)
  BY <1>1, <1>2, <1>9 DEF AwaitsRequest, MoveEffect, At, Run
<1>10. CASE ThreadEnds(t)
  BY <1>1, <1>2, <1>10 DEF ThreadEnds, MoveEffect, At, Run
<1> QED BY <1>3, <1>4, <1>5, <1>6, <1>7, <1>8, <1>9, <1>10 DEF Moves

-----------------------------------------------------------------------------
(* Every step keeps what is known of the run.                                 *)

LEMMA ClientKeepsRun ==
    ASSUME Sessions = 1, RunInv, ClientNext
    PROVE  HeldInv' /\ OwnInv' /\ AskedInv'
<1>1. ClientEffect /\ PlayerEffect
  BY ClientDoes DEF RunInv
<1>2. /\ Run \in ThreadState /\ mPlayer \in {NoPlayer} \cup PlayerIds
      /\ player \in [PlayerIds -> PlayerState] /\ requests \in Nat
  BY OneRun DEF RunInv, Types, PlayerTypeOK
<1>3. mPlayer # NoPlayer => mPlayer = Run.p
  BY DEF RunInv, OwnInv
<1>4. /\ \A p \in PlayerIds \ {mPlayer} : player'[p] = player[p]
      /\ mPlayer # NoPlayer /\ player[mPlayer].phase # "absent" => player'[mPlayer].phase # "absent"
  BY <1>1, <1>2 DEF PlayerEffect, PlayerState
<1>5. HeldInv'
  <2>1. \A p \in PlayerIds : p # Run'.p => player'[p] = Absent
    BY <1>1, <1>3, <1>4, PlayerIdsAre DEF RunInv, HeldInv, ClientEffect
  <2>2. Run'.p # NoPlayer => player'[Run'.p].phase # "absent"
    BY <1>1, <1>2, <1>3, <1>4, OneRun DEF RunInv, HeldInv, ClientEffect
  <2>3. /\ Run'.at \in {"none", "born", "create"} => Run'.p = NoPlayer
        /\ Run'.at \in Trying => Run'.p # NoPlayer
    BY <1>1 DEF RunInv, HeldInv, ClientEffect, Trying
  <2> QED BY <2>1, <2>2, <2>3 DEF HeldInv
<1>6. OwnInv'
  <2>1. mPlayer' = IF Run'.at \in Installed THEN Run'.p ELSE NoPlayer
    BY <1>1 DEF RunInv, OwnInv, ClientEffect, Installed
  <2> QED BY <1>1, <2>1 DEF RunInv, OwnInv, ClientEffect
<1>7. AskedInv'
  <2>1. mRequestPrepared' => requests' > 0
    <3>1. requests' >= requests /\ requests' \in Nat
      BY <1>1, ClientKeepsTypes DEF ClientEffect, RunInv, Types, CountTypeOK
    <3> QED BY <1>1, <1>2, <3>1 DEF ClientEffect, RunInv, AskedInv
  <2>2. notifying' # NoMessage /\ notifying'.msg \in {"size", "prepared"} => mRequestPrepared'
    BY <1>1 DEF ClientEffect, RunInv, AskedInv
  <2>3. Run'.at \in {"flush", "end", "ended"} /\ mPlayer' # NoPlayer => mRequestPrepared' \/ mEXIT'
    BY <1>1 DEF ClientEffect, RunInv, AskedInv
  <2>4. subplayer_inited' => Run'.at \in {"end", "ended"} /\ mPlayer' # NoPlayer
    BY <1>1 DEF ClientEffect, RunInv, AskedInv
  <2> QED BY <2>1, <2>2, <2>3, <2>4 DEF AskedInv
<1> QED BY <1>5, <1>6, <1>7

LEMMA ToldKeepsRun ==
    ASSUME Sessions = 1, RunInv, NotifySends
    PROVE  HeldInv' /\ OwnInv' /\ AskedInv'
<1>1. /\ UNCHANGED <<thread, player, mPlayer, oldmsg, requests, mRequestPrepared, mEXIT,
                     subplayer_inited>>
      /\ notifying' = NoMessage
  BY DEF NotifySends, prepareVars, exitVars, installVars, clientVars
<1>2. HeldInv'
  BY <1>1 DEF RunInv, HeldInv, Run
<1>3. OwnInv'
  BY <1>1 DEF RunInv, OwnInv, Run
<1>4. AskedInv'
  BY <1>1 DEF RunInv, AskedInv, Run
<1> QED BY <1>2, <1>3, <1>4

\* Only the thread's player calls back.
LEMMA CallerIsOwn ==
    ASSUME Sessions = 1, RunInv, NEW p \in PlayerIds, player[p].phase # "absent"
    PROVE  p = Run.p
  BY DEF RunInv, HeldInv, Absent

LEMMA TypeKeepsRun ==
    ASSUME Sessions = 1, RunInv, NEW p \in PlayerIds, NotifyType(p)
    PROVE  HeldInv' /\ OwnInv' /\ AskedInv'
<1>1. /\ UNCHANGED <<thread, mPlayer, oldmsg, requests, mRequestPrepared, mEXIT, subplayer_inited,
                     notifying>>
      /\ player' = [player EXCEPT ![p].phase = "typed", ![p].typeTold = TRUE]
      /\ player[p].phase = "opening"
  BY DEF NotifyType, prepareVars, exitVars, installVars, clientVars
<1>2. p = Run.p
  BY <1>1, CallerIsOwn
<1>3. player'[p].phase = "typed" /\ \A q \in PlayerIds \ {p} : player'[q] = player[q]
  BY <1>1 DEF RunInv, Types, PlayerTypeOK, PlayerState
<1>4. HeldInv'
  BY <1>1, <1>2, <1>3 DEF RunInv, HeldInv, Run
<1>5. OwnInv'
  BY <1>1 DEF RunInv, OwnInv, Run
<1>6. AskedInv'
  BY <1>1 DEF RunInv, AskedInv, Run
<1> QED BY <1>4, <1>5, <1>6

\* What a message changes, and where it is then.
NotifyEffect(p, msg) ==
    LET asked == msg \in {"size", "prepared"} => mRequestPrepared
    IN /\ notifying = NoMessage /\ MaySay(p, msg)
       /\ player' = [player EXCEPT ![p].phase = PhaseAfter(p, msg), ![p].said = Append(@, msg)]
       /\ oldmsg' = IF IsStored(asked) THEN Append(oldmsg, Entry(p, msg)) ELSE oldmsg
       /\ notifying' = IF asked THEN Entry(p, msg) ELSE NoMessage
       /\ UNCHANGED <<thread, mPlayer, msurfaceTexture, requests, mRequestPrepared, mEXIT,
                      subplayer_inited, told>>

LEMMA NotifyDoes ==
    ASSUME NEW p \in PlayerIds, NEW msg \in Messages, NotifyBegins(p, msg)
    PROVE  NotifyEffect(p, msg)
  BY Zenon DEF NotifyBegins, NotifyEffect, installVars, clientVars

LEMMA MayNotBeAbsent ==
    ASSUME NEW p \in PlayerIds, NEW msg \in Messages, Types, MaySay(p, msg)
    PROVE  player[p].phase \in {"opening", "typed", "sized", "prepared"}
  BY DEF MaySay, Messages

LEMMA NotifyKeepsRun ==
    ASSUME Sessions = 1, RunInv, NEW p \in PlayerIds, NEW msg \in Messages, NotifyBegins(p, msg)
    PROVE  HeldInv' /\ OwnInv' /\ AskedInv'
<1>1. NotifyEffect(p, msg)
  BY NotifyDoes
<1>2. player[p].phase \in {"opening", "typed", "sized", "prepared"}
  BY <1>1, MayNotBeAbsent DEF NotifyEffect, RunInv
<1>3. p = Run.p /\ p # NoPlayer
  BY <1>2, CallerIsOwn, PlayerIdsAre
<1>4. player'[p].phase # "absent" /\ \A q \in PlayerIds \ {p} : player'[q] = player[q]
  <2>1. PhaseAfter(p, msg) # "absent"
    BY <1>2 DEF PhaseAfter, Messages
  <2>2. player' = [player EXCEPT ![p].phase = PhaseAfter(p, msg), ![p].said = Append(@, msg)]
    BY <1>1 DEF NotifyEffect
  <2> QED BY <2>1, <2>2 DEF RunInv, Types, PlayerTypeOK, PlayerState
<1>5. UNCHANGED <<thread, mPlayer, requests, mRequestPrepared, mEXIT, subplayer_inited>>
  BY <1>1 DEF NotifyEffect
<1>6. notifying' = NoMessage \/ (notifying' = Entry(p, msg) /\ (msg \in {"size", "prepared"} => mRequestPrepared))
  BY <1>1 DEF NotifyEffect
<1>7. HeldInv'
  BY <1>3, <1>4, <1>5 DEF RunInv, HeldInv, Run
<1>8. OwnInv'
  <2>1. \A j \in DOMAIN oldmsg' : oldmsg'[j].from = Run.p
    <3>1. oldmsg \in Seq(Entries) /\ \A j \in DOMAIN oldmsg : oldmsg[j].from = Run.p
      BY <1>3 DEF RunInv, OwnInv, Types, StoreTypeOK
    <3>2. Entry(p, msg).from = Run.p
      BY <1>3 DEF Entry
    <3>3. oldmsg' = oldmsg \/ oldmsg' = Append(oldmsg, Entry(p, msg))
      BY <1>1 DEF NotifyEffect
    <3> QED BY <3>1, <3>2, <3>3
  <2>2. notifying' # NoMessage => notifying'.from = Run.p
    BY <1>3, <1>6 DEF Entry
  <2> QED BY <1>3, <1>5, <2>1, <2>2 DEF RunInv, OwnInv, Run
<1>9. AskedInv'
  BY <1>5, <1>6 DEF RunInv, AskedInv, Run, Entry
<1> QED BY <1>7, <1>8, <1>9

LEMMA MovesKeepRun ==
    ASSUME Sessions = 1, RunInv, MoveEffect
    PROVE  HeldInv' /\ OwnInv' /\ AskedInv'
<1>1. HeldInv'
  BY DEF RunInv, HeldInv, MoveEffect, Trying
<1>2. OwnInv'
  BY DEF RunInv, OwnInv, MoveEffect, Trying, Installed
<1>3. AskedInv'
  BY DEF RunInv, AskedInv, MoveEffect, Trying
<1> QED BY <1>1, <1>2, <1>3

\* The steps of the thread that change a player or what the client is told.
CreateEffect ==
    /\ UNCHANGED <<mPlayer, msurfaceTexture, notifying, told, subplayer_inited, requests,
                   mRequestPrepared, mEXIT>>
    /\ Run.at = "create" /\ notifying = NoMessage /\ oldmsg' = <<>>
    /\ \/ \E p \in PlayerIds : /\ player' = [player EXCEPT ![p] = Created(Run.newtype)]
                               /\ Run'.p = p /\ Run'.at = "probe"
       \/ UNCHANGED player /\ Run'.p = NoPlayer /\ Run'.at \in {"create", "install"}

DropEffect ==
    /\ UNCHANGED <<mPlayer, msurfaceTexture, notifying, oldmsg, told, subplayer_inited, requests,
                   mRequestPrepared, mEXIT>>
    /\ Run.at \in {"compare", "replace"} /\ IsQuiet(Run.p) /\ player' = Gone(Run.p)
    /\ Run'.p = NoPlayer /\ Run'.at \in {"create", "install"}

InstallEffect ==
    /\ UNCHANGED <<msurfaceTexture, notifying, oldmsg, told, subplayer_inited, requests,
                   mRequestPrepared>>
    /\ Run.at = "install" /\ mPlayer' = Run.p /\ Run'.p = Run.p /\ Run'.at = "request"
    /\ player' = IF Run.p = NoPlayer \/ msurfaceTexture = NoSurface THEN player
                 ELSE [player EXCEPT ![Run.p].surface = msurfaceTexture]
    /\ mEXIT => mEXIT'

FlushEffect ==
    /\ UNCHANGED <<mPlayer, msurfaceTexture, player, notifying, requests, mRequestPrepared, mEXIT>>
    /\ Run.at = "flush" /\ Run'.p = Run.p /\ Run'.at = "end"
    /\ IF mPlayer # NoPlayer
       THEN /\ notifying = NoMessage
            /\ told' = told \o [i \in DOMAIN oldmsg |-> Tell(oldmsg[i])]
            /\ oldmsg' = <<>> /\ subplayer_inited' = TRUE
       ELSE /\ told' = Append(told, [from |-> "AMSUPER_PLAYER", by |-> NoPlayer, msg |-> "error",
                                     request |-> requests])
            /\ UNCHANGED <<oldmsg, subplayer_inited>>

LEMMA ThreadDoes ==
    ASSUME Sessions = 1, RunInv, NEW t \in Threads, ThreadNext(t)
    PROVE  MoveEffect \/ CreateEffect \/ DropEffect \/ InstallEffect \/ FlushEffect
<1> USE DEF config, prepareVars, probeVars, exitVars, installVars, clientVars
<1>1. t = 1 /\ thread \in [Threads -> ThreadState] /\ 1 \in Threads
  BY OneRun DEF RunInv, Types, ThreadTypeOK
<1>2. \A where : Goes(t, where) => Run'.p = Run.p /\ Run'.at = where
  BY <1>1 DEF Goes, Run, ThreadState
<1>3. CASE Moves(t)
  BY <1>3, ThreadMoves DEF RunInv
<1>4. CASE Creates(t)
  <2>1. /\ UNCHANGED <<mPlayer, msurfaceTexture, notifying, told, subplayer_inited, requests,
                       mRequestPrepared, mEXIT>>
        /\ Run.at = "create" /\ notifying = NoMessage /\ oldmsg' = <<>>
    BY <1>1, <1>4 DEF Creates, At, Run
  <2>2. Run.p = NoPlayer
    BY <2>1 DEF RunInv, HeldInv
  <2>3. CASE \E p \in PlayerIds :
               /\ player' = [player EXCEPT ![p] = Created(thread[t].newtype)]
               /\ thread' = [thread EXCEPT ![t] = [at |-> "probe", p |-> p, newtype |-> thread[t].newtype]]
    <3>1. PICK p \in PlayerIds :
             /\ player' = [player EXCEPT ![p] = Created(thread[t].newtype)]
             /\ thread' = [thread EXCEPT ![t] = [at |-> "probe", p |-> p, newtype |-> thread[t].newtype]]
      BY <2>3
    <3>2. Run'.p = p /\ Run'.at = "probe" /\ thread[t].newtype = Run.newtype
      BY <1>1, <3>1 DEF Run
    <3> QED BY <2>1, <3>1, <3>2 DEF CreateEffect
  <2>4. CASE /\ thread' = [thread EXCEPT ![t].newtype = "STAGEFRIGHT_PLAYER"]
             /\ UNCHANGED player
    BY <1>1, <2>1, <2>2, <2>4 DEF CreateEffect, Run, ThreadState
  <2>5. CASE /\ thread' = [thread EXCEPT ![t].at = "install", ![t].p = NoPlayer]
             /\ UNCHANGED player
    BY <1>1, <2>1, <2>5 DEF CreateEffect, Run, ThreadState
  <2> QED BY <1>4, <2>3, <2>4, <2>5 DEF Creates
<1>5. CASE Compares(t)
  <2>1. /\ UNCHANGED <<mPlayer, msurfaceTexture, notifying, oldmsg, told, subplayer_inited, requests,
                       mRequestPrepared, mEXIT>>
        /\ Run.at = "compare"
    BY <1>1, <1>5 DEF Compares, At, Run
  <2>2. CASE Goes(t, "install") /\ UNCHANGED player
    BY <1>2, <2>1, <2>2 DEF MoveEffect
  <2>3. CASE /\ IsQuiet(Run.p) /\ player' = Gone(Run.p)
             /\ \E where \in {"create", "install"} :
                   thread' = [thread EXCEPT ![t].p = NoPlayer, ![t].at = where]
    BY <1>1, <2>1, <2>3 DEF DropEffect, Run, ThreadState
  <2> QED BY <1>1, <1>5, <2>2, <2>3 DEF Compares, Run
<1>6. CASE Replaces(t)
  <2>1. /\ UNCHANGED <<mPlayer, msurfaceTexture, notifying, oldmsg, told, subplayer_inited, requests,
                       mRequestPrepared, mEXIT>>
        /\ Run.at = "replace" /\ IsQuiet(Run.p) /\ player' = Gone(Run.p)
    BY <1>1, <1>6 DEF Replaces, At, Run
  <2>2. Run'.p = NoPlayer /\ Run'.at = "create"
    BY <1>1, <1>6 DEF Replaces, Run, ThreadState
  <2> QED BY <2>1, <2>2 DEF DropEffect
<1>7. CASE Installs(t)
  <2>1. Run.at = "install" /\ mPlayer = NoPlayer
    BY <1>1, <1>7 DEF Installs, At, Run, RunInv, OwnInv, Installed
  <2>2. player' = IF Run.p = NoPlayer \/ msurfaceTexture = NoSurface THEN player
                  ELSE [player EXCEPT ![Run.p].surface = msurfaceTexture]
    BY <1>1, <1>7, <2>1 DEF Installs, Run
  <2>3. UNCHANGED <<msurfaceTexture, notifying, oldmsg, told, subplayer_inited, requests,
                    mRequestPrepared>>
    BY <1>7 DEF Installs
  <2>4. mPlayer' = Run.p /\ Run'.p = Run.p /\ Run'.at = "request" /\ (mEXIT => mEXIT')
    BY <1>1, <1>2, <1>7 DEF Installs, Run
  <2> QED BY <2>1, <2>2, <2>3, <2>4, Zenon DEF InstallEffect
<1>8. CASE Flushes(t)
  <2>1. Run.at = "flush" /\ Run'.p = Run.p /\ Run'.at = "end"
    BY <1>1, <1>2, <1>8 DEF Flushes, At, Run
  <2>2. UNCHANGED <<mPlayer, msurfaceTexture, player, notifying, requests, mRequestPrepared, mEXIT>>
    BY <1>8 DEF Flushes
  <2> QED BY <1>8, <2>1, <2>2, Zenon DEF Flushes, FlushEffect
<1> QED BY <1>3, <1>4, <1>5, <1>6, <1>7, <1>8 DEF ThreadNext, Moves

LEMMA CreateKeepsRun ==
    ASSUME Sessions = 1, RunInv, CreateEffect
    PROVE  HeldInv' /\ OwnInv' /\ AskedInv'
<1>1. /\ Run.p = NoPlayer /\ mPlayer = NoPlayer /\ \A p \in PlayerIds : player[p] = Absent
      /\ player \in [PlayerIds -> PlayerState]
  BY PlayerIdsAre DEF RunInv, HeldInv, OwnInv, CreateEffect, Installed, Types, PlayerTypeOK
<1>2. HeldInv'
  <2>1. CASE UNCHANGED player /\ Run'.p = NoPlayer /\ Run'.at \in {"create", "install"}
    BY <1>1, <2>1 DEF HeldInv, Trying
  <2>2. ASSUME NEW p \in PlayerIds, player' = [player EXCEPT ![p] = Created(Run.newtype)],
               Run'.p = p, Run'.at = "probe"
        PROVE  HeldInv'
    <3>1. player'[p].phase = "opening" /\ \A q \in PlayerIds \ {p} : player'[q] = Absent
      BY <1>1, <2>2 DEF Created, Absent
    <3> QED BY <2>2, <3>1, PlayerIdsAre DEF HeldInv, Trying
  <2> QED BY <2>1, <2>2 DEF CreateEffect
<1>3. OwnInv'
  BY <1>1 DEF RunInv, OwnInv, CreateEffect, Installed
<1>4. AskedInv'
  BY <1>1 DEF RunInv, AskedInv, CreateEffect
<1> QED BY <1>2, <1>3, <1>4

LEMMA DropKeepsRun ==
    ASSUME Sessions = 1, RunInv, DropEffect
    PROVE  HeldInv' /\ OwnInv' /\ AskedInv'
<1>1. Run.p # NoPlayer /\ Run.p \in PlayerIds /\ mPlayer = NoPlayer /\ notifying = NoMessage
  BY OneRun DEF RunInv, HeldInv, OwnInv, DropEffect, Installed, Trying, IsQuiet
<1>2. \A p \in PlayerIds : player'[p] = Absent
  BY <1>1 DEF RunInv, HeldInv, DropEffect, Gone, Types, PlayerTypeOK
<1>3. HeldInv'
  BY <1>2 DEF HeldInv, DropEffect, Trying
<1>4. OwnInv'
  BY <1>1 DEF OwnInv, DropEffect, Installed
<1>5. AskedInv'
  BY <1>1 DEF RunInv, AskedInv, DropEffect
<1> QED BY <1>3, <1>4, <1>5

LEMMA InstallKeepsRun ==
    ASSUME Sessions = 1, RunInv, InstallEffect
    PROVE  HeldInv' /\ OwnInv' /\ AskedInv'
<1>1. /\ \A p \in PlayerIds : p # Run.p => player'[p] = player[p]
      /\ Run.p # NoPlayer => player'[Run.p].phase = player[Run.p].phase
  BY OneRun DEF RunInv, Types, PlayerTypeOK, PlayerState, InstallEffect
<1>2. HeldInv'
  BY <1>1 DEF RunInv, HeldInv, InstallEffect, Trying
<1>3. OwnInv'
  BY DEF RunInv, OwnInv, InstallEffect, Installed
<1>4. AskedInv'
  BY DEF RunInv, AskedInv, InstallEffect
<1> QED BY <1>2, <1>3, <1>4

LEMMA FlushKeepsRun ==
    ASSUME Sessions = 1, RunInv, FlushEffect
    PROVE  HeldInv' /\ OwnInv' /\ AskedInv'
<1>1. HeldInv'
  BY DEF RunInv, HeldInv, FlushEffect, Trying
<1>2. OwnInv'
  BY DEF RunInv, OwnInv, FlushEffect, Installed
<1>3. AskedInv'
  BY DEF RunInv, AskedInv, FlushEffect
<1> QED BY <1>1, <1>2, <1>3

LEMMA InitRun == Sessions = 1 /\ Init => RunInv
<1> SUFFICES ASSUME Sessions = 1, Init
             PROVE  RunInv
  OBVIOUS
<1>1. Types /\ Run = [at |-> "none", p |-> NoPlayer, newtype |-> "AMLOGIC_PLAYER"]
  BY InitTypes, OneRun DEF Init, Run
<1>2. HeldInv
  BY <1>1 DEF Init, HeldInv, Trying
<1>3. OwnInv
  BY <1>1 DEF Init, OwnInv, Installed
<1>4. AskedInv
  BY <1>1 DEF Init, AskedInv
<1> QED BY <1>1, <1>2, <1>3, <1>4 DEF RunInv

LEMMA NextRun == Sessions = 1 /\ RunInv /\ [Next]_vars => RunInv'
<1> SUFFICES ASSUME Sessions = 1, RunInv, [Next]_vars
             PROVE  HeldInv' /\ OwnInv' /\ AskedInv'
  BY NextTypes DEF RunInv
<1>1. CASE UNCHANGED vars
  BY <1>1 DEF RunInv, HeldInv, OwnInv, AskedInv, Run, vars, prepareVars, exitVars, installVars, clientVars
<1>2. CASE ClientNext
  BY <1>2, ClientKeepsRun
<1>3. CASE PlayerNext
  BY <1>3, ToldKeepsRun, TypeKeepsRun, NotifyKeepsRun DEF PlayerNext, Opens, Messages
<1>4. CASE \E t \in Threads : ThreadNext(t)
  BY <1>4, ThreadDoes, MovesKeepRun, CreateKeepsRun, DropKeepsRun, InstallKeepsRun, FlushKeepsRun
<1> QED BY <1>1, <1>2, <1>3, <1>4 DEF Next

-----------------------------------------------------------------------------
(* What the client is told.                                                   *)

LEMMA ToldRight ==
    ToldRightly <=>
        \A i \in DOMAIN told :
            /\ told[i].from = "AMSUPER_PLAYER" \/ (mPlayer # NoPlayer /\ told[i].from = player[mPlayer].kind)
            /\ told[i].msg \in {"size", "prepared"} => told[i].request > 0 \/ mEXIT
  BY DEF ToldRightly

\* The player installed stays, and so does its kind.
LEMMA InstalledStays ==
    ASSUME Sessions = 1, RunInv, Next, mPlayer # NoPlayer
    PROVE  mPlayer' = mPlayer /\ player'[mPlayer].kind = player[mPlayer].kind
<1>1. mPlayer \in PlayerIds /\ player \in [PlayerIds -> PlayerState] /\ mPlayer = Run.p
  BY OneRun DEF RunInv, OwnInv, Types, PlayerTypeOK
<1>2. CASE ClientNext
  BY <1>1, <1>2, ClientDoes DEF RunInv, ClientEffect, PlayerEffect, PlayerState
<1>3. CASE NotifySends
  BY <1>3 DEF NotifySends, installVars
<1>4. ASSUME NEW p \in PlayerIds, NotifyType(p)
      PROVE  mPlayer' = mPlayer /\ player'[mPlayer].kind = player[mPlayer].kind
  BY <1>1, <1>4 DEF NotifyType, installVars, PlayerState
<1>5. ASSUME NEW p \in PlayerIds, NEW msg \in Messages, NotifyBegins(p, msg)
      PROVE  mPlayer' = mPlayer /\ player'[mPlayer].kind = player[mPlayer].kind
  <2>1. NotifyEffect(p, msg)
    BY <1>5, NotifyDoes
  <2>2. /\ player' = [player EXCEPT ![p].phase = PhaseAfter(p, msg), ![p].said = Append(@, msg)]
        /\ mPlayer' = mPlayer
    BY <2>1 DEF NotifyEffect
  <2> QED BY <1>1, <2>2 DEF PlayerState
<1>6. CASE \E t \in Threads : ThreadNext(t)
  <2>1. MoveEffect \/ CreateEffect \/ DropEffect \/ InstallEffect \/ FlushEffect
    BY <1>6, ThreadDoes
  <2>2. Run.at \in Installed
    BY DEF RunInv, OwnInv
  <2> QED
    BY <2>1, <2>2 DEF MoveEffect, CreateEffect, DropEffect, InstallEffect, FlushEffect, Installed
<1> QED BY <1>2, <1>3, <1>4, <1>5, <1>6 DEF Next, PlayerNext, Opens, Messages

\* What the client has been told stays right; what it is told goes to its end.
LEMMA ExitStays ==
    ASSUME Sessions = 1, RunInv, Next, mEXIT
    PROVE  mEXIT'
<1>1. CASE ClientNext
  BY <1>1, ClientDoes DEF RunInv, ClientEffect
<1>2. CASE NotifySends
  BY <1>2 DEF NotifySends, exitVars
<1>3. ASSUME NEW p \in PlayerIds, NotifyType(p)
      PROVE  mEXIT'
  BY <1>3 DEF NotifyType
<1>4. ASSUME NEW p \in PlayerIds, NEW msg \in Messages, NotifyBegins(p, msg)
      PROVE  mEXIT'
  BY <1>4, NotifyDoes DEF NotifyEffect
<1>5. CASE \E t \in Threads : ThreadNext(t)
  <2>1. MoveEffect \/ CreateEffect \/ DropEffect \/ InstallEffect \/ FlushEffect
    BY <1>5, ThreadDoes
  <2> QED BY <2>1 DEF MoveEffect, CreateEffect, DropEffect, InstallEffect, FlushEffect
<1> QED BY <1>1, <1>2, <1>3, <1>4, <1>5 DEF Next, PlayerNext, Opens, Messages

RightEvent(e) ==
    /\ e.from = "AMSUPER_PLAYER" \/ (mPlayer # NoPlayer /\ e.from = player[mPlayer].kind)
    /\ e.msg \in {"size", "prepared"} => e.request > 0 \/ mEXIT

LEMMA ToldNow ==
    ASSUME Sessions = 1, RunInv, Next
    PROVE  \/ told' = told
           \/ \E e \in Events : told' = Append(told, e) /\ RightEvent(e)
           \/ /\ mPlayer # NoPlayer /\ Run.at = "flush" /\ notifying = NoMessage /\ oldmsg' = <<>>
              /\ told' = told \o [i \in DOMAIN oldmsg |-> Tell(oldmsg[i])]
<1>1. CASE ClientNext
  BY <1>1, ClientDoes DEF RunInv, ClientEffect
<1>2. CASE NotifySends
  <2>1. CASE mPlayer = NoPlayer
    BY <1>2, <2>1 DEF NotifySends
  <2>2. CASE mPlayer # NoPlayer
    <3>1. notifying \in Entries /\ notifying.from = mPlayer
      BY <1>2, <2>2 DEF NotifySends, RunInv, OwnInv, Types, NotifyTypeOK
    <3>2. notifying.msg \in {"size", "prepared"} => requests > 0
      BY <1>2 DEF NotifySends, RunInv, AskedInv
    <3>3. Tell(notifying) \in Events
      BY <3>1 DEF Tell, Events, Entries, RunInv, Types, PlayerTypeOK, PlayerState, CountTypeOK
    <3>4. RightEvent(Tell(notifying))
      BY <2>2, <3>1, <3>2 DEF RightEvent, Tell
    <3>5. told' = Append(told, Tell(notifying))
      BY <1>2, <2>2 DEF NotifySends
    <3> QED BY <3>3, <3>4, <3>5
  <2> QED BY <2>1, <2>2
<1>3. ASSUME NEW p \in PlayerIds, NotifyType(p)
      PROVE  told' = told
  BY <1>3 DEF NotifyType
<1>4. ASSUME NEW p \in PlayerIds, NEW msg \in Messages, NotifyBegins(p, msg)
      PROVE  told' = told
  BY <1>4, NotifyDoes DEF NotifyEffect
<1>5. CASE \E t \in Threads : ThreadNext(t)
  <2>1. MoveEffect \/ CreateEffect \/ DropEffect \/ InstallEffect \/ FlushEffect
    BY <1>5, ThreadDoes
  <2>2. CASE FlushEffect /\ mPlayer # NoPlayer
    BY <2>2, Zenon DEF FlushEffect
  <2>3. CASE FlushEffect /\ mPlayer = NoPlayer
    <3> DEFINE e == [from |-> "AMSUPER_PLAYER", by |-> NoPlayer, msg |-> "error",
                     request |-> requests]
    <3>1. e \in Events /\ RightEvent(e)
      BY DEF Events, Messages, RunInv, Types, CountTypeOK, RightEvent
    <3>2. told' = Append(told, e)
      BY <2>3 DEF FlushEffect
    <3> QED BY <3>1, <3>2
  <2> QED BY <2>1, <2>2, <2>3 DEF MoveEffect, CreateEffect, DropEffect, InstallEffect
<1> QED BY <1>1, <1>2, <1>3, <1>4, <1>5 DEF Next, PlayerNext, Opens, Messages

LEMMA StoredIsRight ==
    ASSUME Sessions = 1, RunInv, mPlayer # NoPlayer, Run.at = "flush", NEW i \in DOMAIN oldmsg
    PROVE  RightEvent(Tell(oldmsg[i]))
<1>1. oldmsg[i] \in Entries /\ oldmsg[i].from = mPlayer
  BY DEF RunInv, OwnInv, Types, StoreTypeOK
<1>2. requests > 0 \/ mEXIT
  BY DEF RunInv, AskedInv
<1> QED BY <1>1, <1>2 DEF RightEvent, Tell

LEMMA NextTold ==
    ASSUME Sessions = 1, RunInv, ToldRightly, Next
    PROVE  ToldRightly'
<1>1. \A i \in DOMAIN told : RightEvent(told[i])
  BY ToldRight DEF RightEvent
<1>2. told \in Seq(Events)
  BY DEF RunInv, Types, ToldTypeOK
<1>3. \A i \in DOMAIN told' : RightEvent(told'[i])
  <2>1. CASE told' = told
    BY <1>1, <2>1
  <2>2. ASSUME NEW e \in Events, told' = Append(told, e), RightEvent(e)
        PROVE  \A i \in DOMAIN told' : RightEvent(told'[i])
    BY <1>1, <1>2, <2>2
  <2>3. CASE /\ mPlayer # NoPlayer /\ Run.at = "flush"
             /\ told' = told \o [i \in DOMAIN oldmsg |-> Tell(oldmsg[i])]
    <3> DEFINE sent == [i \in DOMAIN oldmsg |-> Tell(oldmsg[i])]
    <3>1. oldmsg \in Seq(Entries)
      BY DEF RunInv, Types, StoreTypeOK
    <3>2. PICK s \in Seq(Events) : s = sent
      BY SentType DEF RunInv
    <3>3. DOMAIN s = 1 .. Len(oldmsg) /\ Len(oldmsg) \in Nat /\ \A i \in DOMAIN s : RightEvent(s[i])
      BY <2>3, <3>1, <3>2, StoredIsRight
    <3>4. told' = told \o s
      BY <2>3, <3>2
    <3> HIDE DEF sent
    <3> QED BY <1>1, <1>2, <3>3, <3>4
  <2> QED BY <2>1, <2>2, <2>3, ToldNow
<1>4. \A i \in DOMAIN told' :
         /\ \/ told'[i].from = "AMSUPER_PLAYER"
            \/ mPlayer' # NoPlayer /\ told'[i].from = player'[mPlayer'].kind
         /\ told'[i].msg \in {"size", "prepared"} => told'[i].request > 0 \/ mEXIT'
  BY <1>3, InstalledStays, ExitStays DEF RightEvent
<1> QED BY <1>4 DEF ToldRightly

\* ToldRightly (Notify, initThread): for every file, every number of players the
\* thread may try and of messages they send, the client of one preparation hears of
\* the player installed alone, and of no size or end of preparing it has not asked for.
THEOREM ToldOfTheInstalled == Sessions = 1 => (Spec => []ToldRightly)
<1> SUFFICES ASSUME Sessions = 1
             PROVE  Spec => []ToldRightly
  OBVIOUS
<1>1. Init => RunInv /\ ToldRightly
  BY InitRun DEF Init, ToldRightly
<1>2. RunInv /\ ToldRightly /\ [Next]_vars => (RunInv /\ ToldRightly)'
  <2>1. RunInv /\ ToldRightly /\ Next => ToldRightly'
    BY NextTold
  <2>2. ToldRightly /\ UNCHANGED vars => ToldRightly'
    BY DEF ToldRightly, vars, exitVars, installVars
  <2> QED BY <2>1, <2>2, NextRun
<1> QED BY <1>1, <1>2, PTL DEF Spec

-----------------------------------------------------------------------------
(* What came before the player was installed reaches the client.              *)

\* How much that is not a MEDIA_INFO a player in a phase has told at most.
Came(phase) ==
    IF phase = "sized" THEN 1 ELSE IF phase = "prepared" THEN 2
    ELSE IF phase \in {"failed", "stopped"} THEN 3 ELSE 0

SaidByRun == player[Run.p].said

SurfaceInv ==
    Run.p # NoPlayer =>
        player[Run.p].surface = IF mPlayer = NoPlayer THEN NoSurface ELSE msurfaceTexture

\* oldmsg never overflows: a player tells a size, that it is prepared and an error
\* once each.
CountInv ==
    Run.p # NoPlayer =>
        /\ Infos(Run.p) <= MaxInfos
        /\ Len(SaidByRun) <= Infos(Run.p) + Came(player[Run.p].phase)
        /\ Len(oldmsg) <= Len(SaidByRun)

Reached(msg) ==
    \/ \E j \in DOMAIN told : told[j].by = Run.p /\ told[j].msg = msg
    \/ \E j \in DOMAIN oldmsg : oldmsg[j] = Entry(Run.p, msg)
    \/ mPlayer # NoPlayer /\ notifying = Entry(Run.p, msg)

ReachedInv == Run.p # NoPlayer /\ ~mEXIT => \A i \in DOMAIN SaidByRun : Reached(SaidByRun[i])

CatchInv == RunInv /\ SurfaceInv /\ CountInv /\ ReachedInv

LEMMA RunPlayer ==
    ASSUME Sessions = 1, RunInv, Run.p # NoPlayer
    PROVE  /\ Run.p \in PlayerIds /\ player \in [PlayerIds -> PlayerState]
           /\ SaidByRun \in Seq(Messages) /\ Infos(Run.p) = Occurrences(SaidByRun, "info")
           /\ Infos(Run.p) \in Nat /\ Came(player[Run.p].phase) \in Nat
           /\ oldmsg \in Seq(Entries)
<1>1. /\ Run.p \in PlayerIds /\ player \in [PlayerIds -> PlayerState] /\ oldmsg \in Seq(Entries)
  BY OneRun DEF RunInv, Types, PlayerTypeOK, StoreTypeOK
<1>2. SaidByRun \in Seq(Messages)
  BY <1>1 DEF SaidByRun, PlayerState
<1>3. Infos(Run.p) = Occurrences(SaidByRun, "info")
  BY DEF Infos, Occurrences, SaidByRun
<1>4. Infos(Run.p) \in Nat
  BY <1>2, <1>3, OccurrencesType
<1>5. Came(player[Run.p].phase) \in Nat
  BY DEF Came
<1> QED BY <1>1, <1>2, <1>3, <1>4, <1>5

\* A step that changes of the run's player no more than its phase or surface.
LEMMA SamePlayerCounts ==
    ASSUME Sessions = 1, RunInv, CountInv, Run'.p = Run.p, oldmsg' = oldmsg,
           Run.p # NoPlayer => /\ player'[Run.p].said = player[Run.p].said
                               /\ Came(player'[Run.p].phase) \in Nat
                               /\ Came(player'[Run.p].phase) >= Came(player[Run.p].phase)
    PROVE  CountInv'
<1> SUFFICES ASSUME Run.p # NoPlayer
             PROVE  /\ Infos(Run.p)' <= MaxInfos
                    /\ Len(SaidByRun)' <= Infos(Run.p)' + Came(player'[Run.p].phase)
                    /\ Len(oldmsg') <= Len(SaidByRun)'
  BY DEF CountInv, Infos, SaidByRun
<1>1. SaidByRun' = SaidByRun /\ Infos(Run.p)' = Infos(Run.p)
  BY DEF SaidByRun, Infos
<1>2. Len(SaidByRun) \in Nat
  BY RunPlayer
<1> QED BY <1>1, <1>2, RunPlayer, Bounds DEF CountInv

LEMMA ClientCatches ==
    ASSUME Sessions = 1, CatchInv, ClientNext
    PROVE  SurfaceInv' /\ CountInv' /\ ReachedInv'
<1>1. ClientEffect /\ PlayerEffect
  BY ClientDoes DEF CatchInv, RunInv
<1>2. Run.p # NoPlayer => /\ player'[Run.p].said = player[Run.p].said
                          /\ Came(player'[Run.p].phase) \in Nat
                          /\ Came(player'[Run.p].phase) >= Came(player[Run.p].phase)
                          /\ player'[Run.p].surface = IF mPlayer = NoPlayer THEN player[Run.p].surface
                                                      ELSE msurfaceTexture'
  <2> SUFFICES ASSUME Run.p # NoPlayer
               PROVE  /\ player'[Run.p].said = player[Run.p].said
                      /\ Came(player'[Run.p].phase) \in Nat
                      /\ Came(player'[Run.p].phase) >= Came(player[Run.p].phase)
                      /\ player'[Run.p].surface = IF mPlayer = NoPlayer THEN player[Run.p].surface
                                                  ELSE msurfaceTexture'
    OBVIOUS
  <2>1. Run.p \in PlayerIds /\ player \in [PlayerIds -> PlayerState]
    BY RunPlayer DEF CatchInv
  <2>2. mPlayer # NoPlayer => mPlayer = Run.p /\ player[Run.p].surface = msurfaceTexture
    BY DEF CatchInv, RunInv, OwnInv, SurfaceInv
  <2>3. \A phase : Came(phase) \in Nat /\ Came("stopped") >= Came(phase) /\ Came(phase) >= Came(phase)
    BY DEF Came
  <2>4. CASE player' = player /\ (mPlayer = NoPlayer \/ msurfaceTexture' = msurfaceTexture)
    BY <2>2, <2>3, <2>4
  <2>5. CASE /\ mPlayer # NoPlayer /\ UNCHANGED msurfaceTexture
             /\ player' = [player EXCEPT ![mPlayer].phase = "stopped"]
    <3>1. player'[Run.p] = [player[Run.p] EXCEPT !.phase = "stopped"]
      BY <2>1, <2>2, <2>5
    <3> QED BY <2>1, <2>2, <2>3, <2>5, <3>1 DEF PlayerState
  <2>6. CASE /\ mPlayer # NoPlayer
             /\ player' = [player EXCEPT ![mPlayer].surface = msurfaceTexture']
    <3>1. player'[Run.p] = [player[Run.p] EXCEPT !.surface = msurfaceTexture']
      BY <2>1, <2>2, <2>6
    <3> QED BY <2>1, <2>2, <2>3, <2>6, <3>1 DEF PlayerState
  <2> QED BY <1>1, <2>4, <2>5, <2>6 DEF PlayerEffect
<1>3. SurfaceInv'
  BY <1>1, <1>2 DEF ClientEffect, CatchInv, SurfaceInv
<1>4. CountInv'
  BY <1>1, <1>2, SamePlayerCounts DEF ClientEffect, CatchInv
<1>5. ReachedInv'
  BY <1>1, <1>2 DEF ClientEffect, CatchInv, ReachedInv, Reached, SaidByRun, Entry
<1> QED BY <1>3, <1>4, <1>5

LEMMA TellCatches ==
    ASSUME Sessions = 1, CatchInv, NotifySends
    PROVE  SurfaceInv' /\ CountInv' /\ ReachedInv'
<1>1. UNCHANGED <<thread, player, mPlayer, msurfaceTexture, oldmsg, mEXIT>>
  BY DEF NotifySends, exitVars, installVars
<1>2. SurfaceInv'
  BY <1>1 DEF CatchInv, SurfaceInv, Run
<1>3. CountInv'
  BY <1>1 DEF CatchInv, CountInv, Run, SaidByRun, Infos
<1>4. ReachedInv'
  <2> SUFFICES ASSUME Run'.p # NoPlayer, ~mEXIT', NEW i \in DOMAIN SaidByRun'
               PROVE  Reached(SaidByRun[i])'
    BY Zenon DEF ReachedInv
  <2>1. Run' = Run /\ SaidByRun' = SaidByRun
    BY <1>1 DEF Run, SaidByRun
  <2>2. PICK msg : msg = SaidByRun[i]
    OBVIOUS
  <2>3. Reached(msg)
    BY <1>1, <2>1, <2>2 DEF CatchInv, ReachedInv
  <2>4. told \in Seq(Events)
    BY DEF CatchInv, RunInv, Types, ToldTypeOK
  <2>5. CASE mPlayer = NoPlayer
    BY <1>1, <2>1, <2>2, <2>3, <2>5 DEF NotifySends, Reached, Entry
  <2>6. CASE mPlayer # NoPlayer
    <3>1. told' = Append(told, Tell(notifying))
      BY <2>6 DEF NotifySends
    <3>2. PICK e : e = Tell(notifying)
      OBVIOUS
    <3>3. e.by = notifying.from /\ e.msg = notifying.msg
      BY <3>2 DEF Tell
    <3>4. Len(told) + 1 \in DOMAIN told' /\ told'[Len(told) + 1] = e
          /\ \A j \in DOMAIN told : j \in DOMAIN told' /\ told'[j] = told[j]
      BY <2>4, <3>1, <3>2
    <3> QED BY <1>1, <2>1, <2>2, <2>3, <3>3, <3>4 DEF Reached, Entry
  <2> QED BY <2>5, <2>6
<1> QED BY <1>2, <1>3, <1>4

LEMMA TypeCatches ==
    ASSUME Sessions = 1, CatchInv, NEW p \in PlayerIds, NotifyType(p)
    PROVE  SurfaceInv' /\ CountInv' /\ ReachedInv'
<1>1. /\ UNCHANGED <<thread, mPlayer, msurfaceTexture, oldmsg, mEXIT, told, notifying>>
      /\ player' = [player EXCEPT ![p].phase = "typed", ![p].typeTold = TRUE]
      /\ player[p].phase = "opening"
  BY DEF NotifyType, installVars
<1>2. p = Run.p /\ player \in [PlayerIds -> PlayerState]
  BY <1>1, CallerIsOwn DEF CatchInv, RunInv, Types, PlayerTypeOK
<1>3. /\ player'[p].said = player[p].said /\ player'[p].surface = player[p].surface
      /\ player'[p].phase = "typed"
  BY <1>1, <1>2 DEF PlayerState
<1>4. Run' = Run /\ Came("typed") = 0 /\ Came("opening") = 0
  BY <1>1 DEF Run, Came
<1>5. SurfaceInv'
  BY <1>1, <1>2, <1>3, <1>4 DEF CatchInv, SurfaceInv
<1>6. CountInv'
  BY <1>1, <1>2, <1>3, <1>4, SamePlayerCounts DEF CatchInv
<1>7. ReachedInv'
  BY <1>1, <1>2, <1>3, <1>4 DEF CatchInv, ReachedInv, Reached, SaidByRun, Entry
<1> QED BY <1>5, <1>6, <1>7

\* What a message counts, and that there is room for it.
LEMMA MessageCounts ==
    ASSUME NEW phase, NEW next, NEW infos \in Nat, NEW msg \in Messages,
           msg = "size" => Came(phase) = 0 /\ Came(next) = 1,
           msg = "prepared" => Came(phase) = 1 /\ Came(next) = 2,
           msg = "error" => Came(phase) <= 2 /\ Came(next) = 3,
           msg = "info" => Came(phase) <= 2 /\ next = phase /\ infos < MaxInfos,
           infos <= MaxInfos
    PROVE  /\ infos + (IF msg = "info" THEN 1 ELSE 0) <= MaxInfos
           /\ infos + Came(phase) <= MaxInfos + 2
           /\ infos + Came(phase) + 1 <= infos + (IF msg = "info" THEN 1 ELSE 0) + Came(next)
<1> USE Bounds
<1>0. Came(phase) \in Nat
  BY DEF Came
<1>1. CASE msg = "size"
  BY <1>1
<1>2. CASE msg = "prepared"
  BY <1>2
<1>3. CASE msg = "error"
  BY <1>0, <1>3
<1>4. CASE msg = "info"
  BY <1>0, <1>4
<1> QED BY <1>1, <1>2, <1>3, <1>4 DEF Messages

LEMMA MayCount ==
    ASSUME Types, NEW p \in PlayerIds, NEW msg \in Messages, MaySay(p, msg)
    PROVE  /\ msg = "size" => Came(player[p].phase) = 0 /\ Came(PhaseAfter(p, msg)) = 1
           /\ msg = "prepared" => Came(player[p].phase) = 1 /\ Came(PhaseAfter(p, msg)) = 2
           /\ msg = "error" => Came(player[p].phase) <= 2 /\ Came(PhaseAfter(p, msg)) = 3
           /\ msg = "info" => /\ Came(player[p].phase) <= 2 /\ PhaseAfter(p, msg) = player[p].phase
                              /\ Infos(p) < MaxInfos
<1>1. CASE msg = "size"
  BY <1>1 DEF MaySay, PhaseAfter, Came
<1>2. CASE msg = "prepared"
  BY <1>2 DEF MaySay, PhaseAfter, Came
<1>3. CASE msg = "error"
  BY <1>3 DEF MaySay, PhaseAfter, Came
<1>4. CASE msg = "info"
  BY <1>4 DEF MaySay, PhaseAfter, Came
<1> QED BY <1>1, <1>2, <1>3, <1>4 DEF Messages

LEMMA NotifyCatches ==
    ASSUME Sessions = 1, OldMessages >= MaxInfos + 3, CatchInv,
           NEW p \in PlayerIds, NEW msg \in Messages, NotifyBegins(p, msg)
    PROVE  SurfaceInv' /\ CountInv' /\ ReachedInv'
<1> DEFINE asked == msg \in {"size", "prepared"} => mRequestPrepared
           phase == player[p].phase
           infos == Infos(p)
<1>1. NotifyEffect(p, msg)
  BY NotifyDoes
<1>2. player[p].phase \in {"opening", "typed", "sized", "prepared"} /\ MaySay(p, msg)
  BY <1>1, MayNotBeAbsent DEF NotifyEffect, CatchInv, RunInv
<1>3. p = Run.p /\ Run.p # NoPlayer /\ player \in [PlayerIds -> PlayerState]
  BY <1>2, CallerIsOwn, PlayerIdsAre DEF CatchInv, RunInv, Types, PlayerTypeOK
<1>4. /\ player' = [player EXCEPT ![p].phase = PhaseAfter(p, msg), ![p].said = Append(@, msg)]
      /\ UNCHANGED <<thread, mPlayer, msurfaceTexture, mRequestPrepared, mEXIT, subplayer_inited,
                     told>>
      /\ notifying = NoMessage
  BY <1>1 DEF NotifyEffect
<1>5. /\ player'[p].said = Append(player[p].said, msg) /\ player'[p].phase = PhaseAfter(p, msg)
      /\ player'[p].surface = player[p].surface
  BY <1>3, <1>4 DEF PlayerState
<1>6. Run' = Run /\ SaidByRun' = Append(SaidByRun, msg) /\ SaidByRun \in Seq(Messages)
  BY <1>3, <1>4, <1>5, RunPlayer DEF Run, SaidByRun, CatchInv
<1>7. /\ infos \in Nat /\ infos = Occurrences(SaidByRun, "info")
      /\ Infos(p)' = infos + (IF msg = "info" THEN 1 ELSE 0)
  <2>1. infos \in Nat /\ infos = Occurrences(SaidByRun, "info")
    BY <1>3, RunPlayer DEF CatchInv
  <2>2. Infos(p)' = Occurrences(Append(SaidByRun, msg), "info")
    BY <1>3, <1>6 DEF Infos, Occurrences, SaidByRun
  <2> QED BY <1>6, <2>1, <2>2, OccurrencesAppend
<1>8. /\ infos + (IF msg = "info" THEN 1 ELSE 0) <= MaxInfos
      /\ infos + Came(phase) <= MaxInfos + 2
      /\ infos + Came(phase) + 1 <= infos + (IF msg = "info" THEN 1 ELSE 0) + Came(PhaseAfter(p, msg))
  <2>1. infos <= MaxInfos
    BY <1>3 DEF CatchInv, CountInv
  <2>2. /\ msg = "size" => Came(phase) = 0 /\ Came(PhaseAfter(p, msg)) = 1
        /\ msg = "prepared" => Came(phase) = 1 /\ Came(PhaseAfter(p, msg)) = 2
        /\ msg = "error" => Came(phase) <= 2 /\ Came(PhaseAfter(p, msg)) = 3
        /\ msg = "info" => Came(phase) <= 2 /\ PhaseAfter(p, msg) = phase /\ infos < MaxInfos
    BY <1>2, MayCount DEF CatchInv, RunInv
  <2> HIDE DEF phase, infos
  <2> QED BY <1>7, <2>1, <2>2, MessageCounts
<1>9. /\ Len(SaidByRun) \in Nat /\ Len(oldmsg) \in Nat /\ Came(phase) \in Nat
      /\ Len(SaidByRun) <= infos + Came(phase) /\ Len(oldmsg) <= Len(SaidByRun)
  BY <1>3, RunPlayer DEF CatchInv, CountInv
<1>10. oldmsg \in Seq(Entries) /\ Entry(p, msg) \in Entries
  BY DEF CatchInv, RunInv, Types, StoreTypeOK, Entry, Entries
<1>11. Len(oldmsg) < OldMessages
  BY <1>7, <1>8, <1>9, Bounds
<1>12. SurfaceInv'
  BY <1>3, <1>4, <1>5, <1>6 DEF CatchInv, SurfaceInv
<1>13. CountInv'
  <2>1. oldmsg' = oldmsg \/ oldmsg' = Append(oldmsg, Entry(p, msg))
    BY <1>1 DEF NotifyEffect
  <2>2. Len(oldmsg') \in Nat /\ Len(oldmsg') <= Len(oldmsg) + 1
    BY <1>9, <1>10, <2>1
  <2>3. Len(SaidByRun') = Len(SaidByRun) + 1
    BY <1>6
  <2>4. Came(PhaseAfter(p, msg)) \in Nat
    BY DEF Came
  <2>5. PICK more \in {0, 1} : more = IF msg = "info" THEN 1 ELSE 0
    OBVIOUS
  <2>6. /\ Infos(p)' = infos + more /\ infos + more <= MaxInfos
        /\ infos + Came(phase) + 1 <= infos + more + Came(PhaseAfter(p, msg))
    BY <1>7, <1>8, <2>5
  <2>7. /\ Infos(p)' <= MaxInfos
        /\ Len(SaidByRun') <= Infos(p)' + Came(PhaseAfter(p, msg))
        /\ Len(oldmsg') <= Len(SaidByRun')
    <3> HIDE DEF infos, phase
    <3>1. Infos(p)' <= MaxInfos
      BY <2>6
    <3>2. Len(oldmsg') <= Len(SaidByRun')
      BY <1>9, <2>2, <2>3
    <3>3. Len(SaidByRun) + 1 <= infos + more + Came(PhaseAfter(p, msg))
      BY <1>7, <1>9, <2>4, <2>6
    <3>4. Len(SaidByRun') <= Infos(p)' + Came(PhaseAfter(p, msg))
      BY <2>3, <2>6, <3>3
    <3> QED BY <3>1, <3>2, <3>4
  <2> QED BY <1>3, <1>5, <1>6, <2>7 DEF CountInv
<1>14. ReachedInv'
  <2> SUFFICES ASSUME ~mEXIT, NEW i \in DOMAIN SaidByRun'
               PROVE  Reached(SaidByRun[i])'
    BY <1>4, Zenon DEF ReachedInv
  <2>1. /\ \A j \in DOMAIN oldmsg : j \in DOMAIN oldmsg' /\ oldmsg'[j] = oldmsg[j]
        /\ IsStored(asked) => \E j \in DOMAIN oldmsg' : oldmsg'[j] = Entry(p, msg)
    <3>1. oldmsg' = IF IsStored(asked) THEN Append(oldmsg, Entry(p, msg)) ELSE oldmsg
      BY <1>1, Zenon DEF NotifyEffect
    <3>2. CASE IsStored(asked)
      <4>1. oldmsg' = Append(oldmsg, Entry(p, msg))
        BY <3>1, <3>2
      <4>2. Len(oldmsg) + 1 \in DOMAIN oldmsg' /\ oldmsg'[Len(oldmsg) + 1] = Entry(p, msg)
        BY <1>10, <4>1
      <4>3. \A j \in DOMAIN oldmsg : j \in DOMAIN oldmsg' /\ oldmsg'[j] = oldmsg[j]
        BY <1>10, <4>1
      <4> QED BY <4>2, <4>3
    <3>3. CASE ~IsStored(asked)
      BY <3>1, <3>3
    <3> QED BY <3>2, <3>3
  <2>2. CASE i \in DOMAIN SaidByRun
    <3>1. SaidByRun'[i] = SaidByRun[i]
      BY <1>6, <2>2
    <3>2. Reached(SaidByRun[i])
      BY <1>3, <2>2 DEF CatchInv, ReachedInv
    <3>3. notifying # Entry(Run.p, SaidByRun[i])
      BY <1>3, <1>4 DEF Entry, NoMessage
    <3> QED BY <1>4, <1>6, <2>1, <3>1, <3>2, <3>3 DEF Reached, Entry
  <2>3. CASE i \notin DOMAIN SaidByRun
    <3>1. SaidByRun'[i] = msg
      BY <1>6, <2>3
    <3>2. CASE mPlayer # NoPlayer /\ asked
      <4>1. notifying' = Entry(p, msg)
        BY <1>1, <3>2, Zenon DEF NotifyEffect
      <4> QED BY <1>3, <1>4, <1>6, <3>1, <3>2, <4>1 DEF Reached, Entry
    <3>3. CASE ~(mPlayer # NoPlayer /\ asked)
      <4>1. ~subplayer_inited
        BY <3>3 DEF CatchInv, RunInv, AskedInv
      <4>2. IsStored(asked)
        BY <1>11, <3>3, <4>1 DEF IsStored, HasRoom
      <4> QED BY <1>3, <1>6, <2>1, <3>1, <4>2 DEF Reached, Entry
    <3> QED BY <3>2, <3>3
  <2> QED BY <2>2, <2>3
<1> QED BY <1>12, <1>13, <1>14

LEMMA ThreadCatches ==
    ASSUME Sessions = 1, CatchInv, NEW t \in Threads, ThreadNext(t)
    PROVE  SurfaceInv' /\ CountInv' /\ ReachedInv'
<1>1. CASE MoveEffect
  <2>1. UNCHANGED <<mPlayer, msurfaceTexture, notifying, oldmsg, told, player, mEXIT>> /\ Run'.p = Run.p
    BY <1>1 DEF MoveEffect
  <2>2. SurfaceInv'
    BY <2>1 DEF CatchInv, SurfaceInv
  <2>3. CountInv'
    BY <2>1 DEF CatchInv, CountInv, Infos, SaidByRun
  <2>4. ReachedInv'
    BY <2>1 DEF CatchInv, ReachedInv, Reached, SaidByRun, Entry
  <2> QED BY <2>2, <2>3, <2>4
<1>2. CASE CreateEffect
  <2>1. mPlayer = NoPlayer /\ mPlayer' = NoPlayer /\ oldmsg' = <<>>
    BY <1>2 DEF CreateEffect, CatchInv, RunInv, OwnInv, Installed
  <2>2. CASE Run'.p = NoPlayer
    BY <2>2 DEF SurfaceInv, CountInv, ReachedInv
  <2>3. ASSUME NEW p \in PlayerIds, player' = [player EXCEPT ![p] = Created(Run.newtype)], Run'.p = p
        PROVE  SurfaceInv' /\ CountInv' /\ ReachedInv'
    <3>1. player'[p].said = <<>> /\ player'[p].surface = NoSurface /\ player'[p].phase = "opening"
      BY <2>3 DEF CatchInv, RunInv, Types, PlayerTypeOK, Created, Absent
    <3>2. SaidByRun' = <<>> /\ DOMAIN <<>> = {} /\ Len(<<>>) = 0
      BY <2>3, <3>1 DEF SaidByRun
    <3>3. Infos(p)' = 0
      <4>1. Infos(p)' = Occurrences(<<>>, "info")
        BY <3>1 DEF Infos, Occurrences
      <4> QED BY <4>1, OccurrencesOne
    <3>4. SurfaceInv'
      BY <2>1, <2>3, <3>1 DEF SurfaceInv
    <3>5. CountInv'
      BY <2>1, <2>3, <3>1, <3>2, <3>3, Bounds DEF CountInv, Came
    <3>6. ReachedInv'
      BY <3>2 DEF ReachedInv
    <3> QED BY <3>4, <3>5, <3>6
  <2> QED BY <1>2, <2>2, <2>3 DEF CreateEffect
<1>3. CASE DropEffect
  BY <1>3 DEF DropEffect, SurfaceInv, CountInv, ReachedInv
<1>4. CASE InstallEffect
  <2> SUFFICES ASSUME Run.p # NoPlayer
               PROVE  SurfaceInv' /\ CountInv' /\ ReachedInv'
    BY <1>4 DEF InstallEffect, SurfaceInv, CountInv, ReachedInv
  <2>1. /\ UNCHANGED <<msurfaceTexture, notifying, oldmsg, told>>
        /\ Run'.p = Run.p /\ mPlayer' = Run.p /\ mPlayer = NoPlayer /\ (mEXIT => mEXIT')
        /\ player' = IF msurfaceTexture = NoSurface THEN player
                     ELSE [player EXCEPT ![Run.p].surface = msurfaceTexture]
    BY <1>4 DEF InstallEffect, CatchInv, RunInv, OwnInv, Installed
  <2>2. /\ player'[Run.p].said = player[Run.p].said /\ player'[Run.p].phase = player[Run.p].phase
        /\ player'[Run.p].surface = msurfaceTexture
    <3>1. player[Run.p].surface = NoSurface
      BY <2>1 DEF CatchInv, SurfaceInv
    <3> QED BY <2>1, <3>1, RunPlayer DEF CatchInv, PlayerState
  <2>3. SurfaceInv'
    BY <2>1, <2>2 DEF SurfaceInv
  <2>4. CountInv'
    BY <2>1, <2>2, RunPlayer, SamePlayerCounts DEF CatchInv, Came
  <2>5. ReachedInv'
    BY <2>1, <2>2 DEF CatchInv, ReachedInv, Reached, SaidByRun, Entry
  <2> QED BY <2>3, <2>4, <2>5
<1>5. CASE FlushEffect
  <2>1. UNCHANGED <<mPlayer, msurfaceTexture, player, notifying, mEXIT>> /\ Run'.p = Run.p
    BY <1>5 DEF FlushEffect
  <2>2. mPlayer = Run.p
    BY <1>5 DEF FlushEffect, CatchInv, RunInv, OwnInv, Installed
  <2> SUFFICES ASSUME Run.p # NoPlayer
               PROVE  SurfaceInv' /\ CountInv' /\ ReachedInv'
    BY <2>1 DEF SurfaceInv, CountInv, ReachedInv
  <2>3. /\ notifying = NoMessage /\ oldmsg' = <<>> /\ Len(<<>>) = 0
        /\ told' = told \o [i \in DOMAIN oldmsg |-> Tell(oldmsg[i])]
    BY <1>5, <2>2 DEF FlushEffect
  <2>4. SaidByRun' = SaidByRun /\ Infos(Run.p)' = Infos(Run.p) /\ Len(SaidByRun) \in Nat
    BY <2>1, RunPlayer DEF SaidByRun, Infos, CatchInv
  <2>5. SurfaceInv'
    BY <2>1 DEF CatchInv, SurfaceInv
  <2>6. CountInv'
    BY <2>1, <2>3, <2>4 DEF CatchInv, CountInv, Infos
  <2>7. ReachedInv'
    <3> DEFINE sent == [i \in DOMAIN oldmsg |-> Tell(oldmsg[i])]
    <3>1. oldmsg \in Seq(Entries) /\ told \in Seq(Events)
      BY DEF CatchInv, RunInv, Types, StoreTypeOK, ToldTypeOK
    <3>2. PICK s \in Seq(Events) : s = sent
      BY SentType DEF CatchInv, RunInv
    <3>3. /\ DOMAIN s = DOMAIN oldmsg
          /\ \A i \in DOMAIN oldmsg : s[i].by = oldmsg[i].from /\ s[i].msg = oldmsg[i].msg
      BY <3>2 DEF Tell
    <3>4. told' = told \o s
      BY <2>3, <3>2
    <3> HIDE DEF sent
    <3>5. /\ \A j \in DOMAIN told : j \in DOMAIN told' /\ told'[j] = told[j]
          /\ \A j \in DOMAIN s : Len(told) + j \in DOMAIN told' /\ told'[Len(told) + j] = s[j]
      BY <3>1, <3>2, <3>4
    <3> SUFFICES ASSUME ~mEXIT, NEW i \in DOMAIN SaidByRun
                 PROVE  Reached(SaidByRun[i])'
      BY <2>1, <2>4, Zenon DEF ReachedInv
    <3>6. Reached(SaidByRun[i])
      BY DEF CatchInv, ReachedInv
    <3>7. \E j \in DOMAIN told' : told'[j].by = Run.p /\ told'[j].msg = SaidByRun[i]
      <4>1. CASE \E j \in DOMAIN told : told[j].by = Run.p /\ told[j].msg = SaidByRun[i]
        BY <3>5, <4>1
      <4>2. CASE \E j \in DOMAIN oldmsg : oldmsg[j] = Entry(Run.p, SaidByRun[i])
        <5>1. PICK j \in DOMAIN oldmsg : oldmsg[j] = Entry(Run.p, SaidByRun[i])
          BY <4>2
        <5>2. s[j].by = Run.p /\ s[j].msg = SaidByRun[i]
          BY <3>3, <5>1 DEF Entry
        <5> QED BY <3>3, <3>5, <5>2
      <4>3. notifying # Entry(Run.p, SaidByRun[i])
        BY <2>3 DEF Entry, NoMessage
      <4> QED BY <3>6, <4>1, <4>2, <4>3 DEF Reached
    <3> QED BY <2>1, <2>4, <3>7 DEF Reached
  <2> QED BY <2>5, <2>6, <2>7
<1> QED BY <1>1, <1>2, <1>3, <1>4, <1>5, ThreadDoes DEF CatchInv

LEMMA NextCatches ==
    Sessions = 1 /\ OldMessages >= MaxInfos + 3 /\ CatchInv /\ [Next]_vars => CatchInv'
<1> SUFFICES ASSUME Sessions = 1, OldMessages >= MaxInfos + 3, CatchInv, [Next]_vars
             PROVE  SurfaceInv' /\ CountInv' /\ ReachedInv'
  BY NextRun DEF CatchInv
<1>1. CASE UNCHANGED vars
  BY <1>1 DEF CatchInv, SurfaceInv, CountInv, ReachedInv, Reached, Run, SaidByRun, Infos, Entry, vars,
    exitVars, installVars
<1>2. CASE ClientNext
  BY <1>2, ClientCatches
<1>3. CASE PlayerNext
  BY <1>3, TellCatches, TypeCatches, NotifyCatches DEF PlayerNext, Opens, Messages
<1>4. CASE \E t \in Threads : ThreadNext(t)
  BY <1>4, ThreadCatches
<1> QED BY <1>1, <1>2, <1>3, <1>4 DEF Next

LEMMA CatchesUp ==
    ASSUME Sessions = 1, CatchInv
    PROVE  InstalledCatchesUp
<1> SUFFICES ASSUME mPlayer # NoPlayer
             PROVE  /\ player[mPlayer].surface = msurfaceTexture
                    /\ notifying = NoMessage /\ ~mEXIT => \A i \in DOMAIN player[mPlayer].said :
                          \/ \E j \in DOMAIN told :
                                told[j].by = mPlayer /\ told[j].msg = player[mPlayer].said[i]
                          \/ \E j \in DOMAIN oldmsg :
                                oldmsg[j] = Entry(mPlayer, player[mPlayer].said[i])
  BY DEF InstalledCatchesUp
<1>1. mPlayer = Run.p
  BY DEF CatchInv, RunInv, OwnInv
<1>2. player[mPlayer].surface = msurfaceTexture
  BY <1>1 DEF CatchInv, SurfaceInv
<1>3. ASSUME notifying = NoMessage, ~mEXIT, NEW i \in DOMAIN player[mPlayer].said
      PROVE  \/ \E j \in DOMAIN told :
                   told[j].by = mPlayer /\ told[j].msg = player[mPlayer].said[i]
             \/ \E j \in DOMAIN oldmsg :
                   oldmsg[j] = Entry(mPlayer, player[mPlayer].said[i])
  <2>1. Reached(player[mPlayer].said[i])
    BY <1>1, <1>3 DEF CatchInv, ReachedInv, SaidByRun
  <2>2. notifying # Entry(Run.p, player[mPlayer].said[i])
    BY <1>1, <1>3 DEF Entry, NoMessage
  <2> QED BY <1>1, <2>1, <2>2 DEF Reached
<1> QED BY <1>2, <1>3

\* InstalledCatchesUp (Notify, setVideoSurfaceTexture, initThread): for every file
\* and every interleaving of the client, the players and the thread, the player
\* installed shows on the surface set last and nothing it told is lost, where oldmsg
\* has room for all a player may tell before: MaxInfos MEDIA_INFOs, a size, that it
\* is prepared and an error.
THEOREM InstalledCatches ==
    Sessions = 1 /\ OldMessages >= MaxInfos + 3 => (Spec => []InstalledCatchesUp)
<1> SUFFICES ASSUME Sessions = 1, OldMessages >= MaxInfos + 3
             PROVE  Spec => []InstalledCatchesUp
  OBVIOUS
<1>1. Init => CatchInv
  <2> SUFFICES ASSUME Init
               PROVE  CatchInv
    OBVIOUS
  <2>1. RunInv
    BY InitRun
  <2>2. Run.p = NoPlayer
    BY <2>1, OneRun DEF Init, Run, RunInv
  <2> QED BY <2>1, <2>2 DEF CatchInv, SurfaceInv, CountInv, ReachedInv
<1>2. CatchInv /\ [Next]_vars => CatchInv'
  BY NextCatches
<1>3. CatchInv => InstalledCatchesUp
  BY CatchesUp
<1> QED BY <1>1, <1>2, <1>3, PTL DEF Spec
=============================================================================
