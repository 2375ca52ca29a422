------------------------- MODULE LiveSessionProofs -------------------------
(* Theorems about LiveSession, for every set of renditions, every length of  *)
(* the playlists and every number of calls.                                  *)
EXTENDS LiveSession, FiniteSetTheorems, TLAPS

-----------------------------------------------------------------------------
(* Queues of messages: what is in them, and how many are of some kinds.      *)

InQueue(q) == {q[i] : i \in DOMAIN q}
Places(q, K) == {i \in DOMAIN q : q[i].what \in K}
Count(q, K) == Cardinality(Places(q, K))
\* The player calls disconnect() last.
IsLast(q) == \A i, j \in DOMAIN q : i < j /\ q[i].what = "disconnect" =>
                 q[j].what \notin {"connect", "changeConfiguration"}

LEMMA CountType ==
    ASSUME NEW S, NEW q \in Seq(S), NEW K
    PROVE  /\ IsFiniteSet(Places(q, K)) /\ Count(q, K) \in Nat
           /\ Count(q, K) > 0 <=> \E m \in InQueue(q) : m.what \in K
<1>1. Len(q) \in Nat /\ DOMAIN q = 1 .. Len(q) /\ Places(q, K) \subseteq 1 .. Len(q)
  BY DEF Places
<1>2. IsFiniteSet(Places(q, K))
  <2>1. IsFiniteSet(1 .. Len(q))
    BY <1>1, FS_Interval
  <2> QED BY <1>1, <2>1, FS_Subset
<1>3. Count(q, K) \in Nat /\ (Count(q, K) = 0 <=> Places(q, K) = {})
  BY <1>2, FS_CardinalityType, FS_EmptySet DEF Count
<1>4. Places(q, K) # {} <=> \E m \in InQueue(q) : m.what \in K
  BY DEF Places, InQueue
<1> QED BY <1>2, <1>3, <1>4

LEMMA EmptyQueue ==
    ASSUME NEW K
    PROVE  Count(<<>>, K) = 0 /\ InQueue(<<>>) = {}
<1>1. Places(<<>>, K) = {} /\ InQueue(<<>>) = {}
  BY DEF Places, InQueue
<1> QED BY <1>1, FS_EmptySet DEF Count

LEMMA AppendPlaces ==
    ASSUME NEW S, NEW q \in Seq(S), NEW m \in S
    PROVE  /\ Append(q, m) \in Seq(S) /\ Append(q, m) # <<>>
           /\ InQueue(Append(q, m)) = InQueue(q) \cup {m}
           /\ /\ IsLast(q)
              /\ m.what \in {"connect", "changeConfiguration"} =>
                    \A d \in InQueue(q) : d.what # "disconnect"
              => IsLast(Append(q, m))
<1> DEFINE r == Append(q, m)
           n == Len(q)
<1>1. /\ r \in Seq(S) /\ r # <<>> /\ n \in Nat /\ DOMAIN q = 1 .. n /\ DOMAIN r = 1 .. n + 1
      /\ r[n + 1] = m /\ \A i \in 1 .. n : r[i] = q[i]
  OBVIOUS
<1> HIDE DEF r, n
<1>2. InQueue(r) = InQueue(q) \cup {m}
  <2>1. \A x : x \in InQueue(r) <=> \E i \in 1 .. n + 1 : x = r[i]
    BY <1>1 DEF InQueue
  <2>2. \A x : x \in InQueue(q) <=> \E i \in 1 .. n : x = q[i]
    BY <1>1 DEF InQueue
  <2>3. n + 1 \in 1 .. n + 1 /\ \A i \in 1 .. n + 1 : i = n + 1 \/ i \in 1 .. n
    BY <1>1
  <2>4. \A i \in 1 .. n : i \in 1 .. n + 1
    BY <1>1
  <2> QED BY <1>1, <2>1, <2>2, <2>3, <2>4
<1>3. ASSUME IsLast(q),
             m.what \in {"connect", "changeConfiguration"} =>
                \A d \in InQueue(q) : d.what # "disconnect"
      PROVE  IsLast(r)
  <2> SUFFICES ASSUME NEW i \in 1 .. n + 1, NEW j \in 1 .. n + 1, i < j,
                      r[i].what = "disconnect", r[j].what \in {"connect", "changeConfiguration"}
               PROVE  FALSE
    BY <1>1 DEF IsLast
  <2>1. i \in 1 .. n /\ (j = n + 1 \/ j \in 1 .. n)
    BY <1>1
  <2> QED BY <1>1, <1>3, <2>1 DEF IsLast, InQueue
<1> QED BY <1>1, <1>2, <1>3 DEF r

LEMMA AppendCount ==
    ASSUME NEW S, NEW q \in Seq(S), NEW m \in S, NEW K
    PROVE  Count(Append(q, m), K) = Count(q, K) + (IF m.what \in K THEN 1 ELSE 0)
<1> DEFINE r == Append(q, m)
           n == Len(q)
<1>1. /\ n \in Nat /\ DOMAIN q = 1 .. n /\ DOMAIN r = 1 .. n + 1
      /\ r[n + 1] = m /\ \A i \in 1 .. n : r[i] = q[i]
  OBVIOUS
<1> HIDE DEF r, n
<1>2. Places(r, K) = Places(q, K) \cup (IF m.what \in K THEN {n + 1} ELSE {})
  <2>1. \A i : i \in 1 .. n + 1 <=> i = n + 1 \/ i \in 1 .. n
    BY <1>1
  <2> QED BY <1>1, <2>1 DEF Places
<1>3. n + 1 \notin Places(q, K)
  BY <1>1 DEF Places
<1>4. IsFiniteSet(Places(q, K)) /\ Count(q, K) \in Nat
  BY CountType
<1>5. Cardinality(Places(r, K)) = Cardinality(Places(q, K)) + (IF m.what \in K THEN 1 ELSE 0)
  <2>1. CASE m.what \in K
    BY <1>2, <1>3, <1>4, <2>1, FS_AddElement
  <2>2. CASE m.what \notin K
    <3>1. Places(r, K) = Places(q, K)
      BY <1>2, <2>2
    <3> QED BY <1>4, <2>2, <3>1 DEF Count
  <2> QED BY <2>1, <2>2
<1> QED BY <1>5 DEF Count, r

LEMMA TailPlaces ==
    ASSUME NEW S, NEW q \in Seq(S), q # <<>>
    PROVE  /\ Tail(q) \in Seq(S) /\ Head(q) \in S
           /\ InQueue(q) = InQueue(Tail(q)) \cup {Head(q)}
           /\ IsLast(q) => IsLast(Tail(q))
           /\ IsLast(q) /\ Head(q).what = "disconnect" =>
                 \A m \in InQueue(Tail(q)) : m.what \notin {"connect", "changeConfiguration"}
<1> DEFINE r == Tail(q)
           n == Len(q)
<1>1. /\ r \in Seq(S) /\ Head(q) \in S /\ n \in Nat /\ n > 0 /\ Head(q) = q[1]
      /\ DOMAIN q = 1 .. n /\ DOMAIN r = 1 .. n - 1 /\ \A i \in 1 .. n - 1 : r[i] = q[i + 1]
  OBVIOUS
<1> HIDE DEF r, n
<1>2. \A i \in 1 .. n - 1 : i + 1 \in 1 .. n /\ i + 1 > 1 /\ i \in Int
  BY <1>1
<1>3. InQueue(q) = InQueue(r) \cup {Head(q)}
  <2>1. \A x : x \in InQueue(q) <=> \E i \in 1 .. n : x = q[i]
    BY <1>1 DEF InQueue
  <2>2. \A x : x \in InQueue(r) <=> \E i \in 1 .. n - 1 : x = q[i + 1]
    BY <1>1 DEF InQueue
  <2>3. 1 \in 1 .. n /\ \A i \in 1 .. n : i = 1 \/ \E k \in 1 .. n - 1 : i = k + 1
    <3> SUFFICES ASSUME NEW i \in 1 .. n, i # 1
                 PROVE  \E k \in 1 .. n - 1 : i = k + 1
      BY <1>1
    <3>1. i - 1 \in 1 .. n - 1 /\ i = (i - 1) + 1
      BY <1>1
    <3> QED BY <3>1
  <2>4. \A x \in InQueue(q) : x \in InQueue(r) \/ x = Head(q)
    BY <1>1, <2>1, <2>2, <2>3
  <2>5. \A x \in InQueue(r) : x \in InQueue(q)
    BY <1>2, <2>1, <2>2
  <2>6. Head(q) \in InQueue(q)
    BY <1>1, <2>1, <2>3
  <2> QED BY <2>4, <2>5, <2>6
<1>4. IsLast(q) => IsLast(r)
  <2> SUFFICES ASSUME IsLast(q), NEW i \in 1 .. n - 1, NEW j \in 1 .. n - 1, i < j,
                      r[i].what = "disconnect"
               PROVE  r[j].what \notin {"connect", "changeConfiguration"}
    BY <1>1 DEF IsLast
  <2>1. i + 1 \in 1 .. n /\ j + 1 \in 1 .. n /\ i + 1 < j + 1
    BY <1>1
  <2> QED BY <1>1, <2>1 DEF IsLast
<1>5. IsLast(q) /\ Head(q).what = "disconnect" =>
         \A m \in InQueue(r) : m.what \notin {"connect", "changeConfiguration"}
  <2> SUFFICES ASSUME IsLast(q), Head(q).what = "disconnect", NEW i \in 1 .. n - 1
               PROVE  r[i].what \notin {"connect", "changeConfiguration"}
    BY <1>1 DEF InQueue
  <2>1. 1 \in 1 .. n /\ i + 1 \in 1 .. n /\ 1 < i + 1
    BY <1>1
  <2> QED BY <1>1, <2>1 DEF IsLast
<1> QED BY <1>1, <1>3, <1>4, <1>5 DEF r

LEMMA TailCount ==
    ASSUME NEW S, NEW q \in Seq(S), q # <<>>, NEW K
    PROVE  Count(q, K) = Count(Tail(q), K) + (IF Head(q).what \in K THEN 1 ELSE 0)
<1> DEFINE r == Tail(q)
           n == Len(q)
           P == Places(r, K)
           Q == Places(q, K) \ {1}
           shift == [i \in P |-> i + 1]
<1>1. /\ r \in Seq(S) /\ n \in Nat /\ n > 0 /\ Head(q) = q[1]
      /\ DOMAIN q = 1 .. n /\ DOMAIN r = 1 .. n - 1 /\ \A i \in 1 .. n - 1 : r[i] = q[i + 1]
  OBVIOUS
<1> HIDE DEF r, n
<1>2. \A i : i \in P <=> i \in 1 .. n - 1 /\ q[i + 1].what \in K
  BY <1>1 DEF Places
<1>3. \A i : i \in Q <=> i \in 2 .. n /\ q[i].what \in K
  BY <1>1 DEF Places
<1>4. IsFiniteSet(P) /\ IsFiniteSet(Places(q, K)) /\ Count(r, K) \in Nat
  BY <1>1, CountType
<1>5. Cardinality(Q) = Cardinality(P)
  <2>1. \A i \in P : i \in Int /\ i + 1 \in Q
    BY <1>1, <1>2, <1>3
  <2>2. \A j \in Q : \E i \in P : i \in Int /\ i + 1 = j
    <3> SUFFICES ASSUME NEW j \in Q
                 PROVE  \E i \in P : i \in Int /\ i + 1 = j
      OBVIOUS
    <3>1. j \in 2 .. n /\ q[j].what \in K
      BY <1>3
    <3>2. j - 1 \in 1 .. n - 1 /\ (j - 1) + 1 = j
      BY <1>1, <3>1
    <3> QED BY <1>2, <3>1, <3>2
  <2> HIDE DEF P, Q
  <2>3. /\ shift \in [P -> Q] /\ \A a, b \in P : shift[a] = shift[b] => a = b
        /\ \A j \in Q : \E i \in P : shift[i] = j
    BY <2>1, <2>2
  <2>4. shift \in Bijection(P, Q)
    BY <2>3 DEF Bijection, Injection, Surjection, IsInjective
  <2> QED BY <1>4, <2>4, FS_Bijection DEF ExistsBijection
<1>6. 1 \in Places(q, K) <=> Head(q).what \in K
  BY <1>1 DEF Places
<1>7. Cardinality(Q) = IF 1 \in Places(q, K) THEN Count(q, K) - 1 ELSE Count(q, K)
  BY <1>4, FS_RemoveElement DEF Count
<1>8. Count(q, K) \in Nat
  BY CountType
<1> QED BY <1>4, <1>5, <1>6, <1>7, <1>8 DEF Count, r

-----------------------------------------------------------------------------
(* Types                                                                    *)

Results == {"OK", "EOS", "ERROR_IO"}
Changes == [what : {"changeConfiguration2", "changeConfiguration3"}, streams : SUBSET Streams,
            resume : SUBSET Streams, pos : Int, uris : [Streams -> URIs]]
Errors == [err : Results, pos : Int]
Message ==
    [what : {"connect", "disconnect", "changeConfiguration", "postPrepared", "finishDisconnect2"}]
    \cup [what : {"paused", "stopped", "temporarilyDone"}, from : Fetchers]
    \cup [what : {"seek"}, pos : Int, awaited : BOOLEAN]
    \cup [what : {"seeked"}, pos : Int]
    \cup [what : {"error"}, result : Errors]
    \cup Changes
Letter == [what : {"pause", "stop"}] \cup [what : {"seek", "start"}, pos : Int]
Announcement == [what : {"time"}, pos : Int] \cup [what : {"formatChange"}, uri : URIs]
Unit == [what : {"packet"}, pos : Int, uri : URIs] \cup {Gap}
Heard == {None} \cup Unit \cup Announcement \cup [what : {"end"}, pos : Int, err : Results]

Continuation == {None, Msg("finishDisconnect2")} \cup Changes
Sessions == [reconfiguring : BOOLEAN, counter : Int, continuation : Continuation,
             seekReply : BOOLEAN, disconnectReply : BOOLEAN, preparing : BOOLEAN,
             mask : SUBSET Streams, created : Nat]
FetcherState == [uri : URIs, stream : Streams, pos : Int, left : Nat,
                 work : {"none", "monitor", "download"}, posted : BOOLEAN]

ClientTypes ==
    /\ client \in {"new", "idle", "seeking", "disconnecting", "gone"}
    /\ position \in Int /\ prepared \in {"no", "yes", "failed"} /\ selected \in AudioURIs
    /\ budget \in [BoundedEvents -> 0 .. MaxCalls]
SessionTypes ==
    /\ session \in Sessions
    /\ mFetcherInfos \subseteq Fetchers /\ mIsPrepared \subseteq Fetchers
    /\ inbox \in Seq(Message) /\ delayed \subseteq Message
FetcherTypes ==
    /\ fetcher \in [Fetchers -> FetcherState]
    /\ mail \in [Fetchers -> Seq(Letter)]
DataTypes ==
    /\ mDiscontinuities \in [Streams -> Seq(Announcement)]
    /\ mLastSeek \in Int /\ mLatestDequeued \in [Streams -> Int]
    /\ mBuffers \in [Streams -> Seq(Unit)] /\ mEOSResult \in [Streams -> Errors]
    /\ reader \in [Streams -> {"idle", "available", "dequeues", "otherEnded"}]
    /\ got \in [Streams -> Heard] /\ told \in [Streams -> [pos : Int, uri : URIs]]
    /\ failed \in {"none", "senderAwaitsResponse", "mContinuationCounter", "addFetcher"}
TypeInv == ClientTypes /\ SessionTypes /\ FetcherTypes /\ DataTypes

LEMMA Constants ==
    /\ FirstAudioURI \in AudioURIs /\ VideoURI \notin AudioURIs /\ VideoURI \in URIs
    /\ AudioURIs \subseteq URIs /\ MaxCalls \in Nat /\ NumSegments \in Nat
    /\ Fetchers \subseteq Nat \ {0} /\ IsFiniteSet(Fetchers)
BY PlaylistsAssumption, SizesAssumption, EnvironmentAssumption, FS_Interval DEF URIs, Fetchers, MaxFetchers

LEMMA MessageTypes ==
    /\ \A what \in {"connect", "disconnect", "changeConfiguration", "postPrepared",
                     "finishDisconnect2"} : Msg(what) \in Message /\ Msg(what).what = what
    /\ \A what \in {"paused", "stopped", "temporarilyDone"}, f \in Fetchers :
          From(what, f) \in Message /\ From(what, f).what = what
    /\ \A what \in {"pause", "stop"} : Msg(what) \in Letter /\ Msg(what).what = what
    /\ Changes \subseteq Message /\ None \notin Changes /\ None # Msg("finishDisconnect2")
    /\ None.what = "none" /\ Msg("finishDisconnect2") \notin Changes
    /\ Ok \in Errors /\ Gap \in Unit /\ Gap.what = "corruption"
BY DEF Msg, From, None, Message, Letter, Changes, Ok, Errors, Results, Gap, Unit

LEMMA MessageFields ==
    ASSUME NEW m \in Message
    PROVE  /\ m.what \in {"paused", "stopped", "temporarilyDone"} =>
                 m.from \in Fetchers /\ m = From(m.what, m.from)
           /\ m.what \in {"seek", "seeked"} => m.pos \in Int
           /\ m.what = "seek" => m.awaited \in BOOLEAN /\ [m EXCEPT !.awaited = FALSE] \in Message
           /\ m.what = "error" => m.result \in Errors
           /\ m.what \in {"changeConfiguration2", "changeConfiguration3"} => m \in Changes
BY DEF Message, From, Changes

LEMMA ContinuationTypes ==
    /\ None \in Continuation /\ Msg("finishDisconnect2") \in Continuation
    /\ Changes \subseteq Continuation /\ Continuation \subseteq Message \cup {None}
    /\ \A c \in Continuation : c = None \/ c = Msg("finishDisconnect2") \/ c \in Changes
BY MessageTypes DEF Continuation

LEMMA SessionFields ==
    ASSUME NEW s \in Sessions
    PROVE  /\ SeekReplied(s) \in Sessions
           /\ \A n \in Int : [s EXCEPT !.counter = n] \in Sessions
           /\ s.counter \in Int /\ s.continuation \in Continuation /\ s.created \in Nat
           /\ {s.reconfiguring, s.seekReply, s.disconnectReply, s.preparing} \subseteq BOOLEAN
BY DEF Sessions, SeekReplied

LEMMA InitTypes == Init => TypeInv
<1> SUFFICES ASSUME Init PROVE TypeInv
  OBVIOUS
<1>1. ClientTypes
  BY Constants, EnvironmentAssumption DEF Init, ClientTypes
<1>2. SessionTypes
  BY Constants, ContinuationTypes DEF Init, SessionTypes, Sessions
<1>3. FetcherTypes
  BY Constants DEF Init, FetcherTypes, FetcherState, NoFetcher, Streams
<1>4. DataTypes
  BY Constants, MessageTypes DEF Init, DataTypes, Heard, Streams, URIs
<1> QED BY <1>1, <1>2, <1>3, <1>4 DEF TypeInv

LEMMA TailTypes ==
    ASSUME TypeInv, inbox # <<>>
    PROVE  /\ Tail(inbox) \in Seq(Message) /\ Head(inbox) \in Message
           /\ \A m \in Message : Append(Tail(inbox), m) \in Seq(Message)
BY TailPlaces, AppendPlaces DEF TypeInv, SessionTypes

LEMMA SpendTypes ==
    ASSUME TypeInv, NEW e \in BoundedEvents, Spend(e)
    PROVE  budget' \in [BoundedEvents -> 0 .. MaxCalls] /\ budget'[e] = budget[e] - 1
           /\ \A d \in BoundedEvents \ {e} : budget'[d] = budget[d]
<1>1. budget[e] - 1 \in 0 .. MaxCalls
  BY Constants DEF TypeInv, ClientTypes, Spend
<1> QED BY <1>1 DEF TypeInv, ClientTypes, Spend

LEMMA ClientActTypes ==
    ASSUME TypeInv, Client
    PROVE  TypeInv'
<1>0. /\ \A m \in Message : Append(inbox, m) \in Seq(Message)
      /\ position + 1 \in Int /\ "select" \in BoundedEvents /\ "seek" \in BoundedEvents
      /\ "disconnect" \in BoundedEvents
      /\ [what |-> "seek", pos |-> position + 1, awaited |-> TRUE] \in Message
  BY AppendPlaces DEF TypeInv, SessionTypes, ClientTypes, BoundedEvents, Message
<1> USE DEF TypeInv, sessionVars, fetcherVars, sourceVars, readerVars
<1>1. CASE ConnectAsync
  BY <1>0, <1>1, MessageTypes DEF ConnectAsync, ClientTypes, SessionTypes, FetcherTypes, DataTypes
<1>2. ASSUME NEW u \in AudioURIs, SelectTrack(u)
      PROVE  TypeInv'
  BY <1>0, <1>2, MessageTypes, SpendTypes DEF SelectTrack, ClientTypes, SessionTypes, FetcherTypes, DataTypes
<1>3. CASE SeekTo
  BY <1>0, <1>3, MessageTypes, SpendTypes DEF SeekTo, Idle, ClientTypes, SessionTypes, FetcherTypes, DataTypes
<1>4. CASE Disconnect
  BY <1>0, <1>4, MessageTypes, SpendTypes DEF Disconnect, Idle, ClientTypes, SessionTypes, FetcherTypes,
    DataTypes
<1> QED BY <1>1, <1>2, <1>3, <1>4 DEF Client

LEMMA MailsTypes ==
    ASSUME TypeInv, NEW m, \A f \in Fetchers : m[f] = None \/ m[f] \in Letter
    PROVE  Mails(m) \in [Fetchers -> Seq(Letter)]
<1> SUFFICES ASSUME NEW f \in Fetchers, m[f] # None
             PROVE  Append(mail[f], m[f]) \in Seq(Letter)
  BY DEF Mails, TypeInv, FetcherTypes
<1>1. mail[f] \in Seq(Letter) /\ m[f] \in Letter
  BY DEF TypeInv, FetcherTypes
<1> QED BY <1>1, AppendPlaces

LEMMA FetchersAreFinite ==
    ASSUME NEW fs \in SUBSET Fetchers
    PROVE  IsFiniteSet(fs) /\ Cardinality(fs) \in Nat
<1>1. IsFiniteSet(fs)
  BY Constants, FS_Subset
<1> QED BY <1>1, FS_CardinalityType

LEMMA StoppingTypes ==
    ASSUME NEW s \in Sessions, NEW infos \in SUBSET Fetchers,
           NEW m \in [Fetchers -> Seq(Letter)], NEW q \in Seq(Message)
    PROVE  /\ Stopping(s, infos) \in Sessions
           /\ StoppedMails(m, infos) \in [Fetchers -> Seq(Letter)]
           /\ StoppedInbox(q, infos) \in Seq(Message)
<1>1. Cardinality(infos) \in Int
  BY FetchersAreFinite
<1>2. Stopping(s, infos) \in Sessions
  BY <1>1, ContinuationTypes DEF Stopping, Sessions
<1>3. \A f \in Fetchers : Append(m[f], Msg("stop")) \in Seq(Letter)
  BY MessageTypes, AppendPlaces
<1>4. StoppedInbox(q, infos) \in Seq(Message)
  BY MessageTypes, AppendPlaces DEF StoppedInbox
<1> QED BY <1>1, <1>2, <1>3, <1>4 DEF StoppedMails

LEMMA ChangeTypes ==
    ASSUME TypeInv, inbox # <<>>, NEW t \in Int, ChangesConfiguration(t),
           UNCHANGED <<position, prepared, selected, budget, delayed>>
    PROVE  TypeInv'
<1> DEFINE goesOn == IF t < 0
                     THEN {f \in mFetcherInfos : fetcher[f].uri = URIOf(fetcher[f].stream)}
                     ELSE {}
           resume == {fetcher[f].stream : f \in goesOn}
           msg == [what |-> IF t < 0 THEN "changeConfiguration3" ELSE "changeConfiguration2",
                   streams |-> Streams \ resume, resume |-> resume, pos |-> t,
                   uris |-> [s \in Streams |-> URIOf(s)]]
           letters == [f \in Fetchers |-> IF f \notin mFetcherInfos THEN None
                                          ELSE Msg(IF f \in goesOn THEN "pause" ELSE "stop")]
           changed == [session EXCEPT !.reconfiguring = TRUE,
                                      !.counter = Cardinality(mFetcherInfos),
                                      !.continuation = msg]
<1>1. resume \subseteq Streams
  BY DEF TypeInv, SessionTypes, FetcherTypes, FetcherState
<1>2. [s \in Streams |-> URIOf(s)] \in [Streams -> URIs]
  BY Constants DEF URIOf, TypeInv, ClientTypes
<1>3. msg \in Changes
  <2> HIDE DEF resume
  <2> QED BY <1>1, <1>2 DEF Changes
<1>4. Mails(letters) \in [Fetchers -> Seq(Letter)]
  <2>1. \A f \in Fetchers : letters[f] = None \/ letters[f] \in Letter
    <3> HIDE DEF goesOn
    <3> QED BY MessageTypes
  <2> HIDE DEF letters
  <2> QED BY <2>1, MailsTypes
<1>5. Cardinality(mFetcherInfos) \in Int
  BY FetchersAreFinite DEF TypeInv, SessionTypes
<1>6. changed \in Sessions /\ SeekReplied(changed) \in Sessions
  <2>1. msg \in Continuation
    BY <1>3, ContinuationTypes
  <2> HIDE DEF msg
  <2> QED BY <1>5, <2>1 DEF TypeInv, SessionTypes, Sessions, SeekReplied
<1>7. /\ mail' = Mails(letters)
      /\ IF mFetcherInfos = {}
         THEN /\ inbox' = Append(Tail(inbox), msg)
              /\ session' = SeekReplied(changed)
              /\ client' = ClientReplied(changed)
         ELSE inbox' = Tail(inbox) /\ session' = changed /\ client' = client
      /\ UNCHANGED <<mFetcherInfos, mIsPrepared, mDiscontinuities, fetcher, sourceVars,
                     readerVars, failed>>
  BY DEF ChangesConfiguration
<1>8. client' \in {client, "idle"}
  BY <1>7 DEF ClientReplied
<1>9. inbox' \in Seq(Message) /\ session' \in Sessions
  <2> HIDE DEF msg, changed
  <2> QED BY <1>3, <1>6, <1>7, TailTypes, MessageTypes
<1> HIDE DEF letters
<1> QED BY <1>4, <1>7, <1>8, <1>9
     DEF TypeInv, ClientTypes, SessionTypes, FetcherTypes, DataTypes, sourceVars, readerVars

LEMMA OnDisconnectTypes ==
    ASSUME TypeInv, OnDisconnect
    PROVE  TypeInv'
<1> DEFINE asked == [session EXCEPT !.disconnectReply = TRUE]
<1>1. asked \in Sessions
  BY DEF TypeInv, SessionTypes, Sessions
<1>2. Tail(inbox) \in Seq(Message)
  BY TailTypes DEF OnDisconnect, Handles
<1>3. session' \in Sessions /\ inbox' \in Seq(Message) /\ mail' \in [Fetchers -> Seq(Letter)]
  <2>1. /\ Stopping(asked, mFetcherInfos) \in Sessions
        /\ StoppedMails(mail, mFetcherInfos) \in [Fetchers -> Seq(Letter)]
        /\ StoppedInbox(Tail(inbox), mFetcherInfos) \in Seq(Message)
    <3> HIDE DEF asked
    <3> QED BY <1>1, <1>2, StoppingTypes DEF TypeInv, SessionTypes, FetcherTypes
  <2> HIDE DEF asked
  <2>2. \/ session' = asked /\ inbox' = Tail(inbox) /\ mail' = mail
        \/ /\ session' = Stopping(asked, mFetcherInfos)
           /\ inbox' = StoppedInbox(Tail(inbox), mFetcherInfos)
           /\ mail' = StoppedMails(mail, mFetcherInfos)
    BY DEF OnDisconnect, asked
  <2> QED BY <1>1, <1>2, <2>1, <2>2 DEF TypeInv, FetcherTypes
<1> QED BY <1>3 DEF OnDisconnect, TypeInv, ClientTypes, SessionTypes, FetcherTypes, DataTypes,
              clientVars, sourceVars, readerVars

LEMMA OnSeekTypes ==
    ASSUME TypeInv, OnSeek
    PROVE  TypeInv'
<1>1. inbox # <<>> /\ Head(inbox).what = "seek"
  BY DEF OnSeek, Handles
<1> DEFINE m == Head(inbox)
           letters == [f \in Fetchers |-> IF f \in mFetcherInfos
                                          THEN [what |-> "seek", pos |-> m.pos] ELSE None]
<1>2. m.pos \in Int /\ [m EXCEPT !.awaited = FALSE] \in Message
  BY <1>1, TailTypes, MessageFields
<1>3. ToAll(mFetcherInfos, [what |-> "seek", pos |-> m.pos]) \in [Fetchers -> Seq(Letter)]
  <2>1. \A f \in Fetchers : letters[f] = None \/ letters[f] \in Letter
    BY <1>2 DEF Letter
  <2>2. ToAll(mFetcherInfos, [what |-> "seek", pos |-> m.pos]) = Mails(letters)
    BY DEF ToAll
  <2> HIDE DEF letters
  <2> QED BY <2>1, <2>2, MailsTypes
<1>4. Cardinality(mFetcherInfos) \in Int
  BY FetchersAreFinite DEF TypeInv, SessionTypes
<1>5. CASE ~m.awaited
  BY <1>5 DEF OnSeek, Fails, TypeInv, ClientTypes, SessionTypes, FetcherTypes, DataTypes, clientVars,
    sessionVars, fetcherVars, sourceVars, readerVars
<1>6. CASE m.awaited
  <2>1. /\ mDiscontinuities' = [s \in Streams |-> <<>>] /\ inbox' = Tail(inbox)
        /\ session' = [session EXCEPT !.seekReply = TRUE] \/
           session' = [session EXCEPT !.seekReply = TRUE, !.counter = Cardinality(mFetcherInfos)]
        /\ delayed' = delayed \/ delayed' = delayed \cup {[m EXCEPT !.awaited = FALSE]}
        /\ mail' = mail \/ mail' = ToAll(mFetcherInfos, [what |-> "seek", pos |-> m.pos])
        /\ UNCHANGED <<clientVars, mFetcherInfos, mIsPrepared, fetcher, sourceVars,
                       readerVars, failed>>
    BY <1>6 DEF OnSeek
  <2>2. session' \in Sessions
    BY <1>4, <2>1 DEF TypeInv, SessionTypes, Sessions
  <2>3. mail' \in [Fetchers -> Seq(Letter)]
    BY <1>3, <2>1 DEF TypeInv, FetcherTypes
  <2>4. inbox' \in Seq(Message) /\ delayed' \subseteq Message
    BY <1>1, <1>2, <2>1, TailTypes DEF TypeInv, SessionTypes
  <2> HIDE DEF m
  <2> QED BY <2>1, <2>2, <2>3, <2>4
       DEF TypeInv, ClientTypes, SessionTypes, FetcherTypes, DataTypes,
           clientVars, sourceVars, readerVars
<1> QED BY <1>5, <1>6

\* What most handlers of the session leave alone.
LEMMA HandlerTypes ==
    ASSUME TypeInv, client' \in {client, "idle", "gone"}, UNCHANGED <<position, selected>>,
           prepared' \in {"no", "yes", "failed"}, budget' \in [BoundedEvents -> 0 .. MaxCalls],
           session' \in Sessions, mFetcherInfos' \subseteq Fetchers, mIsPrepared' \subseteq Fetchers,
           inbox' \in Seq(Message), delayed' \subseteq Message,
           fetcher' \in [Fetchers -> FetcherState], mail' \in [Fetchers -> Seq(Letter)],
           mDiscontinuities' \in [Streams -> Seq(Announcement)],
           mBuffers' \in [Streams -> Seq(Unit)], mEOSResult' \in [Streams -> Errors],
           UNCHANGED readerVars,
           failed' \in {"none", "senderAwaitsResponse", "mContinuationCounter", "addFetcher"}
    PROVE  TypeInv'
BY DEF TypeInv, ClientTypes, SessionTypes, FetcherTypes, DataTypes, readerVars

LEMMA CountedTypes ==
    ASSUME TypeInv
    PROVE  LET counted == [session EXCEPT !.counter = @ - 1]
           IN  counted \in Sessions /\ SeekReplied(counted) \in Sessions
<1> DEFINE n == session.counter - 1
           counted == [session EXCEPT !.counter = n]
<1>1. session \in Sessions /\ n \in Int
  BY SessionFields DEF TypeInv, SessionTypes
<1> HIDE DEF n
<1>2. counted \in Sessions
  BY <1>1, SessionFields
<1> HIDE DEF counted
<1>3. SeekReplied(counted) \in Sessions
  BY <1>2, SessionFields
<1> QED BY <1>2, <1>3 DEF counted, n

LEMMA OnAcknowledgedTypes ==
    ASSUME TypeInv, OnAcknowledged
    PROVE  TypeInv'
<1> DEFINE f == Head(inbox).from
           counted == [session EXCEPT !.counter = @ - 1]
           goesOn == session.continuation # None /\ counted.counter = 0
<1>1. inbox # <<>> /\ Head(inbox).what \in {"paused", "stopped"}
  BY DEF OnAcknowledged, Handles
<1>2. f \in Fetchers /\ session.continuation \in Message \cup {None}
  <2>1. session \in Sessions /\ Head(inbox) \in Message
    BY <1>1, TailTypes DEF TypeInv, SessionTypes
  <2> QED BY <1>1, <2>1, MessageFields, SessionFields, ContinuationTypes
<1>3. counted \in Sessions /\ SeekReplied(counted) \in Sessions
  BY CountedTypes
<1>4. CASE session.continuation # None /\ session.counter <= 0
  BY <1>4 DEF OnAcknowledged, Fails, TypeInv, ClientTypes, SessionTypes, FetcherTypes, DataTypes, clientVars,
    sessionVars, fetcherVars, sourceVars, readerVars
<1>5. CASE ~(session.continuation # None /\ session.counter <= 0)
  <2>1. /\ mFetcherInfos' \subseteq mFetcherInfos
        /\ \/ inbox' = Tail(inbox)
           \/ session.continuation # None /\ inbox' = Append(Tail(inbox), session.continuation)
        /\ session' \in {session, counted, SeekReplied(counted)}
        /\ client' \in {client, "idle"}
        /\ mail' = mail \/ mail' = [mail EXCEPT ![f] = <<>>]
        /\ UNCHANGED <<position, prepared, selected, budget, mIsPrepared, delayed,
                       mDiscontinuities, fetcher, sourceVars, readerVars, failed>>
    BY <1>5 DEF OnAcknowledged, ClientReplied
  <2> HIDE DEF f, counted
  <2>2. inbox' \in Seq(Message)
    BY <1>1, <1>2, <2>1, TailTypes
  <2>3. mail' \in [Fetchers -> Seq(Letter)]
    <3>1. <<>> \in Seq(Letter) /\ mail \in [Fetchers -> Seq(Letter)]
      BY DEF TypeInv, FetcherTypes
    <3> QED BY <1>2, <2>1, <3>1
  <2>4. session' \in Sessions
    BY <1>3, <2>1 DEF TypeInv, SessionTypes, counted
  <2> QED BY <2>1, <2>2, <2>3, <2>4, HandlerTypes
       DEF TypeInv, ClientTypes, SessionTypes, FetcherTypes, DataTypes, sourceVars
<1> QED BY <1>4, <1>5

LEMMA OnSeekedTypes ==
    ASSUME TypeInv, OnSeeked
    PROVE  TypeInv'
<1> DEFINE m == Head(inbox)
           counted == [session EXCEPT !.counter = @ - 1]
<1>1. inbox # <<>> /\ m.what = "seeked"
  BY DEF OnSeeked, Handles
<1>2. Time(m.pos) \in Announcement /\ Tail(inbox) \in Seq(Message)
  BY <1>1, TailTypes, MessageFields DEF Time, Announcement
<1>3. counted \in Sessions /\ SeekReplied(counted) \in Sessions
  BY CountedTypes
<1>4. /\ inbox' = Tail(inbox)
      /\ session' \in {counted, SeekReplied(counted)} /\ client' \in {client, "idle"}
      /\ mDiscontinuities' = mDiscontinuities \/
         mDiscontinuities' = [s \in Streams |-> Append(mDiscontinuities[s], Time(m.pos))]
      /\ fetcher' = fetcher \/
         fetcher' = [f \in Fetchers |-> IF f \in mFetcherInfos
                                        THEN [fetcher[f] EXCEPT !.work = "monitor"]
                                        ELSE fetcher[f]]
      /\ UNCHANGED <<position, prepared, selected, budget, mFetcherInfos, mIsPrepared, delayed,
                     mail, sourceVars, readerVars, failed>>
  BY DEF OnSeeked, ClientReplied
<1> HIDE DEF m
<1>5. fetcher' \in [Fetchers -> FetcherState]
  <2>1. \A f \in Fetchers : [fetcher[f] EXCEPT !.work = "monitor"] \in FetcherState
    BY DEF TypeInv, FetcherTypes, FetcherState
  <2> QED BY <1>4, <2>1 DEF TypeInv, FetcherTypes
<1>6. mDiscontinuities' \in [Streams -> Seq(Announcement)]
  <2>1. \A s \in Streams : Append(mDiscontinuities[s], Time(m.pos)) \in Seq(Announcement)
    BY <1>2, AppendPlaces DEF TypeInv, DataTypes
  <2>2. mDiscontinuities \in [Streams -> Seq(Announcement)]
    BY DEF TypeInv, DataTypes
  <2> QED BY <1>4, <2>1, <2>2
<1> QED BY <1>2, <1>3, <1>4, <1>5, <1>6, HandlerTypes
     DEF TypeInv, ClientTypes, SessionTypes, FetcherTypes, DataTypes, sourceVars

LEMMA OnErrorTypes ==
    ASSUME TypeInv, OnError
    PROVE  TypeInv'
<1>1. inbox # <<>> /\ Head(inbox).what = "error" /\ inbox' = Tail(inbox)
  BY DEF OnError, Handles
<1>2. Head(inbox).result \in Errors /\ Tail(inbox) \in Seq(Message)
  BY <1>1, TailTypes, MessageFields
<1>3. mEOSResult' \in [Streams -> Errors]
  BY <1>2 DEF OnError, TypeInv, DataTypes
<1>4. session' \in Sessions
  BY DEF OnError, TypeInv, SessionTypes, Sessions
<1>5. prepared' \in {"no", "yes", "failed"}
  BY DEF OnError, TypeInv, ClientTypes
<1> QED BY <1>1, <1>2, <1>3, <1>4, <1>5, HandlerTypes
     DEF OnError, TypeInv, ClientTypes, SessionTypes, FetcherTypes, DataTypes, fetcherVars

LEMMA OtherHandlersTypes ==
    ASSUME TypeInv,
           \/ OnConnectFails \/ OnPostPrepared \/ OnTemporarilyDone \/ OnFinishDisconnect2
           \/ \E m \in delayed : DelayPasses(m)
    PROVE  TypeInv'
<1> USE DEF TypeInv, ClientTypes, SessionTypes, FetcherTypes, DataTypes, fetcherVars, sourceVars
<1>1. CASE OnConnectFails
  <2>1. budget' \in [BoundedEvents -> 0 .. MaxCalls] /\ Tail(inbox) \in Seq(Message)
    BY <1>1, SpendTypes, TailTypes DEF OnConnectFails, BoundedEvents, Handles
  <2>2. session' \in Sessions
    BY <1>1 DEF OnConnectFails, Sessions
  <2> QED BY <1>1, <2>1, <2>2, HandlerTypes DEF OnConnectFails
<1>2. CASE OnPostPrepared
  <2>1. Tail(inbox) \in Seq(Message) /\ Msg("postPrepared") \in Message
    BY <1>2, TailTypes, MessageTypes DEF OnPostPrepared, Handles
  <2>2. /\ prepared' \in {prepared, "yes"} /\ delayed' \subseteq delayed \cup {Msg("postPrepared")}
        /\ inbox' = Tail(inbox)
        /\ UNCHANGED <<client, position, selected, budget, session, mFetcherInfos, mIsPrepared,
                       mDiscontinuities, fetcherVars, sourceVars, readerVars, failed>>
    BY <1>2 DEF OnPostPrepared
  <2> QED BY <2>1, <2>2, HandlerTypes
<1>3. CASE OnTemporarilyDone
  <2>1. inbox' \in Seq(Message)
    BY <1>3, TailTypes, MessageTypes DEF OnTemporarilyDone, Handles
  <2>2. session' \in Sessions
    BY <1>3 DEF OnTemporarilyDone, Sessions
  <2>3. mIsPrepared' \subseteq Fetchers
    BY <1>3 DEF OnTemporarilyDone
  <2> QED BY <1>3, <2>1, <2>2, <2>3, HandlerTypes DEF OnTemporarilyDone, clientVars
<1>4. CASE OnFinishDisconnect2
  <2>1. Tail(inbox) \in Seq(Message) /\ inbox' = Tail(inbox)
    BY <1>4, TailTypes DEF OnFinishDisconnect2, Handles
  <2>2. session' \in Sessions
    BY <1>4, ContinuationTypes DEF OnFinishDisconnect2, Sessions
  <2>3. mEOSResult' \in [Streams -> Errors]
    BY <1>4 DEF OnFinishDisconnect2, Errors, Results
  <2> QED BY <1>4, <2>1, <2>2, <2>3, HandlerTypes DEF OnFinishDisconnect2
<1>5. ASSUME NEW m \in delayed, DelayPasses(m)
      PROVE  TypeInv'
  <2>1. Append(inbox, m) \in Seq(Message)
    BY AppendPlaces
  <2> QED BY <1>5, <2>1, HandlerTypes DEF DelayPasses, clientVars
<1> QED BY <1>1, <1>2, <1>3, <1>4, <1>5

LEMMA FetcherFrameTypes ==
    ASSUME TypeInv, UNCHANGED <<client, position, prepared, selected, session, mFetcherInfos,
                                mIsPrepared, delayed, mDiscontinuities, readerVars, failed>>,
           budget' \in [BoundedEvents -> 0 .. MaxCalls], inbox' \in Seq(Message),
           fetcher' \in [Fetchers -> FetcherState], mail' \in [Fetchers -> Seq(Letter)],
           mBuffers' \in [Streams -> Seq(Unit)], mEOSResult' \in [Streams -> Errors]
    PROVE  TypeInv'
BY DEF TypeInv, ClientTypes, SessionTypes, FetcherTypes, DataTypes, readerVars

LEMMA FetcherFacts ==
    ASSUME TypeInv, NEW f \in Fetchers
    PROVE  /\ fetcher[f] \in FetcherState /\ fetcher[f].stream \in Streams /\ fetcher[f].pos \in Int
           /\ fetcher[f].uri \in URIs /\ fetcher[f].left \in Nat
           /\ mail[f] \in Seq(Letter)
           /\ mail[f] # <<>> => /\ Tail(mail[f]) \in Seq(Letter) /\ Head(mail[f]) \in Letter
                                /\ Head(mail[f]).what \in {"seek", "start"} => Head(mail[f]).pos \in Int
           /\ \A m \in Message : Append(inbox, m) \in Seq(Message)
           /\ From("temporarilyDone", f) \in Message
           /\ \A err \in Results :
                [what |-> "error", result |-> [err |-> err, pos |-> fetcher[f].pos]] \in Message
<1>1. fetcher[f] \in FetcherState /\ mail[f] \in Seq(Letter) /\ inbox \in Seq(Message)
  BY DEF TypeInv, FetcherTypes, SessionTypes
<1>2. /\ fetcher[f].stream \in Streams /\ fetcher[f].pos \in Int /\ fetcher[f].uri \in URIs
      /\ fetcher[f].left \in Nat
  BY <1>1 DEF FetcherState
<1>3. ASSUME mail[f] # <<>>
      PROVE  /\ Tail(mail[f]) \in Seq(Letter) /\ Head(mail[f]) \in Letter
             /\ Head(mail[f]).what \in {"seek", "start"} => Head(mail[f]).pos \in Int
  <2>1. Tail(mail[f]) \in Seq(Letter) /\ Head(mail[f]) \in Letter
    BY <1>1, <1>3, TailPlaces
  <2>2. \A m \in Letter : m.what \in {"seek", "start"} => m.pos \in Int
    BY DEF Letter
  <2> QED BY <2>1, <2>2
<1>4. \A err \in Results :
         [what |-> "error", result |-> [err |-> err, pos |-> fetcher[f].pos]] \in Message
  BY <1>2 DEF Message, Errors
<1>5. \A m \in Message : Append(inbox, m) \in Seq(Message)
  BY <1>1, AppendPlaces
<1> QED BY <1>1, <1>2, <1>3, <1>4, <1>5, MessageTypes

LEMMA TakesMailTypes ==
    ASSUME TypeInv, NEW f \in Fetchers, TakesMail(f)
    PROVE  TypeInv'
<1>1. mail[f] # <<>> /\ TakeMail(f)
  BY DEF TakesMail, OnStart, OnPause, OnStop, OnFetcherSeek, Mail
<1>2. mail' \in [Fetchers -> Seq(Letter)]
  BY <1>1, FetcherFacts DEF TakeMail, TypeInv, FetcherTypes
<1>3. fetcher' \in [Fetchers -> FetcherState]
  <2>1. \E s \in FetcherState : Sets(f, s)
    BY <1>1, FetcherFacts, Constants DEF TakesMail, OnStart, OnPause, OnStop, OnFetcherSeek, Mail,
      FetcherState
  <2> QED BY <2>1 DEF Sets, TypeInv, FetcherTypes
<1>4. inbox' \in Seq(Message)
  <2>1. \/ inbox' = inbox
        \/ \E m \in Message : Notify(m)
    BY <1>1, FetcherFacts, MessageTypes DEF TakesMail, OnStart, OnPause, OnStop, OnFetcherSeek, Mail, Message
  <2> QED BY <2>1, FetcherFacts DEF Notify, TypeInv, SessionTypes
<1>5. mBuffers' \in [Streams -> Seq(Unit)] /\ mEOSResult' \in [Streams -> Errors]
  <2>1. Ok \in Errors /\ <<>> \in Seq(Unit)
    BY MessageTypes
  <2> QED BY <2>1 DEF TakesMail, OnStart, OnPause, OnStop, OnFetcherSeek, Clear, sourceVars,
                TypeInv, DataTypes
<1>6. FetcherFrame
  BY DEF TakesMail, OnStart, OnPause, OnStop, OnFetcherSeek
<1> QED BY <1>2, <1>3, <1>4, <1>5, <1>6, FetcherFrameTypes
     DEF FetcherFrame, clientVars, TypeInv, ClientTypes

\* What a fetcher's work changes: of messages, it only sends two kinds.
Reports(f) ==
    {From("temporarilyDone", f)} \cup
    {[what |-> "error", result |-> [err |-> err, pos |-> fetcher[f].pos]] : err \in Results}
LEMMA WorkFacts ==
    ASSUME TypeInv, NEW f \in Fetchers, Works(f)
    PROVE  /\ fetcher[f].work # "none"
           /\ inbox' = inbox \/ \E m \in Reports(f) : inbox' = Append(inbox, m)
           /\ \E s \in FetcherState : /\ s.stream = fetcher[f].stream /\ s.uri = fetcher[f].uri
                                      /\ fetcher' = [fetcher EXCEPT ![f] = s]
           /\ budget' = budget \/ Spend("fetchError")
           /\ UNCHANGED <<client, position, prepared, selected, session, mFetcherInfos, mIsPrepared,
                          delayed, mDiscontinuities, mail, readerVars, failed>>
           /\ mBuffers' \in [Streams -> Seq(Unit)] /\ mEOSResult' \in [Streams -> Errors]
<1> DEFINE keeps(s) == s.stream = fetcher[f].stream /\ s.uri = fetcher[f].uri
           works == {[fetcher[f] EXCEPT !.work = w] : w \in {"none", "monitor", "download"}}
           left == {[fetcher[f] EXCEPT !.work = "monitor", !.left = @ - 1],
                    [fetcher[f] EXCEPT !.work = "monitor", !.left = @ - 1, !.posted = TRUE]}
<1>1. fetcher[f].work # "none"
  BY DEF Works, OnMonitorQueue, OnDownloadNext, OnDownloadEnds, OnDownloadInterrupted, OnDownloadFails,
    OnDownloadSkips
<1>2. \A s \in works : s \in FetcherState /\ keeps(s)
  BY FetcherFacts DEF FetcherState
<1>3. fetcher[f].left > 0 => \A s \in left : s \in FetcherState /\ keeps(s)
  <2> SUFFICES ASSUME fetcher[f].left > 0, NEW s \in left
               PROVE  s \in FetcherState /\ keeps(s)
    OBVIOUS
  <2>1. fetcher[f] \in FetcherState /\ fetcher[f].left - 1 \in Nat
    BY FetcherFacts
  <2> QED BY <2>1 DEF FetcherState
<1>4. fetcher' = fetcher \/ (\E s \in works : Sets(f, s))
        \/ (fetcher[f].left > 0 /\ \E s \in left : Sets(f, s))
  BY DEF Works, OnMonitorQueue, OnDownloadNext, OnDownloadEnds, OnDownloadInterrupted, OnDownloadFails,
    OnDownloadSkips
<1> HIDE DEF works, left
<1>5. \E s \in FetcherState : keeps(s) /\ fetcher' = [fetcher EXCEPT ![f] = s]
  <2>1. CASE fetcher' = fetcher
    <3>1. fetcher = [fetcher EXCEPT ![f] = fetcher[f]]
      BY DEF TypeInv, FetcherTypes
    <3> QED BY <2>1, <3>1, FetcherFacts
  <2> QED BY <1>2, <1>3, <1>4, <2>1 DEF Sets
<1>6. inbox' = inbox \/ \E m \in Reports(f) : inbox' = Append(inbox, m)
  BY DEF Works, OnMonitorQueue, OnDownloadNext, OnDownloadEnds, OnDownloadInterrupted, OnDownloadFails,
    OnDownloadSkips, SaysDone, NotifyError, Notify, Reports, Results
<1>7. /\ budget' = budget \/ Spend("fetchError")
      /\ UNCHANGED <<client, position, prepared, selected, session, mFetcherInfos, mIsPrepared,
                     delayed, mDiscontinuities, mail, readerVars, failed>>
  BY DEF Works, OnMonitorQueue, OnDownloadNext, OnDownloadEnds, OnDownloadInterrupted, OnDownloadFails,
    OnDownloadSkips, FetcherFrame, clientVars
<1>8. mBuffers' \in [Streams -> Seq(Unit)] /\ mEOSResult' \in [Streams -> Errors]
  <2>1. /\ mBuffers \in [Streams -> Seq(Unit)] /\ mEOSResult \in [Streams -> Errors]
        /\ fetcher[f].stream \in Streams
    BY FetcherFacts DEF TypeInv, DataTypes
  <2>2. Packet(fetcher[f].pos, fetcher[f].uri) \in Unit /\ Gap \in Unit /\ Ok \in Errors
    BY FetcherFacts, MessageTypes DEF Packet, Unit
  <2>3. \A p \in Unit, s \in Streams : Append(mBuffers[s], p) \in Seq(Unit)
    BY <2>1, AppendPlaces
  <2>4. /\ \/ mBuffers' = mBuffers
           \/ \E p \in Unit : mBuffers' = [mBuffers EXCEPT ![fetcher[f].stream] = Append(@, p)]
        /\ mEOSResult' = mEOSResult \/ mEOSResult' = [mEOSResult EXCEPT ![fetcher[f].stream] = Ok]
    BY <2>2 DEF Works, OnMonitorQueue, OnDownloadNext, OnDownloadEnds, OnDownloadInterrupted, OnDownloadFails,
      OnDownloadSkips, sourceVars
  <2>5. mBuffers' \in [Streams -> Seq(Unit)]
    <3>1. \A p \in Unit : [mBuffers EXCEPT ![fetcher[f].stream] = Append(@, p)]
                              \in [Streams -> Seq(Unit)]
      BY <2>1, <2>3
    <3> QED BY <2>1, <2>4, <3>1
  <2>6. mEOSResult' \in [Streams -> Errors]
    BY <2>1, <2>2, <2>4
  <2> QED BY <2>5, <2>6
<1> QED BY <1>1, <1>5, <1>6, <1>7, <1>8

LEMMA WorksTypes ==
    ASSUME TypeInv, NEW f \in Fetchers, Works(f)
    PROVE  TypeInv'
<1>1. inbox' \in Seq(Message)
  <2>1. \A m \in Reports(f) : m \in Message
    BY FetcherFacts DEF Reports
  <2> QED BY <2>1, WorkFacts, FetcherFacts DEF TypeInv, SessionTypes
<1>2. fetcher' \in [Fetchers -> FetcherState]
  BY WorkFacts DEF TypeInv, FetcherTypes
<1>3. budget' \in [BoundedEvents -> 0 .. MaxCalls]
  BY WorkFacts, SpendTypes DEF TypeInv, ClientTypes, BoundedEvents
<1>4. mail' \in [Fetchers -> Seq(Letter)]
  BY WorkFacts DEF TypeInv, FetcherTypes
<1> QED BY <1>1, <1>2, <1>3, <1>4, WorkFacts, FetcherFrameTypes

LEMMA ReaderTypes ==
    ASSUME TypeInv, NEW s \in Streams, Reader(s)
    PROVE  TypeInv'
<1>1. /\ mDiscontinuities \in [Streams -> Seq(Announcement)] /\ mLastSeek \in Int
      /\ mLatestDequeued \in [Streams -> Int]
      /\ mBuffers \in [Streams -> Seq(Unit)] /\ mEOSResult \in [Streams -> Errors]
      /\ got \in [Streams -> Heard] /\ told \in [Streams -> [pos : Int, uri : URIs]]
      /\ position \in Int
  BY DEF TypeInv, DataTypes, ClientTypes
<1>2. mDiscontinuities[s] # <<>> =>
         Tail(mDiscontinuities[s]) \in Seq(Announcement) /\ Head(mDiscontinuities[s]) \in Announcement
  BY <1>1, TailPlaces
<1>3. mBuffers[s] # <<>> => Tail(mBuffers[s]) \in Seq(Unit) /\ Head(mBuffers[s]) \in Unit
  BY <1>1, TailPlaces
<1>4. [what |-> "end", pos |-> mEOSResult[s].pos, err |-> mEOSResult[s].err] \in Heard
  BY <1>1 DEF Heard, Errors
<1>5. Announcement \subseteq Heard /\ Unit \subseteq Heard
  BY DEF Heard
<1>6. \A d \in Announcement : IF d.what = "time" THEN d.pos \in Int ELSE d.uri \in URIs
  BY DEF Announcement
<1>7. \A p \in Unit : p = Gap \/ p.pos \in Int
  BY DEF Unit
<1>8. [err |-> "EOS", pos |-> position] \in Errors
  BY <1>1 DEF Errors, Results
<1>9. /\ got' \in [Streams -> Heard] /\ mDiscontinuities' \in [Streams -> Seq(Announcement)]
      /\ mBuffers' \in [Streams -> Seq(Unit)]
  BY <1>1, <1>2, <1>3, <1>4, <1>5 DEF Reader, ReadBegins, ReadDiscontinuity, ReadPacket, HearsOfEnd,
    EndsWithOther, Gets
<1>10. told' \in [Streams -> [pos : Int, uri : URIs]] /\ mLastSeek' \in Int
  <2> DEFINE d == Head(mDiscontinuities[s])
  <2>1. \/ UNCHANGED <<told, mLastSeek>>
        \/ /\ mDiscontinuities[s] # <<>>
           /\ IF d.what = "time"
              THEN told' = [told EXCEPT ![s].pos = d.pos] /\ mLastSeek' = d.pos
              ELSE told' = [told EXCEPT ![s].uri = d.uri] /\ UNCHANGED mLastSeek
    BY DEF Reader, ReadBegins, ReadDiscontinuity, ReadPacket, HearsOfEnd, EndsWithOther
  <2>3. mDiscontinuities[s] # <<>> => IF d.what = "time" THEN d.pos \in Int ELSE d.uri \in URIs
    BY <1>2, <1>6
  <2> HIDE DEF d
  <2>4. told' \in [Streams -> [pos : Int, uri : URIs]]
    <3>1. ASSUME d.pos \in Int, told' = [told EXCEPT ![s].pos = d.pos]
          PROVE  told' \in [Streams -> [pos : Int, uri : URIs]]
      BY <1>1, <3>1
    <3>2. ASSUME d.uri \in URIs, told' = [told EXCEPT ![s].uri = d.uri]
          PROVE  told' \in [Streams -> [pos : Int, uri : URIs]]
      BY <1>1, <3>2
    <3> QED BY <1>1, <2>1, <2>3, <3>1, <3>2
  <2>5. mLastSeek' \in Int
    BY <1>1, <2>1, <2>3
  <2> QED BY <2>4, <2>5
<1>11. mLatestDequeued' \in [Streams -> Int] /\ mEOSResult' \in [Streams -> Errors]
  BY <1>1, <1>3, <1>7, <1>8 DEF Reader, ReadBegins, ReadDiscontinuity, ReadPacket, HearsOfEnd, EndsWithOther,
    ReaderFrame
<1>12. reader' \in [Streams -> {"idle", "available", "dequeues", "otherEnded"}]
  BY DEF Reader, ReadBegins, ReadDiscontinuity, ReadPacket, HearsOfEnd, EndsWithOther, Goes, TypeInv,
    DataTypes
<1>13. UNCHANGED <<clientVars, sessionVars, fetcherVars, failed>>
  BY DEF Reader, ReadBegins, ReadDiscontinuity, ReadPacket, HearsOfEnd, EndsWithOther, ReaderFrame
<1> QED BY <1>9, <1>10, <1>11, <1>12, <1>13
     DEF TypeInv, ClientTypes, SessionTypes, FetcherTypes, DataTypes, clientVars, sessionVars,
         fetcherVars

-----------------------------------------------------------------------------
(* The invariant                                                            *)

Requests == {"pause", "stop", "seek"}
Answers == {"paused", "stopped", "seeked"}
Reconfigure == {"changeConfiguration2", "changeConfiguration3"}
Continuations == Reconfigure \cup {"finishDisconnect2"}
Sent(what) == Count(inbox, {what})

\* What is asked of the fetchers and not yet counted: each has one request at most.
Asked == {f \in Fetchers : Count(mail[f], Requests) > 0}
Pending == Cardinality(Asked) + Count(inbox, Answers)
Awaiting == session.continuation # None \/ session.seekReply

\* Until it is connected, the session has done nothing.
Connecting == client = "new" \/ Sent("connect") > 0
NothingDone ==
    /\ Sent("connect") <= 1
    /\ Connecting =>
          /\ prepared = "no" /\ delayed = {} /\ mFetcherInfos = {}
          /\ ~session.reconfiguring /\ ~session.disconnectReply
          /\ client = "new" => inbox = <<>>
          /\ \A m \in InQueue(inbox) : m.what \in {"connect", "disconnect"}
          /\ \A f \in Fetchers : mail[f] = <<>> /\ fetcher[f].work = "none"

\* A seek is alone: the player waits for it, and made it when nothing was changing.
Seeks ==
    /\ client = "seeking" =>
          /\ ~session.reconfiguring /\ ~session.disconnectReply /\ session.continuation = None
          /\ Sent("connect") = 0 /\ Sent("changeConfiguration") = 0 /\ Sent("disconnect") = 0
    /\ Sent("seek") > 0 => client = "seeking" /\ ~session.seekReply
    /\ session.seekReply => client = "seeking"
    /\ Sent("seek") <= 1
    /\ \A m \in InQueue(inbox) : m.what = "seek" => m.awaited
    /\ delayed \subseteq {Msg("postPrepared")}

\* After it asks to be disconnected, the player asks for nothing.
Disconnects ==
    /\ Sent("disconnect") <= 1 /\ IsLast(inbox)
    /\ Sent("disconnect") > 0 => client = "disconnecting" /\ ~session.disconnectReply
    /\ session.disconnectReply =>
          /\ client = "disconnecting"
          /\ Sent("connect") = 0 /\ Sent("changeConfiguration") = 0

Reconfigurations ==
    /\ Sent("changeConfiguration") <= 1
    /\ session.reconfiguring => Sent("connect") = 0 /\ Sent("changeConfiguration") = 0
    /\ session.continuation # None => session.reconfiguring \/ session.disconnectReply
    /\ session.continuation \in Changes => session.reconfiguring

\* What the session counts is no less than what it waits for, and it goes on once.
Answered ==
    /\ \A f \in Fetchers : Count(mail[f], Requests) <= 1
    /\ IF Awaiting THEN Pending <= session.counter ELSE Pending = 0
    /\ Count(inbox, Continuations) <= 1
    /\ Count(inbox, Continuations) > 0 => Pending = 0 /\ session.continuation # None
    /\ \A m \in InQueue(inbox) : m.what \in Continuations => m = session.continuation

\* A reconfiguration creates two fetchers at most, and there are so many to come.
ToCome == IF Connecting \/ Sent("changeConfiguration") > 0 \/ session.continuation \in Changes
          THEN 2 ELSE 0
FetchersAreNumbered ==
    /\ mFetcherInfos \subseteq 1 .. session.created
    /\ session.created + 2 * budget["select"] + ToCome <= MaxFetchers

\* While a reconfiguration goes on, a fetcher whose stream starts afresh is being stopped.
Leaves(f) ==
    \/ \E m \in InQueue(mail[f]) : m.what = "stop"
    \/ From("stopped", f) \in InQueue(inbox)
FetchersDiffer ==
    /\ \A f \in Fetchers : fetcher[f].uri = VideoURI <=> fetcher[f].stream = "video"
    /\ session.continuation.what = "changeConfiguration2" => mFetcherInfos = {}
    /\ session.continuation \in Changes =>
          /\ session.continuation.streams = Streams \ session.continuation.resume
          /\ \A s \in Streams : session.continuation.uris[s] = VideoURI <=> s = "video"
    /\ session.continuation.what = "changeConfiguration3" =>
          \A f \in mFetcherInfos : Leaves(f) \/ fetcher[f].stream \in session.continuation.resume

SessionInv == /\ NothingDone /\ Seeks /\ Disconnects /\ Reconfigurations /\ Answered
              /\ FetchersAreNumbered /\ FetchersDiffer

One(what, K) == IF what \in K THEN 1 ELSE 0

LEMMA CountFacts ==
    ASSUME NEW q \in Seq(Message)
    PROVE  /\ \A K : Count(q, K) \in Nat
           /\ \A K : Count(q, K) = 0 <=> \A m \in InQueue(q) : m.what \notin K
<1> SUFFICES ASSUME NEW K
             PROVE  /\ Count(q, K) \in Nat
                    /\ Count(q, K) = 0 <=> \A m \in InQueue(q) : m.what \notin K
  OBVIOUS
<1>1. Count(q, K) \in Nat /\ (Count(q, K) > 0 <=> \E m \in InQueue(q) : m.what \in K)
  BY CountType
<1> QED BY <1>1

LEMMA TakeFacts ==
    ASSUME NEW q \in Seq(Message), q # <<>>
    PROVE  \A K : Count(q, K) = Count(Tail(q), K) + One(Head(q).what, K)
BY TailCount DEF One

LEMMA PostFacts ==
    ASSUME NEW q \in Seq(Message), NEW m \in Message
    PROVE  \A K : Count(Append(q, m), K) = Count(q, K) + One(m.what, K)
BY AppendCount DEF One

Untracked == {"postPrepared", "temporarilyDone", "error"}
LEMMA SteadyKeeps ==
    ASSUME TypeInv, TypeInv', SessionInv,
           \/ inbox' = inbox
           \/ inbox # <<>> /\ Head(inbox).what \in Untracked /\ inbox' = Tail(inbox)
           \/ \E m \in Message : m.what \in Untracked /\ inbox' = Append(inbox, m)
           \/ /\ inbox # <<>> /\ Head(inbox).what \in Untracked
              /\ \E m \in Message : m.what \in Untracked /\ inbox' = Append(Tail(inbox), m),
           Connecting => UNCHANGED <<prepared, delayed, inbox, fetcher>>,
           UNCHANGED <<client, mFetcherInfos, mail>>, budget'["select"] = budget["select"],
           delayed' \subseteq delayed \cup {Msg("postPrepared")},
           \A f \in Fetchers : fetcher'[f].uri = fetcher[f].uri /\ fetcher'[f].stream = fetcher[f].stream,
           \E p \in BOOLEAN : session' = [session EXCEPT !.preparing = p]
    PROVE  SessionInv'
<1>1. inbox \in Seq(Message) /\ inbox' \in Seq(Message)
  BY DEF TypeInv, SessionTypes
<1> DEFINE same(q, r) ==
             /\ \A K : K \cap Untracked = {} => Count(r, K) = Count(q, K)
             /\ \A m : m.what \notin Untracked => (m \in InQueue(r) <=> m \in InQueue(q))
             /\ IsLast(q) => IsLast(r)
<1>2. ASSUME NEW q \in Seq(Message), NEW m \in Message, m.what \in Untracked
      PROVE  same(q, Append(q, m))
  BY <1>2, PostFacts, AppendPlaces, CountFacts DEF One, Untracked
<1>3. ASSUME NEW q \in Seq(Message), q # <<>>, Head(q).what \in Untracked
      PROVE  same(q, Tail(q)) /\ Tail(q) \in Seq(Message)
  <2>1. /\ Tail(q) \in Seq(Message) /\ InQueue(q) = InQueue(Tail(q)) \cup {Head(q)}
        /\ IsLast(q) => IsLast(Tail(q))
    BY <1>3, TailPlaces
  <2>2. \A K : Count(Tail(q), K) \in Nat /\ Count(q, K) = Count(Tail(q), K) + One(Head(q).what, K)
    BY <1>3, <2>1, TakeFacts, CountFacts
  <2>3. \A K : K \cap Untracked = {} => Count(Tail(q), K) = Count(q, K)
    BY <1>3, <2>2 DEF One
  <2> QED BY <1>3, <2>1, <2>3
<1>4. same(inbox, inbox')
  <2>1. CASE inbox' = inbox
    BY <2>1
  <2>2. CASE inbox # <<>> /\ Head(inbox).what \in Untracked /\ inbox' = Tail(inbox)
    BY <1>1, <1>3, <2>2
  <2>3. ASSUME NEW m \in Message, m.what \in Untracked, inbox' = Append(inbox, m)
        PROVE  same(inbox, inbox')
    BY <1>1, <1>2, <2>3
  <2>4. ASSUME inbox # <<>>, Head(inbox).what \in Untracked,
               NEW m \in Message, m.what \in Untracked, inbox' = Append(Tail(inbox), m)
        PROVE  same(inbox, inbox')
    <3>1. same(inbox, Tail(inbox)) /\ Tail(inbox) \in Seq(Message)
      BY <1>1, <1>3, <2>4
    <3>2. same(Tail(inbox), inbox')
      BY <1>2, <2>4, <3>1
    <3> QED BY <3>1, <3>2
  <2> QED BY <2>1, <2>2, <2>3, <2>4
<1>5. /\ \A what : what \notin Untracked => Sent(what)' = Sent(what)
      /\ Count(inbox', Answers) = Count(inbox, Answers)
      /\ Count(inbox', Continuations) = Count(inbox, Continuations)
  BY <1>4 DEF Sent, Untracked, Answers, Continuations, Reconfigure
<1>6. /\ session'.reconfiguring = session.reconfiguring /\ session'.counter = session.counter
      /\ session'.continuation = session.continuation /\ session'.seekReply = session.seekReply
      /\ session'.disconnectReply = session.disconnectReply /\ session'.created = session.created
  BY DEF TypeInv, SessionTypes, Sessions
<1>7. Connecting' = Connecting
  BY <1>5 DEF Connecting, Untracked
<1>8. NothingDone'
  BY <1>4, <1>5, <1>6, <1>7 DEF SessionInv, NothingDone, Untracked
<1>9. Seeks'
  BY <1>4, <1>5, <1>6 DEF SessionInv, Seeks, Untracked
<1>10. Disconnects' /\ Reconfigurations'
  BY <1>4, <1>5, <1>6 DEF SessionInv, Disconnects, Reconfigurations, Untracked
<1>11. Answered'
  <2>1. Pending' = Pending /\ Awaiting' = Awaiting
    BY <1>5, <1>6 DEF Pending, Asked, Awaiting
  <2> QED BY <1>4, <1>5, <1>6, <2>1
       DEF SessionInv, Answered, Untracked, Continuations, Reconfigure
<1>12. FetchersAreNumbered'
  BY <1>5, <1>6, <1>7 DEF SessionInv, FetchersAreNumbered, ToCome, Untracked
<1>13. FetchersDiffer'
  <2>1. \A f \in Fetchers : Leaves(f) => Leaves(f)'
    BY <1>4, MessageTypes DEF Leaves, Untracked
  <2> QED BY <1>6, <2>1 DEF SessionInv, FetchersDiffer, TypeInv, SessionTypes
<1> QED BY <1>8, <1>9, <1>10, <1>11, <1>12, <1>13 DEF SessionInv

LEMMA SteadySteps ==
    ASSUME TypeInv, TypeInv', SessionInv,
           \/ OnPostPrepared \/ OnError \/ OnTemporarilyDone
           \/ \E m \in delayed : DelayPasses(m)
           \/ \E f \in Fetchers : Works(f)
           \/ \E s \in Streams : Reader(s)
           \/ UNCHANGED vars
    PROVE  SessionInv'
<1>1. session = [session EXCEPT !.preparing = session.preparing] /\ session.preparing \in BOOLEAN
  BY DEF TypeInv, SessionTypes, Sessions
<1>2. Msg("postPrepared") \in Message /\ Msg("postPrepared").what = "postPrepared"
  BY MessageTypes
<1>3. ASSUME inbox # <<>>, Head(inbox).what \in Untracked
      PROVE  ~Connecting
  <2>1. Head(inbox) \in InQueue(inbox)
    BY <1>3, TailPlaces DEF TypeInv, SessionTypes
  <2> QED BY <1>3, <2>1 DEF SessionInv, NothingDone, Untracked
<1>4. CASE OnPostPrepared
  <2>1. /\ inbox # <<>> /\ Head(inbox).what \in Untracked /\ inbox' = Tail(inbox)
        /\ delayed' \subseteq delayed \cup {Msg("postPrepared")}
        /\ UNCHANGED <<client, mFetcherInfos, mail, budget, session, fetcher>>
    BY <1>4 DEF OnPostPrepared, Handles, Untracked, fetcherVars
  <2> QED BY <1>1, <1>3, <2>1, SteadyKeeps
<1>5. CASE OnError
  <2>1. /\ inbox # <<>> /\ Head(inbox).what \in Untracked /\ inbox' = Tail(inbox)
        /\ session' = session \/ session' = [session EXCEPT !.preparing = FALSE]
        /\ UNCHANGED <<client, mFetcherInfos, mail, budget, fetcher, delayed>>
    BY <1>5 DEF OnError, Handles, Untracked, fetcherVars
  <2> QED BY <1>1, <1>3, <2>1, SteadyKeeps
<1>6. CASE OnTemporarilyDone
  <2>1. /\ inbox # <<>> /\ Head(inbox).what \in Untracked
        /\ inbox' = Tail(inbox) \/ inbox' = Append(Tail(inbox), Msg("postPrepared"))
        /\ \E p \in BOOLEAN : session' = [session EXCEPT !.preparing = p]
        /\ UNCHANGED <<client, mFetcherInfos, mail, budget, fetcher, delayed>>
    BY <1>1, <1>6 DEF OnTemporarilyDone, Handles, Untracked, clientVars, fetcherVars
  <2> QED BY <1>2, <1>3, <2>1, SteadyKeeps DEF Untracked
<1>7. ASSUME NEW m \in delayed, DelayPasses(m)
      PROVE  SessionInv'
  <2>1. m = Msg("postPrepared") /\ ~Connecting
    BY DEF SessionInv, Seeks, NothingDone
  <2>2. /\ inbox' = Append(inbox, m) /\ delayed' \subseteq delayed
        /\ UNCHANGED <<client, mFetcherInfos, mail, budget, session, fetcher>>
    BY <1>7 DEF DelayPasses, clientVars, fetcherVars
  <2> QED BY <1>1, <1>2, <2>1, <2>2, SteadyKeeps DEF Untracked
<1>8. ASSUME NEW f \in Fetchers, Works(f)
      PROVE  SessionInv'
  <2>1. ~Connecting
    BY <1>8, WorkFacts DEF SessionInv, NothingDone
  <2>2. budget'["select"] = budget["select"]
    BY <1>8, WorkFacts, SpendTypes DEF BoundedEvents
  <2>3. \A m \in Reports(f) : m \in Message /\ m.what \in Untracked
    BY FetcherFacts, MessageTypes DEF Reports, Untracked
  <2>4. \A g \in Fetchers : fetcher'[g].uri = fetcher[g].uri /\ fetcher'[g].stream = fetcher[g].stream
    BY <1>8, WorkFacts DEF TypeInv, FetcherTypes
  <2>5. /\ inbox' = inbox \/ \E m \in Message : m.what \in Untracked /\ inbox' = Append(inbox, m)
        /\ UNCHANGED <<client, mFetcherInfos, mail, session, delayed>>
    BY <1>8, <2>3, WorkFacts
  <2> QED BY <1>1, <2>1, <2>2, <2>4, <2>5, SteadyKeeps
<1>9. ASSUME (\E s \in Streams : Reader(s)) \/ UNCHANGED vars
      PROVE  SessionInv'
  <2>1. UNCHANGED <<clientVars, sessionVars, fetcherVars>>
    BY <1>9 DEF Reader, ReadBegins, ReadDiscontinuity, ReadPacket, HearsOfEnd, EndsWithOther, ReaderFrame,
      vars
  <2> QED BY <1>1, <2>1, SteadyKeeps DEF clientVars, sessionVars, fetcherVars
<1> QED BY <1>4, <1>5, <1>6, <1>7, <1>8, <1>9

\* The kinds of the messages the session counts.
LEMMA SentFacts ==
    ASSUME TypeInv
    PROVE  /\ \A what : Sent(what) \in Nat /\ (Sent(what) = 0 <=> \A m \in InQueue(inbox) : m.what # what)
           /\ Count(inbox, Answers) \in Nat /\ Count(inbox, Continuations) \in Nat
           /\ Cardinality(Asked) \in Nat /\ IsFiniteSet(Asked) /\ Pending \in Nat
           /\ Cardinality(Asked) = 0 <=> Asked = {}
           /\ session.counter \in Int /\ session.created \in Nat /\ budget["select"] \in Nat
           /\ session.continuation \in Continuation
<1>1. inbox \in Seq(Message) /\ session \in Sessions
  BY DEF TypeInv, SessionTypes
<1>2. IsFiniteSet(Asked) /\ Cardinality(Asked) \in Nat
  BY FetchersAreFinite DEF Asked
<1>3. /\ \A what : Sent(what) \in Nat /\ (Sent(what) = 0 <=> \A m \in InQueue(inbox) : m.what # what)
      /\ Count(inbox, Answers) \in Nat /\ Count(inbox, Continuations) \in Nat
  BY <1>1, CountFacts DEF Sent
<1> QED
  BY <1>1, <1>2, <1>3, FS_EmptySet, SessionFields DEF Pending, TypeInv, ClientTypes, BoundedEvents

LEMMA ClientKeeps ==
    ASSUME TypeInv, TypeInv', SessionInv, Client,
           "seekWhileChanging" \notin Hastes, "selectWhileChanging" \notin Hastes
    PROVE  SessionInv'
<1>1. PICK m \in Message :
         /\ inbox' = Append(inbox, m)
         /\ \/ ConnectAsync /\ m.what = "connect"
            \/ (\E u \in AudioURIs : SelectTrack(u)) /\ m.what = "changeConfiguration"
            \/ SeekTo /\ m.what = "seek" /\ m.awaited
            \/ Disconnect /\ m.what = "disconnect"
  <2>1. [what |-> "seek", pos |-> position + 1, awaited |-> TRUE] \in Message
    BY DEF Message, TypeInv, ClientTypes
  <2> QED BY <2>1, MessageTypes DEF Client, ConnectAsync, SelectTrack, SeekTo, Disconnect
<1>2. inbox \in Seq(Message) /\ inbox' \in Seq(Message)
  BY DEF TypeInv, SessionTypes
<1>3. /\ \A what : Sent(what)' = Sent(what) + One(m.what, {what})
      /\ Count(inbox', Answers) = Count(inbox, Answers)
      /\ Count(inbox', Continuations) = Count(inbox, Continuations)
      /\ InQueue(inbox') = InQueue(inbox) \cup {m}
      /\ \A what : Sent(what) \in Nat /\ (Sent(what) = 0 <=> \A k \in InQueue(inbox) : k.what # what)
  <2>1. /\ \A K : Count(inbox', K) = Count(inbox, K) + One(m.what, K)
        /\ InQueue(inbox') = InQueue(inbox) \cup {m}
    BY <1>1, <1>2, PostFacts, AppendPlaces
  <2>2. One(m.what, Answers) = 0 /\ One(m.what, Continuations) = 0
    BY <1>1 DEF One, Answers, Continuations, Reconfigure
  <2> QED BY <1>2, <2>1, <2>2, CountFacts DEF Sent
<1>4. /\ UNCHANGED <<session, mFetcherInfos, delayed, fetcher, mail, prepared>>
      /\ m.what = "connect" => client = "new" /\ client' = "idle"
      /\ m.what # "connect" => client = "idle"
      /\ m.what = "changeConfiguration" =>
            client' = "idle" /\ prepared = "yes" /\ ~Changing
            /\ budget'["select"] = budget["select"] - 1
      /\ m.what = "seek" => client' = "seeking" /\ prepared = "yes" /\ ~Changing
      /\ m.what = "disconnect" => client' = "disconnecting"
      /\ m.what # "changeConfiguration" => budget'["select"] = budget["select"]
  <2>1. BoundedEvents \ {"seek"} = {"select", "fetchError", "disconnect"}
    BY DEF BoundedEvents
  <2> QED
    BY <1>1, SpendTypes DEF ConnectAsync, SelectTrack, SeekTo, Disconnect, Idle, BoundedEvents, fetcherVars
<1>5. ~Changing => ~session.reconfiguring /\ Sent("changeConfiguration") = 0
  <2>1. ASSUME ~Changing
        PROVE  \A k \in InQueue(inbox) : k.what # "changeConfiguration"
    BY <1>2, <2>1 DEF Changing, InQueue
  <2> QED BY <1>3, <2>1 DEF Changing
<1> USE DEF One
<1>6. NothingDone'
  BY <1>1, <1>3, <1>4, EmptyQueue DEF SessionInv, NothingDone, Connecting
<1>7. Seeks'
  BY <1>1, <1>3, <1>4, <1>5 DEF SessionInv, Seeks, NothingDone, Connecting, Reconfigurations, Disconnects
<1>8. Disconnects'
  <2>1. IsLast(inbox')
    BY <1>1, <1>2, <1>3, <1>4, AppendPlaces DEF SessionInv, Disconnects
  <2> QED BY <1>1, <1>3, <1>4, <2>1 DEF SessionInv, Disconnects, NothingDone, Connecting
<1>9. Reconfigurations'
  BY <1>1, <1>3, <1>4, <1>5 DEF SessionInv, Reconfigurations, NothingDone, Connecting
<1>10. Answered'
  <2>1. Pending' = Pending /\ Awaiting' = Awaiting
    BY <1>3, <1>4 DEF Pending, Asked, Awaiting
  <2> QED BY <1>1, <1>3, <1>4, <2>1 DEF SessionInv, Answered, Continuations, Reconfigure
<1>11. FetchersAreNumbered'
  <2>1. CASE m.what = "changeConfiguration"
    <3>1. ToCome = 0 /\ ToCome' \in {0, 2}
      BY <1>3, <1>4, <1>5, <2>1 DEF SessionInv, ToCome, NothingDone, Connecting, Reconfigurations
    <3> QED
      BY <1>4, <2>1, <3>1, SentFacts, Constants DEF SessionInv, FetchersAreNumbered, MaxFetchers
  <2>2. CASE m.what # "changeConfiguration"
    <3>1. ToCome' = ToCome
      BY <1>1, <1>3, <1>4, <2>2 DEF ToCome, Connecting
    <3> QED BY <1>4, <2>2, <3>1 DEF SessionInv, FetchersAreNumbered
  <2> QED BY <2>1, <2>2
<1>12. FetchersDiffer'
  BY <1>3, <1>4 DEF SessionInv, FetchersDiffer, Leaves
<1> QED BY <1>6, <1>7, <1>8, <1>9, <1>10, <1>11, <1>12 DEF SessionInv

LEMMA MailKeeps ==
    ASSUME TypeInv, TypeInv', SessionInv, NEW f \in Fetchers, TakesMail(f)
    PROVE  SessionInv'
<1> DEFINE l == Head(mail[f])
<1>1. /\ mail[f] # <<>> /\ mail' = [mail EXCEPT ![f] = Tail(mail[f])]
      /\ UNCHANGED <<client, prepared, budget, session, mFetcherInfos, delayed>>
      /\ \A g \in Fetchers : fetcher'[g].uri = fetcher[g].uri /\ fetcher'[g].stream = fetcher[g].stream
  <2>1. \A g \in Fetchers : fetcher'[g].uri = fetcher[g].uri /\ fetcher'[g].stream = fetcher[g].stream
    <3>1. \E s : /\ s.uri = fetcher[f].uri /\ s.stream = fetcher[f].stream
                  /\ fetcher' = [fetcher EXCEPT ![f] = s]
      BY FetcherFacts DEF TakesMail, OnStart, OnPause, OnStop, OnFetcherSeek, Sets, FetcherState
    <3> QED BY <3>1 DEF TypeInv, FetcherTypes
  <2> QED
    BY <2>1 DEF TakesMail, OnStart, OnPause, OnStop, OnFetcherSeek, Mail, TakeMail, FetcherFrame, clientVars
<1>2. \/ l.what = "start" /\ inbox' = inbox
      \/ /\ l.what \in Requests
         /\ \E m \in Message : /\ inbox' = Append(inbox, m) /\ m.what \in Answers
                               /\ l.what = "stop" => m = From("stopped", f)
  <2>1. mail[f] # <<>> /\ l.what = "seek" => [what |-> "seeked", pos |-> l.pos] \in Message
    BY FetcherFacts DEF Message
  <2> QED
    BY <2>1, MessageTypes DEF TakesMail, OnStart, OnPause, OnStop, OnFetcherSeek, Mail, Notify, Requests,
      Answers
<1> HIDE DEF l
<1>3. inbox \in Seq(Message) /\ mail[f] \in Seq(Letter) /\ f \in Fetchers /\ mail' \in [Fetchers -> Seq(Letter)]
  BY DEF TypeInv, SessionTypes, FetcherTypes
<1>4. /\ \A what : what \notin Answers => Sent(what)' = Sent(what)
      /\ Count(inbox', Continuations) = Count(inbox, Continuations)
      /\ Count(inbox', Answers) = Count(inbox, Answers) + One(l.what, Requests)
      /\ InQueue(inbox) \subseteq InQueue(inbox')
      /\ l.what = "stop" => From("stopped", f) \in InQueue(inbox')
      /\ \A m \in InQueue(inbox') : m.what \in Answers \/ m \in InQueue(inbox)
      /\ IsLast(inbox) => IsLast(inbox')
  <2>1. CASE l.what = "start" /\ inbox' = inbox
    <3>1. One(l.what, Requests) = 0 /\ l.what # "stop" /\ Count(inbox, Answers) \in Nat
      BY <2>1, <1>3, CountFacts DEF One, Requests
    <3> QED BY <2>1, <3>1 DEF Sent
  <2>2. ASSUME l.what \in Requests, NEW m \in Message, inbox' = Append(inbox, m),
               m.what \in Answers, l.what = "stop" => m = From("stopped", f)
        PROVE  <1>4!:
    <3>1. \A K : Count(inbox, K) \in Nat /\ Count(inbox', K) = Count(inbox, K) + One(m.what, K)
      BY <1>3, <2>2, PostFacts, CountFacts
    <3>2. InQueue(inbox') = InQueue(inbox) \cup {m} /\ (IsLast(inbox) => IsLast(inbox'))
      BY <1>3, <2>2, AppendPlaces DEF Answers
    <3>3. One(m.what, Answers) = 1 /\ One(l.what, Requests) = 1 /\ One(m.what, Continuations) = 0
      BY <2>2 DEF One, Answers, Continuations, Reconfigure
    <3> QED BY <2>2, <3>1, <3>2, <3>3 DEF Sent, One
  <2> QED BY <1>2, <2>1, <2>2
<1>5. /\ Count(mail[f], Requests) = Count(mail'[f], Requests) + One(l.what, Requests)
      /\ Count(mail'[f], Requests) \in Nat /\ Count(mail[f], Requests) \in Nat
      /\ InQueue(mail[f]) = InQueue(mail'[f]) \cup {l}
      /\ \A g \in Fetchers \ {f} : mail'[g] = mail[g]
  <2>1. mail'[f] = Tail(mail[f]) /\ \A g \in Fetchers \ {f} : mail'[g] = mail[g]
    BY <1>1 DEF TypeInv, FetcherTypes
  <2>2. Tail(mail[f]) \in Seq(Letter) /\ InQueue(mail[f]) = InQueue(Tail(mail[f])) \cup {l}
    BY <1>1, <1>3, TailPlaces DEF l
  <2>3. Count(mail[f], Requests) = Count(Tail(mail[f]), Requests) + One(l.what, Requests)
    BY <1>1, <1>3, TailCount DEF l, One
  <2> QED BY <1>3, <2>1, <2>2, <2>3, CountType
<1>6. ~Connecting /\ ~Connecting'
  BY <1>1, <1>4 DEF SessionInv, NothingDone, Connecting, Answers
<1>7. NothingDone' /\ Disconnects' /\ Reconfigurations'
  BY <1>1, <1>4, <1>6 DEF SessionInv, NothingDone, Disconnects, Reconfigurations, Answers
<1>8. Seeks'
  BY <1>1, <1>4 DEF SessionInv, Seeks, Answers
<1>9. Pending' = Pending /\ \A g \in Fetchers : Count(mail'[g], Requests) <= 1
  <2>1. \A g \in Fetchers : Count(mail[g], Requests) <= 1
    BY DEF SessionInv, Answered
  <2>2. CASE l.what \notin Requests
    <3>1. Asked' = Asked
      BY <1>5, <2>2 DEF Asked, One
    <3> QED BY <1>4, <1>5, <2>1, <2>2, <3>1, SentFacts DEF Pending, One
  <2>3. CASE l.what \in Requests
    <3>1. Asked' = Asked \ {f} /\ f \in Asked
      BY <1>5, <2>1, <2>3 DEF Asked, One
    <3>2. Cardinality(Asked') = Cardinality(Asked) - 1
      BY <3>1, SentFacts, FS_RemoveElement
    <3> QED BY <1>4, <1>5, <2>1, <2>3, <3>2, SentFacts DEF Pending, One
  <2> QED BY <2>2, <2>3
<1>10. Answered'
  <2>1. Awaiting' = Awaiting
    BY <1>1 DEF Awaiting
  <2> QED BY <1>1, <1>4, <1>9, <2>1 DEF SessionInv, Answered, Answers, Continuations, Reconfigure
<1>11. FetchersAreNumbered'
  BY <1>1, <1>4, <1>6 DEF SessionInv, FetchersAreNumbered, ToCome, Answers
<1>12. FetchersDiffer'
  <2>1. \A g \in Fetchers : Leaves(g) => Leaves(g)'
    BY <1>4, <1>5 DEF Leaves
  <2> QED BY <1>1, <2>1 DEF SessionInv, FetchersDiffer, TypeInv, SessionTypes
<1> QED BY <1>7, <1>8, <1>10, <1>11, <1>12 DEF SessionInv

LEMMA MailsCounts ==
    ASSUME TypeInv, NEW m, NEW f \in Fetchers, m[f] = None \/ m[f] \in Letter
    PROVE  /\ Count(Mails(m)[f], Requests) =
                 Count(mail[f], Requests) + (IF m[f] = None THEN 0 ELSE One(m[f].what, Requests))
           /\ m[f] # None => m[f] \in InQueue(Mails(m)[f])
<1>1. mail[f] \in Seq(Letter) /\ Mails(m)[f] = IF m[f] = None THEN mail[f] ELSE Append(mail[f], m[f])
  BY DEF TypeInv, FetcherTypes, Mails
<1>2. Count(mail[f], Requests) \in Nat
  BY <1>1, CountType
<1> QED BY <1>1, <1>2, AppendCount, AppendPlaces DEF One

\* Nothing is waited for: then so many answers are as there are requests made now.
LEMMA AskedAnew ==
    ASSUME TypeInv, TypeInv', SessionInv, Pending = 0, NEW infos \in SUBSET Fetchers,
           \A f \in Fetchers : Count(mail'[f], Requests) =
               Count(mail[f], Requests) + (IF f \in infos THEN 1 ELSE 0),
           Count(inbox', Answers) = Count(inbox, Answers)
    PROVE  /\ Pending' = Cardinality(infos) /\ Cardinality(infos) \in Int
           /\ infos = {} <=> Cardinality(infos) = 0
           /\ \A f \in Fetchers : Count(mail'[f], Requests) <= 1
<1>1. Asked = {} /\ Count(inbox, Answers) = 0
  BY SentFacts DEF Pending
<1>2. \A f \in Fetchers : Count(mail[f], Requests) = 0
  BY <1>1, CountType DEF Asked, TypeInv, FetcherTypes
<1>3. Asked' = infos
  BY <1>2 DEF Asked
<1>4. IsFiniteSet(infos) /\ Cardinality(infos) \in Nat
  BY FetchersAreFinite
<1> QED BY <1>1, <1>2, <1>3, <1>4, FS_EmptySet DEF Pending

\* A handler takes a message and posts another, or None.
Kinds == {"connect", "changeConfiguration", "seek", "disconnect"}
Takes(what) == /\ Sent(what) \in Nat /\ Sent(what)' \in Nat
               /\ IF Head(inbox).what = what THEN Sent(what)' = Sent(what) - 1
                  ELSE Sent(what)' = Sent(what)
LEMMA Handled ==
    ASSUME TypeInv, SessionInv, inbox # <<>>, NEW post \in Message \cup {None},
           post.what \notin Kinds \cup Answers,
           inbox' = IF post = None THEN Tail(inbox) ELSE Append(Tail(inbox), post)
    PROVE  LET w == Head(inbox).what
           IN  /\ Head(inbox) \in InQueue(inbox)
               /\ Takes("connect") /\ Takes("changeConfiguration") /\ Takes("seek")
               /\ Takes("disconnect") /\ Count(inbox, Answers) \in Nat
               /\ Count(inbox', Answers) = Count(inbox, Answers) - (IF w \in Answers THEN 1 ELSE 0)
               /\ w \in Answers => Count(inbox, Answers) > 0
               /\ Count(inbox', Continuations) =
                     Count(inbox, Continuations) - (IF w \in Continuations THEN 1 ELSE 0)
                                                 + (IF post.what \in Continuations THEN 1 ELSE 0)
               /\ w \in Continuations => Count(inbox, Continuations) > 0
               /\ InQueue(inbox') \subseteq InQueue(inbox) \cup ({post} \ {None})
               /\ InQueue(inbox) \subseteq InQueue(inbox') \cup {Head(inbox)}
               /\ IsLast(inbox)'
<1> DEFINE q == Tail(inbox)
           r == IF post = None THEN q ELSE Append(q, post)
           h == Head(inbox)
<1>1. inbox \in Seq(Message) /\ inbox' = r /\ IsLast(inbox)
  BY DEF TypeInv, SessionTypes, SessionInv, Disconnects
<1>2. /\ q \in Seq(Message) /\ InQueue(inbox) = InQueue(q) \cup {h} /\ IsLast(q)
      /\ \A K : Count(inbox, K) = Count(q, K) + One(h.what, K)
  BY <1>1, TailPlaces, TakeFacts
<1> HIDE DEF q, h
<1>3. \A K : Count(q, K) \in Nat
  BY <1>2, CountFacts
<1>4. post # None => /\ InQueue(Append(q, post)) = InQueue(q) \cup {post} /\ IsLast(Append(q, post))
                     /\ \A K : Count(Append(q, post), K) = Count(q, K) + One(post.what, K)
  BY <1>2, AppendPlaces, PostFacts DEF Kinds
<1>5. \A K : "none" \notin K => Count(r, K) = Count(q, K) + One(post.what, K)
  BY <1>3, <1>4, MessageTypes DEF One
<1>6. /\ h \in InQueue(inbox) /\ IsLast(r)
      /\ InQueue(r) \subseteq InQueue(inbox) \cup ({post} \ {None})
      /\ InQueue(inbox) \subseteq InQueue(r) \cup {h}
  BY <1>2, <1>4
<1> HIDE DEF r
<1>7. ASSUME NEW K, "none" \notin K
      PROVE  /\ Count(inbox', K) = Count(inbox, K) - One(h.what, K) + One(post.what, K)
             /\ h.what \in K => Count(inbox, K) > 0
             /\ Count(inbox, K) \in Nat
  <2>1. Count(inbox, K) = Count(q, K) + One(h.what, K) /\ Count(q, K) \in Nat
    BY <1>2, <1>3
  <2>2. Count(inbox', K) = Count(q, K) + One(post.what, K)
    BY <1>1, <1>5, <1>7
  <2> QED BY <2>1, <2>2 DEF One
<1>8. ASSUME NEW what \in Kinds
      PROVE  Takes(what)
  <2>1. "none" \notin {what} /\ One(post.what, {what}) = 0
    BY DEF Kinds, One
  <2> QED BY <1>7, <2>1 DEF Sent, One, Takes, h
<1>9. "none" \notin Answers /\ "none" \notin Continuations /\ One(post.what, Answers) = 0
  BY DEF Answers, Continuations, Reconfigure, One
<1>10. /\ Count(inbox', Answers) = Count(inbox, Answers) - (IF h.what \in Answers THEN 1 ELSE 0)
       /\ h.what \in Answers => Count(inbox, Answers) > 0
       /\ h.what \in Continuations => Count(inbox, Continuations) > 0
       /\ Count(inbox, Answers) \in Nat
  BY <1>7, <1>9 DEF One
<1>11. Count(inbox', Continuations) =
          Count(inbox, Continuations) - (IF h.what \in Continuations THEN 1 ELSE 0)
                                      + (IF post.what \in Continuations THEN 1 ELSE 0)
  BY <1>7, <1>9 DEF One
<1>12. Takes("connect") /\ Takes("changeConfiguration") /\ Takes("seek") /\ Takes("disconnect")
  BY <1>8 DEF Kinds
<1> QED BY <1>1, <1>6, <1>10, <1>11, <1>12 DEF h

LEMMA KindFacts ==
    /\ \A w \in {"paused", "stopped", "seeked"} : w \in Answers /\ w \notin Continuations
    /\ \A w \in {"changeConfiguration2", "changeConfiguration3", "finishDisconnect2"} :
          w \in Continuations /\ w \notin Answers /\ w \notin Kinds
    /\ \A w \in Kinds \cup {"none"} : w \notin Continuations /\ w \notin Answers
    /\ \A w \in Kinds : w \in {"connect", "changeConfiguration", "seek", "disconnect"}
    /\ {"connect", "changeConfiguration", "seek", "disconnect"} \subseteq Kinds
BY DEF Kinds, Answers, Continuations, Reconfigure

LEMMA Taken ==
    ASSUME TypeInv, SessionInv, inbox # <<>>, inbox' = Tail(inbox)
    PROVE  LET w == Head(inbox).what
           IN  /\ Takes("connect") /\ Takes("changeConfiguration") /\ Takes("seek")
               /\ Takes("disconnect") /\ Count(inbox, Answers) \in Nat
               /\ Count(inbox', Answers) = Count(inbox, Answers) - (IF w \in Answers THEN 1 ELSE 0)
               /\ w \in Answers => Count(inbox, Answers) > 0
               /\ Count(inbox', Continuations) =
                     Count(inbox, Continuations) - (IF w \in Continuations THEN 1 ELSE 0)
               /\ w \in Continuations => Count(inbox, Continuations) > 0
               /\ InQueue(inbox') \subseteq InQueue(inbox)
               /\ InQueue(inbox) \subseteq InQueue(inbox') \cup {Head(inbox)}
               /\ IsLast(inbox)'
<1> DEFINE post == None
<1>1. /\ post \in Message \cup {None} /\ post.what = "none" /\ {post} \ {None} = {}
      /\ inbox' = IF post = None THEN Tail(inbox) ELSE Append(Tail(inbox), post)
  BY MessageTypes
<1> HIDE DEF post
<1>2. post.what \notin Kinds \cup Answers /\ post.what \notin Continuations
  BY <1>1 DEF Kinds, Answers, Continuations, Reconfigure
<1>3. Count(inbox, Continuations) \in Nat
  BY SentFacts
<1> QED BY <1>1, <1>2, <1>3, Handled

LEMMA ChangeKeeps ==
    ASSUME TypeInv, TypeInv', SessionInv, OnConnect \/ OnChangeConfiguration
    PROVE  SessionInv'
<1> DEFINE w == Head(inbox).what
           t == IF w = "connect" THEN 0 ELSE -1
           goesOn == IF t < 0
                     THEN {f \in mFetcherInfos : fetcher[f].uri = URIOf(fetcher[f].stream)}
                     ELSE {}
           resume == {fetcher[f].stream : f \in goesOn}
           msg == [what |-> IF t < 0 THEN "changeConfiguration3" ELSE "changeConfiguration2",
                   streams |-> Streams \ resume, resume |-> resume, pos |-> t,
                   uris |-> [s \in Streams |-> URIOf(s)]]
           letters == [f \in Fetchers |-> IF f \notin mFetcherInfos THEN None
                                          ELSE Msg(IF f \in goesOn THEN "pause" ELSE "stop")]
<1>1. inbox # <<>> /\ w \in {"connect", "changeConfiguration"} /\ Head(inbox) \in InQueue(inbox)
      /\ inbox \in Seq(Message) /\ Sent(w) > 0
  <2>1. inbox # <<>> /\ w \in {"connect", "changeConfiguration"}
    BY DEF OnConnect, OnChangeConfiguration, Handles
  <2>2. inbox \in Seq(Message) /\ Head(inbox) \in InQueue(inbox)
    BY <2>1, TailPlaces DEF TypeInv, SessionTypes
  <2> QED BY <2>1, <2>2, SentFacts
<1>2. /\ ~session.reconfiguring /\ ~session.disconnectReply /\ session.continuation = None
      /\ client \notin {"seeking", "new"} /\ ~session.seekReply /\ Sent("seek") = 0
      /\ Pending = 0 /\ Count(inbox, Continuations) = 0
      /\ w = "connect" => Sent("changeConfiguration") = 0 /\ mFetcherInfos = {} /\ Connecting
      /\ w = "changeConfiguration" => Sent("connect") = 0 /\ ~Connecting
  <2>1. w = "connect" => Connecting
    BY <1>1 DEF Connecting
  <2>2. Connecting => w = "connect"
    BY <1>1, SentFacts DEF SessionInv, NothingDone, Disconnects
  <2>3. ~session.reconfiguring /\ ~session.disconnectReply /\ client # "seeking"
    BY <1>1, <2>1 DEF SessionInv, NothingDone, Disconnects, Reconfigurations, Seeks
  <2>4. session.continuation = None /\ ~session.seekReply /\ Sent("seek") = 0
    BY <2>3, SentFacts DEF SessionInv, Reconfigurations, Seeks
  <2>5. Pending = 0 /\ Count(inbox, Continuations) = 0
    BY <2>4, SentFacts DEF SessionInv, Answered, Awaiting
  <2>6. client # "new" /\ (w = "connect" => Sent("changeConfiguration") = 0 /\ mFetcherInfos = {})
    BY <1>1, <2>1, SentFacts DEF SessionInv, NothingDone, Connecting
  <2>7. w = "changeConfiguration" => Sent("connect") = 0 /\ ~Connecting
    BY <2>2, SentFacts DEF Connecting
  <2> QED BY <2>1, <2>3, <2>4, <2>5, <2>6, <2>7
<1>3. /\ mail' = Mails(letters)
      /\ inbox' = IF mFetcherInfos = {} THEN Append(Tail(inbox), msg) ELSE Tail(inbox)
      /\ session'.reconfiguring /\ session'.counter = Cardinality(mFetcherInfos)
      /\ session'.continuation = msg /\ ~session'.seekReply /\ ~session'.disconnectReply
      /\ session'.created = session.created
      /\ UNCHANGED <<client, prepared, budget, mFetcherInfos, delayed, fetcher>>
  <2>1. ChangesConfiguration(t) /\ UNCHANGED <<prepared, budget, delayed>>
    BY <1>1, <1>2 DEF OnConnect, OnChangeConfiguration, Handles
  <2> HIDE DEF t
  <2> QED
    BY <1>2, <2>1 DEF ChangesConfiguration, SeekReplied, ClientReplied, TypeInv, SessionTypes, Sessions
<1>4. msg \in Changes /\ msg.what \in Reconfigure /\ msg \in Message /\ msg # None
  <2>1. resume \subseteq Streams
    BY DEF TypeInv, SessionTypes, FetcherTypes, FetcherState
  <2>2. [s \in Streams |-> URIOf(s)] \in [Streams -> URIs]
    BY Constants DEF URIOf, TypeInv, ClientTypes
  <2> HIDE DEF resume
  <2>3. msg \in Changes /\ msg.what \in Reconfigure
    BY <2>1, <2>2 DEF Changes, Reconfigure
  <2> QED BY <2>3, MessageTypes
<1>5. /\ msg.resume = resume /\ msg.streams = Streams \ resume
      /\ \A s \in Streams : msg.uris[s] = VideoURI <=> s = "video"
      /\ msg.what = "changeConfiguration2" => mFetcherInfos = {}
  BY <1>1, <1>2, Constants DEF URIOf, Streams, TypeInv, ClientTypes
<1>6. \A f \in mFetcherInfos \ goesOn : Msg("stop") \in InQueue(mail'[f])
  <2> SUFFICES ASSUME NEW f \in mFetcherInfos, f \notin goesOn
               PROVE  Msg("stop") \in InQueue(mail'[f])
    OBVIOUS
  <2>1. f \in Fetchers /\ letters[f] = Msg("stop") /\ Msg("stop") \in Letter /\ Msg("stop") # None
    BY MessageTypes DEF TypeInv, SessionTypes
  <2> HIDE DEF letters
  <2> QED BY <1>3, <2>1, MailsCounts
<1>7. \A f \in Fetchers : Count(mail'[f], Requests) =
         Count(mail[f], Requests) + (IF f \in mFetcherInfos THEN 1 ELSE 0)
  <2> SUFFICES ASSUME NEW f \in Fetchers
               PROVE  Count(mail'[f], Requests) =
                         Count(mail[f], Requests) + (IF f \in mFetcherInfos THEN 1 ELSE 0)
    OBVIOUS
  <2> HIDE DEF goesOn
  <2>1. /\ letters[f] = None \/ letters[f] \in Letter
        /\ f \notin mFetcherInfos <=> letters[f] = None
        /\ letters[f] # None => One(letters[f].what, Requests) = 1
    BY MessageTypes DEF One, Requests
  <2> HIDE DEF letters
  <2> QED BY <1>3, <2>1, MailsCounts
<1> HIDE DEF msg, letters, goesOn
<1>8. /\ Sent("connect")' = 0 /\ Sent("changeConfiguration")' = 0
      /\ Sent("seek")' = Sent("seek") /\ Sent("disconnect")' = Sent("disconnect")
      /\ Count(inbox', Answers) = Count(inbox, Answers)
      /\ Count(inbox', Continuations) = IF mFetcherInfos = {} THEN 1 ELSE 0
      /\ \A m \in InQueue(inbox') : m = msg \/ m \in InQueue(inbox)
      /\ IsLast(inbox)'
  <2> DEFINE post == IF mFetcherInfos = {} THEN msg ELSE None
  <2>1. /\ post \in Message \cup {None} /\ post.what \notin Kinds \cup Answers
        /\ inbox' = IF post = None THEN Tail(inbox) ELSE Append(Tail(inbox), post)
        /\ post # None => post = msg
        /\ post.what \in Continuations <=> mFetcherInfos = {}
    BY <1>3, <1>4, MessageTypes DEF Kinds, Answers, Continuations, Reconfigure
  <2> HIDE DEF post
  <2>2. Sent("connect") <= 1 /\ Sent("changeConfiguration") <= 1
    BY DEF SessionInv, NothingDone, Reconfigurations
  <2>3. /\ Takes("connect") /\ Takes("changeConfiguration") /\ Takes("seek") /\ Takes("disconnect")
        /\ Count(inbox, Answers) \in Nat
        /\ Count(inbox', Answers) = Count(inbox, Answers) - (IF w \in Answers THEN 1 ELSE 0)
        /\ Count(inbox', Continuations) =
              Count(inbox, Continuations) - (IF w \in Continuations THEN 1 ELSE 0)
                                          + (IF post.what \in Continuations THEN 1 ELSE 0)
        /\ InQueue(inbox') \subseteq InQueue(inbox) \cup ({post} \ {None}) /\ IsLast(inbox)'
    BY <1>1, <2>1, Handled DEF w
  <2>4. w \notin Answers /\ w \notin Continuations /\ w = Head(inbox).what
    BY <1>1, KindFacts DEF Kinds
  <2> HIDE DEF w
  <2> QED BY <1>1, <1>2, <2>1, <2>2, <2>3, <2>4 DEF Takes
<1>9. NothingDone' /\ Disconnects' /\ Reconfigurations'
  BY <1>2, <1>3, <1>8 DEF SessionInv, NothingDone, Disconnects, Reconfigurations, Connecting
<1>10. Seeks'
  BY <1>2, <1>3, <1>4, <1>8 DEF SessionInv, Seeks, Reconfigure
<1>11. Answered'
  <2>1. \A m \in InQueue(inbox) : m.what \notin Continuations
    BY <1>1, <1>2, CountFacts
  <2>2. mFetcherInfos \in SUBSET Fetchers
    BY DEF TypeInv, SessionTypes
  <2> QED BY <1>2, <1>3, <1>4, <1>7, <1>8, <2>1, <2>2, AskedAnew DEF Answered, Awaiting
<1>12. FetchersAreNumbered'
  BY <1>1, <1>2, <1>3, <1>4, <1>8 DEF SessionInv, FetchersAreNumbered, ToCome, Connecting
<1>13. FetchersDiffer'
  <2>1. \A f \in mFetcherInfos : Leaves(f)' \/ fetcher[f].stream \in resume
    BY <1>6, MessageTypes DEF Leaves
  <2> QED BY <1>3, <1>4, <1>5, <2>1 DEF SessionInv, FetchersDiffer
<1> QED BY <1>9, <1>10, <1>11, <1>12, <1>13 DEF SessionInv

LEMMA OnConnectFailsKeeps ==
    ASSUME TypeInv, TypeInv', SessionInv, OnConnectFails
    PROVE  SessionInv'
<1>1. /\ inbox # <<>> /\ Head(inbox).what = "connect" /\ inbox' = Tail(inbox)
      /\ UNCHANGED <<client, mFetcherInfos, delayed, fetcher, mail>>
      /\ session' = [session EXCEPT !.preparing = FALSE]
      /\ budget'["select"] = budget["select"]
  BY SpendTypes DEF OnConnectFails, Handles, fetcherVars, BoundedEvents
<1>2. /\ session'.reconfiguring = session.reconfiguring /\ session'.counter = session.counter
      /\ session'.continuation = session.continuation /\ session'.seekReply = session.seekReply
      /\ session'.disconnectReply = session.disconnectReply /\ session'.created = session.created
  BY <1>1 DEF TypeInv, SessionTypes, Sessions
<1>3. /\ Sent("connect")' = 0 /\ Sent("connect") = 1 /\ Sent("changeConfiguration")' = Sent("changeConfiguration")
      /\ Sent("seek")' = Sent("seek") /\ Sent("disconnect")' = Sent("disconnect")
      /\ Count(inbox', Answers) = Count(inbox, Answers)
      /\ Count(inbox', Continuations) = Count(inbox, Continuations)
      /\ InQueue(inbox') \subseteq InQueue(inbox) /\ IsLast(inbox)'
      /\ InQueue(inbox) \subseteq InQueue(inbox') \cup {Head(inbox)}
  <2>1. /\ Takes("connect") /\ Takes("changeConfiguration") /\ Takes("seek") /\ Takes("disconnect")
        /\ Sent("connect") <= 1
    BY <1>1, Taken DEF SessionInv, NothingDone
  <2>2. /\ Count(inbox', Answers) = Count(inbox, Answers)
        /\ Count(inbox', Continuations) = Count(inbox, Continuations)
        /\ InQueue(inbox') \subseteq InQueue(inbox) /\ IsLast(inbox)'
        /\ InQueue(inbox) \subseteq InQueue(inbox') \cup {Head(inbox)}
    BY <1>1, Taken, KindFacts, SentFacts
  <2> QED BY <1>1, <2>1, <2>2 DEF Takes
<1>4. Connecting /\ ~Connecting'
  BY <1>1, <1>3, EmptyQueue DEF SessionInv, NothingDone, Connecting
<1>5. NothingDone' /\ Disconnects' /\ Reconfigurations' /\ Seeks'
  BY <1>1, <1>2, <1>3, <1>4 DEF SessionInv, NothingDone, Disconnects, Reconfigurations, Seeks
<1>6. Answered'
  <2>1. Pending' = Pending /\ Awaiting' = Awaiting
    BY <1>1, <1>2, <1>3 DEF Pending, Asked, Awaiting
  <2> QED BY <1>1, <1>2, <1>3, <2>1 DEF SessionInv, Answered
<1>7. FetchersAreNumbered'
  <2>1. ToCome = 2 /\ ToCome' \in {0, 2}
    BY <1>4 DEF ToCome
  <2>2. /\ session.created + 2 * budget["select"] + 2 <= MaxFetchers
        /\ session.created \in Nat /\ budget["select"] \in Nat /\ MaxFetchers \in Nat
    BY <2>1, SentFacts, Constants DEF SessionInv, FetchersAreNumbered, MaxFetchers
  <2>3. session'.created + 2 * budget'["select"] + ToCome' <= MaxFetchers
    BY <1>1, <1>2, <2>1, <2>2
  <2> QED BY <1>1, <1>2, <2>3 DEF SessionInv, FetchersAreNumbered
<1>8. FetchersDiffer'
  BY <1>1, <1>2, <1>4 DEF SessionInv, FetchersDiffer, NothingDone
<1> QED BY <1>5, <1>6, <1>7, <1>8 DEF SessionInv

LEMMA StopCounts ==
    ASSUME NEW m \in [Fetchers -> Seq(Letter)], NEW infos, NEW f \in Fetchers
    PROVE  Count(StoppedMails(m, infos)[f], Requests) =
               Count(m[f], Requests) + (IF f \in infos THEN 1 ELSE 0)
<1>1. m[f] \in Seq(Letter) /\ Msg("stop") \in Letter /\ Msg("stop").what = "stop"
  BY MessageTypes
<1>2. Count(m[f], Requests) \in Nat
  BY <1>1, CountType
<1> QED BY <1>1, <1>2, AppendCount DEF StoppedMails, Requests

LEMMA OnDisconnectKeeps ==
    ASSUME TypeInv, TypeInv', SessionInv, OnDisconnect
    PROVE  SessionInv'
<1> DEFINE post == IF ~session.reconfiguring /\ mFetcherInfos = {}
                   THEN Msg("finishDisconnect2") ELSE None
<1>1. /\ inbox # <<>> /\ Head(inbox).what = "disconnect"
      /\ UNCHANGED <<client, prepared, budget, mFetcherInfos, delayed, fetcher>>
      /\ inbox' = IF post = None THEN Tail(inbox) ELSE Append(Tail(inbox), post)
      /\ post \in Message \cup {None}
      /\ post.what = IF ~session.reconfiguring /\ mFetcherInfos = {} THEN "finishDisconnect2" ELSE "none"
  BY MessageTypes DEF OnDisconnect, Handles, clientVars, StoppedInbox
<1>2. /\ session'.reconfiguring = session.reconfiguring /\ session'.seekReply = session.seekReply
      /\ session'.disconnectReply /\ session'.created = session.created
      /\ session.reconfiguring =>
            /\ session'.counter = session.counter /\ session'.continuation = session.continuation
            /\ mail' = mail
      /\ ~session.reconfiguring =>
            /\ session'.counter = Cardinality(mFetcherInfos)
            /\ session'.continuation = Msg("finishDisconnect2")
            /\ mail' = StoppedMails(mail, mFetcherInfos)
  BY DEF OnDisconnect, Stopping, TypeInv, SessionTypes, Sessions
<1>3. /\ Sent("connect")' = 0 /\ Sent("changeConfiguration")' = 0
      /\ Sent("disconnect")' = 0 /\ Sent("disconnect") = 1 /\ Sent("seek")' = Sent("seek")
      /\ Sent("connect") = 0 /\ Sent("changeConfiguration") = 0
      /\ Count(inbox', Answers) = Count(inbox, Answers)
      /\ Count(inbox', Continuations) = Count(inbox, Continuations)
                                      + IF post = None THEN 0 ELSE 1
      /\ InQueue(inbox') \subseteq InQueue(inbox) \cup ({post} \ {None}) /\ IsLast(inbox)'
      /\ InQueue(inbox) \subseteq InQueue(inbox') \cup {Head(inbox)}
  <2>1. \A m \in InQueue(inbox) : m.what \notin {"connect", "changeConfiguration"}
    BY <1>1, TailPlaces DEF SessionInv, Disconnects, TypeInv, SessionTypes
  <2>2. Sent("connect") = 0 /\ Sent("changeConfiguration") = 0
    BY <2>1, SentFacts
  <2> HIDE DEF post
  <2>3. post.what \notin Answers /\ (post.what \in Continuations <=> post # None)
    BY <1>1, MessageTypes DEF Answers, Continuations, Reconfigure, post
  <2>4. post.what \notin Kinds \cup Answers
    BY <1>1, <2>3 DEF Kinds
  <2>5. Sent("disconnect") <= 1
    BY DEF SessionInv, Disconnects
  <2> QED
    <3>1. /\ Takes("connect") /\ Takes("changeConfiguration") /\ Takes("seek") /\ Takes("disconnect")
      BY <1>1, <2>4, Handled
    <3>2. /\ Count(inbox', Answers) = Count(inbox, Answers)
          /\ Count(inbox', Continuations) = Count(inbox, Continuations) + IF post = None THEN 0 ELSE 1
          /\ InQueue(inbox') \subseteq InQueue(inbox) \cup ({post} \ {None}) /\ IsLast(inbox)'
          /\ InQueue(inbox) \subseteq InQueue(inbox') \cup {Head(inbox)}
      BY <1>1, <2>3, <2>4, Handled, KindFacts, SentFacts
    <3> QED BY <1>1, <2>2, <2>5, <3>1, <3>2 DEF Takes
<1>4. /\ client = "disconnecting" /\ ~session.disconnectReply /\ ~session.seekReply
      /\ Sent("seek") = 0 /\ ~Connecting /\ ~Connecting'
      /\ ~session.reconfiguring =>
            session.continuation = None /\ Pending = 0 /\ Count(inbox, Continuations) = 0
  <2>1. client = "disconnecting" /\ ~session.disconnectReply /\ ~session.seekReply /\ Sent("seek") = 0
    BY <1>3, SentFacts DEF SessionInv, Disconnects, Seeks
  <2> QED BY <1>1, <1>3, <2>1, SentFacts
       DEF SessionInv, Reconfigurations, Answered, Awaiting, Connecting
<1>5. NothingDone' /\ Disconnects' /\ Reconfigurations'
  BY <1>1, <1>2, <1>3, <1>4, MessageTypes DEF SessionInv, NothingDone, Disconnects, Reconfigurations
<1>6. Seeks'
  BY <1>1, <1>2, <1>3, <1>4 DEF SessionInv, Seeks
<1>7. Answered'
  <2>1. CASE session.reconfiguring
    <3>1. Pending' = Pending /\ Awaiting' = Awaiting
      BY <1>2, <1>3, <2>1 DEF Pending, Asked, Awaiting
    <3> QED BY <1>1, <1>2, <1>3, <2>1, <3>1, SentFacts DEF SessionInv, Answered
  <2>2. CASE ~session.reconfiguring
    <3>1. /\ Pending' = Cardinality(mFetcherInfos) /\ Cardinality(mFetcherInfos) \in Int
          /\ mFetcherInfos = {} <=> Cardinality(mFetcherInfos) = 0
          /\ \A f \in Fetchers : Count(mail'[f], Requests) <= 1
      <4>1. mFetcherInfos \in SUBSET Fetchers /\ mail \in [Fetchers -> Seq(Letter)]
        BY DEF TypeInv, SessionTypes, FetcherTypes
      <4>2. \A f \in Fetchers : Count(mail'[f], Requests) =
               Count(mail[f], Requests) + (IF f \in mFetcherInfos THEN 1 ELSE 0)
        BY <1>2, <2>2, <4>1, StopCounts
      <4> QED BY <1>3, <1>4, <2>2, <4>1, <4>2, AskedAnew
    <3>2. \A m \in InQueue(inbox) : m.what \notin Continuations
      BY <1>4, <2>2, CountFacts DEF TypeInv, SessionTypes
    <3> QED BY <1>1, <1>2, <1>3, <1>4, <2>2, <3>1, <3>2, MessageTypes DEF Answered, Awaiting
  <2> QED BY <2>1, <2>2
<1>8. FetchersAreNumbered'
  <2>1. ToCome' = ToCome
    BY <1>2, <1>3, <1>4, MessageTypes DEF ToCome
  <2> QED BY <1>1, <1>2, <2>1 DEF SessionInv, FetchersAreNumbered
<1>9. FetchersDiffer'
  <2>1. CASE session.reconfiguring
    <3>1. \A f \in Fetchers : Leaves(f) => Leaves(f)'
      BY <1>1, <1>2, <1>3, <2>1, MessageTypes DEF Leaves
    <3> QED BY <1>1, <1>2, <2>1, <3>1 DEF SessionInv, FetchersDiffer, TypeInv, SessionTypes
  <2>2. CASE ~session.reconfiguring
    <3>1. session'.continuation.what = "finishDisconnect2" /\ session'.continuation \notin Changes
      BY <1>2, <2>2, MessageTypes
    <3> QED BY <1>1, <3>1 DEF SessionInv, FetchersDiffer
  <2> QED BY <2>1, <2>2
<1> QED BY <1>5, <1>6, <1>7, <1>8, <1>9 DEF SessionInv

LEMMA OnSeekKeeps ==
    ASSUME TypeInv, TypeInv', SessionInv, OnSeek
    PROVE  SessionInv' /\ failed' = failed
<1> DEFINE m == Head(inbox)
           seek == [what |-> "seek", pos |-> m.pos]
           letters == [f \in Fetchers |-> IF f \in mFetcherInfos THEN seek ELSE None]
<1>1. inbox # <<>> /\ m.what = "seek" /\ m \in Message /\ m \in InQueue(inbox) /\ m.pos \in Int
  <2>1. inbox # <<>> /\ m.what = "seek"
    BY DEF OnSeek, Handles
  <2>2. m \in Message /\ m \in InQueue(inbox)
    BY <2>1, TailPlaces DEF TypeInv, SessionTypes
  <2> QED BY <2>1, <2>2, MessageFields
<1>2. /\ m.awaited /\ Sent("seek") = 1 /\ client = "seeking" /\ ~session.seekReply
      /\ ~session.reconfiguring /\ ~session.disconnectReply /\ session.continuation = None
      /\ Sent("connect") = 0 /\ Sent("changeConfiguration") = 0 /\ Sent("disconnect") = 0
      /\ Pending = 0 /\ Count(inbox, Continuations) = 0 /\ ~Connecting
  <2>1. m.awaited /\ Sent("seek") > 0
    BY <1>1, SentFacts DEF SessionInv, Seeks
  <2>2. /\ client = "seeking" /\ ~session.seekReply /\ ~session.reconfiguring
        /\ ~session.disconnectReply /\ session.continuation = None
        /\ Sent("connect") = 0 /\ Sent("changeConfiguration") = 0 /\ Sent("disconnect") = 0
        /\ Sent("seek") <= 1
    BY <2>1 DEF SessionInv, Seeks
  <2> QED BY <2>1, <2>2, SentFacts DEF SessionInv, Answered, Awaiting, Connecting
<1>3. /\ inbox' = Tail(inbox) /\ mail' = Mails(letters)
      /\ session'.seekReply /\ session'.counter = Cardinality(mFetcherInfos)
      /\ session'.continuation = None /\ ~session'.reconfiguring /\ ~session'.disconnectReply
      /\ session'.created = session.created
      /\ UNCHANGED <<client, prepared, budget, mFetcherInfos, delayed, fetcher, failed>>
  <2>1. /\ inbox' = Tail(inbox) /\ mail' = ToAll(mFetcherInfos, seek)
        /\ session' = [session EXCEPT !.seekReply = TRUE, !.counter = Cardinality(mFetcherInfos)]
        /\ UNCHANGED <<client, prepared, budget, mFetcherInfos, delayed, fetcher, failed>>
    BY <1>2 DEF OnSeek, clientVars
  <2> QED BY <1>2, <2>1 DEF ToAll, TypeInv, SessionTypes, Sessions
<1>4. \A f \in Fetchers : Count(mail'[f], Requests) =
         Count(mail[f], Requests) + (IF f \in mFetcherInfos THEN 1 ELSE 0)
  <2> SUFFICES ASSUME NEW f \in Fetchers
               PROVE  Count(mail'[f], Requests) =
                         Count(mail[f], Requests) + (IF f \in mFetcherInfos THEN 1 ELSE 0)
    OBVIOUS
  <2>1. /\ letters[f] = None \/ letters[f] \in Letter
        /\ f \notin mFetcherInfos <=> letters[f] = None
        /\ letters[f] # None => One(letters[f].what, Requests) = 1
    BY <1>1 DEF One, Requests, Letter, None
  <2> HIDE DEF letters
  <2> QED BY <1>3, <2>1, MailsCounts
<1> HIDE DEF letters, seek
<1>5. /\ Sent("connect")' = 0 /\ Sent("changeConfiguration")' = 0
      /\ Sent("seek")' = 0 /\ Sent("disconnect")' = 0
      /\ Count(inbox', Answers) = Count(inbox, Answers)
      /\ Count(inbox', Continuations) = 0
      /\ InQueue(inbox') \subseteq InQueue(inbox) /\ IsLast(inbox)'
  BY <1>1, <1>2, <1>3, Taken, KindFacts DEF Takes
<1>6. NothingDone' /\ Disconnects' /\ Reconfigurations'
  BY <1>2, <1>3, <1>5 DEF SessionInv, NothingDone, Disconnects, Reconfigurations, Connecting
<1>7. Seeks'
  BY <1>2, <1>3, <1>5 DEF SessionInv, Seeks
<1>8. Answered'
  <2>1. \A k \in InQueue(inbox) : k.what \notin Continuations
    BY <1>2, CountFacts DEF TypeInv, SessionTypes
  <2>2. mFetcherInfos \in SUBSET Fetchers
    BY DEF TypeInv, SessionTypes
  <2>3. /\ Pending' = Cardinality(mFetcherInfos) /\ Cardinality(mFetcherInfos) \in Int
        /\ \A f \in Fetchers : Count(mail'[f], Requests) <= 1
    BY <1>2, <1>4, <1>5, <2>2, AskedAnew
  <2> QED BY <1>3, <1>5, <2>1, <2>3 DEF Answered, Awaiting
<1>9. FetchersAreNumbered'
  <2>1. ToCome' = ToCome
    BY <1>2, <1>3, <1>5 DEF ToCome, Connecting
  <2> QED BY <1>3, <2>1 DEF SessionInv, FetchersAreNumbered
<1>10. FetchersDiffer'
  <2>1. None \notin Changes /\ None.what = "none"
    BY MessageTypes
  <2> QED BY <1>3, <2>1 DEF SessionInv, FetchersDiffer
<1> QED BY <1>3, <1>6, <1>7, <1>8, <1>9, <1>10 DEF SessionInv

LEMMA OnSeekedKeeps ==
    ASSUME TypeInv, TypeInv', SessionInv, OnSeeked
    PROVE  SessionInv' /\ failed' = failed
<1>1. inbox # <<>> /\ Head(inbox).what = "seeked"
  BY DEF OnSeeked, Handles
<1> DEFINE last == session.counter = 1
<1>2. /\ inbox' = Tail(inbox)
      /\ session'.counter = session.counter - 1
      /\ session'.seekReply = (session.seekReply /\ ~last)
      /\ session'.continuation = session.continuation
      /\ session'.reconfiguring = session.reconfiguring
      /\ session'.disconnectReply = session.disconnectReply
      /\ session'.created = session.created
      /\ client' = IF last /\ session.seekReply THEN "idle" ELSE client
      /\ \A f \in Fetchers : fetcher'[f].uri = fetcher[f].uri /\ fetcher'[f].stream = fetcher[f].stream
      /\ UNCHANGED <<prepared, budget, mFetcherInfos, delayed, mail, failed>>
  <2> DEFINE n == session.counter - 1
             counted == [session EXCEPT !.counter = n]
  <2>1. session.counter \in Int /\ session \in Sessions /\ (n = 0 <=> last)
    BY SentFacts DEF TypeInv, SessionTypes
  <2>2. /\ inbox' = Tail(inbox) /\ UNCHANGED <<prepared, budget, mFetcherInfos, delayed, mail, failed>>
        /\ session' = IF n # 0 THEN counted ELSE SeekReplied(counted)
        /\ client' = IF n # 0 THEN client ELSE ClientReplied(session)
        /\ \/ fetcher' = fetcher
           \/ fetcher' = [f \in Fetchers |-> IF f \in mFetcherInfos
                                             THEN [fetcher[f] EXCEPT !.work = "monitor"]
                                             ELSE fetcher[f]]
    BY <2>1 DEF OnSeeked, Sessions
  <2>3. \A f \in Fetchers : fetcher'[f].uri = fetcher[f].uri /\ fetcher'[f].stream = fetcher[f].stream
    BY <2>2 DEF TypeInv, FetcherTypes, FetcherState
  <2> HIDE DEF n
  <2>4. /\ session'.counter = n /\ session'.continuation = session.continuation
        /\ session'.reconfiguring = session.reconfiguring
        /\ session'.disconnectReply = session.disconnectReply
        /\ session'.created = session.created
        /\ session'.seekReply = IF n # 0 THEN session.seekReply ELSE FALSE
    BY <2>1, <2>2 DEF SeekReplied, Sessions
  <2> QED BY <2>1, <2>2, <2>3, <2>4 DEF ClientReplied, n, Sessions
<1> HIDE DEF last
<1>3. /\ Sent("connect")' = Sent("connect") /\ Sent("changeConfiguration")' = Sent("changeConfiguration")
      /\ Sent("seek")' = Sent("seek") /\ Sent("disconnect")' = Sent("disconnect")
      /\ Count(inbox', Answers) = Count(inbox, Answers) - 1 /\ Count(inbox, Answers) > 0
      /\ Count(inbox', Continuations) = Count(inbox, Continuations)
      /\ InQueue(inbox') \subseteq InQueue(inbox) /\ IsLast(inbox)'
      /\ InQueue(inbox) \subseteq InQueue(inbox') \cup {Head(inbox)}
  <2>1. Takes("connect") /\ Takes("changeConfiguration") /\ Takes("seek") /\ Takes("disconnect")
    BY <1>1, <1>2, Taken
  <2>2. /\ Count(inbox', Answers) = Count(inbox, Answers) - 1 /\ Count(inbox, Answers) > 0
        /\ Count(inbox', Continuations) = Count(inbox, Continuations)
        /\ InQueue(inbox') \subseteq InQueue(inbox) /\ IsLast(inbox)'
        /\ InQueue(inbox) \subseteq InQueue(inbox') \cup {Head(inbox)}
    BY <1>1, <1>2, Taken, KindFacts, SentFacts
  <2> QED BY <1>1, <2>1, <2>2 DEF Takes
<1>4. /\ Pending > 0 /\ Pending' = Pending - 1 /\ Awaiting /\ Pending <= session.counter
      /\ Count(inbox, Continuations) = 0 /\ ~Connecting
  <2>1. Pending > 0 /\ Pending' = Pending - 1
    BY <1>2, <1>3, SentFacts DEF Pending, Asked
  <2>2. Awaiting /\ Pending <= session.counter /\ Count(inbox, Continuations) = 0
    BY <2>1, SentFacts DEF SessionInv, Answered
  <2>3. Head(inbox) \in InQueue(inbox)
    BY <1>1, TailPlaces DEF TypeInv, SessionTypes
  <2> QED BY <1>1, <2>1, <2>2, <2>3, EmptyQueue DEF SessionInv, NothingDone
<1>5. session.seekReply => client = "seeking" /\ Sent("seek") = 0 /\ session.continuation = None
                           /\ Sent("disconnect") = 0 /\ ~session.disconnectReply
                           /\ Sent("connect") = 0
  BY SentFacts DEF SessionInv, Seeks
<1>6. NothingDone'
  BY <1>2, <1>3, <1>4, <1>5 DEF SessionInv, NothingDone, Connecting
<1>7. Disconnects'
  BY <1>2, <1>3, <1>5 DEF SessionInv, Disconnects
<1>8. Reconfigurations'
  BY <1>2, <1>3 DEF SessionInv, Reconfigurations
<1>9. Seeks'
  BY <1>2, <1>3, <1>5, SentFacts DEF SessionInv, Seeks
<1>10. Answered'
  <2>1. CASE Awaiting'
    BY <1>2, <1>3, <1>4, <2>1, SentFacts DEF SessionInv, Answered
  <2>2. CASE ~Awaiting'
    <3>1. last
      BY <1>2, <1>4, <2>2 DEF Awaiting
    <3>2. Pending' = 0
      BY <1>4, <3>1, SentFacts DEF last
    <3> QED BY <1>2, <1>3, <1>4, <2>2, <3>2 DEF SessionInv, Answered
  <2> QED BY <2>1, <2>2
<1>11. FetchersAreNumbered'
  <2>1. ToCome' = ToCome
    BY <1>2, <1>3, <1>4, <1>6 DEF ToCome, Connecting
  <2> QED BY <1>2, <2>1 DEF SessionInv, FetchersAreNumbered
<1>12. FetchersDiffer'
  <2>1. \A f \in Fetchers : Leaves(f) => Leaves(f)'
    BY <1>1, <1>2, <1>3, MessageTypes DEF Leaves
  <2> QED BY <1>2, <2>1 DEF SessionInv, FetchersDiffer, TypeInv, SessionTypes
<1> QED BY <1>2, <1>6, <1>7, <1>8, <1>9, <1>10, <1>11, <1>12 DEF SessionInv

LEMMA OnFinishDisconnect2Keeps ==
    ASSUME TypeInv, TypeInv', SessionInv, OnFinishDisconnect2
    PROVE  SessionInv' /\ failed' = failed
<1>1. inbox # <<>> /\ Head(inbox).what = "finishDisconnect2"
  BY DEF OnFinishDisconnect2, Handles
<1>2. /\ inbox' = Tail(inbox) /\ session'.counter = session.counter
      /\ session'.seekReply = session.seekReply /\ session'.continuation = None
      /\ session'.reconfiguring = session.reconfiguring /\ ~session'.disconnectReply
      /\ session'.created = session.created
      /\ client' = IF session.disconnectReply THEN "gone" ELSE client
      /\ UNCHANGED <<prepared, budget, mFetcherInfos, delayed, fetcher, mail, failed>>
  BY DEF OnFinishDisconnect2, fetcherVars, TypeInv, SessionTypes, Sessions
<1>3. /\ Sent("connect")' = Sent("connect") /\ Sent("changeConfiguration")' = Sent("changeConfiguration")
      /\ Sent("seek")' = Sent("seek") /\ Sent("disconnect")' = Sent("disconnect")
      /\ Count(inbox', Answers) = Count(inbox, Answers)
      /\ Count(inbox', Continuations) = Count(inbox, Continuations) - 1
      /\ Count(inbox, Continuations) > 0
      /\ InQueue(inbox') \subseteq InQueue(inbox) /\ IsLast(inbox)'
  BY <1>1, <1>2, Taken, KindFacts DEF Takes
<1>4. /\ session.continuation = Head(inbox) /\ session.continuation # None
      /\ Pending = 0 /\ Pending' = 0 /\ ~Connecting /\ Count(inbox', Continuations) = 0
      /\ session.continuation \notin Changes
  <2>1. Head(inbox) \in InQueue(inbox)
    BY <1>1, TailPlaces DEF TypeInv, SessionTypes
  <2>2. session.continuation = Head(inbox) /\ session.continuation # None /\ Pending = 0
        /\ Count(inbox, Continuations) <= 1
    BY <1>1, <1>3, <2>1, SentFacts DEF SessionInv, Answered, Continuations
  <2>3. Pending' = Pending
    BY <1>2, <1>3 DEF Pending, Asked
  <2>4. ~Connecting
    BY <1>1, <2>1 DEF SessionInv, NothingDone
  <2>5. Head(inbox) \notin Changes
    BY <1>1 DEF Changes
  <2> QED BY <1>3, <2>2, <2>3, <2>4, <2>5, SentFacts
<1>5. client # "seeking" /\ ~session.seekReply /\ Sent("seek") = 0
  BY <1>4, SentFacts DEF SessionInv, Seeks
<1>6. ~Connecting'
  BY <1>2, <1>3, <1>4 DEF Connecting
<1>7. NothingDone' /\ Reconfigurations'
  BY <1>2, <1>3, <1>6, MessageTypes DEF SessionInv, NothingDone, Reconfigurations
<1>8. Seeks' /\ Disconnects'
  BY <1>2, <1>3, <1>5, SentFacts DEF SessionInv, Seeks, Disconnects
<1>9. Answered'
  <2>1. \A m \in InQueue(inbox') : m.what \notin Continuations
    BY <1>4, CountFacts DEF TypeInv, SessionTypes
  <2> QED BY <1>2, <1>4, <1>5, <2>1 DEF SessionInv, Answered, Awaiting
<1>10. FetchersAreNumbered'
  <2>1. ToCome' = ToCome
    BY <1>2, <1>3, <1>4, <1>6, MessageTypes DEF ToCome
  <2> QED BY <1>2, <2>1 DEF SessionInv, FetchersAreNumbered
<1>11. FetchersDiffer'
  BY <1>2, MessageTypes DEF SessionInv, FetchersDiffer
<1> QED BY <1>2, <1>7, <1>8, <1>9, <1>10, <1>11 DEF SessionInv

\* No fetcher answers more often than it is asked: the counter does not run out.
LEMMA OnAcknowledgedKeeps ==
    ASSUME TypeInv, TypeInv', SessionInv, OnAcknowledged
    PROVE  SessionInv' /\ failed' = failed
<1> DEFINE m == Head(inbox)
           f == m.from
           goesOn == session.continuation # None /\ session.counter = 1
           post == IF goesOn THEN session.continuation ELSE None
<1>1. /\ inbox # <<>> /\ m.what \in {"paused", "stopped"} /\ m \in InQueue(inbox)
      /\ f \in Fetchers /\ m = From(m.what, f)
  <2>1. inbox # <<>> /\ m.what \in {"paused", "stopped"}
    BY DEF OnAcknowledged, Handles
  <2>2. m \in Message /\ m \in InQueue(inbox)
    BY <2>1, TailPlaces DEF TypeInv, SessionTypes
  <2> QED BY <2>1, <2>2, MessageFields
<1>2. /\ Count(inbox, Answers) > 0 /\ Pending > 0 /\ Awaiting /\ Pending <= session.counter
      /\ Count(inbox, Continuations) = 0 /\ ~Connecting /\ session.counter \in Int
  <2>1. Count(inbox, Answers) > 0
    BY <1>1, CountFacts DEF Answers, TypeInv, SessionTypes
  <2>2. Pending > 0
    BY <2>1, SentFacts DEF Pending
  <2> QED BY <1>1, <2>1, <2>2, SentFacts DEF SessionInv, Answered, NothingDone
<1>3. session.continuation # None =>
         /\ ~session.seekReply /\ client # "seeking" /\ Sent("seek") = 0
         /\ session.continuation \in Message /\ session.continuation.what \in Continuations
  <2>1. session.continuation # None => session.continuation.what \in Continuations
    BY SentFacts, ContinuationTypes, MessageTypes DEF Continuations, Reconfigure, Changes
  <2> QED BY <2>1, SentFacts, ContinuationTypes DEF SessionInv, Seeks
<1>4. /\ inbox' = IF post = None THEN Tail(inbox) ELSE Append(Tail(inbox), post)
      /\ session'.counter = session.counter - (IF session.continuation = None THEN 0 ELSE 1)
      /\ session'.continuation = session.continuation /\ session'.seekReply = session.seekReply
      /\ session'.reconfiguring = session.reconfiguring
      /\ session'.disconnectReply = session.disconnectReply /\ session'.created = session.created
      /\ mFetcherInfos' = IF m.what = "paused" THEN mFetcherInfos
                          ELSE {g \in mFetcherInfos : fetcher[g].uri # fetcher[f].uri}
      /\ mail' = IF m.what = "paused" THEN mail ELSE [mail EXCEPT ![f] = <<>>]
      /\ UNCHANGED <<client, prepared, budget, delayed, fetcher, failed>>
  <2> DEFINE n == session.counter - 1
             counted == [session EXCEPT !.counter = n]
  <2>1. /\ session \in Sessions /\ session.counter > 0
        /\ counted.counter = n /\ (n = 0 <=> session.counter = 1)
    BY <1>2, SentFacts DEF TypeInv, SessionTypes, Sessions
  <2>2. /\ mFetcherInfos' = IF m.what = "paused" THEN mFetcherInfos
                            ELSE {g \in mFetcherInfos : fetcher[g].uri # fetcher[f].uri}
        /\ inbox' = IF goesOn THEN Append(Tail(inbox), session.continuation) ELSE Tail(inbox)
        /\ session' = IF session.continuation = None THEN session
                      ELSE IF goesOn THEN SeekReplied(counted) ELSE counted
        /\ client' = IF goesOn THEN ClientReplied(session) ELSE client
        /\ mail' = IF m.what = "paused" THEN mail ELSE [mail EXCEPT ![f] = <<>>]
        /\ UNCHANGED <<prepared, budget, delayed, fetcher, failed>>
    <3> DEFINE counts == [session EXCEPT !.counter = @ - 1]
               goes == session.continuation # None /\ counts.counter = 0
    <3>1. counts = counted /\ (goes <=> goesOn)
      BY <2>1
    <3>2. ~(session.continuation # None /\ session.counter <= 0)
      BY <1>2, <2>1
    <3>3. /\ mFetcherInfos' = IF m.what = "paused" THEN mFetcherInfos
                              ELSE {g \in mFetcherInfos : fetcher[g].uri # fetcher[f].uri}
          /\ inbox' = IF goes THEN Append(Tail(inbox), session.continuation) ELSE Tail(inbox)
          /\ session' = IF session.continuation = None THEN session
                        ELSE IF goes THEN SeekReplied(counts) ELSE counts
          /\ client' = IF goes THEN ClientReplied(session) ELSE client
          /\ mail' = IF m.what = "paused" THEN mail ELSE [mail EXCEPT ![f] = <<>>]
          /\ UNCHANGED <<prepared, budget, delayed, fetcher, failed>>
      BY <3>2 DEF OnAcknowledged
    <3> HIDE DEF counts, goes, counted
    <3> QED BY <3>1, <3>3
  <2> HIDE DEF n, goesOn
  <2>3. /\ session'.counter = IF session.continuation = None THEN session.counter ELSE n
        /\ session'.continuation = session.continuation /\ session'.reconfiguring = session.reconfiguring
        /\ session'.disconnectReply = session.disconnectReply /\ session'.created = session.created
        /\ session'.seekReply = session.seekReply
    BY <1>3, <2>1, <2>2 DEF SeekReplied, Sessions
  <2>4. client' = client
    BY <1>3, <2>2 DEF ClientReplied, goesOn
  <2>5. inbox' = IF post = None THEN Tail(inbox) ELSE Append(Tail(inbox), post)
    BY <2>2 DEF goesOn
  <2>6. session'.counter = session.counter - (IF session.continuation = None THEN 0 ELSE 1)
    BY <2>1, <2>3, SentFacts DEF n
  <2> HIDE DEF m, post
  <2> QED BY <2>2, <2>3, <2>4, <2>5, <2>6
<1>5. /\ post \in Message \cup {None} /\ (post = None <=> ~goesOn)
      /\ post.what = IF goesOn THEN session.continuation.what ELSE "none"
      /\ post # None => post = session.continuation /\ post.what \in Continuations
  BY <1>3, MessageTypes
<1> HIDE DEF post, m
<1>6. /\ Sent("connect")' = Sent("connect") /\ Sent("changeConfiguration")' = Sent("changeConfiguration")
      /\ Sent("seek")' = Sent("seek") /\ Sent("disconnect")' = Sent("disconnect")
      /\ Count(inbox', Answers) = Count(inbox, Answers) - 1
      /\ Count(inbox', Continuations) = IF post = None THEN 0 ELSE 1
      /\ InQueue(inbox') \subseteq InQueue(inbox) \cup ({post} \ {None}) /\ IsLast(inbox)'
      /\ InQueue(inbox) \subseteq InQueue(inbox') \cup {m}
  <2>1. /\ post.what \notin Kinds \cup Answers /\ (post.what \in Continuations <=> post # None)
    BY <1>5, MessageTypes DEF Kinds, Answers, Continuations, Reconfigure
  <2>2. /\ Takes("connect") /\ Takes("changeConfiguration") /\ Takes("seek") /\ Takes("disconnect")
        /\ Count(inbox', Answers) = Count(inbox, Answers) - (IF m.what \in Answers THEN 1 ELSE 0)
        /\ Count(inbox', Continuations) =
              Count(inbox, Continuations) - (IF m.what \in Continuations THEN 1 ELSE 0)
                                          + (IF post.what \in Continuations THEN 1 ELSE 0)
        /\ InQueue(inbox') \subseteq InQueue(inbox) \cup ({post} \ {None}) /\ IsLast(inbox)'
        /\ InQueue(inbox) \subseteq InQueue(inbox') \cup {m}
    BY <1>1, <1>4, <1>5, <2>1, Handled DEF m
  <2>3. /\ Head(inbox).what \notin {"connect", "changeConfiguration", "seek", "disconnect"}
        /\ m.what \in Answers /\ m.what \notin Continuations
    BY <1>1, <1>2, KindFacts DEF m
  <2> QED BY <1>2, <2>1, <2>2, <2>3 DEF Takes
<1>7. Pending' <= Pending - 1 /\ Pending' \in Nat /\ \A g \in Fetchers : Count(mail'[g], Requests) <= 1
  <2>1. \A g \in Fetchers : mail'[g] = mail[g] \/ mail'[g] = <<>>
    BY <1>4 DEF TypeInv, FetcherTypes
  <2>2. Asked' \subseteq Asked /\ \A g \in Fetchers : Count(mail'[g], Requests) <= 1
    BY <2>1, EmptyQueue DEF Asked, SessionInv, Answered
  <2>3. Cardinality(Asked') <= Cardinality(Asked) /\ Cardinality(Asked') \in Nat
    <3>1. IsFiniteSet(Asked') /\ Cardinality(Asked') <= Cardinality(Asked)
      BY <2>2, SentFacts, FS_Subset
    <3> QED BY <3>1, FS_CardinalityType
  <2>4. Count(inbox, Answers) - 1 \in Nat
    BY <1>2, SentFacts
  <2> QED BY <1>6, <2>2, <2>3, <2>4, SentFacts DEF Pending
<1>8. ~Connecting'
  BY <1>2, <1>4, <1>6 DEF Connecting
<1>9. NothingDone' /\ Disconnects' /\ Reconfigurations'
  BY <1>4, <1>6, <1>8 DEF SessionInv, NothingDone, Disconnects, Reconfigurations
<1>10. Seeks'
  <2>1. post # None => post.what # "seek"
    BY <1>5 DEF Continuations, Reconfigure
  <2> QED BY <1>4, <1>6, <2>1 DEF SessionInv, Seeks
<1>11. Answered'
  <2>1. Awaiting' = Awaiting
    BY <1>4 DEF Awaiting
  <2>2. Pending' <= session'.counter
    BY <1>2, <1>4, <1>7, SentFacts
  <2>3. goesOn => Pending' = 0
    BY <1>2, <1>7, SentFacts
  <2>4. \A k \in InQueue(inbox') : k.what \in Continuations => k = session'.continuation
    BY <1>2, <1>4, <1>5, <1>6 DEF SessionInv, Answered
  <2> QED BY <1>2, <1>4, <1>5, <1>6, <1>7, <2>1, <2>2, <2>3, <2>4 DEF Answered
<1>12. FetchersAreNumbered'
  <2>1. ToCome' = ToCome
    BY <1>2, <1>4, <1>6, <1>8 DEF ToCome
  <2> QED BY <1>4, <2>1 DEF SessionInv, FetchersAreNumbered
<1>13. FetchersDiffer'
  <2>1. ASSUME NEW g \in mFetcherInfos', Leaves(g)
        PROVE  Leaves(g)'
    <3>1. CASE m.what = "paused"
      <4>1. mail' = mail /\ From("stopped", g).what = "stopped"
        BY <1>4, <3>1 DEF From
      <4>2. From("stopped", g) # m
        BY <3>1, <4>1
      <4> QED BY <1>6, <2>1, <4>1, <4>2 DEF Leaves
    <3>2. CASE m.what = "stopped"
      <4>1. g # f /\ g \in Fetchers
        BY <1>4, <2>1, <3>2 DEF TypeInv, SessionTypes
      <4>2. mail'[g] = mail[g]
        BY <1>4, <3>2, <4>1 DEF TypeInv, FetcherTypes
      <4>3. From("stopped", g) # m
        BY <1>1, <4>1 DEF From
      <4> QED BY <1>6, <2>1, <4>2, <4>3 DEF Leaves
    <3> QED BY <1>1, <3>1, <3>2
  <2>2. mFetcherInfos' \subseteq mFetcherInfos
    BY <1>4
  <2> QED BY <1>4, <2>1, <2>2 DEF SessionInv, FetchersDiffer
<1> QED BY <1>4, <1>9, <1>10, <1>11, <1>12, <1>13 DEF SessionInv

\* A reconfiguration goes on when every fetcher that was to stop has stopped.
LEMMA ChangeGoesOn ==
    ASSUME TypeInv, SessionInv, inbox # <<>>, Head(inbox).what \in Reconfigure
    PROVE  LET m == Head(inbox)
               D == {Created(s, m) : s \in m.streams}
           IN  /\ m \in Changes /\ m = session.continuation /\ m \in InQueue(inbox)
               /\ session.reconfiguring /\ Pending = 0 /\ ~Connecting
               /\ ~session.seekReply /\ client # "seeking" /\ Sent("seek") = 0
               /\ Sent("connect") = 0 /\ Sent("changeConfiguration") = 0
               /\ Count(inbox, Continuations) = 1
               /\ \A s \in Streams : m.uris[s] = VideoURI <=> s = "video"
               /\ \A f \in mFetcherInfos, s \in m.streams : fetcher[f].uri # m.uris[s]
               /\ Cardinality(D) \in {0, 1, 2} /\ D = session.created + 1 .. session.created + Cardinality(D)
               /\ D \subseteq Fetchers /\ mFetcherInfos \subseteq 1 .. session.created
               /\ session.created + 2 * budget["select"] + 2 <= MaxFetchers
<1> DEFINE m == Head(inbox)
           D == {Created(s, m) : s \in m.streams}
<1>1. m \in InQueue(inbox) /\ m \in Changes /\ m.what \in Continuations
  <2>1. m \in InQueue(inbox) /\ m \in Message
    BY TailPlaces DEF TypeInv, SessionTypes
  <2> QED BY <2>1, MessageFields DEF Reconfigure, Continuations
<1>2. m = session.continuation /\ Pending = 0 /\ Count(inbox, Continuations) = 1
      /\ session.reconfiguring /\ m # None
  <2>1. Count(inbox, Continuations) > 0 /\ Count(inbox, Continuations) <= 1
    BY <1>1, CountFacts DEF TypeInv, SessionTypes, SessionInv, Answered
  <2> QED BY <1>1, <2>1, SentFacts, MessageTypes DEF SessionInv, Answered, Reconfigurations
<1>3. /\ ~session.seekReply /\ client # "seeking" /\ Sent("seek") = 0 /\ ~Connecting
      /\ Sent("connect") = 0 /\ Sent("changeConfiguration") = 0
  BY <1>2, SentFacts DEF SessionInv, Seeks, NothingDone, Reconfigurations
<1>4. \A f \in Fetchers : ~Leaves(f)
  <2>1. Asked = {} /\ Count(inbox, Answers) = 0
    BY <1>2, SentFacts DEF Pending
  <2> SUFFICES ASSUME NEW f \in Fetchers
               PROVE  ~Leaves(f)
    OBVIOUS
  <2>2. \A k \in InQueue(mail[f]) : k.what \notin Requests
    BY <2>1, CountType DEF Asked, TypeInv, FetcherTypes
  <2>3. \A k \in InQueue(inbox) : k.what \notin Answers
    BY <2>1, CountFacts DEF TypeInv, SessionTypes
  <2>4. From("stopped", f).what = "stopped"
    BY DEF From
  <2> QED BY <2>2, <2>3, <2>4 DEF Leaves, Requests, Answers
<1>5. /\ m.streams = Streams \ m.resume /\ m.streams \subseteq Streams
      /\ \A s \in Streams : m.uris[s] = VideoURI <=> s = "video"
  BY <1>1, <1>2 DEF SessionInv, FetchersDiffer
<1>6. ASSUME NEW f \in mFetcherInfos, NEW s \in m.streams
      PROVE  fetcher[f].uri # m.uris[s]
  <2>1. f \in Fetchers /\ fetcher[f].stream \in Streams
    BY DEF TypeInv, SessionTypes, FetcherTypes, FetcherState
  <2>2. m.what \in Reconfigure /\ (m.what = "changeConfiguration2" => mFetcherInfos = {})
    BY <1>2 DEF SessionInv, FetchersDiffer
  <2>3. fetcher[f].stream \in m.resume
    BY <1>2, <1>4, <2>1, <2>2 DEF SessionInv, FetchersDiffer, Reconfigure
  <2>4. fetcher[f].uri = VideoURI <=> fetcher[f].stream = "video"
    BY <2>1 DEF SessionInv, FetchersDiffer
  <2> QED BY <1>5, <2>1, <2>3, <2>4 DEF Streams
<1>7. Cardinality(D) \in {0, 1, 2} /\ D = session.created + 1 .. session.created + Cardinality(D)
  <2> DEFINE c == session.created
  <2>1. c \in Nat
    BY SentFacts
  <2>2. m.streams = {} \/ m.streams = {"audio"} \/ m.streams = {"video"} \/ m.streams = {"audio", "video"}
    BY <1>5 DEF Streams
  <2>3. PICK n \in {0, 1, 2} : D = c + 1 .. c + n
    <3>1. /\ c + 1 .. c + 0 = {} /\ c + 1 .. c + 1 = {c + 1}
          /\ c + 1 .. c + 2 = {c + 1, c + 2}
      BY <2>1
    <3>2. D = {} \/ D = {c + 1} \/ D = {c + 1, c + 2}
      BY <2>2 DEF Created
    <3> HIDE DEF D
    <3> QED BY <3>1, <3>2
  <2>4. Cardinality(c + 1 .. c + n) = n
    <3>1. c + 1 \in Int /\ c + n \in Int /\ n \in Int
      BY <2>1
    <3>2. Cardinality(c + 1 .. c + n) = IF c + 1 > c + n THEN 0 ELSE (c + n) - (c + 1) + 1
      BY <3>1, FS_Interval
    <3> QED BY <2>1, <3>2
  <2> HIDE DEF D
  <2> QED BY <2>3, <2>4
<1>8. session.created + 2 * budget["select"] + 2 <= MaxFetchers
  BY <1>1, <1>2 DEF SessionInv, FetchersAreNumbered, ToCome
<1>9. D \subseteq Fetchers
  <2>1. session.created \in Nat /\ budget["select"] \in Nat /\ MaxFetchers \in Nat
    BY SentFacts, Constants DEF MaxFetchers
  <2> HIDE DEF D
  <2> QED BY <1>7, <1>8, <2>1 DEF Fetchers
<1>10. mFetcherInfos \subseteq 1 .. session.created
  BY DEF SessionInv, FetchersAreNumbered
<1> QED BY <1>1, <1>2, <1>3, <1>5, <1>6, <1>7, <1>8, <1>9, <1>10

NewFetchers(m) == [f \in {Created(s, m) : s \in m.streams} |->
                      CHOOSE s \in m.streams : Created(s, m) = f]
StartLetters(m) ==
    [f \in Fetchers |->
        IF f \in DOMAIN NewFetchers(m)
        THEN [what |-> "start", pos |-> StartOf(NewFetchers(m)[f], m)]
        ELSE IF f \in mFetcherInfos /\ fetcher[f].stream \in m.resume
                  /\ fetcher[f].uri = m.uris[fetcher[f].stream]
             THEN [what |-> "start", pos |-> -1] ELSE None]
Reconfigured(m) == [session EXCEPT !.continuation = None, !.reconfiguring = FALSE,
                                   !.mask = m.streams \cup m.resume,
                                   !.created = @ + Cardinality(DOMAIN NewFetchers(m))]

LEMMA NewFetchersFacts ==
    ASSUME TypeInv, NEW m \in Changes
    PROVE  /\ \A f \in DOMAIN NewFetchers(m) :
                 NewFetchers(m)[f] \in m.streams /\ NewFetchers(m)[f] \in Streams
           /\ \A f \in Fetchers : StartLetters(m)[f] # None =>
                 StartLetters(m)[f] \in Letter /\ StartLetters(m)[f].what = "start"
<1>1. \A f \in DOMAIN NewFetchers(m) : NewFetchers(m)[f] \in m.streams /\ NewFetchers(m)[f] \in Streams
  BY DEF NewFetchers, Changes
<1>2. \A s \in Streams : StartOf(s, m) \in Int
  BY DEF StartOf, Changes, TypeInv, DataTypes
<1>3. \A p \in Int : [what |-> "start", pos |-> p] \in Letter /\ [what |-> "start", pos |-> p].what = "start"
  BY DEF Letter
<1> QED BY <1>1, <1>2, <1>3 DEF StartLetters

LEMMA ChangeActs ==
    ASSUME TypeInv, SessionInv, OnChangeConfiguration3
    PROVE  LET m == Head(inbox)
               new == NewFetchers(m)
               infos == mFetcherInfos \cup DOMAIN new
           IN  /\ inbox # <<>> /\ m.what \in Reconfigure
               /\ fetcher' = [f \in Fetchers |->
                      IF f \in DOMAIN new
                      THEN [NoFetcher EXCEPT !.uri = m.uris[new[f]], !.stream = new[f]]
                      ELSE fetcher[f]]
               /\ mFetcherInfos' = infos
               /\ mBuffers' = [s \in Streams |-> IF s \in m.streams THEN <<>> ELSE mBuffers[s]]
               /\ mEOSResult' = [s \in Streams |-> IF s \in m.streams THEN Ok ELSE mEOSResult[s]]
               /\ mDiscontinuities' = [s \in Streams |->
                      IF s \notin m.streams THEN mDiscontinuities[s]
                      ELSE Append(mDiscontinuities[s],
                                  IF m.pos >= 0 THEN Time(m.pos) ELSE FormatChange(m.uris[s]))]
               /\ IF session.disconnectReply
                  THEN /\ session' = Stopping(Reconfigured(m), infos)
                       /\ mail' = StoppedMails(Mails(StartLetters(m)), infos)
                       /\ inbox' = StoppedInbox(Tail(inbox), infos)
                  ELSE /\ session' = Reconfigured(m) /\ mail' = Mails(StartLetters(m))
                       /\ inbox' = Tail(inbox)
               /\ UNCHANGED <<clientVars, mIsPrepared, delayed, readerVars, failed>>
<1> DEFINE m == Head(inbox)
<1>1. inbox # <<>> /\ m.what \in Reconfigure
  BY DEF OnChangeConfiguration3, Handles, Reconfigure
<1>2. ~\E f \in mFetcherInfos : \E s \in m.streams : fetcher[f].uri = m.uris[s]
  BY <1>1, ChangeGoesOn
<1> QED BY <1>1, <1>2 DEF OnChangeConfiguration3, NewFetchers, StartLetters, Reconfigured

LEMMA OnChangeConfiguration3Types ==
    ASSUME TypeInv, SessionInv, OnChangeConfiguration3
    PROVE  TypeInv'
<1> DEFINE m == Head(inbox)
           new == NewFetchers(m)
           infos == mFetcherInfos \cup DOMAIN new
<1>1. inbox # <<>> /\ m.what \in Reconfigure
  BY ChangeActs
<1>2. m \in Changes /\ infos \subseteq Fetchers /\ Cardinality(DOMAIN new) \in Nat
  BY <1>1, ChangeGoesOn DEF NewFetchers, TypeInv, SessionTypes
<1>3. /\ m.pos \in Int /\ m.streams \subseteq Streams /\ m.resume \subseteq Streams
      /\ m.uris \in [Streams -> URIs]
  BY <1>2 DEF Changes
<1> HIDE DEF m
<1>4. /\ \A f \in DOMAIN new : new[f] \in Streams
      /\ \A f \in Fetchers : StartLetters(m)[f] = None \/ StartLetters(m)[f] \in Letter
  BY <1>2, NewFetchersFacts
<1>5. Mails(StartLetters(m)) \in [Fetchers -> Seq(Letter)]
  BY <1>4, MailsTypes
<1>6. Reconfigured(m) \in Sessions
  <2>1. session.created + Cardinality(DOMAIN NewFetchers(m)) \in Nat
    BY <1>2, SentFacts
  <2>2. None \in Continuation
    BY ContinuationTypes
  <2>3. m.streams \cup m.resume \in SUBSET Streams
    BY <1>3
  <2> QED BY <2>1, <2>2, <2>3 DEF Reconfigured, TypeInv, SessionTypes, Sessions
<1>7. Tail(inbox) \in Seq(Message)
  BY <1>1, TailTypes
<1> HIDE DEF new, infos
<1>8. /\ Stopping(Reconfigured(m), infos) \in Sessions
      /\ StoppedMails(Mails(StartLetters(m)), infos) \in [Fetchers -> Seq(Letter)]
      /\ StoppedInbox(Tail(inbox), infos) \in Seq(Message)
  BY <1>2, <1>5, <1>6, <1>7, StoppingTypes
<1>9. /\ session' \in Sessions /\ mail' \in [Fetchers -> Seq(Letter)] /\ inbox' \in Seq(Message)
      /\ mFetcherInfos' \subseteq Fetchers
      /\ UNCHANGED <<clientVars, mIsPrepared, delayed, readerVars, failed>>
  BY <1>2, <1>5, <1>6, <1>7, <1>8, ChangeActs DEF m, new, infos
<1>10. fetcher' \in [Fetchers -> FetcherState]
  <2>1. fetcher' = [f \in Fetchers |->
            IF f \in DOMAIN new
            THEN [NoFetcher EXCEPT !.uri = m.uris[new[f]], !.stream = new[f]]
            ELSE fetcher[f]]
    BY ChangeActs DEF m, new
  <2>2. ASSUME NEW f \in DOMAIN new
        PROVE  [NoFetcher EXCEPT !.uri = m.uris[new[f]], !.stream = new[f]] \in FetcherState
    <3>1. m.uris[new[f]] \in URIs /\ new[f] \in Streams
      BY <1>3, <1>4, <2>2
    <3>2. NoFetcher \in FetcherState
      BY Constants DEF NoFetcher, FetcherState, Streams
    <3> QED BY <3>1, <3>2 DEF FetcherState
  <2> QED BY <2>1, <2>2 DEF TypeInv, FetcherTypes
<1>11. mBuffers' \in [Streams -> Seq(Unit)] /\ mEOSResult' \in [Streams -> Errors]
  <2>1. /\ mBuffers' = [s \in Streams |-> IF s \in m.streams THEN <<>> ELSE mBuffers[s]]
        /\ mEOSResult' = [s \in Streams |-> IF s \in m.streams THEN Ok ELSE mEOSResult[s]]
    BY ChangeActs DEF m
  <2>2. <<>> \in Seq(Unit) /\ Ok \in Errors
    BY MessageTypes
  <2> QED BY <2>1, <2>2 DEF TypeInv, DataTypes
<1>12. mDiscontinuities' \in [Streams -> Seq(Announcement)]
  <2> DEFINE new_d(s) == IF m.pos >= 0 THEN Time(m.pos) ELSE FormatChange(m.uris[s])
  <2>1. mDiscontinuities' = [s \in Streams |-> IF s \notin m.streams THEN mDiscontinuities[s]
                                               ELSE Append(mDiscontinuities[s], new_d(s))]
    BY ChangeActs DEF m
  <2>2. \A s \in Streams : new_d(s) \in Announcement
    BY <1>3 DEF Time, FormatChange, Announcement
  <2> HIDE DEF new_d
  <2>3. \A s \in Streams : Append(mDiscontinuities[s], new_d(s)) \in Seq(Announcement)
    BY <2>2, AppendPlaces DEF TypeInv, DataTypes
  <2> QED BY <2>1, <2>3 DEF TypeInv, DataTypes
<1> QED BY <1>9, <1>10, <1>11, <1>12
     DEF TypeInv, ClientTypes, SessionTypes, FetcherTypes, DataTypes, clientVars, readerVars

LEMMA OnChangeConfiguration3Keeps ==
    ASSUME TypeInv, TypeInv', SessionInv, OnChangeConfiguration3
    PROVE  SessionInv' /\ failed' = failed
<1> DEFINE m == Head(inbox)
           new == NewFetchers(m)
           infos == mFetcherInfos \cup DOMAIN new
           asked == IF session.disconnectReply THEN infos ELSE {}
           post == IF session.disconnectReply /\ infos = {} THEN Msg("finishDisconnect2") ELSE None
           letters == StartLetters(m)
<1>1. inbox # <<>> /\ m.what \in Reconfigure
  BY ChangeActs
<1>2. /\ m \in Changes /\ m \in InQueue(inbox) /\ Pending = 0 /\ ~Connecting
      /\ ~session.seekReply /\ client # "seeking" /\ Sent("seek") = 0
      /\ Sent("connect") = 0 /\ Sent("changeConfiguration") = 0
      /\ Count(inbox, Continuations) = 1
      /\ \A s \in Streams : m.uris[s] = VideoURI <=> s = "video"
      /\ mFetcherInfos \subseteq 1 .. session.created
      /\ session.created + 2 * budget["select"] + 2 <= MaxFetchers
  BY <1>1, ChangeGoesOn
<1>3. /\ Cardinality(DOMAIN new) \in {0, 1, 2}
      /\ DOMAIN new = session.created + 1 .. session.created + Cardinality(DOMAIN new)
      /\ DOMAIN new \subseteq Fetchers /\ infos \subseteq Fetchers /\ asked \in SUBSET Fetchers
  BY <1>1, ChangeGoesOn DEF NewFetchers, TypeInv, SessionTypes
<1>4. /\ \A f \in DOMAIN new : new[f] \in Streams
      /\ \A f \in Fetchers : letters[f] # None => letters[f] \in Letter /\ letters[f].what = "start"
  BY <1>2, NewFetchersFacts
<1>5. /\ fetcher' = [f \in Fetchers |->
             IF f \in DOMAIN new
             THEN [NoFetcher EXCEPT !.uri = m.uris[new[f]], !.stream = new[f]]
             ELSE fetcher[f]]
      /\ mFetcherInfos' = infos
      /\ session' = IF session.disconnectReply THEN Stopping(Reconfigured(m), infos)
                    ELSE Reconfigured(m)
      /\ mail' = IF session.disconnectReply THEN StoppedMails(Mails(letters), infos) ELSE Mails(letters)
      /\ inbox' = IF post = None THEN Tail(inbox) ELSE Append(Tail(inbox), post)
      /\ UNCHANGED <<client, prepared, budget, delayed, failed>>
  BY ChangeActs, MessageTypes DEF clientVars, StoppedInbox
<1>6. /\ ~session'.reconfiguring /\ ~session'.seekReply
      /\ session'.disconnectReply = session.disconnectReply
      /\ session'.created = session.created + Cardinality(DOMAIN new)
      /\ session'.continuation = IF session.disconnectReply THEN Msg("finishDisconnect2") ELSE None
      /\ session.disconnectReply => session'.counter = Cardinality(infos)
  <2>1. session \in Sessions /\ Cardinality(DOMAIN new) \in Int
    BY <1>3 DEF TypeInv, SessionTypes
  <2> HIDE DEF infos, m
  <2> QED BY <1>2, <1>5, <2>1 DEF Stopping, Reconfigured, Sessions
<1>7. /\ post \in Message \cup {None}
      /\ post.what = IF post = None THEN "none" ELSE "finishDisconnect2"
      /\ post # None <=> session.disconnectReply /\ infos = {}
      /\ post # None => post = Msg("finishDisconnect2")
  BY MessageTypes
<1>8. \A f \in Fetchers : Count(mail'[f], Requests) =
         Count(mail[f], Requests) + (IF f \in asked THEN 1 ELSE 0)
  <2> SUFFICES ASSUME NEW f \in Fetchers
               PROVE  Count(mail'[f], Requests) =
                         Count(mail[f], Requests) + (IF f \in asked THEN 1 ELSE 0)
    OBVIOUS
  <2> HIDE DEF letters, infos
  <2>1. Count(Mails(letters)[f], Requests) = Count(mail[f], Requests) /\ Count(mail[f], Requests) \in Nat
    <3>1. letters[f] # None => One(letters[f].what, Requests) = 0
      BY <1>4 DEF One, Requests
    <3>2. Count(mail[f], Requests) \in Nat
      BY CountType DEF TypeInv, FetcherTypes
    <3> QED BY <1>4, <3>1, <3>2, MailsCounts
  <2>2. Mails(letters) \in [Fetchers -> Seq(Letter)]
    BY <1>4, MailsTypes
  <2>3. Count(StoppedMails(Mails(letters), infos)[f], Requests) =
           Count(Mails(letters)[f], Requests) + (IF f \in infos THEN 1 ELSE 0)
    BY <2>2, StopCounts
  <2>4. f \in asked <=> session.disconnectReply /\ f \in infos
    OBVIOUS
  <2> HIDE DEF asked
  <2>5. CASE session.disconnectReply
    BY <1>5, <2>1, <2>3, <2>4, <2>5
  <2>6. CASE ~session.disconnectReply
    <3>1. mail' = Mails(letters)
      BY <1>5, <2>6
    <3> QED BY <2>1, <2>4, <2>6, <3>1
  <2> QED BY <2>5, <2>6
<1> HIDE DEF post, letters
<1>9. /\ Sent("connect")' = 0 /\ Sent("changeConfiguration")' = 0 /\ Sent("seek")' = 0
      /\ Sent("disconnect")' = Sent("disconnect")
      /\ Count(inbox', Answers) = Count(inbox, Answers)
      /\ Count(inbox', Continuations) = IF post = None THEN 0 ELSE 1
      /\ InQueue(inbox') \subseteq InQueue(inbox) \cup ({post} \ {None}) /\ IsLast(inbox)'
  <2>1. post.what \notin Kinds \cup Answers /\ (post.what \in Continuations <=> post # None)
    BY <1>7 DEF Kinds, Answers, Continuations, Reconfigure
  <2> HIDE DEF m
  <2> QED
    <3>1. /\ Takes("connect") /\ Takes("changeConfiguration") /\ Takes("seek") /\ Takes("disconnect")
      BY <1>1, <1>5, <1>7, <2>1, Handled DEF m
    <3>2. /\ Count(inbox', Answers) = Count(inbox, Answers)
          /\ Count(inbox', Continuations) = IF post = None THEN 0 ELSE 1
          /\ InQueue(inbox') \subseteq InQueue(inbox) \cup ({post} \ {None}) /\ IsLast(inbox)'
      <4>1. m.what \in Continuations /\ m.what \notin Answers
        BY <1>1, KindFacts DEF Reconfigure
      <4>2. /\ Count(inbox', Answers) = Count(inbox, Answers) - (IF m.what \in Answers THEN 1 ELSE 0)
            /\ Count(inbox', Continuations) =
                  Count(inbox, Continuations) - (IF m.what \in Continuations THEN 1 ELSE 0)
                                              + (IF post.what \in Continuations THEN 1 ELSE 0)
            /\ InQueue(inbox') \subseteq InQueue(inbox) \cup ({post} \ {None}) /\ IsLast(inbox)'
        BY <1>1, <1>5, <1>7, <2>1, Handled DEF m
      <4>3. Count(inbox, Answers) \in Nat
        BY SentFacts
      <4> QED BY <1>2, <2>1, <4>1, <4>2, <4>3
    <3>3. m.what \notin {"connect", "changeConfiguration", "seek", "disconnect"}
      BY <1>1 DEF Reconfigure
    <3> QED BY <1>2, <3>1, <3>2, <3>3 DEF Takes, m
<1>10. ~Connecting'
  BY <1>2, <1>5, <1>9 DEF Connecting
<1>11. NothingDone' /\ Disconnects' /\ Reconfigurations'
  <2>1. NothingDone'
    BY <1>9, <1>10 DEF NothingDone
  <2>2. Disconnects'
    BY <1>5, <1>6, <1>9 DEF SessionInv, Disconnects
  <2>3. Reconfigurations'
    BY <1>6, <1>9, MessageTypes DEF Reconfigurations
  <2> QED BY <2>1, <2>2, <2>3
<1>12. Seeks'
  <2>1. post # None => post.what # "seek"
    BY <1>7
  <2> QED BY <1>2, <1>5, <1>6, <1>9, <2>1 DEF SessionInv, Seeks
<1>13. Answered'
  <2>1. /\ Pending' = Cardinality(asked) /\ Cardinality(asked) \in Int
        /\ asked = {} <=> Cardinality(asked) = 0
        /\ \A f \in Fetchers : Count(mail'[f], Requests) <= 1
    <3> HIDE DEF asked
    <3> QED BY <1>2, <1>3, <1>8, <1>9, AskedAnew
  <2>2. Awaiting' <=> session.disconnectReply
    BY <1>6, MessageTypes DEF Awaiting
  <2>3. IF Awaiting' THEN Pending' <= session'.counter ELSE Pending' = 0
    BY <1>6, <2>1, <2>2
  <2>4. \A k \in InQueue(inbox') : k.what \in Continuations => k = post
    <3>1. post = None => \A k \in InQueue(inbox') : k.what \notin Continuations
      BY <1>9, CountFacts DEF TypeInv, SessionTypes
    <3>2. ASSUME post # None, NEW k \in InQueue(inbox'), k.what \in Continuations
          PROVE  k = post
      <4>1. inbox' = Append(Tail(inbox), post) /\ Tail(inbox) \in Seq(Message) /\ post \in Message
        <5> HIDE DEF m
        <5> QED BY <1>1, <1>5, <1>7, <3>2, TailTypes
      <4>2. InQueue(inbox') = InQueue(Tail(inbox)) \cup {post}
        <5> DEFINE q == Tail(inbox)
        <5>1. inbox' = Append(q, post) /\ q \in Seq(Message) /\ post \in Message
          BY <4>1
        <5> HIDE DEF q
        <5>2. InQueue(Append(q, post)) = InQueue(q) \cup {post}
          BY <5>1, AppendPlaces
        <5> QED BY <5>1, <5>2 DEF q
      <4>3. Count(Tail(inbox), Continuations) = 0
        <5>1. /\ Count(inbox, Continuations) = Count(Tail(inbox), Continuations) + One(m.what, Continuations)
              /\ Count(Tail(inbox), Continuations) \in Nat
          BY <1>1, <4>1, TakeFacts, CountFacts DEF TypeInv, SessionTypes
        <5>2. One(m.what, Continuations) = 1
          BY <1>1 DEF One, Continuations
        <5> QED BY <1>2, <5>1, <5>2
      <4> QED BY <3>2, <4>1, <4>2, <4>3, CountFacts
    <3> QED BY <3>1, <3>2
  <2> HIDE DEF asked
  <2>5. post # None => Pending' = 0 /\ session'.continuation = post /\ session'.continuation # None
    BY <1>6, <1>7, <2>1, MessageTypes DEF asked
  <2>6. \A k \in InQueue(inbox') : k.what \in Continuations => k = session'.continuation
    <3>1. post = None => \A k \in InQueue(inbox') : k.what \notin Continuations
      BY <1>9, CountFacts DEF TypeInv, SessionTypes
    <3> QED BY <2>4, <2>5, <3>1
  <2> QED BY <1>9, <2>1, <2>3, <2>5, <2>6 DEF Answered
<1>14. FetchersAreNumbered'
  <2> DEFINE n == Cardinality(DOMAIN new)
             c == session.created
  <2>1. c \in Nat /\ budget["select"] \in Nat /\ MaxFetchers \in Nat /\ n \in {0, 1, 2}
    BY <1>3, SentFacts, Constants DEF MaxFetchers
  <2>2. mFetcherInfos' = mFetcherInfos \cup c + 1 .. c + n /\ mFetcherInfos \subseteq 1 .. c
        /\ session'.created = c + n
    BY <1>2, <1>3, <1>5, <1>6
  <2>6. c + 2 * budget["select"] + 2 <= MaxFetchers /\ budget' = budget
    BY <1>2, <1>5
  <2> HIDE DEF n, c, infos, new
  <2>3. mFetcherInfos' \subseteq 1 .. session'.created
    BY <2>1, <2>2
  <2>4. ToCome' = 0
    BY <1>6, <1>9, <1>10, MessageTypes DEF ToCome
  <2>5. session'.created + 2 * budget'["select"] + ToCome' <= MaxFetchers
    BY <2>1, <2>2, <2>4, <2>6
  <2> QED BY <2>3, <2>5 DEF FetchersAreNumbered
<1>15. FetchersDiffer'
  <2>1. session'.continuation.what \in {"none", "finishDisconnect2"} /\ session'.continuation \notin Changes
    BY <1>6, MessageTypes
  <2>2. ASSUME NEW f \in Fetchers
        PROVE  fetcher'[f].uri = VideoURI <=> fetcher'[f].stream = "video"
    <3>1. CASE f \in DOMAIN new
      <4>1. fetcher'[f].uri = m.uris[new[f]] /\ fetcher'[f].stream = new[f]
        BY <1>5, <3>1 DEF NoFetcher
      <4> QED BY <1>2, <1>4, <3>1, <4>1
    <3>2. CASE f \notin DOMAIN new
      <4>1. fetcher'[f] = fetcher[f]
        BY <1>5, <3>2
      <4> QED BY <4>1 DEF SessionInv, FetchersDiffer
    <3> QED BY <3>1, <3>2
  <2> QED BY <2>1, <2>2 DEF FetchersDiffer
<1> QED BY <1>5, <1>11, <1>12, <1>13, <1>14, <1>15 DEF SessionInv

LEMMA InitKeeps == Init => SessionInv
<1> SUFFICES ASSUME Init PROVE SessionInv
  OBVIOUS
<1>1. /\ client = "new" /\ inbox = <<>> /\ session.continuation = None /\ ~session.seekReply
      /\ ~session.disconnectReply /\ ~session.reconfiguring /\ session.created = 0
      /\ prepared = "no" /\ delayed = {} /\ mFetcherInfos = {}
      /\ budget \in Budgets /\ \A f \in Fetchers : mail[f] = <<>> /\ fetcher[f] = NoFetcher
  BY DEF Init
<1>2. /\ \A what : Sent(what) = 0
      /\ InQueue(inbox) = {} /\ IsLast(inbox)
      /\ Count(inbox, Answers) = 0 /\ Count(inbox, Continuations) = 0
      /\ \A f \in Fetchers : Count(mail[f], Requests) = 0
  BY <1>1, EmptyQueue DEF Sent, IsLast
<1>3. Pending = 0 /\ ~Awaiting
  <2>1. Asked = {} /\ Cardinality({}) = 0
    BY <1>2, FS_EmptySet DEF Asked
  <2> QED BY <1>1, <1>2, <2>1 DEF Pending, Awaiting
<1>4. NothingDone /\ Seeks /\ Disconnects /\ Reconfigurations
  <2>1. Sent("connect") = 0 /\ Sent("changeConfiguration") = 0 /\ Sent("seek") = 0 /\ Sent("disconnect") = 0
    BY <1>2
  <2>2. NothingDone
    BY <1>1, <1>2, <2>1 DEF NothingDone, NoFetcher
  <2>3. Seeks /\ Disconnects /\ Reconfigurations
    BY <1>1, <1>2, <2>1, MessageTypes DEF Seeks, Disconnects, Reconfigurations
  <2> QED BY <2>2, <2>3
<1>5. Answered
  BY <1>1, <1>2, <1>3 DEF Answered
<1>6. FetchersAreNumbered
  <2>1. budget["select"] \in 0 .. MaxCalls /\ ToCome = 2
    BY <1>1, EnvironmentAssumption DEF ToCome, Connecting, BoundedEvents
  <2> QED BY <1>1, <2>1, Constants DEF FetchersAreNumbered, MaxFetchers
<1>7. FetchersDiffer
  BY <1>1, MessageTypes DEF FetchersDiffer, NoFetcher
<1> QED BY <1>4, <1>5, <1>6, <1>7 DEF SessionInv

-----------------------------------------------------------------------------
(* The theorems                                                             *)

NoHaste == "seekWhileChanging" \notin Hastes /\ "selectWhileChanging" \notin Hastes
IInv == TypeInv /\ SessionInv /\ ChecksHold

LEMMA SessionStep ==
    ASSUME TypeInv, SessionInv, Session
    PROVE  TypeInv' /\ SessionInv' /\ failed' = failed
<1>1. CASE OnConnect \/ OnChangeConfiguration
  <2>1. inbox # <<>> /\ Head(inbox).what \in {"connect", "changeConfiguration"}
    BY <1>1 DEF OnConnect, OnChangeConfiguration, Handles
  <2>2. Head(inbox).what = "changeConfiguration" => ~session.reconfiguring
    <3>1. Head(inbox) \in InQueue(inbox)
      BY <2>1, TailPlaces DEF TypeInv, SessionTypes
    <3> QED BY <3>1, SentFacts DEF SessionInv, Reconfigurations
  <2>3. PICK t \in {0, -1} : ChangesConfiguration(t)
    BY <1>1, <2>2 DEF OnConnect, OnChangeConfiguration, Handles
  <2>4. UNCHANGED <<position, prepared, selected, budget, delayed>>
    BY <1>1, <2>2 DEF OnConnect, OnChangeConfiguration, Handles
  <2>5. TypeInv' /\ failed' = failed
    <3>1. TypeInv'
      BY <2>1, <2>3, <2>4, ChangeTypes
    <3> QED BY <2>3, <3>1 DEF ChangesConfiguration
  <2> QED BY <1>1, <2>5, ChangeKeeps
<1>2. CASE OnConnectFails
  BY <1>2, OtherHandlersTypes, OnConnectFailsKeeps DEF OnConnectFails
<1>3. CASE OnDisconnect
  BY <1>3, OnDisconnectTypes, OnDisconnectKeeps DEF OnDisconnect
<1>4. CASE OnSeek
  BY <1>4, OnSeekTypes, OnSeekKeeps
<1>5. CASE OnPostPrepared \/ OnTemporarilyDone
  BY <1>5, OtherHandlersTypes, SteadySteps DEF OnPostPrepared, OnTemporarilyDone
<1>6. CASE OnAcknowledged
  BY <1>6, OnAcknowledgedTypes, OnAcknowledgedKeeps
<1>7. CASE OnSeeked
  BY <1>7, OnSeekedTypes, OnSeekedKeeps
<1>8. CASE OnError
  BY <1>8, OnErrorTypes, SteadySteps DEF OnError
<1>9. CASE OnChangeConfiguration3
  BY <1>9, OnChangeConfiguration3Types, OnChangeConfiguration3Keeps
<1>10. CASE OnFinishDisconnect2
  BY <1>10, OtherHandlersTypes, OnFinishDisconnect2Keeps
<1> QED BY <1>1, <1>2, <1>3, <1>4, <1>5, <1>6, <1>7, <1>8, <1>9, <1>10 DEF Session

LEMMA NextKeeps ==
    ASSUME NoHaste, IInv, [Next]_vars
    PROVE  IInv'
<1> USE DEF IInv, ChecksHold
<1>1. CASE Client
  <2>1. failed' = failed
    BY <1>1 DEF Client, ConnectAsync, SelectTrack, SeekTo, Disconnect
  <2> QED BY <1>1, <2>1, ClientActTypes, ClientKeeps DEF NoHaste
<1>2. CASE Session
  BY <1>2, SessionStep
<1>3. CASE \E m \in delayed : DelayPasses(m)
  BY <1>3, OtherHandlersTypes, SteadySteps DEF DelayPasses
<1>4. ASSUME NEW f \in Fetchers, TakesMail(f)
      PROVE  IInv'
  <2>1. failed' = failed
    BY <1>4 DEF TakesMail, OnStart, OnPause, OnStop, OnFetcherSeek, FetcherFrame
  <2> QED BY <1>4, <2>1, TakesMailTypes, MailKeeps
<1>5. ASSUME NEW f \in Fetchers, Works(f)
      PROVE  IInv'
  <2>1. failed' = failed
    BY <1>5 DEF Works, OnMonitorQueue, OnDownloadNext, OnDownloadEnds, OnDownloadInterrupted, OnDownloadFails,
      OnDownloadSkips, FetcherFrame
  <2> QED BY <1>5, <2>1, WorksTypes, SteadySteps
<1>6. ASSUME NEW s \in Streams, Reader(s)
      PROVE  IInv'
  <2>1. failed' = failed
    BY <1>6 DEF Reader, ReadBegins, ReadDiscontinuity, ReadPacket, HearsOfEnd, EndsWithOther, ReaderFrame
  <2> QED BY <1>6, <2>1, ReaderTypes, SteadySteps
<1>7. CASE UNCHANGED vars
  <2>1. TypeInv'
    BY <1>7 DEF TypeInv, ClientTypes, SessionTypes, FetcherTypes, DataTypes, vars, clientVars, sessionVars,
      fetcherVars, sourceVars, readerVars
  <2> QED BY <1>7, <2>1, SteadySteps DEF vars
<1> QED BY <1>1, <1>2, <1>3, <1>4, <1>5, <1>6, <1>7 DEF Next

\* A player that makes no seek and selects no rendition while one is being changed, at
\* whatever moment it does so otherwise: what the session keeps is of its type.
THEOREM TypeCorrect ==
    ASSUME NoHaste
    PROVE  Spec => []TypeInv
<1>1. Init => IInv
  BY InitTypes, InitKeeps DEF IInv, ChecksHold, Init
<1>2. IInv /\ [Next]_vars => IInv'
  BY NextKeeps
<1>3. IInv => TypeInv
  BY DEF IInv
<1> QED BY <1>1, <1>2, <1>3, PTL DEF Spec

\* Then no CHECK fails: the counter of the fetchers' answers does not run out (767), a seek
\* is replied to once (679) and a fetcher is created only where there is none (2143).
THEOREM NoCheckFails ==
    ASSUME NoHaste
    PROVE  Spec => []ChecksHold
<1>1. Init => IInv
  BY InitTypes, InitKeeps DEF IInv, ChecksHold, Init
<1>2. IInv /\ [Next]_vars => IInv'
  BY NextKeeps
<1>3. IInv => ChecksHold
  BY DEF IInv
<1> QED BY <1>1, <1>2, <1>3, PTL DEF Spec

\* While it seeks, the player waits for one reply, and the session reconfigures nothing and
\* expects no answer but the fetchers' to that seek.
THEOREM SeekIsAlone ==
    ASSUME NoHaste
    PROVE  Spec => [](client = "seeking" =>
                         /\ session.continuation = None /\ ~session.reconfiguring
                         /\ session.seekReply => Pending <= session.counter)
<1>1. Init => IInv
  BY InitTypes, InitKeeps DEF IInv, ChecksHold, Init
<1>2. IInv /\ [Next]_vars => IInv'
  BY NextKeeps
<1>3. IInv => (client = "seeking" =>
                  /\ session.continuation = None /\ ~session.reconfiguring
                  /\ session.seekReply => Pending <= session.counter)
  BY DEF IInv, SessionInv, Seeks, Answered, Awaiting
<1> QED BY <1>1, <1>2, <1>3, PTL DEF Spec

=============================================================================
