------------------------ MODULE GenericSourceProofs ------------------------
(* Theorems about GenericSource, for every kind of source, every set of      *)
(* streams and every budget.                                                 *)
EXTENDS GenericSource, Integers, FiniteSetTheorems, SequenceTheorems, WellFoundedInduction, TLAPS

-----------------------------------------------------------------------------
(* Queues, whatever they hold: what is kept of one, and in what order.     *)

\* Induction up to n, with a set of numbers for the predicate.  Of two intervals
\* 1..k and 1..m the shorter is a strict subset of the other, and strict inclusion
\* of finite sets is well-founded: there is a least number that is not in the set.
LEMMA UpTo ==
    ASSUME NEW n \in Nat, NEW A, 0 \in A, \A k \in 0 .. n - 1 : k \in A => k + 1 \in A
    PROVE  n \in A
<1> DEFINE B == {k \in 0 .. n : k \notin A}
           T == {1 .. k : k \in B}
<1>1. SUFFICES ASSUME n \notin A
               PROVE  FALSE
  OBVIOUS
<1>2. T \subseteq FiniteSubsetsOf(Nat) /\ T # {}
  <2>1. \A k \in B : IsFiniteSet(1 .. k) /\ 1 .. k \subseteq Nat
    BY FS_Interval
  <2>2. n \in B
    BY <1>1
  <2> QED BY <2>1, <2>2 DEF FiniteSubsetsOf
<1>3. \E x \in T : \A y \in T : ~(<<y, x>> \in StrictSubsetOrdering(Nat))
  <2> HIDE DEF T
  <2> QED BY <1>2, FS_StrictSubsetOrderingWellFounded, WFMin
<1>4. PICK m \in B : \A y \in T : ~(<<y, 1 .. m>> \in StrictSubsetOrdering(Nat))
  BY <1>3
<1>5. m \in 1 .. n /\ m - 1 \in 0 .. n - 1 /\ (m - 1) + 1 = m /\ m - 1 \in 0 .. n
  OBVIOUS
<1>6. 1 .. m - 1 \in T
  BY <1>5
<1>7. 1 .. m - 1 \subseteq 1 .. m /\ m \in 1 .. m /\ m \notin 1 .. m - 1 /\ 1 .. m \subseteq Nat
  BY <1>5
<1>8. <<1 .. m - 1, 1 .. m>> \in StrictSubsetOrdering(Nat)
  BY <1>7 DEF StrictSubsetOrdering
<1> QED BY <1>4, <1>6, <1>8

\* Kept is what its recursion says.
Step(q, S, f, n) == IF q[n] \in S THEN Append(f[n - 1], q[n]) ELSE f[n - 1]
Keeps(q, S, f, n) == f[0] = <<>> /\ \A k \in 1 .. n : f[k] = Step(q, S, f, k)

LEMMA KeepsExists ==
    ASSUME NEW T, NEW q \in Seq(T), NEW S
    PROVE  \E f \in [0 .. Len(q) -> Seq(T)] : Keeps(q, S, f, Len(q))
<1> DEFINE A == {n \in 0 .. Len(q) : \E f \in [0 .. n -> Seq(T)] : Keeps(q, S, f, n)}
<1>1. Len(q) \in Nat /\ \A n \in 1 .. Len(q) : q[n] \in T
  OBVIOUS
<1>2. 0 \in A
  <2> DEFINE none == [n \in 0 .. 0 |-> <<>>]
  <2>1. none \in [0 .. 0 -> Seq(T)] /\ Keeps(q, S, none, 0) /\ 0 \in 0 .. Len(q)
    BY <1>1 DEF Keeps
  <2> HIDE DEF none
  <2> QED BY <2>1
<1>3. ASSUME NEW n \in 0 .. Len(q) - 1, n \in A
      PROVE  n + 1 \in A
  <2>1. PICK f \in [0 .. n -> Seq(T)] : Keeps(q, S, f, n)
    BY <1>3
  <2> DEFINE last == IF q[n + 1] \in S THEN Append(f[n], q[n + 1]) ELSE f[n]
             g == [k \in 0 .. n + 1 |-> IF k = n + 1 THEN last ELSE f[k]]
  <2>2. last \in Seq(T) /\ n + 1 \in 0 .. Len(q) /\ (n + 1) - 1 = n
    BY <1>1, f[n] \in Seq(T), q[n + 1] \in T
  <2> HIDE DEF last
  <2>3. g \in [0 .. n + 1 -> Seq(T)] /\ g[n + 1] = last /\ \A k \in 0 .. n : g[k] = f[k]
    BY <2>2
  <2> HIDE DEF g
  <2>4. ASSUME NEW k \in 1 .. n + 1
        PROVE  g[k] = Step(q, S, g, k)
    <3>1. CASE k = n + 1
      BY <2>2, <2>3, <3>1 DEF Step, last
    <3>2. CASE k \in 1 .. n
      <4>1. k \in 0 .. n /\ k - 1 \in 0 .. n
        BY <3>2
      <4>2. g[k] = f[k] /\ g[k - 1] = f[k - 1]
        BY <2>3, <4>1
      <4>3. f[k] = Step(q, S, f, k)
        BY <2>1, <3>2 DEF Keeps
      <4> QED BY <4>2, <4>3 DEF Step
    <3> QED BY <3>1, <3>2
  <2>5. Keeps(q, S, g, n + 1)
    BY <2>1, <2>3, <2>4 DEF Keeps
  <2> QED BY <2>2, <2>3, <2>5
<1>4. \A n \in 0 .. Len(q) - 1 : n \in A => n + 1 \in A
  BY <1>3
<1> HIDE DEF A
<1>5. Len(q) \in A
  BY <1>1, <1>2, <1>4, UpTo
<1> QED BY <1>5 DEF A

LEMMA KeptRecursion ==
    ASSUME NEW T, NEW q \in Seq(T), NEW S
    PROVE  \E f : Keeps(q, S, f, Len(q)) /\ Kept(q, S) = f[Len(q)]
<1> DEFINE Body(f) == [n \in 0 .. Len(q) |->
                          IF n = 0 THEN <<>>
                          ELSE IF q[n] \in S THEN Append(f[n - 1], q[n]) ELSE f[n - 1]]
           kept == CHOOSE f : f = Body(f)
<1>1. Kept(q, S) = kept[Len(q)] /\ Len(q) \in Nat
  BY DEF Kept
<1>2. PICK f \in [0 .. Len(q) -> Seq(T)] : Keeps(q, S, f, Len(q))
  BY KeepsExists
<1>3. \A n \in 0 .. Len(q) : f[n] = Body(f)[n]
  BY <1>2, \A n \in 0 .. Len(q) : n = 0 \/ n \in 1 .. Len(q) DEF Keeps, Step
<1>4. f = Body(f)
  BY <1>3
<1>5. kept = Body(kept)
  <2> HIDE DEF Body
  <2> QED BY <1>4
<1> HIDE DEF kept
<1>6. \A n \in 0 .. Len(q) : kept[n] = Body(kept)[n]
  BY <1>5
<1> QED BY <1>1, <1>6 DEF Keeps, Step

\* What is kept is of the queue and of the set.
LEMMA KeptType ==
    ASSUME NEW T, NEW q \in Seq(T), NEW S
    PROVE  Kept(q, S) \in Seq(T \cap S)
<1>1. PICK f : Keeps(q, S, f, Len(q)) /\ Kept(q, S) = f[Len(q)]
  BY KeptRecursion
<1> DEFINE A == {n \in 0 .. Len(q) : f[n] \in Seq(T \cap S)}
<1>2. Len(q) \in Nat /\ \A n \in 1 .. Len(q) : q[n] \in T
  OBVIOUS
<1>3. 0 \in A
  BY <1>1, <1>2, 0 \in 0 .. Len(q), <<>> \in Seq(T \cap S) DEF Keeps
<1>4. ASSUME NEW n \in 0 .. Len(q) - 1, n \in A
      PROVE  n + 1 \in A
  <2>1. n + 1 \in 1 .. Len(q) /\ (n + 1) - 1 = n
    BY <1>2
  <2>2. f[n + 1] = IF q[n + 1] \in S THEN Append(f[n], q[n + 1]) ELSE f[n]
    BY <1>1, <2>1 DEF Keeps, Step
  <2>3. f[n + 1] \in Seq(T \cap S)
    BY <1>2, <1>4, <2>1, <2>2
  <2> QED BY <2>1, <2>3
<1>5. \A n \in 0 .. Len(q) - 1 : n \in A => n + 1 \in A
  BY <1>4
<1> HIDE DEF A
<1>6. Len(q) \in A
  BY <1>2, <1>3, <1>5, UpTo
<1> QED BY <1>1, <1>6 DEF A

-----------------------------------------------------------------------------
(* Queues of messages.                                                      *)

Message == [what : {"prepareAsync", "start", "resume", "pollBuffering", "readBuffer",
                    "seek", "selectTrack", "changeAVSource", "stopWidevine"},
            stream : Streams]

ReadsIn(q, s) == {i \in DOMAIN q : q[i] = Read(s)}
IsOnce(q, s) == \A i, j \in ReadsIn(q, s) : i = j

\* r has reads of s when q has, and no more of them.
IsKept(q, r, s) ==
    IsOnce(q, s) => IsOnce(r, s) /\ (ReadsIn(r, s) = {} <=> ReadsIn(q, s) = {})

LEMMA AppendKeeps ==
    ASSUME NEW q \in Seq(Message), NEW m \in Message, m.what # "readBuffer", NEW s \in Streams
    PROVE  Append(q, m) \in Seq(Message) /\ IsKept(q, Append(q, m), s)
<1> DEFINE r == Append(q, m)
<1>1. r \in Seq(Message) /\ Len(r) = Len(q) + 1 /\ r[Len(q) + 1] = m
        /\ \A i \in 1..Len(q) : r[i] = q[i]
  OBVIOUS
<1>2. m # Read(s)
  BY DEF Read
<1> HIDE DEF r
<1>3. ReadsIn(r, s) = ReadsIn(q, s)
  BY <1>1, <1>2 DEF ReadsIn
<1> QED BY <1>1, <1>3 DEF IsKept, IsOnce, r

LEMMA TailKeeps ==
    ASSUME NEW q \in Seq(Message), q # <<>>, NEW s \in Streams
    PROVE  /\ Tail(q) \in Seq(Message) /\ Head(q) \in Message
           /\ Head(q).what # "readBuffer" \/ Head(q).stream # s => IsKept(q, Tail(q), s)
           /\ Head(q) = Read(s) /\ IsOnce(q, s) =>
                 ReadsIn(q, s) # {} /\ ReadsIn(Tail(q), s) = {}
<1> DEFINE r == Tail(q)
<1>1. r \in Seq(Message) /\ Len(r) = Len(q) - 1 /\ Len(q) > 0 /\ Head(q) = q[1]
        /\ \A i \in 1..Len(r) : r[i] = q[i + 1] /\ i + 1 \in 1..Len(q)
  OBVIOUS
<1>2. Head(q) \in Message
  OBVIOUS
<1> HIDE DEF r
<1>3. \A i : i \in ReadsIn(r, s) <=> i \in 1..Len(r) /\ q[i + 1] = Read(s)
  BY <1>1 DEF ReadsIn
<1>4. \A i : i \in ReadsIn(q, s) <=> i \in 1..Len(q) /\ q[i] = Read(s)
  BY DEF ReadsIn
<1>5. ASSUME Head(q) # Read(s)
      PROVE  IsKept(q, r, s)
  <2>1. \A i \in ReadsIn(q, s) : i - 1 \in ReadsIn(r, s)
    <3> SUFFICES ASSUME NEW i \in ReadsIn(q, s)
                 PROVE  i - 1 \in ReadsIn(r, s)
      OBVIOUS
    <3>1. i \in 1..Len(q) /\ q[i] = Read(s)
      BY <1>4
    <3>2. i # 1
      BY <1>1, <1>5, <3>1
    <3>3. i - 1 \in 1..Len(r) /\ (i - 1) + 1 = i
      BY <1>1, <3>1, <3>2
    <3> QED BY <1>3, <3>1, <3>3
  <2>2. \A i \in ReadsIn(r, s) : i \in Int /\ i + 1 \in ReadsIn(q, s)
    BY <1>1, <1>3, <1>4
  <2>3. IsOnce(q, s) => IsOnce(r, s)
    BY <2>2 DEF IsOnce
  <2> QED BY <2>1, <2>2, <2>3 DEF IsKept
<1>6. ASSUME Head(q) = Read(s), IsOnce(q, s)
      PROVE  ReadsIn(q, s) # {} /\ ReadsIn(r, s) = {}
  <2>1. 1 \in ReadsIn(q, s)
    BY <1>1, <1>4, <1>6
  <2>2. \A i \in ReadsIn(r, s) : i \in Nat \ {0} /\ i + 1 \in ReadsIn(q, s)
    BY <1>1, <1>3, <1>4
  <2> QED BY <1>6, <2>1, <2>2 DEF IsOnce
<1>7. Head(q).what # "readBuffer" \/ Head(q).stream # s => Head(q) # Read(s)
  BY DEF Read
<1> QED BY <1>1, <1>2, <1>5, <1>6, <1>7 DEF r

LEMMA WithoutPollKeeps ==
    ASSUME NEW q \in Seq(Message), NEW s \in Streams
    PROVE  WithoutPoll(q) \in Seq(Message) /\ IsKept(q, WithoutPoll(q), s)
<1>1. CASE PollsIn(q) = {}
  BY <1>1 DEF WithoutPoll, IsKept
<1>2. CASE PollsIn(q) # {}
  <2> DEFINE p == CHOOSE i \in PollsIn(q) : TRUE
             r == WithoutPoll(q)
  <2>1. p \in 1..Len(q) /\ q[p].what = "pollBuffering"
    BY <1>2 DEF PollsIn
  <2>2. r = [i \in 1 .. Len(q) - 1 |-> IF i < p THEN q[i] ELSE q[i + 1]]
    BY <1>2 DEF WithoutPoll
  <2> HIDE DEF p, r
  <2>3. Len(q) - 1 \in Nat
    BY <2>1
  <2>4. r \in Seq(Message) /\ DOMAIN r = 1 .. Len(q) - 1
    BY <2>1, <2>2, <2>3
  <2>5. q[p] # Read(s)
    BY <2>1 DEF Read
  <2>6. \A i \in ReadsIn(q, s) : (i < p /\ i \in ReadsIn(r, s)) \/ (i > p /\ i - 1 \in ReadsIn(r, s))
    BY <2>1, <2>2, <2>4, <2>5 DEF ReadsIn
  <2>7. \A i \in ReadsIn(r, s) :
           i \in Int /\ ((i < p /\ i \in ReadsIn(q, s)) \/ (i >= p /\ i + 1 \in ReadsIn(q, s)))
    BY <2>1, <2>2, <2>4 DEF ReadsIn
  <2>8. IsOnce(q, s) => IsOnce(r, s)
    <3> SUFFICES ASSUME IsOnce(q, s), NEW i \in ReadsIn(r, s), NEW j \in ReadsIn(r, s)
                 PROVE  i = j
      BY DEF IsOnce
    <3>1. i \in Int /\ j \in Int /\ p \in Int
      BY <2>1, <2>7
    <3> QED BY <2>7, <3>1 DEF IsOnce
  <2> QED BY <2>4, <2>6, <2>7, <2>8 DEF IsKept, r
<1> QED BY <1>1, <1>2

Asked(q, S) == q \o (IF "audio" \in S THEN <<Read("audio")>> ELSE <<>>)
                 \o (IF "video" \in S THEN <<Read("video")>> ELSE <<>>)

LEMMA AddRead ==
    ASSUME NEW q \in Seq(Message), NEW t \in Streams, NEW s \in Streams
    PROVE  LET r == q \o <<Read(t)>>
           IN  /\ r \in Seq(Message)
               /\ s # t => IsKept(q, r, s)
               /\ s = t /\ ReadsIn(q, s) = {} => IsOnce(r, s) /\ ReadsIn(r, s) # {}
<1> DEFINE r == q \o <<Read(t)>>
<1>1. Read(t) \in Message
  BY DEF Read, Message
<1>2. r \in Seq(Message) /\ Len(r) = Len(q) + 1 /\ r[Len(q) + 1] = Read(t)
        /\ \A i \in 1..Len(q) : r[i] = q[i]
  BY <1>1
<1> HIDE DEF r
<1>3. ASSUME s # t
      PROVE  IsKept(q, r, s)
  <2>1. Read(s) # Read(t)
    BY <1>3 DEF Read
  <2>2. ReadsIn(r, s) = ReadsIn(q, s)
    BY <1>2, <2>1 DEF ReadsIn
  <2> QED BY <2>2 DEF IsKept, IsOnce
<1>4. ASSUME s = t, ReadsIn(q, s) = {}
      PROVE  IsOnce(r, s) /\ ReadsIn(r, s) # {}
  <2>1. ReadsIn(r, s) = {Len(q) + 1}
    BY <1>2, <1>4 DEF ReadsIn
  <2> QED BY <2>1 DEF IsOnce
<1> QED BY <1>2, <1>3, <1>4 DEF r

LEMMA AskedKeeps ==
    ASSUME NEW q \in Seq(Message), NEW S \in SUBSET Streams, NEW s \in Streams
    PROVE  LET r == Asked(q, S)
           IN  /\ r \in Seq(Message)
               /\ s \notin S => IsKept(q, r, s)
               /\ s \in S /\ ReadsIn(q, s) = {} => IsOnce(r, s) /\ ReadsIn(r, s) # {}
<1> DEFINE a == IF "audio" \in S THEN q \o <<Read("audio")>> ELSE q
           r == IF "video" \in S THEN a \o <<Read("video")>> ELSE a
<1>1. a \in Seq(Message) /\ r \in Seq(Message)
  BY AddRead DEF Streams
<1>2. r = Asked(q, S)
  <2>1. \A p \in Seq(Message) : p \o <<>> = p
    OBVIOUS
  <2>2. a = q \o (IF "audio" \in S THEN <<Read("audio")>> ELSE <<>>)
    BY <2>1
  <2> HIDE DEF a
  <2> QED BY <1>1, <2>1, <2>2 DEF Asked
<1>3. ("audio" \notin S \/ s # "audio" => IsKept(q, a, s))
        /\ ("audio" \in S /\ s = "audio" /\ ReadsIn(q, s) = {} =>
               IsOnce(a, s) /\ ReadsIn(a, s) # {})
  BY AddRead DEF Streams, IsKept
<1>4. ("video" \notin S \/ s # "video" => IsKept(a, r, s))
        /\ ("video" \in S /\ s = "video" /\ ReadsIn(a, s) = {} =>
               IsOnce(r, s) /\ ReadsIn(r, s) # {})
  <2> HIDE DEF a
  <2> QED BY <1>1, AddRead DEF Streams, IsKept
<1>5. s = "audio" \/ s = "video"
  BY DEF Streams
<1>6. ReadsIn(q, s) = {} => IsOnce(q, s)
  BY DEF IsOnce
<1> HIDE DEF a, r
<1>7. s \notin S => IsKept(q, r, s)
  BY <1>3, <1>4, <1>5 DEF IsKept
<1>8. s \in S /\ ReadsIn(q, s) = {} => IsOnce(r, s) /\ ReadsIn(r, s) # {}
  BY <1>3, <1>4, <1>5, <1>6 DEF IsKept
<1> QED BY <1>1, <1>2, <1>7, <1>8

-----------------------------------------------------------------------------
(* The invariant.                                                           *)

WorkTypeOK ==
    work \in [what : {"none", "readBuffer", "seek", "changeAVSource"}, stream : Streams,
              left : Int, seek : BOOLEAN, format : BOOLEAN, holds : BOOLEAN]

ReadingTypeOK ==
    /\ mHas \subseteq Streams /\ kind \in SourceKinds
    /\ inbox \in Seq(Message)
    /\ delayed \subseteq {"prepareAsync", "pollBuffering"}
    /\ mPendingReadBufferTypes \subseteq Streams
    /\ WorkTypeOK

IsRead(s) == work.what = "readBuffer" /\ work.stream = s

\* A read is posted once or being handled, and then the bit is set.
IsTracked(s) ==
    /\ IsOnce(inbox, s)
    /\ s \in mPendingReadBufferTypes <=> (ReadsIn(inbox, s) # {} \/ IsRead(s))
    /\ IsRead(s) => ReadsIn(inbox, s) = {}

ReadsTracked == ReadingTypeOK /\ \A s \in Streams : IsTracked(s)

LEMMA InitTracked == Init => ReadsTracked
<1> SUFFICES ASSUME Init PROVE ReadsTracked
  OBVIOUS
<1>1. mHas \subseteq Streams /\ kind \in SourceKinds
  BY EnvironmentAssumption DEF Init
<1>2. inbox = <<>> /\ work = Idle /\ delayed = {} /\ mPendingReadBufferTypes = {}
  BY DEF Init
<1>3. WorkTypeOK /\ \A s \in Streams : ~IsRead(s)
  BY <1>2 DEF WorkTypeOK, Idle, Streams, IsRead
<1>4. \A s \in Streams : ReadsIn(inbox, s) = {}
  BY <1>2 DEF ReadsIn
<1>5. <<>> \in Seq(Message)
  OBVIOUS
<1> QED BY <1>1, <1>2, <1>3, <1>4, <1>5 DEF ReadsTracked, ReadingTypeOK, IsTracked, IsOnce

\* Steps that post and take no read.
LEMMA OthersKeep ==
    ASSUME ReadsTracked, UNCHANGED <<sessionVars, mPendingReadBufferTypes>>,
           inbox' \in Seq(Message), \A s \in Streams : IsKept(inbox, inbox', s),
           delayed' \subseteq {"prepareAsync", "pollBuffering"},
           WorkTypeOK', \A s \in Streams : IsRead(s)' <=> IsRead(s)
    PROVE  ReadsTracked'
<1>1. ReadingTypeOK'
  BY DEF ReadsTracked, ReadingTypeOK, sessionVars
<1>2. ASSUME NEW s \in Streams
      PROVE  IsTracked(s)'
  <2>1. IsTracked(s) /\ IsKept(inbox, inbox', s) /\ (IsRead(s)' <=> IsRead(s))
    BY DEF ReadsTracked
  <2> QED BY <2>1 DEF IsTracked, IsKept
<1> QED BY <1>1, <1>2 DEF ReadsTracked

LEMMA NothingKeeps ==
    ASSUME ReadsTracked, UNCHANGED <<sessionVars, mPendingReadBufferTypes, inbox, delayed, work>>
    PROVE  ReadsTracked'
<1>1. WorkTypeOK' /\ \A s \in Streams : IsRead(s)' <=> IsRead(s)
  BY DEF ReadsTracked, ReadingTypeOK, WorkTypeOK, IsRead
<1>2. \A s \in Streams : IsKept(inbox, inbox', s)
  BY DEF IsKept
<1> QED BY <1>1, <1>2, OthersKeep DEF ReadsTracked, ReadingTypeOK

\* A message that is no read is posted.
LEMMA PostKeeps ==
    ASSUME ReadsTracked, UNCHANGED <<sessionVars, mPendingReadBufferTypes, work>>,
           delayed' \subseteq {"prepareAsync", "pollBuffering"},
           NEW w \in {"prepareAsync", "start", "resume", "pollBuffering", "seek", "selectTrack",
                      "changeAVSource", "stopWidevine"},
           inbox' = Append(inbox, Msg(w))
    PROVE  ReadsTracked'
<1>1. Msg(w) \in Message /\ Msg(w).what # "readBuffer"
  BY DEF Msg, Message, Streams
<1>2. inbox' \in Seq(Message) /\ \A s \in Streams : IsKept(inbox, inbox', s)
  BY <1>1, AppendKeeps DEF ReadsTracked, ReadingTypeOK
<1>3. WorkTypeOK' /\ \A s \in Streams : IsRead(s)' <=> IsRead(s)
  BY DEF ReadsTracked, ReadingTypeOK, WorkTypeOK, IsRead
<1> QED BY <1>2, <1>3, OthersKeep

\* A message that is no read is taken.
LEMMA TakeFacts ==
    ASSUME ReadsTracked, NEW w, Take(w), w # "readBuffer"
    PROVE  /\ Tail(inbox) \in Seq(Message)
           /\ \A s \in Streams : IsKept(inbox, Tail(inbox), s)
           /\ \A s \in Streams : ~IsRead(s)
  BY TailKeeps DEF ReadsTracked, ReadingTypeOK, Take, SourceRuns, IsRead

LEMMA TakeKeeps ==
    ASSUME ReadsTracked, NEW w, Take(w), w # "readBuffer",
           UNCHANGED <<sessionVars, mPendingReadBufferTypes>>,
           delayed' \subseteq {"prepareAsync", "pollBuffering"},
           inbox' = Tail(inbox), WorkTypeOK', \A s \in Streams : ~IsRead(s)'
    PROVE  ReadsTracked'
  BY TakeFacts, OthersKeep

\* readBuffer() begins.
LEMMA ReadBufferType ==
    ASSUME ReadsTracked, NEW w \in {"readBuffer", "seek", "changeAVSource"}, NEW s \in Streams,
           NEW seek \in BOOLEAN, NEW format \in BOOLEAN, ReadBuffer(w, s, seek, format)
    PROVE  WorkTypeOK' /\ work'.what = w /\ work'.stream = s
<1>1. MaxBuffers[kind][s] \in Int
  BY SizesAssumption DEF ReadsTracked, ReadingTypeOK
<1> QED BY <1>1 DEF ReadBuffer, WorkTypeOK

\* The poll begins anew, with the messages of rest.
LEMMA RestartKeeps ==
    ASSUME NEW prepares, NEW notes, NEW rest \in Seq(Message), ReadsTracked,
           RestartPollBuffering(prepares, notes, rest)
    PROVE  /\ inbox' \in Seq(Message)
           /\ delayed' \subseteq {"prepareAsync", "pollBuffering"}
           /\ \A s \in Streams : IsKept(rest, inbox', s)
<1>1. delayed \subseteq {"prepareAsync", "pollBuffering"}
  BY DEF ReadsTracked, ReadingTypeOK
<1>2. CASE mIsStreaming
  <2>1. OnPollBuffering(prepares, FALSE, notes) /\ inbox' = WithoutPoll(rest)
    BY <1>2 DEF RestartPollBuffering
  <2>2. inbox' \in Seq(Message) /\ \A s \in Streams : IsKept(rest, inbox', s)
    BY <2>1, WithoutPollKeeps DEF Streams
  <2>3. delayed' = delayed \ {"pollBuffering"} \/ delayed' = delayed \cup {"pollBuffering"}
    BY <2>1 DEF OnPollBuffering
  <2> QED BY <1>1, <2>2, <2>3
<1>3. CASE ~mIsStreaming
  BY <1>1, <1>3 DEF RestartPollBuffering, IsKept
<1> QED BY <1>2, <1>3

\* Reads are posted for the streams of S that have none.
LEMMA AskKeeps ==
    ASSUME ReadsTracked, UNCHANGED <<sessionVars, delayed, work>>, NEW S \in SUBSET Streams,
           S \cap mPendingReadBufferTypes = {},
           mPendingReadBufferTypes' = mPendingReadBufferTypes \cup S,
           inbox' \in Seq(Message),
           \A s \in Streams : IsKept(Asked(inbox, S), inbox', s)
    PROVE  ReadsTracked'
<1>1. ReadingTypeOK'
  BY DEF ReadsTracked, ReadingTypeOK, WorkTypeOK, sessionVars
<1>2. ASSUME NEW s \in Streams
      PROVE  IsTracked(s)'
  <2>1. IsTracked(s) /\ inbox \in Seq(Message) /\ (IsRead(s)' <=> IsRead(s))
    BY DEF ReadsTracked, ReadingTypeOK, IsRead
  <2>2. IsKept(Asked(inbox, S), inbox', s)
    OBVIOUS
  <2>3. CASE s \in S
    <3>1. s \notin mPendingReadBufferTypes /\ s \in mPendingReadBufferTypes'
      BY <2>3
    <3>2. ReadsIn(inbox, s) = {} /\ ~IsRead(s)
      BY <2>1, <3>1 DEF IsTracked
    <3>3. IsOnce(Asked(inbox, S), s) /\ ReadsIn(Asked(inbox, S), s) # {}
      BY <2>1, <2>3, <3>2, AskedKeeps
    <3> QED BY <2>1, <2>2, <3>1, <3>2, <3>3 DEF IsTracked, IsKept
  <2>4. CASE s \notin S
    <3>1. s \in mPendingReadBufferTypes' <=> s \in mPendingReadBufferTypes
      BY <2>4
    <3>2. IsKept(inbox, Asked(inbox, S), s)
      BY <2>1, <2>4, AskedKeeps
    <3> QED BY <2>1, <2>2, <3>1, <3>2 DEF IsTracked, IsKept
  <2> QED BY <2>3, <2>4
<1> QED BY <1>1, <1>2 DEF ReadsTracked

LEMMA PostReadBufferKeeps ==
    ASSUME ReadsTracked, UNCHANGED <<sessionVars, delayed, work>>, NEW S \in SUBSET Streams,
           PostReadBuffer(S)
    PROVE  ReadsTracked'
<1> DEFINE new == S \ mPendingReadBufferTypes
<1>1. mPendingReadBufferTypes' = mPendingReadBufferTypes \cup new /\ inbox' = Asked(inbox, new)
  BY DEF PostReadBuffer, Asked
<1>2. new \in SUBSET Streams /\ new \cap mPendingReadBufferTypes = {}
  OBVIOUS
<1> HIDE DEF new
<1>3. inbox' \in Seq(Message)
  BY <1>1, <1>2, AskedKeeps DEF ReadsTracked, ReadingTypeOK, Streams
<1>4. \A s \in Streams : IsKept(Asked(inbox, new), inbox', s)
  BY <1>1 DEF IsKept
<1> QED BY <1>1, <1>2, <1>3, <1>4, AskKeeps

-----------------------------------------------------------------------------
(* The steps.                                                               *)

LEMMA CacheKeeps ==
    ASSUME ReadsTracked, CacheFills \/ CacheEnds \/ CacheDrains
    PROVE  ReadsTracked'
  BY NothingKeeps DEF CacheFills, CacheEnds, CacheDrains, sourceVars

LEMMA LooperKeeps ==
    ASSUME ReadsTracked,
           PrefillCache \/ PrepareFails \/ PollBuffering \/ OnSeek \/ OnChangeAVSource
             \/ StopWidevine
    PROVE  ReadsTracked'
<1>1. delayed \subseteq {"prepareAsync", "pollBuffering"} /\ WorkTypeOK
  BY DEF ReadsTracked, ReadingTypeOK
<1>2. ASSUME UNCHANGED work
      PROVE  WorkTypeOK' /\ \A s \in Streams : IsRead(s)' <=> IsRead(s)
  BY <1>1, <1>2 DEF WorkTypeOK, IsRead
<1>3. CASE PrefillCache
  BY <1>1, <1>2, <1>3, TakeFacts, TakeKeeps DEF PrefillCache, sourceVars
<1>4. CASE PrepareFails
  BY <1>1, <1>2, <1>4, TakeFacts, TakeKeeps DEF PrepareFails, sourceVars
<1>5. CASE PollBuffering
  <2>1. delayed' \subseteq {"prepareAsync", "pollBuffering"}
    BY <1>1, <1>5 DEF PollBuffering, OnPollBuffering
  <2> QED BY <1>2, <1>5, <2>1, TakeFacts, TakeKeeps DEF PollBuffering, sourceVars
<1>6. CASE OnSeek
  <2>1. CASE mStopRead
    BY <1>1, <1>2, <1>6, <2>1, TakeFacts, TakeKeeps DEF OnSeek
  <2>2. CASE ~mStopRead
    <3>1. PICK s \in Streams : ReadBuffer("seek", s, TRUE, FALSE)
      BY <1>6, <2>2 DEF OnSeek, Streams
    <3>2. WorkTypeOK' /\ \A t \in Streams : ~IsRead(t)'
      BY <3>1, ReadBufferType DEF IsRead
    <3> QED BY <1>1, <1>6, <3>2, TakeKeeps DEF OnSeek
  <2> QED BY <2>1, <2>2
<1>7. CASE OnChangeAVSource
  <2>1. WorkTypeOK' /\ \A t \in Streams : ~IsRead(t)'
    BY <1>7, ReadBufferType DEF OnChangeAVSource, IsRead, Streams
  <2> QED BY <1>1, <1>7, <2>1, TakeKeeps DEF OnChangeAVSource
<1>8. CASE StopWidevine
  BY <1>1, <1>2, <1>8, TakeFacts, TakeKeeps DEF StopWidevine
<1> QED BY <1>3, <1>4, <1>5, <1>6, <1>7, <1>8

LEMMA SelectTrackKeeps ==
    ASSUME ReadsTracked, OnSelectTrack
    PROVE  ReadsTracked'
<1> DEFINE m == Msg("changeAVSource")
<1>1. m \in Message /\ m.what # "readBuffer"
  BY DEF Msg, Message, Streams
<1>2. Tail(inbox) \in Seq(Message) /\ (\A s \in Streams : IsKept(inbox, Tail(inbox), s))
  BY TakeFacts DEF OnSelectTrack
<1>3. inbox' = Append(Tail(inbox), m)
  BY DEF OnSelectTrack
<1> HIDE DEF m
<1>4. inbox' \in Seq(Message) /\ \A s \in Streams : IsKept(inbox, inbox', s)
  BY <1>1, <1>2, <1>3, AppendKeeps DEF IsKept, Streams
<1>5. UNCHANGED <<sessionVars, mPendingReadBufferTypes, delayed, work>>
  BY DEF OnSelectTrack, sourceVars
<1>6. WorkTypeOK' /\ \A s \in Streams : IsRead(s)' <=> IsRead(s)
  BY <1>5 DEF ReadsTracked, ReadingTypeOK, WorkTypeOK, IsRead
<1>7. delayed' \subseteq {"prepareAsync", "pollBuffering"}
  BY <1>5 DEF ReadsTracked, ReadingTypeOK
<1> QED BY <1>4, <1>5, <1>6, <1>7, OthersKeep

LEMMA PollKeeps ==
    ASSUME ReadsTracked, Prepare \/ RestartsPoll \/ SeekReturns
    PROVE  ReadsTracked'
<1>1. inbox \in Seq(Message) /\ WorkTypeOK
  BY DEF ReadsTracked, ReadingTypeOK
<1>2. CASE Prepare \/ RestartsPoll
  <2>1. PICK w \in {"prepareAsync", "start", "resume"} : Take(w)
    BY <1>2 DEF Prepare, RestartsPoll
  <2>2. Tail(inbox) \in Seq(Message) /\ (\A s \in Streams : IsKept(inbox, Tail(inbox), s))
    BY <2>1, TakeFacts
  <2>3. PICK prepares, notes : RestartPollBuffering(prepares, notes, Tail(inbox))
    BY <1>2 DEF Prepare, RestartsPoll
  <2>4. inbox' \in Seq(Message) /\ delayed' \subseteq {"prepareAsync", "pollBuffering"}
          /\ \A s \in Streams : IsKept(Tail(inbox), inbox', s)
    BY <2>2, <2>3, RestartKeeps
  <2>5. \A s \in Streams : IsKept(inbox, inbox', s)
    BY <2>2, <2>4 DEF IsKept
  <2>6. UNCHANGED <<sessionVars, mPendingReadBufferTypes, work>>
    BY <1>2 DEF Prepare, RestartsPoll, sourceVars
  <2>7. WorkTypeOK' /\ \A s \in Streams : IsRead(s)' <=> IsRead(s)
    BY <1>1, <2>6 DEF WorkTypeOK, IsRead
  <2> QED BY <2>4, <2>5, <2>6, <2>7, OthersKeep
<1>3. CASE SeekReturns
  <2>1. PICK notes : RestartPollBuffering(FALSE, notes, inbox)
    BY <1>3 DEF SeekReturns
  <2>2. inbox' \in Seq(Message) /\ delayed' \subseteq {"prepareAsync", "pollBuffering"}
          /\ \A s \in Streams : IsKept(inbox, inbox', s)
    BY <1>1, <2>1, RestartKeeps
  <2>3. UNCHANGED <<sessionVars, mPendingReadBufferTypes>> /\ work.what = "seek" /\ work' = Idle
    BY <1>3 DEF SeekReturns, Returns
  <2>4. WorkTypeOK' /\ \A s \in Streams : IsRead(s)' <=> IsRead(s)
    BY <2>3 DEF WorkTypeOK, IsRead, Idle, Streams
  <2> QED BY <2>2, <2>3, <2>4, OthersKeep
<1> QED BY <1>2, <1>3

\* The message becomes the read in hand; then the bit is cleared.
LEMMA OnReadBufferKeeps ==
    ASSUME ReadsTracked, OnReadBuffer
    PROVE  ReadsTracked'
<1> DEFINE t == Head(inbox).stream
<1>1. inbox \in Seq(Message) /\ inbox # <<>> /\ work.what = "none"
        /\ Head(inbox).what = "readBuffer" /\ Head(inbox) \in Message
  BY TailKeeps DEF OnReadBuffer, Take, SourceRuns, ReadsTracked, ReadingTypeOK, Streams
<1>2. t \in Streams /\ Head(inbox) = Read(t)
  BY <1>1 DEF Message, Read
<1>3. WorkTypeOK' /\ work'.what = "readBuffer" /\ work'.stream = t
  BY <1>2, ReadBufferType DEF OnReadBuffer
<1>4. inbox' = Tail(inbox) /\ UNCHANGED <<sessionVars, mPendingReadBufferTypes, delayed>>
  BY DEF OnReadBuffer
<1> HIDE DEF t
<1>5. ReadingTypeOK'
  BY <1>1, <1>2, <1>3, <1>4, TailKeeps DEF ReadsTracked, ReadingTypeOK, sessionVars
<1>6. ASSUME NEW s \in Streams
      PROVE  IsTracked(s)'
  <2>1. IsTracked(s) /\ ~IsRead(s) /\ (IsRead(s)' <=> s = t)
    BY <1>1, <1>3 DEF ReadsTracked, IsRead
  <2>2. CASE s = t
    <3>1. ReadsIn(inbox, s) # {} /\ ReadsIn(inbox', s) = {}
      BY <1>1, <1>2, <1>4, <2>1, <2>2, TailKeeps DEF IsTracked
    <3> QED BY <1>4, <2>1, <2>2, <3>1 DEF IsTracked, IsOnce
  <2>3. CASE s # t
    <3>1. Head(inbox).stream # s
      BY <2>3 DEF t
    <3>2. IsKept(inbox, inbox', s)
      BY <1>1, <1>4, <3>1, TailKeeps
    <3> QED BY <1>4, <2>1, <2>3, <3>2 DEF IsTracked, IsKept
  <2> QED BY <2>2, <2>3
<1> QED BY <1>5, <1>6 DEF ReadsTracked

LEMMA ReadBufferReturnsKeeps ==
    ASSUME ReadsTracked, ReadBufferReturns
    PROVE  ReadsTracked'
<1>1. work.what = "readBuffer" /\ work' = Idle /\ UNCHANGED <<sessionVars, inbox, delayed>>
        /\ mPendingReadBufferTypes' = mPendingReadBufferTypes \ {work.stream}
  BY DEF ReadBufferReturns, Returns
<1>2. WorkTypeOK'
  BY <1>1 DEF WorkTypeOK, Idle, Streams
<1>3. ReadingTypeOK'
  BY <1>1, <1>2 DEF ReadsTracked, ReadingTypeOK, sessionVars
<1>4. ASSUME NEW s \in Streams
      PROVE  IsTracked(s)'
  <2>1. IsTracked(s) /\ ~IsRead(s)' /\ (IsRead(s) <=> s = work.stream)
    BY <1>1 DEF ReadsTracked, IsRead, Idle
  <2>2. s \in mPendingReadBufferTypes' <=> s \in mPendingReadBufferTypes /\ s # work.stream
    BY <1>1
  <2> QED BY <1>1, <2>1, <2>2 DEF IsTracked
<1> QED BY <1>3, <1>4 DEF ReadsTracked

LEMMA WorkKeeps ==
    ASSUME ReadsTracked,
           Reads \/ SeeksAudio \/ ReadsCounterpart \/ ChangeReturns
    PROVE  ReadsTracked'
<1>1. inbox \in Seq(Message) /\ WorkTypeOK
        /\ delayed \subseteq {"prepareAsync", "pollBuffering"}
  BY DEF ReadsTracked, ReadingTypeOK
<1>2. UNCHANGED <<sessionVars, mPendingReadBufferTypes, inbox, delayed>>
  BY DEF Reads, ReadsFirstUnit, QueuesUnit, ReadsEnd, ReadWouldBlock, ReadFrame, SeeksAudio, ReadsCounterpart,
    ChangeReturns
<1>3. WorkTypeOK' /\ \A s \in Streams : IsRead(s)' <=> IsRead(s)
  <2>1. CASE Reads
    <3>1. \/ work' = [work EXCEPT !.holds = TRUE]
          \/ work' = [work EXCEPT !.left = @ - 1, !.seek = FALSE, !.format = FALSE, !.holds = FALSE]
          \/ work' = [work EXCEPT !.left = 0]
      BY <2>1 DEF Reads, ReadsFirstUnit, QueuesUnit, ReadsEnd, ReadWouldBlock
    <3>2. WorkTypeOK' /\ work'.what = work.what /\ work'.stream = work.stream
      <4>1. work.left \in Int /\ work.left - 1 \in Int
        BY <1>1 DEF WorkTypeOK
      <4>2. CASE work' = [work EXCEPT !.holds = TRUE]
        BY <1>1, <4>2 DEF WorkTypeOK
      <4>3. CASE work' = [work EXCEPT !.left = @ - 1, !.seek = FALSE, !.format = FALSE,
                                      !.holds = FALSE]
        <5>1. work' = [work EXCEPT !.left = work.left - 1, !.seek = FALSE, !.format = FALSE,
                                   !.holds = FALSE]
          BY <1>1, <4>3 DEF WorkTypeOK
        <5> QED BY <1>1, <4>1, <5>1 DEF WorkTypeOK
      <4>4. CASE work' = [work EXCEPT !.left = 0]
        BY <1>1, <4>4 DEF WorkTypeOK
      <4> QED BY <3>1, <4>2, <4>3, <4>4
    <3> QED BY <3>2 DEF IsRead
  <2>2. CASE SeeksAudio \/ ReadsCounterpart
    <3>1. \E w \in {"seek", "changeAVSource"}, s \in Streams, seek, format \in BOOLEAN :
             work.what = w /\ ReadBuffer(w, s, seek, format)
      BY <2>2 DEF SeeksAudio, ReadsCounterpart, Returns, Streams
    <3> QED BY <3>1, ReadBufferType DEF IsRead
  <2>3. CASE ChangeReturns
    BY <2>3 DEF ChangeReturns, Returns, WorkTypeOK, Idle, IsRead, Streams
  <2> QED BY <2>1, <2>2, <2>3
<1>4. \A s \in Streams : IsKept(inbox, inbox', s)
  BY <1>2 DEF IsKept
<1> QED BY <1>1, <1>2, <1>3, <1>4, OthersKeep

LEMMA DecoderKeeps ==
    ASSUME ReadsTracked, NEW s \in Streams, DecoderNext(s)
    PROVE  ReadsTracked'
<1>1. UNCHANGED <<sessionVars, delayed, work>>
  BY DEF DecoderNext, Asks, Dequeues, AsksForMore, DecoderFrame
<1>2. CASE Asks(s)
  <2>1. PICK S \in {{}, {s}} : PostReadBuffer(S)
    BY <1>2 DEF Asks
  <2> QED BY <1>1, <2>1, PostReadBufferKeeps
<1>3. CASE Dequeues(s)
  BY <1>1, <1>3, NothingKeeps DEF Dequeues
<1>4. CASE AsksForMore(s)
  <2>1. PICK S \in {{}, {s}} : PostReadBuffer(S)
    BY <1>4 DEF AsksForMore
  <2> QED BY <1>1, <2>1, PostReadBufferKeeps
<1> QED BY <1>2, <1>3, <1>4 DEF DecoderNext

LEMMA StartKeeps ==
    ASSUME ReadsTracked, OnStart
    PROVE  ReadsTracked'
<1> DEFINE new == mHas \ mPendingReadBufferTypes
           q == Asked(inbox, new)
<1>1. mPendingReadBufferTypes' = mPendingReadBufferTypes \cup new /\ inbox' = q \o <<Msg("start")>>
        /\ UNCHANGED <<sessionVars, delayed, work>>
  BY DEF OnStart, Asked
<1>2. new \in SUBSET Streams /\ new \cap mPendingReadBufferTypes = {} /\ inbox \in Seq(Message)
  BY DEF ReadsTracked, ReadingTypeOK
<1> HIDE DEF new
<1>3. q \in Seq(Message)
  BY <1>2, AskedKeeps DEF Streams
<1>4. Msg("start") \in Message /\ Msg("start").what # "readBuffer"
  BY DEF Msg, Message, Streams
<1> HIDE DEF q
<1>5. inbox' = Append(q, Msg("start"))
  BY <1>1, <1>3, <1>4
<1>6. inbox' \in Seq(Message) /\ \A s \in Streams : IsKept(q, inbox', s)
  BY <1>3, <1>4, <1>5, AppendKeeps DEF Streams
<1> QED BY <1>1, <1>2, <1>6, AskKeeps DEF q

LEMMA PlayerKeeps ==
    ASSUME ReadsTracked, PlayerNext \/ ClientNext \/ DelayPasses
    PROVE  ReadsTracked'
<1>1. delayed \subseteq {"prepareAsync", "pollBuffering"}
  BY DEF ReadsTracked, ReadingTypeOK
<1>2. CASE OnPrepared \/ ClientPauses \/ Reset
  BY <1>2, NothingKeeps DEF OnPrepared, ClientPauses, Reset, sourceVars
<1>3. CASE OnStart
  BY <1>3, StartKeeps
<1>4. CASE PrepareAsync
  BY <1>1, <1>4, PostKeeps DEF PrepareAsync, sourceVars
<1>5. CASE OnBufferingNotify
  BY <1>1, <1>5, PostKeeps, NothingKeeps DEF OnBufferingNotify, sourceVars
<1>6. CASE ClientResumes
  BY <1>1, <1>6, PostKeeps DEF ClientResumes, sourceVars
<1>7. CASE SeekTo
  BY <1>1, <1>7, PostKeeps DEF SeekTo, sourceVars
<1>8. CASE SelectTrack
  BY <1>1, <1>8, PostKeeps DEF SelectTrack, sourceVars
<1>9. CASE StopForVideo
  BY <1>1, <1>9, PostKeeps DEF StopForVideo, sourceVars
<1>10. CASE DelayPasses
  <2>1. PICK w \in delayed : delayed' = delayed \ {w} /\ inbox' = Append(inbox, Msg(w))
    BY <1>10 DEF DelayPasses
  <2> QED BY <1>1, <1>10, <2>1, PostKeeps DEF DelayPasses, sourceVars
<1> QED BY <1>2, <1>3, <1>4, <1>5, <1>6, <1>7, <1>8, <1>9, <1>10 DEF PlayerNext, ClientNext

LEMMA NextTracked == ReadsTracked /\ [Next]_vars => ReadsTracked'
<1> SUFFICES ASSUME ReadsTracked, [Next]_vars
             PROVE  ReadsTracked'
  OBVIOUS
<1>1. CASE CacheFills \/ CacheEnds \/ CacheDrains
  BY <1>1, CacheKeeps
<1>2. CASE SourceNext
  BY <1>2, LooperKeeps, SelectTrackKeeps, PollKeeps, OnReadBufferKeeps, ReadBufferReturnsKeeps, WorkKeeps DEF
    SourceNext
<1>3. CASE \E s \in Streams : DecoderNext(s)
  BY <1>3, DecoderKeeps
<1>4. CASE PlayerNext \/ ClientNext \/ DelayPasses
  BY <1>4, PlayerKeeps
<1>5. CASE UNCHANGED vars
  BY <1>5, NothingKeeps DEF vars, sourceVars
<1> QED BY <1>1, <1>2, <1>3, <1>4, <1>5 DEF Next

\* One read at most is posted or being handled for a stream, and one is exactly
\* when its bit is set, whatever the player, the decoders and the looper do, for
\* any number of seeks, selections, pauses and failures.
THEOREM PendingRead == Spec => []PendingReadIsPosted
<1>1. ReadsTracked => PendingReadIsPosted
  <2> SUFFICES ASSUME ReadsTracked, NEW s \in Streams
               PROVE  Posted(s) = IF s \in mPendingReadBufferTypes THEN 1 ELSE 0
    BY DEF PendingReadIsPosted
  <2>1. IsTracked(s)
    BY DEF ReadsTracked
  <2>2. Posted(s) = Cardinality(ReadsIn(inbox, s)) + IF IsRead(s) THEN 1 ELSE 0
    BY DEF Posted, ReadsIn, IsRead
  <2>3. CASE ReadsIn(inbox, s) = {}
    <3>1. Cardinality(ReadsIn(inbox, s)) = 0
      BY <2>3, FS_EmptySet
    <3> QED BY <2>1, <2>2, <2>3, <3>1 DEF IsTracked
  <2>4. CASE ReadsIn(inbox, s) # {}
    <3>1. PICK i : i \in ReadsIn(inbox, s)
      BY <2>4
    <3>2. ReadsIn(inbox, s) = {i}
      BY <2>1, <3>1 DEF IsTracked, IsOnce
    <3>3. Cardinality(ReadsIn(inbox, s)) = 1
      BY <3>2, FS_Singleton
    <3> QED BY <2>1, <2>2, <2>4, <3>3 DEF IsTracked
  <2> QED BY <2>3, <2>4
<1> QED BY <1>1, InitTracked, NextTracked, PTL DEF Spec

-----------------------------------------------------------------------------
(* Types.                                                                   *)

\* A unit that has been read.
Taken == [pos : 0 .. MaxPositions, version : Nat, time : 0 .. NumUnits]

PlayerTypes ==
    /\ state \in {"new", "preparing", "prepared", "started", "failed", "gone"}
    /\ call \in {"none", "seek", "selectTrack", "stop"}
    /\ position \in 0 .. MaxPositions
    /\ mPaused \in BOOLEAN /\ mPausedByClient \in BOOLEAN /\ noVideo \in BOOLEAN
    /\ mStopRead \in BOOLEAN
    /\ budget \in [BoundedEvents -> Nat]
PollTypes ==
    /\ cache \in {"low", "middle", "high", "ended"}
    /\ mPrepareBuffering \in BOOLEAN /\ mBuffering \in BOOLEAN
    /\ mail \in Seq({"prepared", "failed", "pauseOnBufferingStart", "resumeOnBufferingEnd"})
DataTypes ==
    /\ track \in [Streams -> Unit]
    /\ mBuffers \in [Streams -> Seq(Taken \cup {FormatChange})]
    /\ mEOSResult \in [Streams -> BOOLEAN]
    /\ mLastDequeueTime \in [Streams -> 0 .. NumUnits]
    /\ reader \in [Streams -> {"idle", "available", "gotUnit", "gotOther"}]
    /\ unit \in [Streams -> Taken]
    /\ ended \subseteq Streams
\* What has been read and is about to be queued is a unit.
WorkBounds ==
    /\ work.left >= 0
    /\ work.holds => work.left > 0 /\ track[work.stream].time <= NumUnits

TypeInv == PlayerTypes /\ PollTypes /\ DataTypes /\ WorkBounds

LEMMA SizeFacts == NumUnits \in Nat /\ NumUnits > 0 /\ MaxPositions \in Nat
  BY SizesAssumption, EnvironmentAssumption

LEMMA InitTypes == Init => TypeInv
<1> SUFFICES ASSUME Init PROVE TypeInv
  OBVIOUS
<1> USE SizeFacts
<1>1. PlayerTypes
  <2>1. PICK d \in Sessions : budget = d.budget
    BY DEF Init
  <2>2. d.budget \in [BoundedEvents -> 0 .. MaxPositions]
    BY EnvironmentAssumption
  <2>3. budget \in [BoundedEvents -> Nat]
    BY <2>1, <2>2
  <2>4. state = "new" /\ call = "none" /\ position = 0
    BY DEF Init
  <2>5. mPaused = FALSE /\ mPausedByClient = FALSE /\ noVideo = FALSE /\ mStopRead = TRUE
    BY DEF Init
  <2>6. mPaused \in BOOLEAN /\ mPausedByClient \in BOOLEAN /\ noVideo \in BOOLEAN
          /\ mStopRead \in BOOLEAN
    BY <2>5
  <2>7. state \in {"new", "preparing", "prepared", "started", "failed", "gone"}
          /\ call \in {"none", "seek", "selectTrack", "stop"} /\ position \in 0 .. MaxPositions
    BY <2>4
  <2> QED BY <2>3, <2>6, <2>7, Zenon DEF PlayerTypes
<1>2. PollTypes
  <2>1. mail = <<>> /\ cache = "low"
    BY DEF Init
  <2>2. mPrepareBuffering = FALSE /\ mBuffering = FALSE
    BY DEF Init
  <2>3. \A T : <<>> \in Seq(T)
    OBVIOUS
  <2> QED BY <2>1, <2>2, <2>3 DEF PollTypes
<1>3. DataTypes
  <2>1. Start \in Unit /\ [Start EXCEPT !.time = 0] \in Taken
    BY DEF Start, Unit, Taken
  <2>2. <<>> \in Seq(Taken \cup {FormatChange})
    OBVIOUS
  <2> QED BY <2>1, <2>2 DEF Init, DataTypes
<1>4. WorkBounds
  BY DEF Init, WorkBounds, Idle
<1> QED BY <1>1, <1>2, <1>3, <1>4 DEF TypeInv

\* The next unit elsewhere, or of another version.
LEMMA UnitFields ==
    ASSUME NEW A, NEW B, NEW C, NEW u \in [pos : A, version : B, time : C],
           NEW p \in A, NEW v \in B, NEW t \in C
    PROVE  /\ [u EXCEPT !.pos = p, !.time = t] \in [pos : A, version : B, time : C]
           /\ [u EXCEPT !.version = v, !.time = t] \in [pos : A, version : B, time : C]
           /\ [u EXCEPT !.version = v] \in [pos : A, version : B, time : C]
           /\ [u EXCEPT !.time = t] \in [pos : A, version : B, time : C]
  OBVIOUS

\* Steps that leave the units alone.
LEMMA SameData ==
    ASSUME TypeInv, UNCHANGED <<track, mBuffers, mEOSResult, mLastDequeueTime, readerVars>>
    PROVE  DataTypes'
  BY DEF TypeInv, DataTypes, readerVars

LEMMA SameWork ==
    ASSUME TypeInv, UNCHANGED <<work, track>>
    PROVE  WorkBounds'
  BY DEF TypeInv, WorkBounds

LEMMA SamePoll ==
    ASSUME TypeInv, UNCHANGED <<cache, pollVars, mail>>
    PROVE  PollTypes'
  BY DEF TypeInv, PollTypes, pollVars

LEMMA SamePlayer ==
    ASSUME TypeInv, UNCHANGED <<playerVars, budget, mStopRead>>
    PROVE  PlayerTypes'
  BY DEF TypeInv, PlayerTypes, playerVars

LEMMA SpendTypes ==
    ASSUME budget \in [BoundedEvents -> Nat], NEW e \in BoundedEvents, Spend(e)
    PROVE  budget' \in [BoundedEvents -> Nat]
<1>1. budget[e] \in Nat /\ budget[e] > 0 /\ budget' = [budget EXCEPT ![e] = budget[e] - 1]
  BY DEF Spend
<1>2. budget[e] - 1 \in Nat
  BY <1>1
<1> HIDE DEF BoundedEvents
<1> QED BY <1>1, <1>2

\* What a poll tells the player.
LEMMA OnPollTypes ==
    ASSUME TypeInv, NEW prepares \in BOOLEAN, NEW buffers \in BOOLEAN,
           NEW notes \in Seq({"prepared", "failed", "pauseOnBufferingStart", "resumeOnBufferingEnd"}),
           OnPollBuffering(prepares, buffers, notes)
    PROVE  /\ mPrepareBuffering' \in BOOLEAN /\ mBuffering' \in BOOLEAN
           /\ mail' \in Seq({"prepared", "failed", "pauseOnBufferingStart",
                             "resumeOnBufferingEnd"})
<1> DEFINE Notes == {"prepared", "failed", "pauseOnBufferingStart", "resumeOnBufferingEnd"}
<1>1. mail \in Seq(Notes)
  BY DEF TypeInv, PollTypes
<1>2. PICK note \in {<<>>, <<"prepared">>, <<"resumeOnBufferingEnd">>, <<"pauseOnBufferingStart">>} :
         mail' = (mail \o notes) \o note
  BY DEF OnPollBuffering
<1>3. note \in Seq(Notes)
  <2>1. \A n \in Notes : <<n>> \in Seq(Notes)
    OBVIOUS
  <2>2. <<>> \in Seq(Notes)
    OBVIOUS
  <2> QED BY <1>2, <2>1, <2>2
<1> HIDE DEF Notes
<1>4. mail' \in Seq(Notes)
  <2>1. notes \in Seq(Notes)
    BY DEF Notes
  <2>2. mail \o notes \in Seq(Notes)
    BY <1>1, <2>1
  <2> QED BY <1>2, <1>3, <2>2
<1>5. mPrepareBuffering' \in BOOLEAN /\ mBuffering' \in BOOLEAN
  BY Zenon DEF OnPollBuffering
<1> QED BY <1>4, <1>5 DEF Notes

LEMMA RestartTypes ==
    ASSUME TypeInv, NEW prepares \in BOOLEAN, NEW rest,
           NEW notes \in Seq({"prepared", "failed", "pauseOnBufferingStart", "resumeOnBufferingEnd"}),
           RestartPollBuffering(prepares, notes, rest)
    PROVE  /\ mPrepareBuffering' \in BOOLEAN /\ mBuffering' \in BOOLEAN
           /\ mail' \in Seq({"prepared", "failed", "pauseOnBufferingStart",
                             "resumeOnBufferingEnd"})
<1>1. CASE mIsStreaming
  BY <1>1, OnPollTypes DEF RestartPollBuffering
<1>2. CASE ~mIsStreaming
  <2>1. mPrepareBuffering' = prepares /\ mail' = mail \o notes /\ mBuffering' = mBuffering
    BY <1>2 DEF RestartPollBuffering
  <2> QED BY <2>1 DEF TypeInv, PollTypes
<1> QED BY <1>1, <1>2

\* readBuffer() begins with nothing held.
LEMMA ReadBufferBounds ==
    ASSUME ReadsTracked, NEW w, NEW s \in Streams, NEW seek, NEW format,
           ReadBuffer(w, s, seek, format)
    PROVE  WorkBounds'
<1>1. MaxBuffers[kind][s] \in Nat
  BY SizesAssumption DEF ReadsTracked, ReadingTypeOK
<1>2. work'.left \in Nat /\ work'.holds = FALSE
  BY <1>1 DEF ReadBuffer
<1> QED BY <1>2 DEF WorkBounds

LEMMA IdleBounds ==
    ASSUME work' = Idle
    PROVE  WorkBounds'
  BY DEF WorkBounds, Idle

LEMMA CacheTypes ==
    ASSUME ReadsTracked, TypeInv, CacheFills \/ CacheEnds \/ CacheDrains
    PROVE  TypeInv'
<1>1. UNCHANGED <<track, mBuffers, mEOSResult, mLastDequeueTime, readerVars, work, pollVars, mail,
                  playerVars, mStopRead>>
  BY DEF CacheFills, CacheEnds, CacheDrains, sourceVars, packetVars
<1>2. DataTypes' /\ WorkBounds'
  BY <1>1, SameData, SameWork
<1>3. cache' \in {"low", "middle", "high", "ended"}
  BY DEF CacheFills, CacheEnds, CacheDrains
<1>4. PollTypes'
  BY <1>1, <1>3 DEF TypeInv, PollTypes, pollVars
<1>5. budget' \in [BoundedEvents -> Nat]
  <2>1. budget \in [BoundedEvents -> Nat] /\ "drain" \in BoundedEvents
    BY DEF TypeInv, PlayerTypes, BoundedEvents
  <2>2. budget' = budget \/ Spend("drain")
    BY DEF CacheFills, CacheEnds, CacheDrains
  <2> QED BY <2>1, <2>2, SpendTypes
<1>6. PlayerTypes'
  BY <1>1, <1>5 DEF TypeInv, PlayerTypes, playerVars
<1> QED BY <1>2, <1>4, <1>6 DEF TypeInv

LEMMA PollingTypes ==
    ASSUME ReadsTracked, TypeInv,
           PrefillCache \/ PrepareFails \/ Prepare \/ PollBuffering \/ RestartsPoll \/ DelayPasses
    PROVE  TypeInv'
<1>1. UNCHANGED <<track, mBuffers, mEOSResult, mLastDequeueTime, readerVars, work, cache,
                  playerVars, mStopRead, budget>>
  BY DEF PrefillCache, PrepareFails, Prepare, PollBuffering, RestartsPoll, DelayPasses, sourceVars, packetVars
<1>2. DataTypes' /\ WorkBounds' /\ PlayerTypes'
  BY <1>1, SameData, SameWork, SamePlayer
<1>3. /\ mPrepareBuffering \in BOOLEAN /\ mBuffering \in BOOLEAN
      /\ mail \in Seq({"prepared", "failed", "pauseOnBufferingStart", "resumeOnBufferingEnd"})
      /\ cache \in {"low", "middle", "high", "ended"}
  BY DEF TypeInv, PollTypes
<1>4. \A T : <<>> \in Seq(T)
  OBVIOUS
<1>5. /\ mPrepareBuffering' \in BOOLEAN /\ mBuffering' \in BOOLEAN
      /\ mail' \in Seq({"prepared", "failed", "pauseOnBufferingStart", "resumeOnBufferingEnd"})
  <2>1. CASE PrefillCache \/ DelayPasses
    BY <1>3, <2>1 DEF PrefillCache, DelayPasses, pollVars
  <2>2. CASE PrepareFails
    <3>1. mail' = Append(mail, "failed") /\ UNCHANGED pollVars
      BY <2>2 DEF PrepareFails
    <3> QED BY <1>3, <3>1 DEF pollVars
  <2>3. CASE Prepare
    <3>1. RestartPollBuffering(TRUE, <<>>, Tail(inbox))
            \/ RestartPollBuffering(FALSE, <<"prepared">>, Tail(inbox))
      BY <2>3 DEF Prepare
    <3>2. <<"prepared">> \in Seq({"prepared", "failed", "pauseOnBufferingStart",
                                  "resumeOnBufferingEnd"})
      OBVIOUS
    <3> QED BY <1>4, <3>1, <3>2, RestartTypes
  <2>4. CASE PollBuffering
    BY <1>3, <1>4, <2>4, OnPollTypes DEF PollBuffering
  <2>5. CASE RestartsPoll
    BY <1>3, <1>4, <2>5, RestartTypes DEF RestartsPoll
  <2> QED BY <2>1, <2>2, <2>3, <2>4, <2>5
<1>6. PollTypes'
  BY <1>1, <1>3, <1>5 DEF PollTypes
<1> QED BY <1>2, <1>6 DEF TypeInv

\* The looper's handlers that begin or end a read, or end a call.
LEMMA LooperTypes ==
    ASSUME ReadsTracked, TypeInv,
           OnReadBuffer \/ OnSelectTrack \/ ReadBufferReturns \/ ReadsCounterpart \/ ChangeReturns
    PROVE  TypeInv'
<1>1. UNCHANGED <<track, mBuffers, mEOSResult, mLastDequeueTime, readerVars, cache, pollVars, mail,
                  mStopRead, budget>>
  BY DEF OnReadBuffer, OnSelectTrack, ReadBufferReturns, ReadsCounterpart, ChangeReturns, sourceVars,
    packetVars
<1>2. DataTypes' /\ PollTypes'
  BY <1>1, SameData, SamePoll
<1>3. UNCHANGED <<state, position, mPaused, mPausedByClient, noVideo>>
        /\ (call' = call \/ call' = "none")
  BY DEF OnReadBuffer, OnSelectTrack, ReadBufferReturns, ReadsCounterpart, ChangeReturns, playerVars
<1>4. PlayerTypes'
  BY <1>1, <1>3 DEF TypeInv, PlayerTypes
<1>5. WorkBounds'
  <2>1. CASE OnReadBuffer
    <3>1. Head(inbox) \in Message
      BY <2>1, TailKeeps DEF OnReadBuffer, Take, ReadsTracked, ReadingTypeOK, Streams
    <3>2. Head(inbox).stream \in Streams
      BY <3>1 DEF Message
    <3> QED BY <2>1, <3>2, ReadBufferBounds DEF OnReadBuffer
  <2>2. CASE OnSelectTrack
    BY <1>1, <2>2, SameWork DEF OnSelectTrack, sourceVars
  <2>3. CASE ReadsCounterpart
    BY <2>3, ReadBufferBounds DEF ReadsCounterpart, Streams
  <2>4. CASE ReadBufferReturns \/ ChangeReturns
    BY <2>4, IdleBounds DEF ReadBufferReturns, ChangeReturns
  <2> QED BY <2>1, <2>2, <2>3, <2>4
<1> QED BY <1>2, <1>4, <1>5 DEF TypeInv

LEMMA SeekTypes ==
    ASSUME ReadsTracked, TypeInv, OnSeek \/ SeeksAudio \/ SeekReturns
    PROVE  TypeInv'
<1>1. UNCHANGED <<mBuffers, mEOSResult, readerVars, cache, mStopRead, budget>>
  BY DEF OnSeek, SeeksAudio, SeekReturns, sourceVars, packetVars
<1>2. UNCHANGED <<state, position, mPaused, mPausedByClient, noVideo>>
        /\ (call' = call \/ call' = "none")
  BY DEF OnSeek, SeeksAudio, SeekReturns, playerVars
<1>3. PlayerTypes'
  BY <1>1, <1>2 DEF TypeInv, PlayerTypes
<1>4. WorkBounds'
  <2>1. CASE OnSeek
    BY <2>1, ReadBufferBounds, SameWork DEF OnSeek, Streams
  <2>2. CASE SeeksAudio
    BY <2>2, ReadBufferBounds DEF SeeksAudio, Streams
  <2>3. CASE SeekReturns
    BY <2>3, IdleBounds DEF SeekReturns
  <2> QED BY <2>1, <2>2, <2>3
<1>5. PollTypes'
  <2>1. CASE OnSeek \/ SeeksAudio
    BY <2>1, SamePoll DEF OnSeek, SeeksAudio
  <2>2. CASE SeekReturns
    <3>1. PICK notes \in {<<>>, <<"resumeOnBufferingEnd">>} :
             RestartPollBuffering(FALSE, notes, inbox)
      BY <2>2 DEF SeekReturns
    <3>2. notes \in Seq({"prepared", "failed", "pauseOnBufferingStart", "resumeOnBufferingEnd"})
      <4>1. <<>> \in Seq({"prepared", "failed", "pauseOnBufferingStart", "resumeOnBufferingEnd"})
        OBVIOUS
      <4>2. <<"resumeOnBufferingEnd">> \in Seq({"prepared", "failed", "pauseOnBufferingStart",
                                                 "resumeOnBufferingEnd"})
        OBVIOUS
      <4> QED BY <4>1, <4>2
    <3> QED BY <1>1, <3>1, <3>2, RestartTypes DEF PollTypes, TypeInv
  <2> QED BY <2>1, <2>2
<1>6. DataTypes'
  <2>1. track \in [Streams -> Unit] /\ mLastDequeueTime \in [Streams -> 0 .. NumUnits]
          /\ position \in 0 .. MaxPositions
    BY DEF TypeInv, DataTypes, PlayerTypes
  <2>2. track' \in [Streams -> Unit]
    <3>1. CASE track' = [s \in Streams |-> [track[s] EXCEPT !.pos = position, !.time = 1]]
      <4>1. ASSUME NEW s \in Streams
            PROVE  [track[s] EXCEPT !.pos = position, !.time = 1] \in Unit
        <5>1. 1 \in 0 .. NumUnits + 1 /\ track[s] \in Unit
          BY <2>1, SizeFacts
        <5> QED BY <2>1, <5>1, UnitFields DEF Unit
      <4> QED BY <3>1, <4>1
    <3>2. CASE track' = track
      BY <2>1, <3>2
    <3> QED BY <3>1, <3>2 DEF OnSeek, SeeksAudio, SeekReturns
  <2>3. mLastDequeueTime' \in [Streams -> 0 .. NumUnits]
    <3>1. \E s : mLastDequeueTime' = [mLastDequeueTime EXCEPT ![s] = 1]
                 \/ mLastDequeueTime' = mLastDequeueTime
      BY DEF OnSeek, SeeksAudio, SeekReturns
    <3>2. 1 \in 0 .. NumUnits
      BY SizeFacts
    <3> QED BY <2>1, <3>1, <3>2
  <2> QED BY <1>1, <2>2, <2>3 DEF TypeInv, DataTypes, readerVars
<1> QED BY <1>3, <1>4, <1>5, <1>6 DEF TypeInv

LEMMA ChangeTypes ==
    ASSUME ReadsTracked, TypeInv, OnChangeAVSource
    PROVE  TypeInv'
<1>1. UNCHANGED <<mBuffers, mEOSResult, mLastDequeueTime, readerVars, cache, mStopRead, budget,
                  playerVars, pollVars, mail>>
  BY DEF OnChangeAVSource, packetVars
<1>2. PlayerTypes' /\ PollTypes'
  BY <1>1, SamePlayer, SamePoll
<1>3. WorkBounds'
  BY ReadBufferBounds DEF OnChangeAVSource, Streams
<1>4. track' \in [Streams -> Unit]
  <2> DEFINE time == IF mLastDequeueTime["audio"] = 0 THEN 1 ELSE mLastDequeueTime["audio"]
             new == [track["audio"] EXCEPT !.version = track["audio"].version + 1, !.time = time]
  <2>1. track \in [Streams -> Unit] /\ mLastDequeueTime["audio"] \in 0 .. NumUnits
          /\ track["audio"] \in Unit /\ track["audio"].version \in Nat
    BY DEF TypeInv, DataTypes, Streams, Unit
  <2>2. time \in 0 .. NumUnits + 1
    BY <2>1, SizeFacts
  <2>3. track' = [track EXCEPT !["audio"] = new]
    BY <2>1 DEF OnChangeAVSource, Unit, Streams
  <2> HIDE DEF time
  <2>4. new \in Unit
    <3>1. track["audio"].version + 1 \in Nat
      BY <2>1
    <3> QED BY <2>1, <2>2, <3>1, UnitFields DEF Unit
  <2> HIDE DEF new
  <2> QED BY <2>1, <2>3, <2>4
<1>5. DataTypes'
  BY <1>1, <1>4 DEF TypeInv, DataTypes, readerVars
<1> QED BY <1>2, <1>3, <1>5 DEF TypeInv

LEMMA StopTypes ==
    ASSUME ReadsTracked, TypeInv, StopWidevine
    PROVE  TypeInv'
<1>1. UNCHANGED <<track, mLastDequeueTime, work, readerVars, cache, budget, pollVars, mail, state,
                  position, mPaused, mPausedByClient, noVideo>>
        /\ call' = "none" /\ mStopRead' = TRUE
        /\ mBuffers' = [mBuffers EXCEPT !["video"] = <<>>]
        /\ mEOSResult' = [mEOSResult EXCEPT !["video"] = FALSE]
  BY DEF StopWidevine
<1>2. WorkBounds' /\ PollTypes'
  BY <1>1, SameWork, SamePoll
<1>3. PlayerTypes'
  BY <1>1 DEF TypeInv, PlayerTypes
<1>4. <<>> \in Seq(Taken \cup {FormatChange})
  OBVIOUS
<1>5. DataTypes'
  BY <1>1, <1>4 DEF TypeInv, DataTypes, readerVars
<1> QED BY <1>2, <1>3, <1>5 DEF TypeInv

LEMMA ReadTypes ==
    ASSUME ReadsTracked, TypeInv, Reads
    PROVE  TypeInv'
<1> DEFINE t == work.stream
           Queue == Seq(Taken \cup {FormatChange})
<1>1. UNCHANGED <<mLastDequeueTime, readerVars, cache, pollVars, mail, playerVars, mStopRead>>
  BY DEF Reads, ReadsFirstUnit, QueuesUnit, ReadsEnd, ReadWouldBlock, ReadFrame
<1>2. /\ t \in Streams /\ work.left \in Int /\ WorkTypeOK
      /\ track \in [Streams -> Unit] /\ track[t] \in Unit
      /\ mBuffers \in [Streams -> Queue] /\ mBuffers[t] \in Queue
      /\ mEOSResult \in [Streams -> BOOLEAN] /\ WorkBounds
  BY DEF ReadsTracked, ReadingTypeOK, WorkTypeOK, TypeInv, DataTypes
<1>3. PollTypes'
  BY <1>1, SamePoll
<1>4. PlayerTypes'
  <2>1. budget \in [BoundedEvents -> Nat] /\ "readError" \in BoundedEvents
    BY DEF TypeInv, PlayerTypes, BoundedEvents
  <2>2. budget' = budget \/ Spend("readError")
    BY DEF Reads, ReadsFirstUnit, QueuesUnit, ReadsEnd, ReadWouldBlock
  <2>3. budget' \in [BoundedEvents -> Nat]
    BY <2>1, <2>2, SpendTypes
  <2> QED BY <1>1, <2>3 DEF TypeInv, PlayerTypes, playerVars
<1>5. CASE ReadsFirstUnit
  <2>1. PICK end \in {<<>>, <<FormatChange>>} :
           mBuffers' = [mBuffers EXCEPT ![t] = Kept(mBuffers[t], {FormatChange}) \o end]
    BY <1>2, <1>5 DEF ReadsFirstUnit
  <2>2. Kept(mBuffers[t], {FormatChange}) \in Queue
    <3>1. Kept(mBuffers[t], {FormatChange})
             \in Seq((Taken \cup {FormatChange}) \cap {FormatChange})
      BY <1>2, KeptType
    <3> QED BY <3>1
  <2>3. end \in Queue
    <3>1. <<>> \in Queue /\ <<FormatChange>> \in Queue
      OBVIOUS
    <3> QED BY <2>1, <3>1
  <2>4. mBuffers' \in [Streams -> Queue]
    <3>1. Kept(mBuffers[t], {FormatChange}) \o end \in Queue
      BY <2>2, <2>3
    <3> HIDE DEF Queue, t
    <3> QED BY <1>2, <2>1, <3>1
  <2>5. track' \in [Streams -> Unit] /\ track'[t].time = track[t].time
    <3> DEFINE new == [track[t] EXCEPT !.version = track[t].version + 1]
    <3>1. track' = track \/ track' = [track EXCEPT ![t] = new]
      BY <1>2, <1>5 DEF ReadsFirstUnit
    <3>2. track[t].version + 1 \in Nat
      BY <1>2 DEF Unit
    <3>3. new \in Unit /\ new.time = track[t].time
      BY <1>2, <3>2, UnitFields DEF Unit
    <3> HIDE DEF new, t
    <3> QED BY <1>2, <3>1, <3>3
  <2>6. mEOSResult' \in [Streams -> BOOLEAN]
    BY <1>2, <1>5 DEF ReadsFirstUnit
  <2>7. WorkBounds'
    <3>1. work.left > 0 /\ track[t].time <= NumUnits /\ work' = [work EXCEPT !.holds = TRUE]
      BY <1>5 DEF ReadsFirstUnit, Reading
    <3>2. work'.left = work.left /\ work'.stream = t
      BY <1>2, <3>1 DEF WorkTypeOK
    <3> QED BY <1>2, <2>5, <3>1, <3>2 DEF WorkBounds
  <2>8. DataTypes'
    BY <1>1, <2>4, <2>5, <2>6 DEF TypeInv, DataTypes, readerVars
  <2> QED BY <1>3, <1>4, <2>7, <2>8 DEF TypeInv
<1>6. CASE QueuesUnit
  <2>1. work.left > 0 /\ track[t].time <= NumUnits
    BY <1>2, <1>6 DEF QueuesUnit, Reading, WorkBounds
  <2>2. track[t] \in Taken
    BY <1>2, <2>1 DEF Unit, Taken
  <2>3. mBuffers' \in [Streams -> Queue]
    BY <1>2, <1>6, <2>2 DEF QueuesUnit
  <2>4. track' \in [Streams -> Unit]
    <3> DEFINE new == [track[t] EXCEPT !.time = track[t].time + 1]
    <3>1. track' = [track EXCEPT ![t] = new]
      BY <1>2, <1>6 DEF QueuesUnit
    <3>2. track[t].time + 1 \in 0 .. NumUnits + 1
      BY <1>2, <2>1, SizeFacts DEF Unit
    <3>3. new \in Unit
      BY <1>2, <3>2, UnitFields DEF Unit
    <3> HIDE DEF new, t
    <3> QED BY <1>2, <3>1, <3>3
  <2>5. WorkBounds'
    <3>1. work' = [work EXCEPT !.left = work.left - 1, !.seek = FALSE, !.format = FALSE,
                               !.holds = FALSE]
      BY <1>2, <1>6 DEF QueuesUnit, WorkTypeOK
    <3>2. work'.left = work.left - 1 /\ work'.holds = FALSE
      BY <1>2, <3>1 DEF WorkTypeOK
    <3> QED BY <1>2, <2>1, <3>2 DEF WorkBounds
  <2>6. DataTypes'
    BY <1>1, <1>6, <2>3, <2>4 DEF QueuesUnit, TypeInv, DataTypes, readerVars
  <2> QED BY <1>3, <1>4, <2>5, <2>6 DEF TypeInv
<1>7. CASE ReadsEnd \/ ReadWouldBlock
  <2>1. work' = [work EXCEPT !.left = 0] /\ UNCHANGED <<mBuffers, track>> /\ work.holds = FALSE
    <3>1. work' = [work EXCEPT !.left = 0] /\ UNCHANGED <<mBuffers, track>> /\ ~work.holds
      BY <1>7 DEF ReadsEnd, ReadWouldBlock, Reading, packetVars
    <3>2. work.holds \in BOOLEAN
      BY <1>2 DEF WorkTypeOK
    <3> QED BY <3>1, <3>2
  <2>2. work'.left = 0 /\ work'.holds = FALSE
    BY <1>2, <2>1 DEF WorkTypeOK
  <2>3. WorkBounds'
    BY <2>2 DEF WorkBounds
  <2>4. mEOSResult' \in [Streams -> BOOLEAN]
    BY <1>2, <1>7 DEF ReadsEnd, ReadWouldBlock, packetVars
  <2>5. DataTypes'
    BY <1>1, <2>1, <2>4 DEF TypeInv, DataTypes, readerVars
  <2> QED BY <1>3, <1>4, <2>3, <2>5 DEF TypeInv
<1> QED BY <1>5, <1>6, <1>7 DEF Reads

LEMMA DecoderTypes ==
    ASSUME ReadsTracked, TypeInv, NEW s \in Streams, DecoderNext(s)
    PROVE  TypeInv'
<1>1. UNCHANGED <<cache, budget, playerVars, mail, pollVars, mStopRead, track, work, mEOSResult>>
  BY DEF DecoderNext, Asks, Dequeues, AsksForMore, DecoderFrame
<1>2. PlayerTypes' /\ PollTypes' /\ WorkBounds'
  BY <1>1, SamePlayer, SamePoll, SameWork
<1>3. /\ mBuffers \in [Streams -> Seq(Taken \cup {FormatChange})]
      /\ mBuffers[s] \in Seq(Taken \cup {FormatChange})
      /\ reader \in [Streams -> {"idle", "available", "gotUnit", "gotOther"}]
      /\ unit \in [Streams -> Taken] /\ unit[s] \in Taken /\ ended \subseteq Streams
      /\ mLastDequeueTime \in [Streams -> 0 .. NumUnits]
  BY DEF TypeInv, DataTypes
<1>4. CASE Asks(s)
  <2>1. UNCHANGED <<mBuffers, mLastDequeueTime, unit>>
    BY <1>4 DEF Asks
  <2>2. reader' \in [Streams -> {"idle", "available", "gotUnit", "gotOther"}]
          /\ ended' \subseteq Streams
    BY <1>3, <1>4 DEF Asks
  <2> QED BY <1>1, <1>2, <2>1, <2>2 DEF TypeInv, DataTypes
<1>5. CASE AsksForMore(s)
  <2>1. UNCHANGED <<mBuffers, ended, unit>>
    BY <1>5 DEF AsksForMore
  <2>2. reader' \in [Streams -> {"idle", "available", "gotUnit", "gotOther"}]
    BY <1>3, <1>5 DEF AsksForMore
  <2>3. unit[s].time \in 0 .. NumUnits
    BY <1>3 DEF Taken
  <2>4. mLastDequeueTime' \in [Streams -> 0 .. NumUnits]
    BY <1>3, <1>5, <2>3 DEF AsksForMore
  <2> QED BY <1>1, <1>2, <2>1, <2>2, <2>4 DEF TypeInv, DataTypes
<1>6. CASE Dequeues(s)
  <2>1. UNCHANGED mLastDequeueTime
    BY <1>6 DEF Dequeues
  <2>2. CASE mBuffers[s] = <<>>
    <3>1. reader' \in [Streams -> {"idle", "available", "gotUnit", "gotOther"}]
            /\ ended' \subseteq Streams /\ UNCHANGED <<mBuffers, unit>>
      BY <1>3, <1>6, <2>2 DEF Dequeues
    <3> QED BY <1>1, <1>2, <2>1, <3>1 DEF TypeInv, DataTypes
  <2>3. CASE mBuffers[s] # <<>>
    <3> DEFINE b == Head(mBuffers[s])
               q == Tail(mBuffers[s])
    <3>1. b \in Taken \cup {FormatChange} /\ q \in Seq(Taken \cup {FormatChange})
      BY <1>3, <2>3
    <3>2. mBuffers' = [mBuffers EXCEPT ![s] = q] /\ ended' = ended \ {s}
      BY <1>6, <2>3 DEF Dequeues
    <3>3. \/ b = FormatChange /\ reader' = [reader EXCEPT ![s] = "gotOther"] /\ UNCHANGED unit
          \/ /\ b # FormatChange /\ reader' = [reader EXCEPT ![s] = "gotUnit"]
             /\ unit' = [unit EXCEPT ![s] = b]
      BY <1>6, <2>3 DEF Dequeues
    <3> HIDE DEF b, q
    <3>4. mBuffers' \in [Streams -> Seq(Taken \cup {FormatChange})] /\ ended' \subseteq Streams
      BY <1>3, <3>1, <3>2
    <3>5. reader' \in [Streams -> {"idle", "available", "gotUnit", "gotOther"}]
            /\ unit' \in [Streams -> Taken]
      BY <1>3, <3>1, <3>3
    <3> QED BY <1>1, <1>2, <2>1, <3>4, <3>5 DEF TypeInv, DataTypes
  <2> QED BY <2>2, <2>3
<1> QED BY <1>4, <1>5, <1>6 DEF DecoderNext

LEMMA PlayerNextTypes ==
    ASSUME ReadsTracked, TypeInv, PlayerNext \/ ClientNext
    PROVE  TypeInv'
<1> DEFINE Notes == {"prepared", "failed", "pauseOnBufferingStart", "resumeOnBufferingEnd"}
<1>1. UNCHANGED <<cache, pollVars, track, mBuffers, mEOSResult, mLastDequeueTime, work,
                  reader, unit>>
  BY DEF PlayerNext, ClientNext, PrepareAsync, OnPrepared, OnBufferingNotify, OnStart, ClientPauses,
    ClientResumes, SeekTo, SelectTrack, StopForVideo, Reset, sourceVars, packetVars, readerVars
<1>2. ended' \in {ended, {}} /\ mail' \in {mail, Tail(mail)} /\ (mail' # mail => mail # <<>>)
  BY DEF PlayerNext, ClientNext, PrepareAsync, OnPrepared, OnBufferingNotify, OnStart, ClientPauses,
    ClientResumes, SeekTo, SelectTrack, StopForVideo, Reset, readerVars
<1>3. DataTypes' /\ WorkBounds'
  BY <1>1, <1>2, SameWork DEF TypeInv, DataTypes
<1>4. PollTypes'
  <2>1. mail' \in Seq(Notes)
    <3>1. mail \in Seq(Notes)
      BY DEF TypeInv, PollTypes
    <3> HIDE DEF Notes
    <3> QED BY <1>2, <3>1
  <2> QED BY <1>1, <2>1 DEF TypeInv, PollTypes, pollVars
<1>5. PlayerTypes'
  <2>1. /\ budget \in [BoundedEvents -> Nat]
        /\ {"pause", "seek", "select", "videoFails"} \subseteq BoundedEvents
        /\ position \in 0 .. MaxPositions
        /\ mPaused \in BOOLEAN /\ mPausedByClient \in BOOLEAN
    BY DEF TypeInv, PlayerTypes, BoundedEvents
  <2>2. budget' \in [BoundedEvents -> Nat]
    <3>1. budget' = budget \/ \E e \in {"pause", "seek", "select", "videoFails"} : Spend(e)
      BY DEF PlayerNext, ClientNext, PrepareAsync, OnPrepared, OnBufferingNotify, OnStart, ClientPauses,
        ClientResumes, SeekTo, SelectTrack, StopForVideo, Reset
    <3> QED BY <2>1, <3>1, SpendTypes
  <2>3. position' \in 0 .. MaxPositions
    <3>1. position' = position \/ (position < MaxPositions /\ position' = position + 1)
      BY DEF PlayerNext, ClientNext, PrepareAsync, OnPrepared, OnBufferingNotify, OnStart, ClientPauses,
        ClientResumes, SeekTo, SelectTrack, StopForVideo, Reset
    <3> QED BY <2>1, <3>1, SizeFacts
  <2>4. state' \in {"new", "preparing", "prepared", "started", "failed", "gone"}
          /\ call' \in {"none", "seek", "selectTrack", "stop"}
    <3>1. state \in {"new", "preparing", "prepared", "started", "failed", "gone"}
            /\ call \in {"none", "seek", "selectTrack", "stop"}
      BY DEF TypeInv, PlayerTypes
    <3> QED
      BY <3>1 DEF PlayerNext, ClientNext, PrepareAsync, OnPrepared, OnBufferingNotify, OnStart, ClientPauses,
        ClientResumes, SeekTo, SelectTrack, StopForVideo, Reset
  <2>5. mPausedByClient' \in BOOLEAN
    <3>1. mPausedByClient' = mPausedByClient \/ mPausedByClient' = TRUE
            \/ mPausedByClient' = FALSE
      BY DEF PlayerNext, ClientNext, PrepareAsync, OnPrepared, OnBufferingNotify, OnStart, ClientPauses,
        ClientResumes, SeekTo, SelectTrack, StopForVideo, Reset
    <3> QED BY <2>1, <3>1
  <2>6. mPaused' \in BOOLEAN
    <3>1. \/ mPaused' = mPaused \/ mPaused' = TRUE \/ mPaused' = FALSE
          \/ mPaused' = (Head(mail) = "pauseOnBufferingStart")
      BY DEF PlayerNext, ClientNext, PrepareAsync, OnPrepared, OnBufferingNotify, OnStart, ClientPauses,
        ClientResumes, SeekTo, SelectTrack, StopForVideo, Reset
    <3> QED BY <2>1, <3>1, Zenon
  <2>7. noVideo' \in BOOLEAN /\ mStopRead' \in BOOLEAN
    <3>1. (noVideo' = noVideo \/ noVideo' = TRUE) /\ (mStopRead' = mStopRead \/ mStopRead' = FALSE)
      BY DEF PlayerNext, ClientNext, PrepareAsync, OnPrepared, OnBufferingNotify, OnStart, ClientPauses,
        ClientResumes, SeekTo, SelectTrack, StopForVideo, Reset, sourceVars
    <3> QED BY <3>1 DEF TypeInv, PlayerTypes
  <2> QED BY <2>2, <2>3, <2>4, <2>5, <2>6, <2>7, Zenon DEF PlayerTypes
<1> QED BY <1>3, <1>4, <1>5 DEF TypeInv

LEMMA NextTypes == ReadsTracked /\ TypeInv /\ [Next]_vars => TypeInv'
<1> SUFFICES ASSUME ReadsTracked, TypeInv, [Next]_vars
             PROVE  TypeInv'
  OBVIOUS
<1>1. CASE CacheFills \/ CacheEnds \/ CacheDrains
  BY <1>1, CacheTypes
<1>2. CASE SourceNext
  BY <1>2, PollingTypes, LooperTypes, SeekTypes, ChangeTypes, StopTypes, ReadTypes DEF SourceNext
<1>3. CASE DelayPasses
  BY <1>3, PollingTypes
<1>4. CASE \E s \in Streams : DecoderNext(s)
  BY <1>4, DecoderTypes
<1>5. CASE PlayerNext \/ ClientNext
  BY <1>5, PlayerNextTypes
<1>6. CASE UNCHANGED vars
  BY <1>6, SameData, SameWork, SamePoll, SamePlayer DEF vars, sourceVars, packetVars, pollVars, playerVars,
    readerVars, TypeInv
<1> QED BY <1>1, <1>2, <1>3, <1>4, <1>5, <1>6 DEF Next

\* Every variable keeps its type: a unit that has been queued is one of its track, and
\* a read never takes more than it may.
THEOREM TypeCorrect == Spec => []TypeOK
<1>1. ReadsTracked /\ TypeInv => TypeOK
  <2> SUFFICES ASSUME ReadsTracked, TypeInv PROVE TypeOK
    OBVIOUS
  <2>1. mBuffers \in [Streams -> Seq(Unit \cup {FormatChange})]
    <3>1. Taken \subseteq Unit
      BY SizeFacts DEF Taken, Unit
    <3>2. Taken \cup {FormatChange} \subseteq Unit \cup {FormatChange}
      BY <3>1
    <3>3. \A q \in Seq(Taken \cup {FormatChange}) : q \in Seq(Unit \cup {FormatChange})
      BY <3>2
    <3> QED BY <3>3 DEF TypeInv, DataTypes
  <2>2. unit \in [Streams -> Unit]
    BY SizeFacts DEF TypeInv, DataTypes, Taken, Unit
  <2>3. work \in [what : {"none", "readBuffer", "seek", "changeAVSource"}, stream : Streams,
                  left : Nat, seek : BOOLEAN, format : BOOLEAN, holds : BOOLEAN]
    BY DEF ReadsTracked, ReadingTypeOK, WorkTypeOK, TypeInv, WorkBounds
  <2>4. {mPaused, mPausedByClient, noVideo, mPrepareBuffering, mBuffering, mStopRead}
           \subseteq BOOLEAN
    BY DEF TypeInv, PlayerTypes, PollTypes
  <2> QED BY <2>1, <2>2, <2>3, <2>4
       DEF TypeOK, ReadsTracked, ReadingTypeOK, TypeInv, PlayerTypes, PollTypes, DataTypes, Message
<1> QED BY <1>1, InitTracked, NextTracked, InitTypes, NextTypes, PTL DEF Spec

-----------------------------------------------------------------------------
(* Calls and preparations: what is in the queues.                           *)

Watched == {"prepareAsync", "seek", "selectTrack", "stopWidevine"}
Sent == Watched \cup {"changeAVSource"}

InKind(q, w) == {i \in DOMAIN q : q[i].what = w}
OnceIn(q, w) == \A i, j \in InKind(q, w) : i = j
KindKept(q, r, w) ==
    OnceIn(q, w) => OnceIn(r, w) /\ (InKind(r, w) = {} <=> InKind(q, w) = {})
KindGone(q, r, w) == OnceIn(q, w) => InKind(q, w) # {} /\ InKind(r, w) = {}
KindCome(q, r, w) == InKind(q, w) = {} => OnceIn(r, w) /\ InKind(r, w) # {}

LEMMA KindAppend ==
    ASSUME NEW q \in Seq(Message), NEW m \in Message, NEW w
    PROVE  /\ Append(q, m) \in Seq(Message)
           /\ m.what # w => KindKept(q, Append(q, m), w)
           /\ m.what = w => KindCome(q, Append(q, m), w)
<1> DEFINE r == Append(q, m)
<1>1. r \in Seq(Message) /\ Len(r) = Len(q) + 1 /\ r[Len(q) + 1] = m
        /\ \A i \in 1..Len(q) : r[i] = q[i]
  OBVIOUS
<1>2. Len(q) \in Nat /\ DOMAIN q = 1..Len(q) /\ DOMAIN r = 1..Len(q) + 1
  BY <1>1
<1> HIDE DEF r
<1>3. ASSUME m.what # w
      PROVE  KindKept(q, r, w)
  <2>1. InKind(r, w) = InKind(q, w)
    BY <1>1, <1>2, <1>3 DEF InKind
  <2> QED BY <2>1 DEF KindKept, OnceIn
<1>4. ASSUME m.what = w, InKind(q, w) = {}
      PROVE  OnceIn(r, w) /\ InKind(r, w) # {}
  <2>1. InKind(r, w) = {Len(q) + 1}
    BY <1>1, <1>2, <1>4 DEF InKind
  <2> QED BY <2>1 DEF OnceIn
<1> QED BY <1>1, <1>3, <1>4 DEF KindCome, r

LEMMA KindTail ==
    ASSUME NEW q \in Seq(Message), q # <<>>, NEW w
    PROVE  /\ Tail(q) \in Seq(Message)
           /\ Head(q).what # w => KindKept(q, Tail(q), w)
           /\ Head(q).what = w => KindGone(q, Tail(q), w)
<1> DEFINE r == Tail(q)
<1>1. r \in Seq(Message) /\ Len(r) = Len(q) - 1 /\ Len(q) > 0 /\ Head(q) = q[1]
        /\ \A i \in 1..Len(r) : r[i] = q[i + 1] /\ i + 1 \in 1..Len(q)
  OBVIOUS
<1>2. Len(q) \in Nat /\ DOMAIN q = 1..Len(q) /\ DOMAIN r = 1..Len(r)
  BY <1>1
<1> HIDE DEF r
<1>3. \A i : i \in InKind(r, w) <=> i \in 1..Len(r) /\ q[i + 1].what = w
  BY <1>1, <1>2 DEF InKind
<1>4. \A i : i \in InKind(q, w) <=> i \in 1..Len(q) /\ q[i].what = w
  BY <1>2 DEF InKind
<1>5. \A i \in InKind(r, w) : i \in Nat \ {0} /\ i + 1 \in InKind(q, w)
  BY <1>1, <1>3, <1>4
<1>6. ASSUME Head(q).what # w
      PROVE  KindKept(q, r, w)
  <2>1. \A i \in InKind(q, w) : i - 1 \in InKind(r, w)
    <3> SUFFICES ASSUME NEW i \in InKind(q, w)
                 PROVE  i - 1 \in InKind(r, w)
      OBVIOUS
    <3>1. i \in 1..Len(q) /\ q[i].what = w /\ i # 1
      BY <1>1, <1>4, <1>6
    <3>2. i - 1 \in 1..Len(r) /\ (i - 1) + 1 = i
      BY <1>1, <1>2, <3>1
    <3> QED BY <1>3, <3>1, <3>2
  <2>2. OnceIn(q, w) => OnceIn(r, w)
    BY <1>5 DEF OnceIn
  <2> QED BY <1>5, <2>1, <2>2 DEF KindKept
<1>7. ASSUME Head(q).what = w
      PROVE  KindGone(q, r, w)
  <2>1. 1 \in InKind(q, w)
    BY <1>1, <1>2, <1>4, <1>7
  <2> QED BY <1>5, <2>1 DEF KindGone, OnceIn
<1> QED BY <1>1, <1>6, <1>7 DEF r

LEMMA KindWithoutPoll ==
    ASSUME NEW q \in Seq(Message), NEW w, w # "pollBuffering"
    PROVE  KindKept(q, WithoutPoll(q), w)
<1>1. CASE PollsIn(q) = {}
  BY <1>1 DEF WithoutPoll, KindKept
<1>2. CASE PollsIn(q) # {}
  <2> DEFINE p == CHOOSE i \in PollsIn(q) : TRUE
             r == WithoutPoll(q)
  <2>1. p \in 1..Len(q) /\ q[p].what = "pollBuffering"
    BY <1>2 DEF PollsIn
  <2>2. r = [i \in 1 .. Len(q) - 1 |-> IF i < p THEN q[i] ELSE q[i + 1]]
    BY <1>2 DEF WithoutPoll
  <2> HIDE DEF p, r
  <2>3. Len(q) \in Nat /\ DOMAIN q = 1 .. Len(q) /\ DOMAIN r = 1 .. Len(q) - 1
    BY <2>2
  <2>4. q[p].what # w
    BY <2>1
  <2>5. ASSUME NEW i \in InKind(q, w)
        PROVE  (i < p /\ i \in InKind(r, w)) \/ (i > p /\ i - 1 \in InKind(r, w))
    <3>1. i \in 1 .. Len(q) /\ q[i].what = w /\ i # p
      BY <2>3, <2>4 DEF InKind
    <3>2. CASE i < p
      <4>1. i \in 1 .. Len(q) - 1 /\ r[i] = q[i]
        BY <2>1, <2>2, <2>3, <3>1, <3>2
      <4> QED BY <2>3, <3>1, <3>2, <4>1 DEF InKind
    <3>3. CASE i > p
      <4>1. i - 1 \in 1 .. Len(q) - 1 /\ ~(i - 1 < p) /\ (i - 1) + 1 = i
        BY <2>1, <2>3, <3>1, <3>3
      <4>2. r[i - 1] = q[i]
        BY <2>2, <4>1
      <4> QED BY <2>3, <3>1, <3>3, <4>1, <4>2 DEF InKind
    <3> QED BY <2>1, <3>1, <3>2, <3>3
  <2>6. \A i \in InKind(r, w) :
           i \in Int /\ ((i < p /\ i \in InKind(q, w)) \/ (i >= p /\ i + 1 \in InKind(q, w)))
    BY <2>1, <2>2, <2>3 DEF InKind
  <2>7. OnceIn(q, w) => OnceIn(r, w)
    <3> SUFFICES ASSUME OnceIn(q, w), NEW i \in InKind(r, w), NEW j \in InKind(r, w)
                 PROVE  i = j
      BY DEF OnceIn
    <3>1. i \in Int /\ j \in Int /\ p \in Int
      BY <2>1, <2>6
    <3> QED BY <2>6, <3>1 DEF OnceIn
  <2> QED BY <2>5, <2>6, <2>7 DEF KindKept, r
<1> QED BY <1>1, <1>2

LEMMA KindTwice ==
    ASSUME NEW p, NEW q, NEW r, NEW w, KindKept(p, q, w), KindKept(q, r, w)
    PROVE  KindKept(p, r, w)
  BY DEF KindKept

LEMMA KindAsked ==
    ASSUME NEW q \in Seq(Message), NEW S \in SUBSET Streams, NEW w, w # "readBuffer"
    PROVE  Asked(q, S) \in Seq(Message) /\ KindKept(q, Asked(q, S), w)
<1> DEFINE a == IF "audio" \in S THEN Append(q, Read("audio")) ELSE q
           r == IF "video" \in S THEN Append(a, Read("video")) ELSE a
<1>1. \A s \in Streams : Read(s) \in Message /\ Read(s).what # w
  BY DEF Read, Message
<1>2. \A s, t : KindKept(s, s, t)
  BY DEF KindKept
<1>3. a \in Seq(Message) /\ KindKept(q, a, w)
  BY <1>1, <1>2, KindAppend DEF Streams
<1>4. Asked(q, S) = r
  <2>1. \A p \in Seq(Message) : p \o <<>> = p
    OBVIOUS
  <2>2. \A p \in Seq(Message), s \in Streams : p \o <<Read(s)>> = Append(p, Read(s))
    BY <1>1
  <2>3. a = q \o (IF "audio" \in S THEN <<Read("audio")>> ELSE <<>>)
    BY <2>1, <2>2 DEF Streams
  <2> HIDE DEF a
  <2>4. r = a \o (IF "video" \in S THEN <<Read("video")>> ELSE <<>>)
    BY <1>3, <2>1, <2>2 DEF Streams
  <2> QED BY <2>3, <2>4 DEF Asked
<1> HIDE DEF a
<1>5. r \in Seq(Message) /\ KindKept(a, r, w)
  BY <1>1, <1>2, <1>3, KindAppend DEF Streams
<1> HIDE DEF r
<1> QED BY <1>3, <1>4, <1>5, KindTwice

KeepsAll == \A w \in Watched : KindKept(inbox, inbox', w)
KeepsSent == \A w \in Sent : KindKept(inbox, inbox', w)
Handles(v) ==
    KindGone(inbox, inbox', v) /\ \A w \in Watched \ {v} : KindKept(inbox, inbox', w)
Posts(v) ==
    KindCome(inbox, inbox', v) /\ \A w \in Watched \ {v} : KindKept(inbox, inbox', w)

LEMMA RestartKinds ==
    ASSUME NEW prepares, NEW notes, NEW rest \in Seq(Message),
           RestartPollBuffering(prepares, notes, rest), NEW w \in Sent
    PROVE  KindKept(rest, inbox', w)
<1>1. w # "pollBuffering"
  BY DEF Watched, Sent
<1>2. inbox' = rest \/ inbox' = WithoutPoll(rest)
  BY DEF RestartPollBuffering
<1>3. KindKept(rest, rest, w)
  BY DEF KindKept
<1> QED BY <1>1, <1>2, <1>3, KindWithoutPoll

\* The first message is taken.
LEMMA TakeKinds ==
    ASSUME ReadsTracked, NEW v, Take(v)
    PROVE  /\ Tail(inbox) \in Seq(Message)
           /\ KindGone(inbox, Tail(inbox), v)
           /\ \A w : w # v => KindKept(inbox, Tail(inbox), w)
<1>1. inbox \in Seq(Message) /\ inbox # <<>> /\ Head(inbox).what = v
  BY DEF ReadsTracked, ReadingTypeOK, Take
<1> QED BY <1>1, KindTail

LEMMA MsgType ==
    ASSUME NEW w \in {"prepareAsync", "start", "resume", "pollBuffering", "seek", "selectTrack",
                      "changeAVSource", "stopWidevine"}
    PROVE  Msg(w) \in Message /\ Msg(w).what = w
  BY DEF Msg, Message, Streams

LEMMA PostKinds ==
    ASSUME ReadsTracked,
           NEW v \in {"prepareAsync", "start", "resume", "pollBuffering", "seek", "selectTrack",
                      "changeAVSource", "stopWidevine"},
           inbox' = Append(inbox, Msg(v))
    PROVE  (v \in Watched => Posts(v)) /\ (v \notin Watched => KeepsAll)
<1>1. inbox \in Seq(Message)
  BY DEF ReadsTracked, ReadingTypeOK
<1> QED BY <1>1, MsgType, KindAppend DEF Posts, KeepsAll

LEMMA InboxHandles ==
    ASSUME ReadsTracked
    PROVE  /\ PrefillCache \/ PrepareFails \/ Prepare => Handles("prepareAsync")
           /\ OnSeek => Handles("seek")
           /\ OnSelectTrack => Handles("selectTrack")
           /\ StopWidevine => Handles("stopWidevine")
<1>1. \A v : Take(v) /\ inbox' = Tail(inbox) => Handles(v)
  BY TakeKinds DEF Handles
<1>2. ASSUME Prepare
      PROVE  Handles("prepareAsync")
  <2>1. Take("prepareAsync") /\ \E p, n : RestartPollBuffering(p, n, Tail(inbox))
    BY <1>2 DEF Prepare
  <2>2. \A w \in Watched : KindKept(Tail(inbox), inbox', w)
    BY <2>1, TakeKinds, RestartKinds DEF Sent
  <2>3. "prepareAsync" \in Watched
    BY DEF Watched
  <2>4. KindGone(inbox, Tail(inbox), "prepareAsync")
          /\ \A w \in Watched \ {"prepareAsync"} : KindKept(inbox, Tail(inbox), w)
    BY <2>1, TakeKinds
  <2>5. KindGone(inbox, inbox', "prepareAsync")
    BY <2>2, <2>3, <2>4 DEF KindGone, KindKept, OnceIn
  <2>6. \A w \in Watched \ {"prepareAsync"} : KindKept(inbox, inbox', w)
    BY <2>2, <2>4, KindTwice
  <2> QED BY <2>5, <2>6 DEF Handles
<1>3. ASSUME OnSelectTrack
      PROVE  Handles("selectTrack")
  <2> DEFINE q == Tail(inbox)
  <2>1. Take("selectTrack") /\ inbox' = Append(q, Msg("changeAVSource"))
    BY <1>3 DEF OnSelectTrack
  <2>2. q \in Seq(Message) /\ KindGone(inbox, q, "selectTrack")
          /\ \A w \in Watched \ {"selectTrack"} : KindKept(inbox, q, w)
    BY <2>1, TakeKinds
  <2> HIDE DEF q
  <2>3. \A w \in Watched : KindKept(q, inbox', w)
    BY <2>1, <2>2, MsgType, KindAppend DEF Watched
  <2>4. "selectTrack" \in Watched
    BY DEF Watched
  <2>5. KindGone(inbox, inbox', "selectTrack")
    BY <2>2, <2>3, <2>4 DEF KindGone, KindKept, OnceIn
  <2>6. \A w \in Watched \ {"selectTrack"} : KindKept(inbox, inbox', w)
    BY <2>2, <2>3, KindTwice
  <2> QED BY <2>5, <2>6 DEF Handles
<1> QED BY <1>1, <1>2, <1>3 DEF PrefillCache, PrepareFails, OnSeek, StopWidevine

LEMMA InboxPosts ==
    ASSUME ReadsTracked
    PROVE  /\ PrepareAsync => Posts("prepareAsync")
           /\ SeekTo => Posts("seek")
           /\ SelectTrack => Posts("selectTrack")
           /\ StopForVideo => Posts("stopWidevine")
<1>1. \A v \in Watched : inbox' = Append(inbox, Msg(v)) => Posts(v)
  BY PostKinds DEF Watched
<1> QED BY <1>1 DEF PrepareAsync, SeekTo, SelectTrack, StopForVideo, Watched

\* Steps that take and post nothing that is watched.
Bystander ==
    \/ CacheFills \/ CacheEnds \/ CacheDrains \/ PollBuffering \/ RestartsPoll
    \/ OnReadBuffer \/ OnChangeAVSource \/ Reads \/ ReadBufferReturns
    \/ SeeksAudio \/ SeekReturns \/ ReadsCounterpart \/ ChangeReturns
    \/ \E s \in Streams : DecoderNext(s)
    \/ OnPrepared \/ OnBufferingNotify \/ OnStart
    \/ ClientPauses \/ ClientResumes \/ Reset \/ UNCHANGED vars

LEMMA InboxSent ==
    ASSUME ReadsTracked, Bystander, ~OnChangeAVSource
    PROVE  KeepsSent
<1>1. inbox \in Seq(Message) /\ mHas \subseteq Streams
  BY DEF ReadsTracked, ReadingTypeOK
<1>2. UNCHANGED inbox => KeepsSent
  BY DEF KeepsSent, KindKept
<1>3. CASE PollBuffering \/ OnReadBuffer
  <2>1. PICK v \in {"pollBuffering", "readBuffer"} : Take(v) /\ inbox' = Tail(inbox)
    BY <1>3 DEF PollBuffering, OnReadBuffer
  <2> QED BY <2>1, TakeKinds DEF KeepsSent, Watched, Sent
<1>4. CASE RestartsPoll
  <2>1. PICK v \in {"start", "resume"} :
           Take(v) /\ RestartPollBuffering(mPrepareBuffering, <<>>, Tail(inbox))
    BY <1>4 DEF RestartsPoll
  <2>2. \A w \in Sent : KindKept(inbox, Tail(inbox), w) /\ KindKept(Tail(inbox), inbox', w)
    BY <2>1, TakeKinds, RestartKinds DEF Watched, Sent
  <2> QED BY <2>2, KindTwice DEF KeepsSent
<1>5. CASE SeekReturns
  <2>1. PICK notes : RestartPollBuffering(FALSE, notes, inbox)
    BY <1>5 DEF SeekReturns
  <2> QED BY <1>1, <2>1, RestartKinds DEF KeepsSent
<1>6. \A S \in SUBSET Streams : PostReadBuffer(S) => KeepsSent
  <2>1. \A S \in SUBSET Streams : PostReadBuffer(S) =>
           \E T \in SUBSET Streams : inbox' = Asked(inbox, T)
    BY DEF PostReadBuffer, Asked
  <2> QED BY <1>1, <2>1, KindAsked DEF KeepsSent, Watched, Sent
<1>7. CASE \E s \in Streams : DecoderNext(s)
  <2>1. PICK s \in Streams : DecoderNext(s)
    BY <1>7
  <2>2. UNCHANGED inbox \/ \E S \in {{}, {s}} : PostReadBuffer(S)
    BY <2>1 DEF DecoderNext, Asks, Dequeues, AsksForMore
  <2> QED BY <1>2, <1>6, <2>2
<1>8. CASE OnStart
  <2> DEFINE new == mHas \ mPendingReadBufferTypes
             q == Asked(inbox, new)
  <2>1. inbox' = q \o <<Msg("start")>>
    BY <1>8 DEF OnStart, Asked
  <2>2. new \in SUBSET Streams
    BY <1>1
  <2> HIDE DEF new
  <2>3. q \in Seq(Message) /\ \A w \in Sent : KindKept(inbox, q, w)
    BY <1>1, <2>2, KindAsked DEF Watched, Sent
  <2> HIDE DEF q
  <2>4. inbox' = Append(q, Msg("start"))
    BY <2>1, <2>3, MsgType
  <2>5. \A w \in Sent : KindKept(q, inbox', w)
    BY <2>3, <2>4, MsgType, KindAppend DEF Watched, Sent
  <2> QED BY <2>3, <2>5, KindTwice DEF KeepsSent
<1>9. CASE OnBufferingNotify \/ ClientResumes
  <2>1. UNCHANGED inbox \/ inbox' = Append(inbox, Msg("resume"))
    BY <1>9 DEF OnBufferingNotify, ClientResumes
  <2> QED BY <1>1, <1>2, <2>1, MsgType, KindAppend DEF KeepsSent, Watched, Sent
<1>10. CASE CacheFills \/ CacheEnds \/ CacheDrains \/ Reads \/ ReadBufferReturns \/ SeeksAudio
             \/ ReadsCounterpart \/ ChangeReturns \/ OnPrepared \/ ClientPauses \/ Reset
             \/ UNCHANGED vars
  <2>1. UNCHANGED inbox
    BY <1>10 DEF CacheFills, CacheEnds, CacheDrains, Reads, ReadsFirstUnit, QueuesUnit, ReadsEnd,
      ReadWouldBlock, ReadFrame, ReadBufferReturns, SeeksAudio, ReadsCounterpart, ChangeReturns, OnPrepared,
      ClientPauses, Reset, vars
  <2> QED BY <1>2, <2>1
<1> QED BY <1>3, <1>4, <1>5, <1>7, <1>8, <1>9, <1>10 DEF Bystander

LEMMA InboxKept ==
    ASSUME ReadsTracked, Bystander
    PROVE  KeepsAll
<1>1. CASE OnChangeAVSource
  <2>1. Take("changeAVSource") /\ inbox' = Tail(inbox)
    BY <1>1 DEF OnChangeAVSource
  <2> QED BY <2>1, TakeKinds DEF KeepsAll, Watched
<1> QED BY <1>1, InboxSent DEF KeepsSent, KeepsAll, Sent

LEMMA NextKinds ==
    ASSUME [Next]_vars
    PROVE  \/ Bystander \/ DelayPasses
           \/ PrefillCache \/ PrepareFails \/ Prepare \/ OnSeek \/ OnSelectTrack \/ StopWidevine
           \/ PrepareAsync \/ SeekTo \/ SelectTrack \/ StopForVideo
  BY DEF Next, SourceNext, PlayerNext, ClientNext, Bystander

\* The change of the audio track comes from its selection, and goes when it is made.
LEMMA ChangesInbox ==
    ASSUME ReadsTracked, [Next]_vars
    PROVE  /\ OnSelectTrack => KindCome(inbox, inbox', "changeAVSource")
           /\ OnChangeAVSource => KindGone(inbox, inbox', "changeAVSource")
           /\ ~OnSelectTrack /\ ~OnChangeAVSource => KindKept(inbox, inbox', "changeAVSource")
<1> DEFINE c == "changeAVSource"
<1>1. inbox \in Seq(Message) /\ c \in Sent /\ delayed \subseteq {"prepareAsync", "pollBuffering"}
  BY DEF ReadsTracked, ReadingTypeOK, Sent
<1>2. ASSUME OnSelectTrack PROVE KindCome(inbox, inbox', c)
  <2> DEFINE q == Tail(inbox)
  <2>1. Take("selectTrack") /\ inbox' = Append(q, Msg("changeAVSource"))
    BY <1>2 DEF OnSelectTrack
  <2>2. q \in Seq(Message) /\ KindKept(inbox, q, c)
    BY <2>1, TakeKinds
  <2> HIDE DEF q
  <2>3. KindCome(q, inbox', c)
    BY <2>1, <2>2, MsgType, KindAppend
  <2> QED BY <2>2, <2>3 DEF KindCome, KindKept, OnceIn
<1>3. ASSUME OnChangeAVSource PROVE KindGone(inbox, inbox', c)
  BY <1>3, TakeKinds DEF OnChangeAVSource
<1>4. \A v : v # c /\ Take(v) /\ inbox' = Tail(inbox) => KindKept(inbox, inbox', c)
  BY TakeKinds
<1>5. \A v \in {"prepareAsync", "pollBuffering", "seek", "selectTrack", "stopWidevine"} :
         inbox' = Append(inbox, Msg(v)) => KindKept(inbox, inbox', c)
  BY <1>1, MsgType, KindAppend
<1>6. ASSUME ~OnSelectTrack, ~OnChangeAVSource PROVE KindKept(inbox, inbox', c)
  <2> HIDE DEF c
  <2>1. c # "prepareAsync" /\ c # "seek" /\ c # "stopWidevine"
    BY DEF c
  <2>2. CASE Bystander
    BY <1>1, <1>6, <2>2, InboxSent DEF KeepsSent
  <2>3. CASE PrefillCache \/ PrepareFails \/ OnSeek \/ StopWidevine
    BY <1>4, <2>1, <2>3 DEF PrefillCache, PrepareFails, OnSeek, StopWidevine
  <2>4. CASE Prepare
    <3>1. PICK p, n : Take("prepareAsync") /\ RestartPollBuffering(p, n, Tail(inbox))
      BY <2>4 DEF Prepare
    <3>2. KindKept(inbox, Tail(inbox), c) /\ Tail(inbox) \in Seq(Message)
      BY <2>1, <3>1, TakeKinds
    <3>3. KindKept(Tail(inbox), inbox', c)
      BY <1>1, <3>1, <3>2, RestartKinds
    <3> QED BY <3>2, <3>3, KindTwice
  <2>5. CASE DelayPasses
    <3>1. \E w \in delayed : inbox' = Append(inbox, Msg(w))
      BY <2>5 DEF DelayPasses
    <3> QED BY <1>1, <1>5, <3>1
  <2>6. CASE PrepareAsync \/ SeekTo \/ SelectTrack \/ StopForVideo
    BY <1>5, <2>6 DEF PrepareAsync, SeekTo, SelectTrack, StopForVideo
  <2> QED BY <1>6, <2>2, <2>3, <2>4, <2>5, <2>6, NextKinds
<1> QED BY <1>2, <1>3, <1>6

-----------------------------------------------------------------------------
(* The control of the source and the player.                                *)

Calls == {"seek", "selectTrack", "stopWidevine"}
CallOf(w) == IF w = "stopWidevine" THEN "stop" ELSE w

\* The player waits for the call that is in the queue, or for the seek in hand.
CallInv ==
    /\ \A w \in Calls :
          /\ OnceIn(inbox, w)
          /\ InKind(inbox, w) # {} => call = CallOf(w) /\ work.what # "seek"
    /\ work.what = "seek" => call = "seek"

\* The source is prepared once.
Answers(q) == {i \in DOMAIN q : q[i] \in {"prepared", "failed"}}
IsPreparing == InKind(inbox, "prepareAsync") # {}
IsAnswered == Answers(mail) # {}
PrepInv ==
    /\ OnceIn(inbox, "prepareAsync") /\ \A i, j \in Answers(mail) : i = j
    /\ IsPreparing \/ "prepareAsync" \in delayed \/ mPrepareBuffering \/ IsAnswered =>
          state \in {"preparing", "gone"}
    /\ IsPreparing => "prepareAsync" \notin delayed /\ ~mPrepareBuffering /\ ~IsAnswered
    /\ "prepareAsync" \in delayed => ~mPrepareBuffering /\ ~IsAnswered
    /\ mPrepareBuffering => ~IsAnswered

\* Reading is on from the start until it is stopped for the video.
StopInv ==
    /\ call = "stop" => noVideo
    /\ noVideo => state \in {"started", "gone"}
    /\ mStopRead /\ state = "started" => noVideo
    /\ state \notin {"started", "gone"} => mStopRead
    /\ call = "seek" => state = "started"

\* A decoder that reads has a stream, and finds no seek.
Live(s) == s \in mHas /\ ~(s = "video" /\ noVideo)
IdleInv ==
    \A s \in Streams : reader[s] # "idle" => Live(s) /\ state = "started" /\ call # "seek"

\* What readBuffer() is in.
WorkInv ==
    /\ work.what \in {"none", "readBuffer"} => ~work.seek /\ ~work.format /\ ~work.holds
    /\ work.what = "none" => work.left = 0
    /\ work.what = "seek" => ~work.format /\ ~mStopRead
    /\ work.what = "seek" /\ work.seek =>
          work.left > 0 /\ track[work.stream].pos = position /\ track[work.stream].time = 1
    /\ work.what = "seek" /\ work.stream = "video" =>
          track["audio"].pos = position /\ track["audio"].time = 1
    /\ work.what = "changeAVSource" /\ work.seek => work.stream = "audio" /\ work.format
    /\ work.what = "changeAVSource" /\ work.format /\ ~work.seek => work.stream = "video"
    /\ work.seek => track[work.stream].time <= NumUnits
    /\ mStopRead => work.left = 0

LEMMA CallsWatched == Calls \subseteq Watched /\ "prepareAsync" \notin Calls
  BY DEF Calls, Watched

LEMMA SameCalls ==
    ASSUME CallInv, \A w \in Calls : KindKept(inbox, inbox', w), call' = call,
           (work'.what = "seek") <=> (work.what = "seek")
    PROVE  CallInv'
  BY DEF CallInv, KindKept

\* No call is in the queue.
LEMMA NoCalls ==
    ASSUME \A w \in Calls : InKind(inbox', w) = {}, work'.what = "seek" => call' = "seek"
    PROVE  CallInv'
  BY DEF CallInv, OnceIn

LEMMA CallInQueue ==
    ASSUME ReadsTracked, CallInv, NEW v \in Calls, Take(v)
    PROVE  /\ call = CallOf(v)
           /\ Handles(v) => \A w \in Calls : InKind(inbox', w) = {}
<1>1. InKind(inbox, v) # {}
  BY TakeKinds DEF KindGone, CallInv
<1>2. call = CallOf(v)
  BY <1>1 DEF CallInv
<1>3. \A w \in Calls \ {v} : CallOf(w) # CallOf(v)
  BY DEF CallOf, Calls
<1> QED
  <2>1. Handles(v) => InKind(inbox, v) # {} /\ InKind(inbox', v) = {}
    BY DEF Handles, KindGone, CallInv
  <2>2. Handles(v) => \A w \in Calls \ {v} : InKind(inbox, w) = {}
    BY <1>2, <1>3, <2>1 DEF CallInv
  <2>3. Handles(v) => \A w \in Calls \ {v} : InKind(inbox', w) = {}
    BY <2>2, CallsWatched DEF Handles, KindKept, OnceIn
  <2> QED BY <1>2, <2>1, <2>3

LEMMA BystandersCalls ==
    ASSUME ReadsTracked, CallInv, Bystander
    PROVE  CallInv'
<1>1. \A w \in Calls : KindKept(inbox, inbox', w)
  BY InboxKept, CallsWatched DEF KeepsAll
<1>2. CASE SeekReturns
  <2>1. work.what = "seek" /\ work' = Idle
    BY <1>2 DEF SeekReturns, Returns
  <2>2. \A w \in Calls : InKind(inbox', w) = {}
    BY <1>1, <2>1 DEF CallInv, KindKept
  <2>3. work'.what # "seek"
    BY <2>1 DEF Idle
  <2> QED BY <2>2, <2>3, NoCalls
<1>3. ASSUME ~SeekReturns
      PROVE  call' = call /\ (work'.what = "seek" <=> work.what = "seek")
  <2>1. WorkTypeOK
    BY DEF ReadsTracked, ReadingTypeOK
  <2>2. CASE Reads
    <3>1. call' = call
      BY <2>2 DEF Reads, ReadsFirstUnit, QueuesUnit, ReadsEnd, ReadWouldBlock, ReadFrame, playerVars
    <3>2. \/ work' = [work EXCEPT !.holds = TRUE]
          \/ work' = [work EXCEPT !.left = @ - 1, !.seek = FALSE, !.format = FALSE, !.holds = FALSE]
          \/ work' = [work EXCEPT !.left = 0]
      BY <2>2 DEF Reads, ReadsFirstUnit, QueuesUnit, ReadsEnd, ReadWouldBlock
    <3>3. work'.what = work.what
      BY <2>1, <3>2 DEF WorkTypeOK
    <3> QED BY <3>1, <3>3
  <2>3. CASE CacheFills \/ CacheEnds \/ CacheDrains \/ PollBuffering \/ RestartsPoll
               \/ OnPrepared \/ OnBufferingNotify \/ OnStart
               \/ ClientPauses \/ ClientResumes \/ Reset \/ UNCHANGED vars
    BY <2>3 DEF CacheFills, CacheEnds, CacheDrains, PollBuffering, RestartsPoll, OnPrepared,
      OnBufferingNotify, OnStart, ClientPauses, ClientResumes, Reset, vars, playerVars, sourceVars
  <2>4. CASE \E s \in Streams : DecoderNext(s)
    BY <2>4 DEF DecoderNext, Asks, Dequeues, AsksForMore, DecoderFrame, playerVars
  <2>5. CASE OnReadBuffer \/ OnChangeAVSource
    BY <2>5 DEF OnReadBuffer, OnChangeAVSource, ReadBuffer, Take, SourceRuns, playerVars
  <2>6. CASE ReadBufferReturns \/ SeeksAudio \/ ReadsCounterpart \/ ChangeReturns
    BY <2>6 DEF ReadBufferReturns, SeeksAudio, ReadsCounterpart, ChangeReturns, Returns, ReadBuffer, Idle,
      playerVars
  <2> QED BY <1>3, <2>2, <2>3, <2>4, <2>5, <2>6 DEF Bystander
<1> QED BY <1>1, <1>2, <1>3, SameCalls

LEMMA NextCalls ==
    ASSUME ReadsTracked, CallInv, [Next]_vars
    PROVE  CallInv'
<1>1. CASE Bystander
  BY <1>1, BystandersCalls
<1>2. CASE DelayPasses
  <2>1. PICK w \in delayed : inbox' = Append(inbox, Msg(w))
    BY <1>2 DEF DelayPasses
  <2>2. w \in {"prepareAsync", "pollBuffering"}
    BY DEF ReadsTracked, ReadingTypeOK
  <2>3. \A v \in Calls : KindKept(inbox, inbox', v)
    BY <2>1, <2>2, PostKinds, CallsWatched DEF Posts, KeepsAll, Watched
  <2> QED BY <1>2, <2>3, SameCalls DEF DelayPasses, playerVars, sourceVars
<1>3. CASE PrefillCache \/ PrepareFails \/ Prepare
  <2>1. \A v \in Calls : KindKept(inbox, inbox', v)
    BY <1>3, InboxHandles, CallsWatched DEF Handles
  <2> QED BY <1>3, <2>1, SameCalls DEF PrefillCache, PrepareFails, Prepare, playerVars, sourceVars
<1>4. CASE PrepareAsync
  <2>1. \A v \in Calls : KindKept(inbox, inbox', v)
    BY <1>4, InboxPosts, CallsWatched DEF Posts
  <2> QED BY <1>4, <2>1, SameCalls DEF PrepareAsync, playerVars, sourceVars
<1>5. CASE OnSeek
  <2>1. call = "seek" /\ \A w \in Calls : InKind(inbox', w) = {}
    BY <1>5, CallInQueue, InboxHandles DEF OnSeek, Calls, CallOf
  <2>2. call' = "seek" \/ work'.what # "seek"
    BY <1>5, <2>1 DEF OnSeek, Take, SourceRuns
  <2> QED BY <2>1, <2>2, NoCalls
<1>6. CASE OnSelectTrack \/ StopWidevine
  <2>1. \A w \in Calls : InKind(inbox', w) = {}
    BY <1>6, CallInQueue, InboxHandles DEF OnSelectTrack, StopWidevine, Calls
  <2>2. work'.what # "seek"
    BY <1>6 DEF OnSelectTrack, StopWidevine, Take, SourceRuns, sourceVars
  <2> QED BY <2>1, <2>2, NoCalls
<1>7. CASE SeekTo \/ SelectTrack \/ StopForVideo
  <2>1. PICK v \in Calls : Posts(v) /\ call' = CallOf(v)
    BY <1>7, InboxPosts DEF SeekTo, SelectTrack, StopForVideo, Calls, CallOf
  <2>2. call = "none" /\ UNCHANGED work
    BY <1>7 DEF SeekTo, SelectTrack, StopForVideo, PlayerFree, sourceVars
  <2>3. work.what # "seek" /\ \A w \in Calls : InKind(inbox, w) = {}
    BY <2>2 DEF CallInv, CallOf, Calls
  <2>4. OnceIn(inbox', v) /\ \A w \in Calls \ {v} : InKind(inbox', w) = {} /\ OnceIn(inbox', w)
    BY <2>1, <2>3, CallsWatched DEF Posts, KindCome, KindKept, OnceIn
  <2> QED BY <2>1, <2>2, <2>3, <2>4 DEF CallInv
<1> QED BY <1>1, <1>2, <1>3, <1>4, <1>5, <1>6, <1>7, NextKinds

LEMMA InitCalls == Init => CallInv
<1> SUFFICES ASSUME Init PROVE CallInv
  OBVIOUS
<1>1. inbox = <<>> /\ work = Idle
  BY DEF Init
<1>2. \A w : InKind(inbox, w) = {}
  BY <1>1 DEF InKind
<1> QED BY <1>1, <1>2 DEF CallInv, OnceIn, Idle

-----------------------------------------------------------------------------
(* Preparing: who is going to answer the player.                             *)

Notes == {"prepared", "failed", "pauseOnBufferingStart", "resumeOnBufferingEnd"}
OneAnswer(q) == \A i, j \in Answers(q) : i = j
AnswersKept(q, r) == OneAnswer(q) => OneAnswer(r) /\ (Answers(r) = {} <=> Answers(q) = {})
AnswerComes(q, r) == Answers(q) = {} => OneAnswer(r) /\ Answers(r) # {}

LEMMA AnswersAppend ==
    ASSUME NEW q \in Seq(Notes), NEW n \in Notes
    PROVE  /\ Append(q, n) \in Seq(Notes)
           /\ n \notin {"prepared", "failed"} => AnswersKept(q, Append(q, n))
           /\ n \in {"prepared", "failed"} => AnswerComes(q, Append(q, n))
<1> DEFINE r == Append(q, n)
<1>1. r \in Seq(Notes) /\ Len(r) = Len(q) + 1 /\ r[Len(q) + 1] = n
        /\ \A i \in 1..Len(q) : r[i] = q[i]
  OBVIOUS
<1>2. Len(q) \in Nat /\ DOMAIN q = 1..Len(q) /\ DOMAIN r = 1..Len(q) + 1
  BY <1>1
<1> HIDE DEF r
<1>3. ASSUME n \notin {"prepared", "failed"}
      PROVE  AnswersKept(q, r)
  <2>1. Answers(r) = Answers(q)
    BY <1>1, <1>2, <1>3 DEF Answers
  <2> QED BY <2>1 DEF AnswersKept, OneAnswer
<1>4. ASSUME n \in {"prepared", "failed"}, Answers(q) = {}
      PROVE  OneAnswer(r) /\ Answers(r) # {}
  <2>1. Answers(r) = {Len(q) + 1}
    BY <1>1, <1>2, <1>4 DEF Answers
  <2> QED BY <2>1 DEF OneAnswer
<1> QED BY <1>1, <1>3, <1>4 DEF AnswerComes, r

LEMMA AnswersTail ==
    ASSUME NEW q \in Seq(Notes), q # <<>>
    PROVE  /\ Head(q) \notin {"prepared", "failed"} => AnswersKept(q, Tail(q))
           /\ Head(q) \in {"prepared", "failed"} =>
                 Answers(q) # {} /\ (OneAnswer(q) => Answers(Tail(q)) = {})
<1> DEFINE r == Tail(q)
<1>1. r \in Seq(Notes) /\ Len(r) = Len(q) - 1 /\ Len(q) > 0 /\ Head(q) = q[1]
        /\ \A i \in 1..Len(r) : r[i] = q[i + 1] /\ i + 1 \in 1..Len(q)
  OBVIOUS
<1>2. Len(q) \in Nat /\ DOMAIN q = 1..Len(q) /\ DOMAIN r = 1..Len(r)
  BY <1>1
<1> HIDE DEF r
<1>3. \A i : i \in Answers(r) <=> i \in 1..Len(r) /\ q[i + 1] \in {"prepared", "failed"}
  BY <1>1, <1>2 DEF Answers
<1>4. \A i : i \in Answers(q) <=> i \in 1..Len(q) /\ q[i] \in {"prepared", "failed"}
  BY <1>2 DEF Answers
<1>5. \A i \in Answers(r) : i \in Nat \ {0} /\ i + 1 \in Answers(q)
  BY <1>1, <1>3, <1>4
<1>6. ASSUME Head(q) \notin {"prepared", "failed"}
      PROVE  AnswersKept(q, r)
  <2>1. \A i \in Answers(q) : i - 1 \in Answers(r)
    <3> SUFFICES ASSUME NEW i \in Answers(q)
                 PROVE  i - 1 \in Answers(r)
      OBVIOUS
    <3>1. i \in 1..Len(q) /\ q[i] \in {"prepared", "failed"} /\ i # 1
      BY <1>1, <1>4, <1>6
    <3>2. i - 1 \in 1..Len(r) /\ (i - 1) + 1 = i
      BY <1>1, <1>2, <3>1
    <3> QED BY <1>3, <3>1, <3>2
  <2>2. OneAnswer(q) => OneAnswer(r)
    BY <1>5 DEF OneAnswer
  <2> QED BY <1>5, <2>1, <2>2 DEF AnswersKept
<1>7. ASSUME Head(q) \in {"prepared", "failed"}
      PROVE  Answers(q) # {} /\ (OneAnswer(q) => Answers(r) = {})
  <2>1. 1 \in Answers(q)
    BY <1>1, <1>2, <1>4, <1>7
  <2> QED BY <1>5, <2>1 DEF OneAnswer
<1> QED BY <1>6, <1>7 DEF r

\* A poll ends the preparation, with an answer, or leaves it as it is.
LEMMA PollAnswers ==
    ASSUME TypeInv, NEW prepares \in BOOLEAN, NEW buffers \in BOOLEAN,
           NEW notes \in {<<>>, <<"resumeOnBufferingEnd">>},
           OnPollBuffering(prepares, buffers, notes)
    PROVE  \/ mPrepareBuffering' = prepares /\ AnswersKept(mail, mail')
           \/ prepares /\ notes = <<>> /\ ~mPrepareBuffering' /\ AnswerComes(mail, mail')
           \/ prepares /\ notes # <<>>
<1>1. mail \in Seq(Notes)
  BY DEF TypeInv, PollTypes, Notes
<1>2. \A q \in Seq(Notes), n \in Notes : q \o <<n>> = Append(q, n)
  OBVIOUS
<1>3. \A q \in Seq(Notes) : q \o <<>> = q
  OBVIOUS
<1>4. "resumeOnBufferingEnd" \in Notes /\ "pauseOnBufferingStart" \in Notes /\ "prepared" \in Notes
  BY DEF Notes
<1> DEFINE first == mail \o notes
<1>5. first \in Seq(Notes) /\ AnswersKept(mail, first) /\ (notes = <<>> => first = mail)
  <2>1. CASE notes = <<>>
    BY <1>1, <1>3, <2>1 DEF AnswersKept
  <2>2. CASE notes = <<"resumeOnBufferingEnd">>
    BY <1>1, <1>2, <1>4, <2>2, AnswersAppend
  <2> QED BY <2>1, <2>2
<1>6. PICK note : /\ mail' = first \o note
                  /\ \/ note \in {<<>>, <<"resumeOnBufferingEnd">>, <<"pauseOnBufferingStart">>}
                           /\ mPrepareBuffering' = prepares
                     \/ note = <<"prepared">> /\ prepares /\ ~mPrepareBuffering'
  BY Zenon DEF OnPollBuffering
<1> HIDE DEF first
<1>7. CASE note \in {<<>>, <<"resumeOnBufferingEnd">>, <<"pauseOnBufferingStart">>}
             /\ mPrepareBuffering' = prepares
  <2>1. AnswersKept(first, mail')
    <3>1. CASE note = <<>>
      BY <1>3, <1>5, <1>6, <3>1 DEF AnswersKept
    <3>2. CASE note # <<>>
      BY <1>2, <1>4, <1>5, <1>6, <1>7, <3>2, AnswersAppend
    <3> QED BY <3>1, <3>2
  <2> QED BY <1>5, <1>7, <2>1 DEF AnswersKept
<1>8. CASE note = <<"prepared">> /\ prepares /\ ~mPrepareBuffering'
  <2>1. AnswerComes(first, mail')
    BY <1>2, <1>4, <1>5, <1>6, <1>8, AnswersAppend
  <2> QED BY <1>5, <1>8, <2>1
<1> QED BY <1>6, <1>7, <1>8

LEMMA RestartAnswers ==
    ASSUME TypeInv, NEW prepares \in BOOLEAN, NEW rest,
           NEW notes \in {<<>>, <<"resumeOnBufferingEnd">>},
           RestartPollBuffering(prepares, notes, rest)
    PROVE  /\ \/ mPrepareBuffering' = prepares /\ AnswersKept(mail, mail')
              \/ prepares /\ notes = <<>> /\ ~mPrepareBuffering' /\ AnswerComes(mail, mail')
              \/ prepares /\ notes # <<>>
           /\ "prepareAsync" \in delayed' <=> "prepareAsync" \in delayed
<1>1. CASE mIsStreaming
  <2>1. OnPollBuffering(prepares, FALSE, notes)
    BY <1>1 DEF RestartPollBuffering
  <2>2. "prepareAsync" \in delayed' <=> "prepareAsync" \in delayed
    BY <2>1 DEF OnPollBuffering
  <2> QED BY <2>1, <2>2, PollAnswers
<1>2. CASE ~mIsStreaming
  <2>1. mPrepareBuffering' = prepares /\ mail' = mail \o notes /\ delayed' = delayed
    BY <1>2 DEF RestartPollBuffering
  <2>2. mail \in Seq(Notes) /\ "resumeOnBufferingEnd" \in Notes
    BY DEF TypeInv, PollTypes, Notes
  <2>3. mail' = mail \/ mail' = Append(mail, "resumeOnBufferingEnd")
    BY <2>1, <2>2
  <2>4. AnswersKept(mail, mail')
    BY <2>2, <2>3, AnswersAppend DEF AnswersKept
  <2> QED BY <2>1, <2>4
<1> QED BY <1>1, <1>2

LEMMA SettlePrep ==
    ASSUME PrepInv, TypeInv, KindKept(inbox, inbox', "prepareAsync"), state' = state,
           "prepareAsync" \in delayed' <=> "prepareAsync" \in delayed,
           \/ mPrepareBuffering' = mPrepareBuffering /\ AnswersKept(mail, mail')
           \/ mPrepareBuffering /\ ~mPrepareBuffering' /\ AnswerComes(mail, mail')
    PROVE  PrepInv'
  BY DEF PrepInv, KindKept, AnswersKept, AnswerComes, IsPreparing, IsAnswered, OneAnswer

LEMMA SamePrep ==
    ASSUME PrepInv, TypeInv, KindKept(inbox, inbox', "prepareAsync"),
           UNCHANGED <<state, delayed, mPrepareBuffering, mail>>
    PROVE  PrepInv'
<1>1. AnswersKept(mail, mail')
  BY DEF AnswersKept
<1> QED BY <1>1, SettlePrep

\* Outside of the preparation there is none of it.
LEMMA NotPreparing ==
    ASSUME PrepInv, state \notin {"preparing", "gone"}
    PROVE  ~IsPreparing /\ "prepareAsync" \notin delayed /\ ~mPrepareBuffering /\ ~IsAnswered
  BY DEF PrepInv

LEMMA BystandersPrep ==
    ASSUME ReadsTracked, TypeInv, CallInv, StopInv, PrepInv, Bystander
    PROVE  PrepInv'
<1>1. KindKept(inbox, inbox', "prepareAsync")
  BY InboxKept DEF KeepsAll, Watched
<1>2. mail \in Seq(Notes) /\ mPrepareBuffering \in BOOLEAN /\ mBuffering \in BOOLEAN
  BY DEF TypeInv, PollTypes, Notes
<1>3. CASE PollBuffering
  <2>1. OnPollBuffering(mPrepareBuffering, mBuffering, <<>>) /\ state' = state
    BY <1>3 DEF PollBuffering, playerVars
  <2>2. "prepareAsync" \in delayed' <=> "prepareAsync" \in delayed
    BY <2>1 DEF OnPollBuffering
  <2> QED BY <1>1, <1>2, <2>1, <2>2, PollAnswers, SettlePrep
<1>4. CASE RestartsPoll
  <2>1. RestartPollBuffering(mPrepareBuffering, <<>>, Tail(inbox)) /\ state' = state
    BY <1>4 DEF RestartsPoll, playerVars
  <2> QED BY <1>1, <1>2, <2>1, RestartAnswers, SettlePrep
<1>5. CASE SeekReturns
  <2>1. PICK notes \in {<<>>, <<"resumeOnBufferingEnd">>} :
           RestartPollBuffering(FALSE, notes, inbox)
    BY <1>5 DEF SeekReturns
  <2>2. state' = state /\ work.what = "seek"
    BY <1>5 DEF SeekReturns, Returns
  <2>3. mPrepareBuffering = FALSE
    BY <1>2, <2>2, NotPreparing DEF CallInv, StopInv
  <2> QED BY <1>1, <2>1, <2>2, <2>3, RestartAnswers, SettlePrep
<1>6. CASE OnPrepared
  <2>1. /\ state # "gone" /\ mail # <<>> /\ Head(mail) \in {"prepared", "failed"}
        /\ mail' = Tail(mail) /\ state' = Head(mail) /\ UNCHANGED <<delayed, mPrepareBuffering>>
    BY <1>6 DEF OnPrepared, PlayerFree, pollVars
  <2>2. IsAnswered /\ ~IsAnswered'
    BY <1>2, <2>1, AnswersTail DEF IsAnswered, PrepInv, OneAnswer
  <2>3. OneAnswer(mail')
    BY <2>2 DEF IsAnswered, OneAnswer
  <2> QED BY <1>1, <2>1, <2>2, <2>3 DEF PrepInv, KindKept, IsPreparing, OneAnswer
<1>7. CASE OnBufferingNotify
  <2>1. /\ mail # <<>> /\ Head(mail) \notin {"prepared", "failed"} /\ mail' = Tail(mail)
        /\ UNCHANGED <<state, delayed, mPrepareBuffering>>
    BY <1>7 DEF OnBufferingNotify, pollVars
  <2> QED BY <1>1, <1>2, <2>1, AnswersTail, SettlePrep
<1>8. CASE OnStart
  <2>1. state = "prepared" /\ UNCHANGED <<mail, delayed, mPrepareBuffering>>
    BY <1>8 DEF OnStart, pollVars
  <2>2. ~IsPreparing /\ "prepareAsync" \notin delayed /\ ~mPrepareBuffering /\ ~IsAnswered
    BY <2>1, NotPreparing
  <2> QED BY <1>1, <2>1, <2>2 DEF PrepInv, KindKept, IsPreparing, IsAnswered
<1>9. CASE Reset
  <2>1. state' = "gone" /\ UNCHANGED <<mail, delayed, mPrepareBuffering>>
    BY <1>9 DEF Reset, pollVars
  <2> QED BY <1>1, <2>1 DEF PrepInv, KindKept, IsPreparing, IsAnswered
<1>10. CASE Reads
  BY <1>1, <1>10, SamePrep DEF Reads, ReadsFirstUnit, QueuesUnit, ReadsEnd, ReadWouldBlock, ReadFrame,
    pollVars, playerVars
<1>11. CASE \E s \in Streams : DecoderNext(s)
  BY <1>1, <1>11, SamePrep DEF DecoderNext, Asks, Dequeues, AsksForMore, DecoderFrame, pollVars, playerVars
<1>12. CASE CacheFills \/ CacheEnds \/ CacheDrains \/ OnReadBuffer \/ OnChangeAVSource
              \/ ReadBufferReturns \/ SeeksAudio \/ ReadsCounterpart \/ ChangeReturns
              \/ ClientPauses \/ ClientResumes \/ UNCHANGED vars
  BY <1>1, <1>12, SamePrep DEF CacheFills, CacheEnds, CacheDrains, OnReadBuffer, OnChangeAVSource,
    ReadBufferReturns, SeeksAudio, ReadsCounterpart, ChangeReturns, ClientPauses, ClientResumes, vars,
    pollVars, playerVars
<1> QED BY <1>3, <1>4, <1>5, <1>6, <1>7, <1>8, <1>9, <1>10, <1>11, <1>12 DEF Bystander

\* The handling of the request to prepare.
LEMMA PreparesPrep ==
    ASSUME ReadsTracked, TypeInv, PrepInv, PrefillCache \/ PrepareFails \/ Prepare
    PROVE  PrepInv'
<1>1. InKind(inbox, "prepareAsync") # {} /\ InKind(inbox', "prepareAsync") = {}
  BY InboxHandles DEF Handles, KindGone, PrepInv
<1>2. /\ OnceIn(inbox', "prepareAsync") /\ ~IsPreparing' /\ IsPreparing
      /\ "prepareAsync" \notin delayed /\ ~mPrepareBuffering /\ ~IsAnswered
      /\ state \in {"preparing", "gone"}
  BY <1>1 DEF OnceIn, IsPreparing, PrepInv
<1>3. state' = state
  BY DEF PrefillCache, PrepareFails, Prepare, playerVars
<1>4. mail \in Seq(Notes) /\ "failed" \in Notes /\ "prepared" \in Notes
  BY DEF TypeInv, PollTypes, Notes
<1>5. CASE PrefillCache
  <2>1. UNCHANGED <<mail, mPrepareBuffering>>
    BY <1>5 DEF PrefillCache, pollVars
  <2> QED BY <1>2, <1>3, <2>1 DEF PrepInv, IsAnswered
<1>6. CASE PrepareFails
  <2>1. UNCHANGED <<delayed, mPrepareBuffering>> /\ mail' = Append(mail, "failed")
    BY <1>6 DEF PrepareFails, pollVars
  <2>2. OneAnswer(mail')
    BY <1>2, <1>4, <2>1, AnswersAppend DEF AnswerComes, IsAnswered
  <2> QED BY <1>2, <1>3, <2>1, <2>2 DEF PrepInv, IsAnswered, OneAnswer
<1>7. CASE Prepare /\ mIsStreaming
  <2>1. RestartPollBuffering(TRUE, <<>>, Tail(inbox))
    BY <1>7 DEF Prepare
  <2>2. /\ "prepareAsync" \notin delayed'
        /\ \/ mPrepareBuffering' = TRUE /\ AnswersKept(mail, mail')
           \/ ~mPrepareBuffering' /\ AnswerComes(mail, mail')
    BY <1>2, <2>1, RestartAnswers
  <2>3. OneAnswer(mail)
    BY <1>2 DEF IsAnswered, OneAnswer
  <2> QED BY <1>2, <1>3, <2>2, <2>3 DEF PrepInv, IsAnswered, OneAnswer, AnswersKept, AnswerComes
<1>8. CASE Prepare /\ ~mIsStreaming
  <2>1. RestartPollBuffering(FALSE, <<"prepared">>, Tail(inbox))
    BY <1>8 DEF Prepare
  <2>2. mPrepareBuffering' = FALSE /\ delayed' = delayed /\ mail' = mail \o <<"prepared">>
    BY <1>8, <2>1 DEF RestartPollBuffering
  <2>3. mail' = Append(mail, "prepared")
    BY <1>4, <2>2
  <2>4. OneAnswer(mail')
    BY <1>2, <1>4, <2>3, AnswersAppend DEF AnswerComes, IsAnswered
  <2> QED BY <1>2, <1>3, <2>2, <2>4 DEF PrepInv, IsAnswered, OneAnswer
<1> QED BY <1>5, <1>6, <1>7, <1>8

LEMMA NextPrep ==
    ASSUME ReadsTracked, TypeInv, CallInv, StopInv, PrepInv, [Next]_vars
    PROVE  PrepInv'
<1>1. CASE Bystander
  BY <1>1, BystandersPrep
<1>2. CASE PrefillCache \/ PrepareFails \/ Prepare
  BY <1>2, PreparesPrep
<1>3. CASE DelayPasses
  <2>1. PICK w \in delayed : delayed' = delayed \ {w} /\ inbox' = Append(inbox, Msg(w))
    BY <1>3 DEF DelayPasses
  <2>2. UNCHANGED <<state, mail, mPrepareBuffering>>
    BY <1>3 DEF DelayPasses, playerVars, pollVars
  <2>3. w \in {"prepareAsync", "pollBuffering"}
    BY DEF ReadsTracked, ReadingTypeOK
  <2>4. CASE w = "pollBuffering"
    <3>1. KindKept(inbox, inbox', "prepareAsync")
      BY <2>1, <2>4, PostKinds DEF KeepsAll, Watched
    <3>2. "prepareAsync" \in delayed' <=> "prepareAsync" \in delayed
      BY <2>1, <2>4
    <3> QED BY <2>2, <3>1, <3>2, SettlePrep DEF AnswersKept
  <2>5. CASE w = "prepareAsync"
    <3>1. KindCome(inbox, inbox', "prepareAsync")
      BY <2>1, <2>5, PostKinds DEF Posts, Watched
    <3> QED BY <2>1, <2>2, <2>5, <3>1 DEF PrepInv, KindCome, IsPreparing, IsAnswered
  <2> QED BY <2>3, <2>4, <2>5
<1>4. CASE OnSeek \/ OnSelectTrack \/ StopWidevine
  <2>1. KindKept(inbox, inbox', "prepareAsync")
    BY <1>4, InboxHandles DEF Handles, Watched
  <2> QED BY <1>4, <2>1, SamePrep DEF OnSeek, OnSelectTrack, StopWidevine, pollVars
<1>5. CASE SeekTo \/ SelectTrack \/ StopForVideo
  <2>1. KindKept(inbox, inbox', "prepareAsync")
    BY <1>5, InboxPosts DEF Posts, Watched
  <2> QED BY <1>5, <2>1, SamePrep DEF SeekTo, SelectTrack, StopForVideo, pollVars
<1>6. CASE PrepareAsync
  <2>1. state = "new" /\ state' = "preparing" /\ UNCHANGED <<mail, mPrepareBuffering, delayed>>
    BY <1>6 DEF PrepareAsync, pollVars
  <2>2. KindCome(inbox, inbox', "prepareAsync")
    BY <1>6, InboxPosts DEF Posts
  <2>3. ~IsPreparing /\ "prepareAsync" \notin delayed /\ ~mPrepareBuffering /\ ~IsAnswered
    BY <2>1, NotPreparing
  <2> QED BY <2>1, <2>2, <2>3 DEF PrepInv, KindCome, IsPreparing, IsAnswered
<1> QED BY <1>1, <1>2, <1>3, <1>4, <1>5, <1>6, NextKinds

LEMMA InitPrep == Init => PrepInv
<1> SUFFICES ASSUME Init PROVE PrepInv
  OBVIOUS
<1>1. inbox = <<>> /\ mail = <<>> /\ delayed = {} /\ mPrepareBuffering = FALSE
  BY DEF Init
<1>2. InKind(inbox, "prepareAsync") = {} /\ Answers(mail) = {}
  BY <1>1 DEF InKind, Answers
<1> QED BY <1>1, <1>2 DEF PrepInv, OnceIn, IsPreparing, IsAnswered

-----------------------------------------------------------------------------
\* A step that changes what StopInv speaks of.
PlayerSteps ==
    \/ OnSeek \/ OnSelectTrack \/ StopWidevine \/ SeekReturns
    \/ PrepareAsync \/ OnPrepared \/ OnStart
    \/ SeekTo \/ SelectTrack \/ StopForVideo \/ Reset

LEMMA PlayerFrame ==
    ASSUME [Next]_vars, ~PlayerSteps
    PROVE  UNCHANGED <<state, call, noVideo, mStopRead, position, mHas, kind>>
<1>1. CASE CacheFills \/ CacheEnds \/ CacheDrains
  BY <1>1 DEF CacheFills, CacheEnds, CacheDrains, playerVars, sourceVars, sessionVars
<1>2. CASE PrefillCache \/ PrepareFails \/ Prepare \/ PollBuffering \/ RestartsPoll \/ DelayPasses
  BY <1>2 DEF PrefillCache, PrepareFails, Prepare, PollBuffering, RestartsPoll, DelayPasses, playerVars,
    sourceVars, sessionVars
<1>3. CASE OnReadBuffer \/ OnChangeAVSource \/ ReadBufferReturns \/ SeeksAudio
             \/ ReadsCounterpart \/ ChangeReturns
  BY <1>3 DEF OnReadBuffer, OnChangeAVSource, ReadBufferReturns, SeeksAudio, ReadsCounterpart, ChangeReturns,
    playerVars, sourceVars, sessionVars
<1>4. CASE Reads
  BY <1>4 DEF Reads, ReadsFirstUnit, QueuesUnit, ReadsEnd, ReadWouldBlock, ReadFrame, playerVars, sessionVars
<1>5. CASE \E s \in Streams : DecoderNext(s)
  BY <1>5 DEF DecoderNext, Asks, Dequeues, AsksForMore, DecoderFrame, playerVars, sessionVars
<1>6. CASE OnBufferingNotify \/ ClientPauses \/ ClientResumes
  BY <1>6 DEF OnBufferingNotify, ClientPauses, ClientResumes, sourceVars, sessionVars
<1>7. CASE UNCHANGED vars
  BY <1>7 DEF vars, playerVars, sourceVars, sessionVars
<1> QED BY <1>1, <1>2, <1>3, <1>4, <1>5, <1>6, <1>7
     DEF Next, SourceNext, PlayerNext, ClientNext, PlayerSteps

LEMMA NextStop ==
    ASSUME ReadsTracked, TypeInv, CallInv, PrepInv, StopInv, [Next]_vars
    PROVE  StopInv'
<1> USE DEF StopInv
<1>1. mStopRead \in BOOLEAN /\ noVideo \in BOOLEAN
  BY DEF TypeInv, PlayerTypes
<1>2. CASE ~PlayerSteps
  BY <1>2, PlayerFrame
<1>3. CASE OnSeek \/ OnSelectTrack \/ SeekReturns
  <2>1. call' \in {call, "none"} /\ UNCHANGED <<state, noVideo, mStopRead>>
    BY <1>3 DEF OnSeek, OnSelectTrack, SeekReturns, sourceVars
  <2> QED BY <2>1
<1>4. CASE StopWidevine
  <2>1. call = "stop"
    BY <1>4, CallInQueue DEF StopWidevine, Calls, CallOf
  <2> QED BY <1>4, <2>1 DEF StopWidevine
<1>5. CASE PrepareAsync
  BY <1>5 DEF PrepareAsync, sourceVars, PlayerFree
<1>6. CASE OnPrepared
  <2>1. mail \in Seq(Notes)
    BY DEF TypeInv, PollTypes, Notes
  <2>2. IsAnswered /\ state # "gone"
    BY <1>6, <2>1, AnswersTail DEF OnPrepared, PlayerFree, IsAnswered
  <2>3. state = "preparing"
    BY <2>2 DEF PrepInv
  <2>4. state' \in {"prepared", "failed"} /\ UNCHANGED <<call, noVideo, mStopRead>>
          /\ call = "none"
    BY <1>6 DEF OnPrepared, sourceVars, PlayerFree
  <2> QED BY <2>3, <2>4
<1>7. CASE OnStart
  BY <1>1, <1>7 DEF OnStart, PlayerFree
<1>8. CASE SeekTo \/ SelectTrack
  BY <1>8 DEF SeekTo, SelectTrack, sourceVars
<1>9. CASE StopForVideo
  BY <1>9 DEF StopForVideo, sourceVars
<1>10. CASE Reset
  BY <1>10 DEF Reset, PlayerFree, sourceVars
<1> QED BY <1>2, <1>3, <1>4, <1>5, <1>6, <1>7, <1>8, <1>9, <1>10 DEF PlayerSteps

LEMMA InitStop == Init => StopInv
  BY DEF Init, StopInv

LEMMA NextIdle ==
    ASSUME ReadsTracked, TypeInv, PrepInv, StopInv, IdleInv, [Next]_vars
    PROVE  IdleInv'
<1>1. reader \in [Streams -> {"idle", "available", "gotUnit", "gotOther"}] /\ mHas \subseteq Streams
  BY DEF TypeInv, DataTypes, ReadsTracked, ReadingTypeOK
<1>2. CASE \E s \in Streams : DecoderNext(s)
  <2>1. PICK s \in Streams : DecoderNext(s)
    BY <1>2
  <2>2. UNCHANGED <<mHas, state, call, noVideo>>
    BY <2>1 DEF DecoderNext, Asks, Dequeues, AsksForMore, DecoderFrame, playerVars, sessionVars
  <2>3. \A t \in Streams : t # s => reader'[t] = reader[t]
    BY <1>1, <2>1 DEF DecoderNext, Asks, Dequeues, AsksForMore
  <2>4. \/ Live(s) /\ state = "started" /\ call # "seek"
        \/ reader'[s] = reader[s]
    <3>1. CASE Asks(s)
      BY <3>1 DEF Asks, DecoderRuns, Live
    <3>2. CASE Dequeues(s) \/ AsksForMore(s)
      BY <3>2 DEF Dequeues, AsksForMore, IdleInv
    <3> QED BY <2>1, <3>1, <3>2 DEF DecoderNext
  <2> QED BY <2>2, <2>3, <2>4 DEF IdleInv, Live
<1>3. CASE ~\E s \in Streams : DecoderNext(s)
  <2>1. reader' = reader
    <3>1. CASE PlayerNext \/ ClientNext
      BY <3>1 DEF PlayerNext, ClientNext, PrepareAsync, OnPrepared, OnBufferingNotify, OnStart, ClientPauses,
        ClientResumes, SeekTo, SelectTrack, StopForVideo, Reset, readerVars
    <3>2. CASE CacheFills \/ CacheEnds \/ CacheDrains \/ DelayPasses \/ UNCHANGED vars
      BY <3>2 DEF CacheFills, CacheEnds, CacheDrains, DelayPasses, vars, readerVars
    <3>3. CASE PrefillCache \/ PrepareFails \/ Prepare \/ PollBuffering \/ RestartsPoll
               \/ OnReadBuffer \/ OnSeek \/ OnSelectTrack \/ OnChangeAVSource \/ StopWidevine
      BY <3>3 DEF PrefillCache, PrepareFails, Prepare, PollBuffering, RestartsPoll, OnReadBuffer, OnSeek,
        OnSelectTrack, OnChangeAVSource, StopWidevine, readerVars
    <3>4. CASE Reads \/ ReadBufferReturns \/ SeeksAudio \/ SeekReturns \/ ReadsCounterpart
               \/ ChangeReturns
      BY <3>4 DEF Reads, ReadsFirstUnit, QueuesUnit, ReadsEnd, ReadWouldBlock, ReadFrame, ReadBufferReturns,
        SeeksAudio, SeekReturns, ReadsCounterpart, ChangeReturns, readerVars
    <3> QED BY <1>3, <3>1, <3>2, <3>3, <3>4 DEF Next, SourceNext
  <2>2. CASE ~PlayerSteps
    BY <2>1, <2>2, PlayerFrame DEF IdleInv, Live
  <2>3. CASE OnSeek \/ OnSelectTrack \/ StopWidevine \/ SeekReturns \/ SelectTrack
    <3>1. UNCHANGED <<mHas, state, noVideo>> /\ (call' = call \/ call' # "seek")
      BY <2>3 DEF OnSeek, OnSelectTrack, StopWidevine, SeekReturns, SelectTrack, sessionVars
    <3> QED BY <2>1, <3>1 DEF IdleInv, Live
  <2>4. CASE PrepareAsync \/ OnPrepared \/ OnStart
    <3>1. state # "started"
      <4>1. CASE OnPrepared
        <5>1. mail \in Seq(Notes)
          BY DEF TypeInv, PollTypes, Notes
        <5>2. IsAnswered
          BY <4>1, <5>1, AnswersTail DEF OnPrepared, IsAnswered
        <5> QED BY <5>2 DEF PrepInv
      <4> QED BY <2>4, <4>1 DEF PrepareAsync, OnStart
    <3> QED BY <2>1, <3>1 DEF IdleInv
  <2>5. CASE SeekTo \/ Reset
    <3>1. Quiet(mHas)
      BY <2>5 DEF SeekTo, Reset
    <3>2. \A s \in Streams : reader[s] = "idle"
      BY <3>1 DEF Quiet, IdleInv, Live
    <3> QED BY <2>1, <3>2 DEF IdleInv
  <2>6. CASE StopForVideo
    <3>1. reader["video"] = "idle" /\ UNCHANGED <<mHas, state>> /\ call' = "stop"
      BY <2>6 DEF StopForVideo, Quiet, sessionVars
    <3> QED BY <2>1, <3>1 DEF IdleInv, Live
  <2> QED BY <2>2, <2>3, <2>4, <2>5, <2>6 DEF PlayerSteps
<1> QED BY <1>2, <1>3

LEMMA InitIdle == Init => IdleInv
  BY DEF Init, IdleInv

\* The fields of work that a step of readBuffer() leaves.
LEMMA ReadsWork ==
    ASSUME WorkTypeOK, Reads
    PROVE  /\ work'.what = work.what /\ work'.stream = work.stream
           /\ ReadsFirstUnit => /\ work'.left = work.left /\ work'.seek = work.seek
                                /\ work'.format = work.format /\ work'.holds = TRUE
           /\ QueuesUnit => /\ work'.left = work.left - 1 /\ work'.seek = FALSE
                            /\ work'.format = FALSE /\ work'.holds = FALSE
           /\ ReadsEnd \/ ReadWouldBlock =>
                 /\ work'.left = 0 /\ work'.seek = work.seek
                 /\ work'.format = work.format /\ work'.holds = work.holds
<1>1. ReadsFirstUnit => work' = [work EXCEPT !.holds = TRUE]
  BY DEF ReadsFirstUnit
<1>2. QueuesUnit => work' = [work EXCEPT !.left = work.left - 1, !.seek = FALSE, !.format = FALSE,
                                         !.holds = FALSE]
  BY DEF QueuesUnit, WorkTypeOK
<1>3. ReadsEnd \/ ReadWouldBlock => work' = [work EXCEPT !.left = 0]
  BY DEF ReadsEnd, ReadWouldBlock
<1>4. ReadsFirstUnit \/ QueuesUnit \/ ReadsEnd \/ ReadWouldBlock
  BY DEF Reads
<1> QED BY <1>1, <1>2, <1>3, <1>4 DEF WorkTypeOK

\* readBuffer() begins.
LEMMA ReadBufferWork ==
    ASSUME ReadsTracked, TypeInv, NEW w, NEW s \in Streams, NEW seek \in BOOLEAN,
           NEW format \in BOOLEAN, ReadBuffer(w, s, seek, format)
    PROVE  /\ work'.what = w /\ work'.stream = s /\ work'.seek = seek /\ work'.format = format
           /\ work'.holds = FALSE
           /\ mStopRead => work'.left = 0
           /\ ~mStopRead => work'.left > 0
<1>1. MaxBuffers[kind][s] \in Nat \ {0}
  BY SizesAssumption DEF ReadsTracked, ReadingTypeOK
<1> QED BY <1>1 DEF ReadBuffer

\* The three reads that begin.
LEMMA BeginsWork ==
    ASSUME ReadsTracked, TypeInv, UNCHANGED mStopRead, NEW w, NEW s \in Streams,
           NEW seek \in BOOLEAN, NEW format \in BOOLEAN, ReadBuffer(w, s, seek, format),
           \/ w = "readBuffer" /\ seek = FALSE /\ format = FALSE
           \/ /\ w = "seek" /\ seek = TRUE /\ format = FALSE /\ ~mStopRead
              /\ track'[s].pos = position' /\ track'[s].time = 1
              /\ s = "video" => track'["audio"].pos = position' /\ track'["audio"].time = 1
           \/ /\ w = "changeAVSource" /\ seek = TRUE /\ format = TRUE /\ s = "audio"
              /\ track'[s].time <= NumUnits
           \/ w = "changeAVSource" /\ seek = FALSE /\ format = TRUE /\ s = "video"
    PROVE  WorkInv'
<1>1. work'.what = w /\ work'.stream = s /\ work'.holds = FALSE
  BY ReadBufferWork
<1>2. work'.seek = seek
  BY ReadBufferWork
<1>3. work'.format = format
  BY ReadBufferWork
<1>4. mStopRead' => work'.left = 0
  BY ReadBufferWork, Zenon
<1>5. ~mStopRead => work'.left > 0
  BY ReadBufferWork, Zenon
<1>6. ~mStopRead => ~mStopRead'
  BY Zenon
<1>7. NumUnits >= 1
  BY SizeFacts
<1>8. CASE w = "readBuffer" /\ seek = FALSE /\ format = FALSE
  BY <1>1, <1>2, <1>3, <1>4, <1>8 DEF WorkInv
<1>9. CASE /\ w = "seek" /\ seek = TRUE /\ format = FALSE /\ ~mStopRead
           /\ track'[s].pos = position' /\ track'[s].time = 1
           /\ s = "video" => track'["audio"].pos = position' /\ track'["audio"].time = 1
  BY <1>1, <1>2, <1>3, <1>4, <1>5, <1>6, <1>7, <1>9 DEF WorkInv
<1>10. CASE \/ /\ w = "changeAVSource" /\ seek = TRUE /\ format = TRUE /\ s = "audio"
               /\ track'[s].time <= NumUnits
            \/ w = "changeAVSource" /\ seek = FALSE /\ format = TRUE /\ s = "video"
  BY <1>1, <1>2, <1>3, <1>4, <1>10 DEF WorkInv
<1> QED BY <1>8, <1>9, <1>10

LEMMA SameReadWork ==
    ASSUME WorkInv, UNCHANGED <<work, track, position>>, ~mStopRead' \/ mStopRead
    PROVE  WorkInv'
  BY DEF WorkInv

\* A read that is under way.
LEMMA ReadsKeepWork ==
    ASSUME "seekFails" \notin Mishaps, ReadsTracked, TypeInv, WorkInv, Reads
    PROVE  WorkInv'
<1>1. WorkTypeOK /\ track \in [Streams -> Unit] /\ WorkBounds
  BY DEF ReadsTracked, ReadingTypeOK, TypeInv, DataTypes
<1>2. work.what \in {"none", "readBuffer", "seek", "changeAVSource"} /\ work.stream \in Streams
        /\ work.left \in Int /\ work.seek \in BOOLEAN /\ work.format \in BOOLEAN
        /\ work.holds \in BOOLEAN
  BY <1>1 DEF WorkTypeOK
<1>3. UNCHANGED <<position, mStopRead>>
  BY DEF Reads, ReadsFirstUnit, QueuesUnit, ReadsEnd, ReadWouldBlock, ReadFrame, playerVars
<1>4. CASE ReadsFirstUnit
  <2>1. work.left > 0 /\ (work.seek \/ work.format)
    BY <1>4 DEF ReadsFirstUnit, Reading
  <2>2. \A s \in Streams : track'[s].pos = track[s].pos /\ track'[s].time = track[s].time
    <3>1. track' = track
            \/ track' = [track EXCEPT ![work.stream] =
                            [track[work.stream] EXCEPT !.version = track[work.stream].version + 1]]
      BY <1>1, <1>2, <1>4 DEF ReadsFirstUnit, Unit
    <3> QED BY <1>1, <1>2, <3>1 DEF Unit
  <2>3. "audio" \in Streams
    BY DEF Streams
  <2> QED BY <1>1, <1>2, <1>3, <1>4, <2>1, <2>2, <2>3, ReadsWork DEF WorkInv
<1>5. CASE QueuesUnit
  <2>1. track' = [track EXCEPT ![work.stream] =
                     [track[work.stream] EXCEPT !.time = track[work.stream].time + 1]]
    BY <1>1, <1>2, <1>5 DEF QueuesUnit, Unit
  <2>2. work.stream = "video" => track'["audio"] = track["audio"]
    BY <1>1, <2>1 DEF Streams
  <2>3. work.left > 0
    BY <1>1, <1>5 DEF QueuesUnit, Reading, WorkBounds
  <2>4. work'.what = work.what /\ work'.stream = work.stream /\ work'.seek = FALSE
          /\ work'.format = FALSE /\ work'.holds = FALSE
    BY <1>1, <1>5, ReadsWork
  <2>5. ~mStopRead
    BY <1>2, <2>3 DEF WorkInv
  <2>6. ~mStopRead'
    BY <1>3, <2>5, Zenon
  <2>7. work.what # "none"
    BY <2>3 DEF WorkInv
  <2> QED BY <1>3, <2>2, <2>4, <2>6, <2>7 DEF WorkInv
<1>6. CASE ReadsEnd \/ ReadWouldBlock
  <2>1. ~work.seek
    <3>1. CASE ReadsEnd /\ track[work.stream].time > NumUnits
      <4>1. track[work.stream].time \in Int /\ NumUnits \in Int
        BY <1>1, <1>2, SizeFacts DEF Unit
      <4> QED BY <3>1, <4>1 DEF WorkInv
    <3>2. CASE ReadsEnd /\ work.what = "readBuffer"
      BY <3>2 DEF WorkInv
    <3>3. CASE ReadWouldBlock
      BY <3>3 DEF ReadWouldBlock
    <3> QED BY <1>6, <3>1, <3>2, <3>3 DEF ReadsEnd
  <2>2. track' = track
    BY <1>6 DEF ReadsEnd, ReadWouldBlock
  <2> QED BY <1>1, <1>2, <1>3, <1>6, <2>1, <2>2, ReadsWork DEF WorkInv
<1> QED BY <1>4, <1>5, <1>6 DEF Reads

LEMMA IdleWork ==
    ASSUME work' = Idle
    PROVE  WorkInv'
  BY DEF WorkInv, Idle

LEMMA LooperWork ==
    ASSUME ReadsTracked, TypeInv, CallInv, WorkInv,
           OnReadBuffer \/ OnSeek \/ OnChangeAVSource \/ StopWidevine \/ ReadBufferReturns
             \/ SeeksAudio \/ SeekReturns \/ ReadsCounterpart \/ ChangeReturns
    PROVE  WorkInv'
<1>1. track \in [Streams -> Unit] /\ "audio" \in Streams /\ "video" \in Streams
        /\ NumUnits >= 1 /\ NumUnits \in Int
        /\ mStopRead \in BOOLEAN /\ mLastDequeueTime["audio"] \in 0 .. NumUnits
  BY SizeFacts DEF TypeInv, DataTypes, PlayerTypes, Streams
<1>2. CASE ReadBufferReturns \/ SeekReturns \/ ChangeReturns
  BY <1>2, IdleWork DEF ReadBufferReturns, SeekReturns, ChangeReturns
<1>3. CASE OnReadBuffer
  <2>1. Head(inbox) \in Message
    BY <1>3, TailKeeps DEF OnReadBuffer, Take, ReadsTracked, ReadingTypeOK, Streams
  <2>2. Head(inbox).stream \in Streams
    BY <2>1 DEF Message
  <2>3. UNCHANGED mStopRead /\ ReadBuffer("readBuffer", Head(inbox).stream, FALSE, FALSE)
    BY <1>3 DEF OnReadBuffer
  <2> QED BY <2>2, <2>3, BeginsWork
<1>4. CASE OnSeek
  <2>1. UNCHANGED <<position, mStopRead>> /\ work.what = "none"
    BY <1>4 DEF OnSeek, Take, SourceRuns
  <2>2. CASE mStopRead
    BY <1>4, <2>1, <2>2, SameReadWork DEF OnSeek
  <2>3. CASE ~mStopRead
    <3>1. PICK s \in Streams : ReadBuffer("seek", s, TRUE, FALSE)
      BY <1>4, <2>3 DEF OnSeek, Streams
    <3>2. track' = [s2 \in Streams |-> [track[s2] EXCEPT !.pos = position, !.time = 1]]
      BY <1>4, <2>3 DEF OnSeek
    <3>3. \A s2 \in Streams : track'[s2].pos = position /\ track'[s2].time = 1
      BY <1>1, <3>2 DEF Unit
    <3>4. \A s2 \in Streams : track'[s2].pos = position'
      BY <2>1, <3>3
    <3> QED BY <1>1, <2>1, <2>3, <3>1, <3>3, <3>4, BeginsWork
  <2> QED BY <2>2, <2>3
<1>5. CASE OnChangeAVSource
  <2>1. UNCHANGED mStopRead /\ ReadBuffer("changeAVSource", "audio", TRUE, TRUE)
    BY <1>5 DEF OnChangeAVSource
  <2>2. track'["audio"].time <= NumUnits
    <3> DEFINE time == IF mLastDequeueTime["audio"] = 0 THEN 1 ELSE mLastDequeueTime["audio"]
               new == [track["audio"] EXCEPT !.version = track["audio"].version + 1, !.time = time]
    <3>1. track' = [track EXCEPT !["audio"] = new]
      BY <1>1, <1>5 DEF OnChangeAVSource, Unit
    <3>2. new.time = time /\ time <= NumUnits
      BY <1>1 DEF Unit
    <3> QED BY <1>1, <3>1, <3>2
  <2> QED BY <1>1, <2>1, <2>2, BeginsWork
<1>6. CASE StopWidevine
  <2>1. work.what = "none" /\ UNCHANGED <<work, track, position>>
    BY <1>6 DEF StopWidevine, Take, SourceRuns
  <2> QED BY <2>1 DEF WorkInv
<1>7. CASE SeeksAudio
  <2>1. work.what = "seek" /\ work.stream = "video" /\ UNCHANGED <<mStopRead, track, position>>
          /\ ReadBuffer("seek", "audio", TRUE, FALSE)
    BY <1>7 DEF SeeksAudio, Returns, playerVars
  <2>2. ~mStopRead /\ track["audio"].pos = position /\ track["audio"].time = 1
    BY <2>1 DEF WorkInv
  <2>3. track'["audio"].pos = position' /\ track'["audio"].time = 1
    BY <2>1, <2>2
  <2> QED BY <1>1, <2>1, <2>2, <2>3, BeginsWork
<1>8. CASE ReadsCounterpart
  <2>1. UNCHANGED <<mStopRead, track, position>>
          /\ ReadBuffer("changeAVSource", "video", FALSE, TRUE)
    BY <1>8 DEF ReadsCounterpart, playerVars
  <2> QED BY <1>1, <2>1, BeginsWork
<1> QED BY <1>2, <1>3, <1>4, <1>5, <1>6, <1>7, <1>8

LEMMA NextWork ==
    ASSUME "seekFails" \notin Mishaps, ReadsTracked, TypeInv, CallInv, WorkInv, [Next]_vars
    PROVE  WorkInv'
<1>1. CASE Reads
  BY <1>1, ReadsKeepWork
<1>2. CASE OnReadBuffer \/ OnSeek \/ OnChangeAVSource \/ StopWidevine \/ ReadBufferReturns
             \/ SeeksAudio \/ SeekReturns \/ ReadsCounterpart \/ ChangeReturns
  BY <1>2, LooperWork
<1>3. CASE CacheFills \/ CacheEnds \/ CacheDrains \/ PrefillCache \/ PrepareFails \/ Prepare
             \/ PollBuffering \/ RestartsPoll \/ DelayPasses \/ OnSelectTrack
  <2>1. UNCHANGED <<work, track, position, mStopRead>>
    BY <1>3 DEF CacheFills, CacheEnds, CacheDrains, PrefillCache, PrepareFails, Prepare, PollBuffering,
      RestartsPoll, DelayPasses, OnSelectTrack, sourceVars, playerVars
  <2>2. ~mStopRead' \/ mStopRead
    BY <2>1, Zenon
  <2> QED BY <2>1, <2>2, SameReadWork
<1>4. CASE \E s \in Streams : DecoderNext(s)
  BY <1>4, SameReadWork DEF DecoderNext, Asks, Dequeues, AsksForMore, DecoderFrame, playerVars
<1>5. CASE PlayerNext \/ ClientNext
  <2>1. CASE SeekTo
    <3>1. work.what # "seek" /\ UNCHANGED <<work, track, mStopRead>>
      BY <2>1 DEF SeekTo, PlayerFree, CallInv, sourceVars
    <3> QED BY <3>1 DEF WorkInv
  <2>2. CASE PrepareAsync \/ OnPrepared \/ OnBufferingNotify \/ ClientPauses \/ ClientResumes
               \/ SelectTrack \/ StopForVideo \/ Reset
    BY <2>2, SameReadWork DEF PrepareAsync, OnPrepared, OnBufferingNotify, ClientPauses, ClientResumes,
      SelectTrack, StopForVideo, Reset, sourceVars
  <2>3. CASE OnStart
    BY <2>3, SameReadWork DEF OnStart
  <2> QED BY <1>5, <2>1, <2>2, <2>3 DEF PlayerNext, ClientNext
<1>6. CASE UNCHANGED vars
  BY <1>6, SameReadWork DEF vars, sourceVars, playerVars
<1> QED BY <1>1, <1>2, <1>3, <1>4, <1>5, <1>6 DEF Next, SourceNext

LEMMA InitWork == Init => WorkInv
  BY DEF Init, WorkInv, Idle

-----------------------------------------------------------------------------
(* The order of the units of a stream.                                       *)

Item == Unit \cup {FormatChange}

\* v may be delivered after u.
Follows(s, u, v) == Units!Continues(u, v) \/ Units!Begins(s, u, v) \/ Units!Switches(s, u, v)

\* From the first unit of a queue on each unit is the next of its track, and that first
\* unit may be delivered after u.
Runs(q) == \A i \in 1 .. Len(q) - 1 : q[i] # FormatChange => Units!Continues(q[i], q[i + 1])
Leads(s, u, q) ==
    \A i \in 1 .. Len(q) :
        q[i] # FormatChange /\ (\A j \in 1 .. i - 1 : q[j] = FormatChange) => Follows(s, u, q[i])

LEMMA ContinuesUnit ==
    ASSUME NEW u \in Unit, NEW v, Units!Continues(u, v)
    PROVE  v # FormatChange
  BY DEF Unit, FormatChange, Units!Continues

LEMMA AppendParts ==
    ASSUME NEW T, NEW q \in Seq(T), NEW t \in T
    PROVE  /\ Append(q, t) \in Seq(T) /\ Len(Append(q, t)) = Len(q) + 1 /\ Len(q) \in Nat
           /\ Append(q, t)[Len(q) + 1] = t /\ \A i \in 1 .. Len(q) : Append(q, t)[i] = q[i]
  OBVIOUS

LEMMA LinePrefix ==
    ASSUME NEW q \in Seq(Item), NEW t \in Item, NEW s, NEW u,
           Runs(Append(q, t)), Leads(s, u, Append(q, t))
    PROVE  Runs(q) /\ Leads(s, u, q)
<1> DEFINE l == Append(q, t)
<1>1. /\ Len(l) = Len(q) + 1 /\ Len(q) \in Nat
      /\ \A i \in 1 .. Len(q) : l[i] = q[i]
  BY AppendParts
<1>2. Runs(l) /\ Leads(s, u, l)
  OBVIOUS
<1> HIDE DEF l
<1>3. Runs(q)
  BY <1>1, <1>2 DEF Runs
<1>4. Leads(s, u, q)
  <2> SUFFICES ASSUME NEW i \in 1 .. Len(q), q[i] # FormatChange,
                      \A j \in 1 .. i - 1 : q[j] = FormatChange
               PROVE  Follows(s, u, q[i])
    BY DEF Leads
  <2>1. i \in 1 .. Len(l) /\ l[i] = q[i] /\ \A j \in 1 .. i - 1 : l[j] = q[j]
    BY <1>1
  <2> QED BY <1>2, <2>1 DEF Leads
<1> QED BY <1>3, <1>4

LEMMA LineExtends ==
    ASSUME NEW q \in Seq(Item), NEW t \in Unit, NEW n \in Item, NEW s, NEW u,
           Units!Continues(t, n), Runs(Append(q, t)), Leads(s, u, Append(q, t))
    PROVE  Runs(Append(Append(q, t), n)) /\ Leads(s, u, Append(Append(q, t), n))
<1> DEFINE l == Append(q, t)
           m == Append(l, n)
<1>1. t \in Item /\ t # FormatChange
  BY DEF Item, Unit, FormatChange
<1>2. /\ Len(l) = Len(q) + 1 /\ Len(q) \in Nat /\ l \in Seq(Item) /\ l[Len(q) + 1] = t
      /\ \A i \in 1 .. Len(q) : l[i] = q[i]
  BY <1>1, AppendParts
<1>3. Runs(l) /\ Leads(s, u, l)
  OBVIOUS
<1> HIDE DEF l
<1>4. /\ Len(m) = Len(l) + 1 /\ Len(l) \in Nat /\ m[Len(l) + 1] = n
      /\ \A i \in 1 .. Len(l) : m[i] = l[i]
  BY <1>2, AppendParts
<1> HIDE DEF m
<1>5. Runs(m)
  <2> SUFFICES ASSUME NEW i \in 1 .. Len(m) - 1, m[i] # FormatChange
               PROVE  Units!Continues(m[i], m[i + 1])
    BY DEF Runs
  <2>1. CASE i = Len(l)
    BY <1>2, <1>4, <2>1
  <2>2. CASE i # Len(l)
    <3>1. i \in 1 .. Len(l) - 1 /\ m[i] = l[i] /\ m[i + 1] = l[i + 1]
      BY <1>4, <2>2
    <3> QED BY <1>3, <3>1 DEF Runs
  <2> QED BY <2>1, <2>2
<1>6. Leads(s, u, m)
  <2> SUFFICES ASSUME NEW i \in 1 .. Len(m), m[i] # FormatChange,
                      \A j \in 1 .. i - 1 : m[j] = FormatChange
               PROVE  Follows(s, u, m[i])
    BY DEF Leads
  <2>1. i # Len(m)
    <3> SUFFICES ASSUME i = Len(m) PROVE FALSE
      OBVIOUS
    <3>1. Len(l) \in 1 .. i - 1 /\ m[Len(l)] = t
      BY <1>2, <1>4
    <3> QED BY <1>1, <3>1
  <2>2. i \in 1 .. Len(l) /\ l[i] = m[i] /\ \A j \in 1 .. i - 1 : l[j] = m[j]
    BY <1>4, <2>1
  <2> QED BY <1>3, <2>2 DEF Leads
<1> QED BY <1>5, <1>6 DEF l, m

\* Only announcements are before t.
LEMMA FreshLine ==
    ASSUME NEW q \in Seq({FormatChange}), NEW t, NEW s, NEW u, Follows(s, u, t)
    PROVE  Runs(Append(q, t)) /\ Leads(s, u, Append(q, t))
<1> DEFINE l == Append(q, t)
<1>1. /\ Len(l) = Len(q) + 1 /\ Len(q) \in Nat /\ l[Len(q) + 1] = t
      /\ \A i \in 1 .. Len(q) : l[i] = FormatChange
  BY AppendParts, \A i \in 1 .. Len(q) : q[i] \in {FormatChange}, q \in Seq({FormatChange, t})
<1> HIDE DEF l
<1>2. Runs(l)
  BY <1>1 DEF Runs
<1>3. Leads(s, u, l)
  BY <1>1 DEF Leads
<1> QED BY <1>2, <1>3 DEF l

LEMMA LineTail ==
    ASSUME NEW l \in Seq(Item), l # <<>>, NEW s, NEW u, Runs(l), Leads(s, u, l)
    PROVE  /\ Runs(Tail(l))
           /\ Head(l) = FormatChange => Leads(s, u, Tail(l))
           /\ Head(l) # FormatChange => Follows(s, u, Head(l)) /\ Leads(s, Head(l), Tail(l))
<1> DEFINE r == Tail(l)
<1>1. /\ Len(r) = Len(l) - 1 /\ Len(l) \in Nat /\ Len(l) > 0 /\ Head(l) = l[1] /\ l[1] \in Item
      /\ \A i \in 1 .. Len(r) : r[i] = l[i + 1]
  OBVIOUS
<1> HIDE DEF r
<1>2. Runs(r)
  BY <1>1 DEF Runs
<1>3. ASSUME l[1] = FormatChange
      PROVE  Leads(s, u, r)
  <2> SUFFICES ASSUME NEW i \in 1 .. Len(r), r[i] # FormatChange,
                      \A j \in 1 .. i - 1 : r[j] = FormatChange
               PROVE  Follows(s, u, r[i])
    BY DEF Leads
  <2>1. i + 1 \in 1 .. Len(l) /\ l[i + 1] = r[i]
    BY <1>1
  <2>2. \A j \in 1 .. (i + 1) - 1 : l[j] = FormatChange
    <3> SUFFICES ASSUME NEW j \in 1 .. (i + 1) - 1, j # 1
                 PROVE  l[j] = FormatChange
      BY <1>3
    <3>1. j - 1 \in 1 .. i - 1 /\ j - 1 \in 1 .. Len(r) /\ (j - 1) + 1 = j
      BY <1>1
    <3> QED BY <1>1, <3>1
  <2> QED BY <2>1, <2>2 DEF Leads
<1>4. ASSUME l[1] # FormatChange
      PROVE  Follows(s, u, l[1]) /\ Leads(s, l[1], r)
  <2>1. Follows(s, u, l[1])
    BY <1>1, <1>4 DEF Leads
  <2>2. ASSUME NEW i \in 1 .. Len(r), r[i] # FormatChange,
               \A j \in 1 .. i - 1 : r[j] = FormatChange
        PROVE  Follows(s, l[1], r[i])
    <3>1. Units!Continues(l[1], r[1])
      BY <1>1, <1>4 DEF Runs
    <3>2. l[1] \in Unit
      BY <1>1, <1>4 DEF Item
    <3>3. r[1] # FormatChange
      BY <3>1, <3>2, ContinuesUnit
    <3>4. i = 1
      BY <2>2, <3>3, <1>1
    <3> QED BY <3>1, <3>4 DEF Follows
  <2> QED BY <2>1, <2>2 DEF Leads
<1> QED BY <1>1, <1>2, <1>3, <1>4 DEF r

LEMMA AppendRest ==
    ASSUME NEW T, NEW q \in Seq(T), NEW t \in T, q # <<>>
    PROVE  /\ Append(q, t) # <<>> /\ Head(Append(q, t)) = Head(q)
           /\ Tail(Append(q, t)) = Append(Tail(q), t)
<1> DEFINE l == Append(q, t)
           a == Tail(l)
           b == Append(Tail(q), t)
<1>1. l # <<>> /\ Head(l) = Head(q) /\ Tail(q) \in Seq(T)
  OBVIOUS
<1>2. a \in Seq(T) /\ b \in Seq(T) /\ Len(a) = Len(q) /\ Len(b) = Len(q) /\ Len(q) \in Nat
  OBVIOUS
<1>3. \A i \in 1 .. Len(q) : a[i] = b[i]
  OBVIOUS
<1> HIDE DEF a, b, l
<1>4. a = b
  BY <1>2, <1>3
<1> QED BY <1>1, <1>4 DEF a, b, l

-----------------------------------------------------------------------------
(* What a stream's queue holds.                                              *)

\* Nothing of the audio is read any more.
Dead == mStopRead /\ noVideo

\* The queue of s is about to be dropped for the first unit of another position or track.
Awaits(s) == work.seek /\ work.stream = s /\ ~work.holds /\ work.left > 0

\* What is queued for s is of the position before the seek the player waits for.
Before == call = "seek" /\ work.what # "seek"
Stale(s) ==
    Before \/ (call = "seek" /\ (Awaits(s) \/ (s = "audio" /\ work.stream = "video")))

\* What the decoder is going to get: the queue, and the unit that is read next.
Line(s) == IF Awaits(s) \/ Dead THEN mBuffers[s] ELSE Append(mBuffers[s], track[s])

\* The new audio track starts at u or behind it.
Superseded(u) ==
    /\ u.version < track["audio"].version
    /\ u.pos = position => track["audio"].time <= u.time + 1
    /\ u.pos # position => track["audio"].time <= 1

PosInv(s) == /\ Before => track[s].pos < position
             /\ ~Before => track[s].pos = position
UnitInv(s) ==
    /\ unit[s].pos <= position /\ unit[s].version <= track[s].version /\ track[s].time >= 1
    /\ call = "seek" => unit[s].pos < position
    /\ s = "video" /\ unit[s].pos = track[s].pos => unit[s].time < track[s].time
ItemInv(s, b) ==
    /\ b.pos = position /\ b.version <= track[s].version
    /\ s = "video" => b.time < track[s].time
    /\ Awaits(s) => Superseded(b)
LineInv(s) ==
    /\ Runs(Line(s)) /\ Leads(s, unit[s], Line(s))
    /\ \A i \in 1 .. Len(mBuffers[s]) :
          mBuffers[s][i] # FormatChange => ItemInv(s, mBuffers[s][i])
    /\ Awaits(s) => Superseded(unit[s])
GotInv(s) == reader[s] = "gotUnit" => unit[s].pos = position
StreamInv(s) == PosInv(s) /\ UnitInv(s) /\ GotInv(s) /\ (~Stale(s) => LineInv(s))

\* Until the start nothing has been read.
UnreadInv ==
    mStopRead /\ ~noVideo =>
        /\ position = 0
        /\ \A s \in Streams : /\ mBuffers[s] = <<>> /\ mLastDequeueTime[s] = 0
                              /\ track[s].time = 1 /\ unit[s] = [pos |-> 0, version |-> 0, time |-> 0]
\* After a seek the audio track is changed from the beginning of the position.
LastInv ==
    Live("audio") /\ call # "seek" /\ unit["audio"].pos < position => mLastDequeueTime["audio"] <= 1

Control == TypeInv /\ CallInv /\ PrepInv /\ StopInv /\ IdleInv /\ WorkInv
Lines == \A s \in Streams : Live(s) => StreamInv(s)

LEMMA SameStream ==
    ASSUME NEW s \in Streams, StreamInv(s), UNCHANGED <<position, track>>,
           mBuffers'[s] = mBuffers[s], unit'[s] = unit[s],
           Before' <=> Before, Stale(s)' <=> Stale(s), Awaits(s)' <=> Awaits(s),
           Line(s)' = Line(s), call' = "seek" => call = "seek",
           reader'[s] = "gotUnit" => reader[s] = "gotUnit"
    PROVE  StreamInv(s)'
<1>1. PosInv(s)'
  BY DEF StreamInv, PosInv
<1>2. UnitInv(s)' /\ GotInv(s)'
  BY DEF StreamInv, UnitInv, GotInv
<1>3. ASSUME ~Stale(s)' PROVE LineInv(s)'
  <2> USE <1>3
  <2>1. LineInv(s)
    BY DEF StreamInv
  <2>2. Runs(Line(s)') /\ Leads(s, unit'[s], Line(s)')
    BY <2>1 DEF LineInv
  <2>3. Runs(Line(s))' /\ Leads(s, unit[s], Line(s))'
    BY <2>2 DEF Runs, Leads, Follows, Units!Begins, Units!Continues, Units!Switches
  <2>4. \A u : Superseded(u)' <=> Superseded(u)
    BY DEF Superseded
  <2>5. \A b : ItemInv(s, b)' <=> ItemInv(s, b)
    BY <2>4 DEF ItemInv
  <2> QED BY <2>1, <2>3, <2>4, <2>5 DEF LineInv
<1> QED BY <1>1, <1>2, <1>3 DEF StreamInv

\* Steps that read nothing.
LEMMA SameLines ==
    ASSUME NEW s \in Streams, StreamInv(s), UNCHANGED <<position, track, mBuffers, unit, work>>,
           call' = "seek" <=> call = "seek", Dead' <=> Dead,
           reader'[s] = "gotUnit" => reader[s] = "gotUnit"
    PROVE  StreamInv(s)'
<1>1. Awaits(s)' <=> Awaits(s)
  BY DEF Awaits
<1>2. Before' <=> Before
  BY DEF Before
<1>3. Stale(s)' <=> Stale(s)
  BY <1>1, <1>2 DEF Stale
<1>4. Line(s)' = Line(s)
  BY <1>1, Zenon DEF Line
<1> QED BY <1>1, <1>2, <1>3, <1>4, SameStream

\* Steps of readBuffer() that leave the queue of s.
LEMMA OtherWork ==
    ASSUME NEW s \in Streams, StreamInv(s),
           UNCHANGED <<position, track, mBuffers, unit, call, reader, mStopRead, noVideo>>,
           ~Awaits(s), ~Awaits(s)',
           call = "seek" => UNCHANGED <<work.what, work.stream>> \/ ~(work.what = "seek" \/ work'.what = "seek")
    PROVE  StreamInv(s)'
<1>1. Awaits(s)' <=> Awaits(s)
  OBVIOUS
<1>2. Before' <=> Before
  BY DEF Before
<1>3. Stale(s)' <=> Stale(s)
  BY <1>1, <1>2 DEF Stale, Before
<1>4. Dead' <=> Dead
  BY Zenon DEF Dead
<1>5. Line(s)' = Line(s)
  BY <1>1, <1>4, Zenon DEF Line
<1> QED BY <1>1, <1>2, <1>3, <1>5, SameStream

LEMMA LiveStays ==
    ASSUME [Next]_vars, NEW s, Live(s)'
    PROVE  Live(s)
<1>1. CASE ~PlayerSteps
  <2>1. UNCHANGED <<noVideo, mHas>>
    BY <1>1, PlayerFrame
  <2> QED BY <2>1, Zenon DEF Live
<1>2. CASE OnSeek \/ OnSelectTrack \/ StopWidevine \/ SeekReturns \/ PrepareAsync \/ OnPrepared
             \/ OnStart \/ SeekTo \/ SelectTrack \/ Reset
  <2>1. UNCHANGED <<noVideo, mHas>>
    BY <1>2 DEF OnSeek, OnSelectTrack, StopWidevine, SeekReturns, PrepareAsync, OnPrepared, OnStart, SeekTo,
      SelectTrack, Reset, sessionVars
  <2> QED BY <2>1, Zenon DEF Live
<1>3. CASE StopForVideo
  <2>1. noVideo = FALSE /\ mHas' = mHas
    BY <1>3 DEF StopForVideo, sessionVars
  <2> QED BY <2>1, Zenon DEF Live
<1> QED BY <1>1, <1>2, <1>3 DEF PlayerSteps

\* Steps that read nothing and deliver nothing.
StillSteps ==
    \/ CacheFills \/ CacheEnds \/ CacheDrains
    \/ PrefillCache \/ PrepareFails \/ Prepare \/ PollBuffering \/ RestartsPoll \/ DelayPasses
    \/ OnSelectTrack \/ (\E s \in Streams : Asks(s) \/ AsksForMore(s))
    \/ PrepareAsync \/ OnPrepared \/ OnBufferingNotify \/ OnStart
    \/ ClientPauses \/ ClientResumes \/ SelectTrack \/ StopForVideo \/ Reset
    \/ UNCHANGED vars

LEMMA StillFrame ==
    ASSUME StillSteps
    PROVE  UNCHANGED <<position, track, mBuffers, unit, work>>
<1>1. CASE CacheFills \/ CacheEnds \/ CacheDrains \/ PrefillCache \/ PrepareFails \/ Prepare
             \/ PollBuffering \/ RestartsPoll \/ DelayPasses \/ OnSelectTrack
  BY <1>1 DEF CacheFills, CacheEnds, CacheDrains, PrefillCache, PrepareFails, Prepare, PollBuffering,
    RestartsPoll, DelayPasses, OnSelectTrack, sourceVars, playerVars, packetVars, readerVars
<1>2. CASE \E s \in Streams : Asks(s) \/ AsksForMore(s)
  BY <1>2 DEF Asks, AsksForMore, DecoderFrame, playerVars
<1>3. CASE PrepareAsync \/ OnPrepared \/ OnBufferingNotify \/ OnStart \/ ClientPauses
             \/ ClientResumes \/ SelectTrack \/ StopForVideo \/ Reset
  BY <1>3 DEF PrepareAsync, OnPrepared, OnBufferingNotify, OnStart, ClientPauses, ClientResumes, SelectTrack,
    StopForVideo, Reset, sourceVars, packetVars, readerVars
<1>4. CASE UNCHANGED vars
  BY <1>4 DEF vars, sourceVars, playerVars, packetVars, readerVars
<1> QED BY <1>1, <1>2, <1>3, <1>4 DEF StillSteps

LEMMA StillReaders ==
    ASSUME TypeInv, StillSteps, NEW s \in Streams, reader'[s] = "gotUnit"
    PROVE  reader[s] = "gotUnit"
<1>1. reader \in [Streams -> {"idle", "available", "gotUnit", "gotOther"}]
  BY DEF TypeInv, DataTypes
<1>2. CASE \E t \in Streams : Asks(t) \/ AsksForMore(t)
  BY <1>1, <1>2 DEF Asks, AsksForMore
<1>3. CASE reader' = reader
  BY <1>3
<1>4. CASE CacheFills \/ CacheEnds \/ CacheDrains \/ PrefillCache \/ PrepareFails \/ Prepare
             \/ PollBuffering \/ RestartsPoll \/ DelayPasses \/ OnSelectTrack
  <2>1. reader' = reader
    BY <1>4 DEF CacheFills, CacheEnds, CacheDrains, PrefillCache, PrepareFails, Prepare, PollBuffering,
      RestartsPoll, DelayPasses, OnSelectTrack, readerVars
  <2> QED BY <2>1, <1>3
<1>5. CASE PrepareAsync \/ OnPrepared \/ OnBufferingNotify \/ OnStart \/ ClientPauses
             \/ ClientResumes \/ SelectTrack \/ StopForVideo \/ Reset \/ UNCHANGED vars
  <2>1. reader' = reader
    BY <1>5 DEF PrepareAsync, OnPrepared, OnBufferingNotify, OnStart, ClientPauses, ClientResumes,
      SelectTrack, StopForVideo, Reset, readerVars, vars
  <2> QED BY <2>1, <1>3
<1> QED BY <1>2, <1>4, <1>5 DEF StillSteps

LEMMA StillCall ==
    ASSUME ReadsTracked, CallInv, StopInv, StillSteps
    PROVE  (call' = "seek" <=> call = "seek") /\ (Dead' <=> Dead)
<1>1. CASE CacheFills \/ CacheEnds \/ CacheDrains \/ PrefillCache \/ PrepareFails \/ Prepare
             \/ PollBuffering \/ RestartsPoll \/ DelayPasses
             \/ (\E s \in Streams : Asks(s) \/ AsksForMore(s))
             \/ PrepareAsync \/ OnPrepared \/ OnBufferingNotify
             \/ ClientPauses \/ ClientResumes \/ Reset \/ UNCHANGED vars
  <2>1. UNCHANGED <<call, mStopRead, noVideo>>
    BY <1>1 DEF CacheFills, CacheEnds, CacheDrains, PrefillCache, PrepareFails, Prepare, PollBuffering,
      RestartsPoll, DelayPasses, Asks, AsksForMore, DecoderFrame, PrepareAsync, OnPrepared, OnBufferingNotify,
      ClientPauses, ClientResumes, Reset, vars, playerVars, sourceVars
  <2> QED BY <2>1, Zenon DEF Dead
<1>2. CASE OnSelectTrack
  <2>1. call = "selectTrack"
    BY <1>2, CallInQueue DEF OnSelectTrack, Calls, CallOf
  <2>2. call' = "none" /\ UNCHANGED <<mStopRead, noVideo>>
    BY <1>2 DEF OnSelectTrack, sourceVars
  <2>3. Dead' <=> Dead
    BY <2>2, Zenon DEF Dead
  <2> QED BY <2>1, <2>2, <2>3
<1>3. CASE OnStart
  <2>1. noVideo = FALSE
    BY <1>3 DEF OnStart, StopInv
  <2>2. UNCHANGED <<call, noVideo>>
    BY <1>3 DEF OnStart
  <2>3. Dead' <=> Dead
    BY <2>1, <2>2, Zenon DEF Dead
  <2> QED BY <2>2, <2>3
<1>4. CASE SelectTrack
  <2>1. call' = "selectTrack" /\ call = "none" /\ UNCHANGED <<mStopRead, noVideo>>
    BY <1>4 DEF SelectTrack, PlayerFree, sourceVars
  <2>2. Dead' <=> Dead
    BY <2>1, Zenon DEF Dead
  <2> QED BY <2>1, <2>2
<1>5. CASE StopForVideo
  <2>1. call' = "stop" /\ call = "none" /\ ~noVideo /\ state = "started" /\ mStopRead' = mStopRead
    BY <1>5 DEF StopForVideo, PlayerFree, sourceVars
  <2>2. mStopRead = FALSE \/ ~mStopRead
    BY <2>1, Zenon DEF StopInv
  <2>3. Dead' <=> Dead
    BY <2>1, <2>2, Zenon DEF Dead
  <2> QED BY <2>1, <2>3
<1> QED BY <1>1, <1>2, <1>3, <1>4, <1>5 DEF StillSteps

LEMMA StillLines ==
    ASSUME ReadsTracked, Control, Lines, [Next]_vars, StillSteps
    PROVE  Lines'
<1> SUFFICES ASSUME NEW s \in Streams, Live(s)'
             PROVE  StreamInv(s)'
  BY DEF Lines
<1>1. StreamInv(s)
  BY LiveStays DEF Lines
<1> QED BY <1>1, StillFrame, StillReaders, StillCall, SameLines DEF Control

\* Steps of readBuffer() that take no unit.
LEMMA WaitingLines ==
    ASSUME "seekFails" \notin Mishaps, ReadsTracked, Control, Lines, [Next]_vars,
           \/ OnReadBuffer \/ ReadBufferReturns \/ ReadsCounterpart \/ ChangeReturns
           \/ ReadsEnd \/ ReadWouldBlock
    PROVE  Lines'
<1> SUFFICES ASSUME NEW s \in Streams, Live(s)'
             PROVE  StreamInv(s)'
  BY DEF Lines
<1>1. StreamInv(s)
  BY LiveStays DEF Lines
<1>2. UNCHANGED <<position, track, mBuffers, unit, call, reader, mStopRead, noVideo>>
  BY DEF OnReadBuffer, ReadBufferReturns, ReadsCounterpart, ChangeReturns, ReadsEnd, ReadWouldBlock,
    ReadFrame, playerVars, sourceVars, packetVars, readerVars
<1>3. WorkTypeOK /\ WorkInv
  BY DEF Control, ReadsTracked, ReadingTypeOK
<1>4. CASE OnReadBuffer
  <2>1. work.what = "none" /\ work'.what = "readBuffer" /\ work'.seek = FALSE
    BY <1>4 DEF OnReadBuffer, Take, SourceRuns, ReadBuffer
  <2>2. ~Awaits(s) /\ ~Awaits(s)'
    BY <2>1, <1>3 DEF Awaits, WorkInv
  <2> QED BY <1>1, <1>2, <2>1, <2>2, OtherWork
<1>5. CASE ReadBufferReturns \/ ChangeReturns
  <2>1. work.left = 0 /\ work.what # "seek" /\ work' = Idle
    BY <1>5 DEF ReadBufferReturns, ChangeReturns, Returns
  <2>2. ~Awaits(s) /\ ~Awaits(s)' /\ work'.what = "none"
    BY <2>1 DEF Awaits, Idle
  <2> QED BY <1>1, <1>2, <2>1, <2>2, OtherWork
<1>6. CASE ReadsCounterpart
  <2>1. work.left = 0 /\ work.what = "changeAVSource" /\ work'.what = "changeAVSource"
          /\ work'.seek = FALSE
    BY <1>6 DEF ReadsCounterpart, Returns, ReadBuffer
  <2>2. ~Awaits(s) /\ ~Awaits(s)'
    BY <2>1 DEF Awaits
  <2> QED BY <1>1, <1>2, <2>1, <2>2, OtherWork
<1>7. CASE ReadsEnd \/ ReadWouldBlock
  <2>1. UNCHANGED <<work.what, work.stream>> /\ work'.left = 0
    BY <1>3, <1>7, ReadsWork DEF Reads
  <2>2. ~work.seek
    <3>1. CASE ReadsEnd /\ track[work.stream].time > NumUnits
      <4>1. track[work.stream].time \in Int /\ NumUnits \in Int
        BY <1>3, SizeFacts DEF Control, TypeInv, DataTypes, Unit, WorkTypeOK
      <4> QED BY <1>3, <3>1, <4>1 DEF WorkInv
    <3>2. CASE ReadsEnd /\ work.what = "readBuffer"
      BY <1>3, <3>2 DEF WorkInv
    <3>3. CASE ReadWouldBlock
      BY <3>3 DEF ReadWouldBlock
    <3> QED BY <1>7, <3>1, <3>2, <3>3 DEF ReadsEnd
  <2>3. ~Awaits(s) /\ ~Awaits(s)'
    BY <2>1, <2>2 DEF Awaits
  <2> QED BY <1>1, <1>2, <2>1, <2>3, OtherWork
<1> QED BY <1>4, <1>5, <1>6, <1>7

LEMMA LineTypes ==
    ASSUME TypeInv, NEW s \in Streams
    PROVE  /\ mBuffers[s] \in Seq(Item) /\ track[s] \in Unit /\ track[s] \in Item
           /\ unit[s] \in Taken /\ Line(s) \in Seq(Item)
<1>1. mBuffers[s] \in Seq(Taken \cup {FormatChange}) /\ track[s] \in Unit /\ unit[s] \in Taken
  BY DEF TypeInv, DataTypes
<1>2. Taken \subseteq Unit
  BY SizeFacts DEF Taken, Unit
<1>3. mBuffers[s] \in Seq(Item) /\ track[s] \in Item
  BY <1>1, <1>2 DEF Item
<1>4. Append(mBuffers[s], track[s]) \in Seq(Item)
  BY <1>3
<1>5. Line(s) \in {mBuffers[s], Append(mBuffers[s], track[s])}
  BY DEF Line
<1> QED BY <1>1, <1>3, <1>4, <1>5

\* A unit or an announcement in the queue.
LEMMA ItemTypes ==
    ASSUME TypeInv, NEW s \in Streams, NEW i \in 1 .. Len(mBuffers[s]),
           mBuffers[s][i] # FormatChange
    PROVE  mBuffers[s][i] \in Taken
<1>1. mBuffers[s] \in Seq(Taken \cup {FormatChange})
  BY DEF TypeInv, DataTypes
<1> QED BY <1>1

LEMMA UnitRanges ==
    ASSUME NEW u \in Unit
    PROVE  u.pos \in Int /\ u.version \in Int /\ u.time \in Int /\ u.version >= 0 /\ u.time >= 0
             /\ u.pos >= 0 /\ u # FormatChange
  BY SizeFacts DEF Unit, FormatChange

LEMMA TakenIsUnit == Taken \subseteq Unit
  BY SizeFacts DEF Taken, Unit

\* The stream that is not being read.
LEMMA OtherStream ==
    ASSUME NEW s \in Streams, StreamInv(s), UNCHANGED <<position, unit, call, reader>>,
           mBuffers'[s] = mBuffers[s], track'[s] = track[s], ~Awaits(s), ~Awaits(s)',
           Before' <=> Before, Stale(s)' <=> Stale(s), Dead' <=> Dead
    PROVE  StreamInv(s)'
<1>1. Line(s)' = Line(s)
  BY Zenon DEF Line
<1>2. PosInv(s)' /\ UnitInv(s)' /\ GotInv(s)'
  BY DEF StreamInv, PosInv, UnitInv, GotInv
<1>3. ASSUME ~Stale(s)' PROVE LineInv(s)'
  <2>1. LineInv(s)
    BY <1>3 DEF StreamInv
  <2>2. Runs(Line(s))' /\ Leads(s, unit[s], Line(s))'
    BY <1>1, <2>1 DEF LineInv, Runs, Leads, Follows, Units!Begins, Units!Continues, Units!Switches
  <2>3. \A b : ItemInv(s, b) => ItemInv(s, b)'
    BY DEF ItemInv
  <2> QED BY <2>1, <2>2, <2>3 DEF LineInv
<1> QED BY <1>2, <1>3 DEF StreamInv

LEMMA QueuesLines ==
    ASSUME ReadsTracked, Control, Lines, [Next]_vars, QueuesUnit
    PROVE  Lines'
<1> SUFFICES ASSUME NEW s \in Streams, Live(s)'
             PROVE  StreamInv(s)'
  BY DEF Lines
<1>1. StreamInv(s)
  BY LiveStays DEF Lines
<1>2. UNCHANGED <<position, unit, call, reader, mStopRead, noVideo>>
  BY DEF QueuesUnit, ReadFrame, playerVars, readerVars
<1>3. WorkTypeOK /\ WorkInv /\ TypeInv /\ work.stream \in Streams
  BY DEF Control, ReadsTracked, ReadingTypeOK, WorkTypeOK
<1>4. work'.what = work.what /\ work'.stream = work.stream /\ work'.seek = FALSE
  BY <1>3, ReadsWork DEF Reads
<1>5. work.left > 0
  BY <1>3 DEF QueuesUnit, Reading, TypeInv, WorkBounds
<1>6. \A t : ~Awaits(t) /\ ~Awaits(t)'
  BY <1>4 DEF QueuesUnit, Awaits
<1>7. Before' <=> Before
  BY <1>2, <1>4 DEF Before
<1>8. \A t : Stale(t)' <=> Stale(t)
  BY <1>2, <1>4, <1>6, <1>7 DEF Stale
<1>9. ~mStopRead
  BY <1>3, <1>5 DEF WorkInv
<1>10. ~Dead /\ ~Dead'
  BY <1>2, <1>9, Zenon DEF Dead
<1> DEFINE t == track[work.stream]
           n == [t EXCEPT !.time = t.time + 1]
<1>11. t \in Unit /\ t.time \in Int
  BY <1>3, LineTypes, UnitRanges
<1>12. /\ mBuffers' = [mBuffers EXCEPT ![work.stream] = Append(mBuffers[work.stream], t)]
       /\ track' = [track EXCEPT ![work.stream] = n]
  BY DEF QueuesUnit
<1>13. track \in [Streams -> Unit] /\ mBuffers \in [Streams -> Seq(Taken \cup {FormatChange})]
  BY <1>3 DEF TypeInv, DataTypes
<1>14. n.time = t.time + 1 /\ n.pos = t.pos /\ n.version = t.version /\ Units!Continues(t, n)
  BY <1>11 DEF Unit, Units!Continues
<1>15. TypeInv'
  BY NextTypes DEF Control
<1> HIDE DEF n
<1>16. CASE s # work.stream
  <2>1. mBuffers'[s] = mBuffers[s] /\ track'[s] = track[s]
    BY <1>12, <1>13, <1>16
  <2> QED BY <1>1, <1>2, <1>6, <1>7, <1>8, <1>10, <2>1, OtherStream
<1>17. CASE s = work.stream
  <2>1. mBuffers'[s] = Append(mBuffers[s], t) /\ track'[s] = n /\ track[s] = t
    BY <1>12, <1>13, <1>17
  <2>2. PosInv(s)' /\ GotInv(s)'
    BY <1>1, <1>2, <1>7, <1>14, <2>1 DEF StreamInv, PosInv, GotInv
  <2>3. unit[s].time \in Int
    BY <1>3, LineTypes, UnitRanges, TakenIsUnit
  <2>4. UnitInv(s)'
    BY <1>1, <1>2, <1>11, <1>14, <2>1, <2>3 DEF StreamInv, UnitInv
  <2>5. ASSUME ~Stale(s)' PROVE LineInv(s)'
    <3>1. LineInv(s)
      BY <1>1, <1>8, <2>5 DEF StreamInv
    <3>2. Line(s) = Append(mBuffers[s], t)
      BY <1>6, <1>10, <2>1, Zenon DEF Line
    <3>3. Line(s)' = Append(Append(mBuffers[s], t), n)
      BY <1>6, <1>10, <2>1 DEF Line
    <3>4. n \in Item
      BY <1>15, <2>1 DEF TypeInv, DataTypes, Item
    <3>5. Runs(Append(mBuffers[s], t)) /\ Leads(s, unit[s], Append(mBuffers[s], t))
      BY <3>1, <3>2 DEF LineInv
    <3>6. /\ Runs(Append(Append(mBuffers[s], t), n))
          /\ Leads(s, unit[s], Append(Append(mBuffers[s], t), n))
      BY <1>3, <1>11, <1>14, <3>4, <3>5, LineTypes, LineExtends
    <3>7. Runs(Line(s))' /\ Leads(s, unit[s], Line(s))'
      BY <1>2, <3>3, <3>6 DEF Runs, Leads, Follows, Units!Begins, Units!Continues, Units!Switches
    <3>8. \A i \in 1 .. Len(mBuffers'[s]) :
             mBuffers'[s][i] = t \/ (i \in 1 .. Len(mBuffers[s]) /\ mBuffers'[s][i] = mBuffers[s][i])
      <4>1. mBuffers[s] \in Seq(Item) /\ t \in Item
        BY <1>3, <2>1, LineTypes
      <4> HIDE DEF t
      <4> QED BY <2>1, <4>1, AppendParts
    <3>9. ASSUME NEW b, ItemInv(s, b), b.time \in Int PROVE ItemInv(s, b)'
      BY <1>2, <1>6, <1>11, <1>14, <2>1, <3>9 DEF ItemInv
    <3>10. ASSUME NEW b, b = t PROVE ItemInv(s, b)'
      <4>1. ~Before
        BY <1>7, <2>5 DEF Stale
      <4>2. t.pos = position
        BY <1>1, <2>1, <4>1 DEF StreamInv, PosInv
      <4>3. t.version \in Int
        BY <1>11, UnitRanges
      <4> QED BY <1>2, <1>6, <1>11, <1>14, <2>1, <3>10, <4>2, <4>3 DEF ItemInv
    <3>11. ASSUME NEW i \in 1 .. Len(mBuffers'[s]), NEW b, b = mBuffers'[s][i],
                  b # FormatChange
           PROVE  ItemInv(s, b)'
      <4>1. CASE b = t
        BY <4>1, <3>10
      <4>2. CASE i \in 1 .. Len(mBuffers[s]) /\ b = mBuffers[s][i]
        <5>1. ItemInv(s, b)
          BY <3>1, <3>11, <4>2 DEF LineInv
        <5>2. b.time \in Int
          BY <1>3, <3>11, <4>2, ItemTypes, UnitRanges, TakenIsUnit
        <5> QED BY <3>9, <5>1, <5>2
      <4> QED BY <3>8, <3>11, <4>1, <4>2
    <3> QED BY <1>6, <3>7, <3>11 DEF LineInv, ItemInv
  <2> QED BY <2>2, <2>4, <2>5 DEF StreamInv
<1> QED BY <1>16, <1>17

LEMMA FirstUnitQueue ==
    ASSUME TypeInv, WorkTypeOK, ReadsFirstUnit
    PROVE  /\ mBuffers'[work.stream] \in Seq({FormatChange})
           /\ \A s \in Streams \ {work.stream} : mBuffers'[s] = mBuffers[s]
<1>1. mBuffers \in [Streams -> Seq(Taken \cup {FormatChange})] /\ work.stream \in Streams
  BY DEF TypeInv, DataTypes, WorkTypeOK
<1> DEFINE old == mBuffers[work.stream]
           kept == Kept(old, {FormatChange})
<1>2. old \in Seq(Taken \cup {FormatChange})
  BY <1>1
<1> HIDE DEF old
<1>3. kept \in Seq((Taken \cup {FormatChange}) \cap {FormatChange})
  BY <1>2, KeptType
<1>4. (Taken \cup {FormatChange}) \cap {FormatChange} = {FormatChange}
  OBVIOUS
<1>5. kept \in Seq({FormatChange})
  BY <1>3, <1>4
<1>6. PICK more \in {<<FormatChange>>, <<>>} :
         mBuffers' = [mBuffers EXCEPT ![work.stream] = kept \o more]
  BY DEF ReadsFirstUnit, old
<1> HIDE DEF kept
<1>7. more \in Seq({FormatChange})
  <2>1. <<FormatChange>> \in Seq({FormatChange}) /\ <<>> \in Seq({FormatChange})
    OBVIOUS
  <2> QED BY <1>6, <2>1
<1>8. kept \o more \in Seq({FormatChange})
  BY <1>5, <1>7
<1> QED BY <1>1, <1>6, <1>8

LEMMA FirstUnitLines ==
    ASSUME "seekFails" \notin Mishaps, ReadsTracked, Control, Lines, [Next]_vars, ReadsFirstUnit
    PROVE  Lines'
<1> SUFFICES ASSUME NEW s \in Streams, Live(s)'
             PROVE  StreamInv(s)'
  BY DEF Lines
<1>1. StreamInv(s)
  BY LiveStays DEF Lines
<1>2. UNCHANGED <<position, unit, call, reader, mStopRead, noVideo>>
  BY DEF ReadsFirstUnit, ReadFrame, playerVars, readerVars
<1>3. WorkTypeOK /\ WorkInv /\ TypeInv /\ work.stream \in Streams /\ CallInv
  BY DEF Control, ReadsTracked, ReadingTypeOK, WorkTypeOK
<1>4. work'.what = work.what /\ work'.stream = work.stream /\ work'.holds = TRUE
  BY <1>3, ReadsWork DEF Reads
<1>5. work.left > 0 /\ ~work.holds /\ (work.seek \/ work.format)
  BY DEF ReadsFirstUnit, Reading
<1>6. (\A t : ~Awaits(t)') /\ (\A t : Awaits(t) <=> work.seek /\ t = work.stream)
  BY <1>4, <1>5, Zenon DEF Awaits
<1>7. Before' <=> Before
  BY <1>2, <1>4 DEF Before
<1>8. ~mStopRead
  BY <1>3, <1>5 DEF WorkInv
<1>9. ~Dead /\ ~Dead'
  BY <1>2, <1>8, Zenon DEF Dead
<1>10. CASE s # work.stream
  <2>1. mBuffers'[s] = mBuffers[s]
    BY <1>3, <1>10, FirstUnitQueue
  <2>2. track'[s] = track[s]
    <3>1. track' = track
            \/ track' = [track EXCEPT ![work.stream] =
                            [track[work.stream] EXCEPT !.version = track[work.stream].version + 1]]
      BY DEF ReadsFirstUnit
    <3>2. track \in [Streams -> Unit]
      BY <1>3 DEF TypeInv, DataTypes
    <3> QED BY <1>10, <3>1, <3>2
  <2>3. ~Awaits(s) /\ ~Awaits(s)'
    BY <1>6, <1>10
  <2>4. Stale(s)' <=> Stale(s)
    BY <1>2, <1>4, <1>7, <2>3 DEF Stale
  <2> QED BY <1>1, <1>2, <1>7, <1>9, <2>1, <2>2, <2>3, <2>4, OtherStream
<1>11. CASE s = work.stream
  <2> DEFINE t == track[s]
             v == track'[s]
  <2>1. t \in Unit /\ v \in Unit /\ unit[s] \in Unit
    <3>1. TypeInv'
      BY NextTypes DEF Control
    <3> QED BY <1>3, <3>1, LineTypes, TakenIsUnit DEF TypeInv, DataTypes
  <2>2. v.pos = t.pos /\ v.time = t.time
          /\ (v.version = IF work.format /\ ~work.seek THEN t.version + 1 ELSE t.version)
    <3>1. CASE work.format /\ ~work.seek
      <4>1. track' = [track EXCEPT ![s] = [t EXCEPT !.version = t.version + 1]]
        BY <1>11, <3>1 DEF ReadsFirstUnit
      <4>2. v = [t EXCEPT !.version = t.version + 1]
        BY <1>3, <4>1 DEF TypeInv, DataTypes
      <4> HIDE DEF t, v
      <4> QED BY <2>1, <3>1, <4>2 DEF Unit
    <3>2. CASE ~(work.format /\ ~work.seek)
      BY <3>2 DEF ReadsFirstUnit
    <3> QED BY <3>1, <3>2
  <2>3. /\ unit[s].pos \in Int /\ unit[s].version \in Int /\ unit[s].time \in Int
        /\ t.pos \in Int /\ t.version \in Int /\ t.time \in Int
        /\ v.pos \in Int /\ v.version \in Int /\ v.time \in Int /\ position \in Int
    BY <1>3, <2>1, UnitRanges DEF TypeInv, PlayerTypes
  <2>4. PosInv(s)' /\ GotInv(s)' /\ UnitInv(s)'
    <3>1. PosInv(s)' /\ GotInv(s)'
      BY <1>1, <1>2, <1>7, <2>2 DEF StreamInv, PosInv, GotInv
    <3>2. UnitInv(s)'
      BY <1>1, <1>2, <2>2, <2>3 DEF StreamInv, UnitInv
    <3> QED BY <3>1, <3>2
  <2>5. ASSUME ~Stale(s)' PROVE LineInv(s)'
    <3>1. ~Before /\ v.pos = position
      <4>1. ~Before
        BY <1>7, <2>5 DEF Stale
      <4> QED BY <1>1, <2>2, <4>1 DEF StreamInv, PosInv
    <3>2. unit[s].pos <= position /\ unit[s].version <= t.version
      BY <1>1 DEF StreamInv, UnitInv
    <3>3. Follows(s, unit[s], v)
      <4>1. CASE work.what = "seek"
        <5>1. call = "seek" /\ ~work.format
          BY <1>3, <4>1 DEF CallInv, WorkInv
        <5>2. unit[s].pos < position
          BY <1>1, <5>1 DEF StreamInv, UnitInv
        <5>3. v.time = 1
          BY <1>3, <1>5, <1>11, <2>2, <4>1, <5>1 DEF WorkInv
        <5> QED BY <3>1, <5>2, <5>3 DEF Follows, Units!Begins
      <4>2. CASE work.what # "seek" /\ work.seek
        <5>1. call # "seek" /\ s = "audio"
          <6>1. call # "seek"
            BY <3>1, <4>2 DEF Before
          <6>2. work.what \in {"none", "readBuffer", "seek", "changeAVSource"}
            BY <1>3 DEF WorkTypeOK
          <6>3. s = "audio"
            BY <1>3, <1>11, <4>2, <6>2 DEF WorkInv
          <6> QED BY <6>1, <6>3
        <5>2. Awaits(s) /\ ~Stale(s)
          BY <1>6, <1>11, <4>2, <5>1 DEF Stale, Before
        <5>3. Superseded(unit[s]) /\ unit[s].version < v.version
          BY <1>1, <2>2, <2>3, <4>2, <5>1, <5>2 DEF StreamInv, LineInv, Superseded
        <5>4. CASE unit[s].pos = position
          BY <2>2, <3>1, <5>1, <5>3, <5>4 DEF Follows, Units!Switches, Superseded
        <5>5. CASE unit[s].pos # position
          <6>1. v.time = 1
            BY <1>1, <2>2, <2>3, <5>1, <5>3, <5>5 DEF Superseded, StreamInv, UnitInv
          <6>2. unit[s].pos < position
            BY <2>3, <3>2, <5>5
          <6> QED BY <3>1, <6>1, <6>2 DEF Follows, Units!Begins
        <5> QED BY <5>4, <5>5
      <4>3. CASE work.what # "seek" /\ ~work.seek
        <5>1. work.format
          BY <1>5, <4>3
        <5>2. s = "video"
          <6>1. work.what \in {"none", "readBuffer", "seek", "changeAVSource"}
            BY <1>3 DEF WorkTypeOK
          <6> QED BY <1>3, <1>11, <4>3, <5>1, <6>1 DEF WorkInv
        <5>3. v.version > unit[s].version
          BY <2>2, <2>3, <3>2, <4>3, <5>1
        <5>4. CASE unit[s].pos = position
          <6>1. v.time > unit[s].time
            BY <1>1, <2>2, <2>3, <3>1, <5>2, <5>4 DEF StreamInv, UnitInv
          <6> QED BY <3>1, <5>2, <5>3, <5>4, <6>1 DEF Follows, Units!Switches
        <5>5. CASE unit[s].pos # position
          <6>1. unit[s].pos < position
            BY <2>3, <3>2, <5>5
          <6> QED BY <3>1, <5>2, <5>3, <6>1 DEF Follows, Units!Begins
        <5> QED BY <5>4, <5>5
      <4> QED BY <4>1, <4>2, <4>3
    <3> DEFINE q == mBuffers'[s]
    <3>4. q \in Seq({FormatChange})
      BY <1>3, <1>11, FirstUnitQueue
    <3>5. Line(s)' = Append(q, v)
      BY <1>6, <1>9 DEF Line
    <3>6. Runs(Append(q, v)) /\ Leads(s, unit[s], Append(q, v))
      <4> HIDE DEF q, v
      <4> QED BY <3>3, <3>4, FreshLine
    <3>7. Runs(Line(s))' /\ Leads(s, unit[s], Line(s))'
      BY <1>2, <3>5, <3>6 DEF Runs, Leads, Follows, Units!Begins, Units!Continues, Units!Switches
    <3>8. \A i \in 1 .. Len(q) : q[i] = FormatChange
      <4>1. \A i \in 1 .. Len(q) : q[i] \in {FormatChange}
        BY <3>4
      <4> QED BY <4>1
    <3> QED BY <1>6, <3>7, <3>8 DEF LineInv
  <2> QED BY <2>4, <2>5 DEF StreamInv
<1> QED BY <1>10, <1>11

LEMMA OnSeekLines ==
    ASSUME ReadsTracked, Control, Lines, [Next]_vars, OnSeek, ~SoughtAfterStop
    PROVE  Lines'
<1> SUFFICES ASSUME NEW s \in Streams, Live(s)'
             PROVE  StreamInv(s)'
  BY DEF Lines
<1>1. StreamInv(s) /\ Live(s)
  BY LiveStays DEF Lines
<1>2. UNCHANGED <<position, unit, reader, mStopRead, noVideo, mHas, mBuffers>>
  BY DEF OnSeek, sessionVars, packetVars, readerVars
<1>3. call = "seek" /\ work.what = "none"
  BY CallInQueue DEF OnSeek, Calls, CallOf, Control, Take, SourceRuns
<1>4. ~mStopRead
  <2> SUFFICES ASSUME mStopRead PROVE FALSE
    OBVIOUS
  <2>1. noVideo
    BY <1>3 DEF Control, StopInv
  <2>2. "audio" \notin mHas
    BY DEF SoughtAfterStop
  <2> QED BY <1>1, <2>1, <2>2 DEF Live, Streams
<1>5. /\ ReadBuffer("seek", IF "video" \in mHas THEN "video" ELSE "audio", TRUE, FALSE)
      /\ track' = [t \in Streams |-> [track[t] EXCEPT !.pos = position, !.time = 1]]
      /\ call' = call
  BY <1>4 DEF OnSeek
<1>6. track[s] \in Unit /\ unit[s] \in Unit /\ position \in Int
  BY LineTypes, TakenIsUnit DEF Control, TypeInv, PlayerTypes
<1>7. track'[s].pos = position /\ track'[s].time = 1 /\ track'[s].version = track[s].version
  BY <1>5, <1>6 DEF Unit
<1>8. Stale(s)'
  <2>1. PICK t \in Streams : ReadBuffer("seek", t, TRUE, FALSE) /\ (t = "audio" => "video" \notin mHas)
    BY <1>5 DEF Streams
  <2>2. work'.stream = t /\ work'.seek = TRUE /\ work'.holds = FALSE
    BY <2>1, ReadBufferWork DEF Control
  <2>3. work'.left > 0
    BY <1>4, <2>1, ReadBufferWork DEF Control
  <2>4. s = t \/ (s = "audio" /\ t = "video")
    BY <1>1, <2>1 DEF Live, Streams
  <2> QED BY <1>3, <1>5, <2>2, <2>3, <2>4 DEF Stale, Awaits
<1>9. work'.what = "seek"
  BY <1>5 DEF ReadBuffer
<1>10. PosInv(s)'
  BY <1>2, <1>7, <1>9 DEF PosInv, Before
<1>11. unit[s].pos < position /\ unit[s].version <= track[s].version
  BY <1>1, <1>3 DEF StreamInv, UnitInv
<1>12. UnitInv(s)'
  BY <1>2, <1>6, <1>7, <1>11, UnitRanges DEF UnitInv
<1>13. GotInv(s)'
  BY <1>1, <1>2 DEF StreamInv, GotInv
<1> QED BY <1>8, <1>10, <1>12, <1>13 DEF StreamInv

LEMMA SeeksAudioLines ==
    ASSUME ReadsTracked, Control, Lines, [Next]_vars, SeeksAudio
    PROVE  Lines'
<1> SUFFICES ASSUME NEW s \in Streams, Live(s)'
             PROVE  StreamInv(s)'
  BY DEF Lines
<1>1. StreamInv(s)
  BY LiveStays DEF Lines
<1>2. UNCHANGED <<position, track, unit, call, reader, mStopRead, noVideo, mBuffers>>
  BY DEF SeeksAudio, playerVars, packetVars, readerVars
<1>3. work.what = "seek" /\ work.left = 0 /\ work.stream = "video"
        /\ ReadBuffer("seek", "audio", TRUE, FALSE)
  BY DEF SeeksAudio, Returns
<1>4. call = "seek" /\ ~mStopRead /\ ~work.seek
  BY <1>3 DEF Control, CallInv, WorkInv
<1>5. work'.what = "seek" /\ work'.stream = "audio" /\ work'.seek = TRUE /\ work'.holds = FALSE
  BY <1>3 DEF ReadBuffer
<1>6. work'.left > 0
  BY <1>3, <1>4, ReadBufferWork DEF Control, Streams
<1>7. ~Before /\ ~Before'
  BY <1>3, <1>5 DEF Before
<1>8. Dead' <=> Dead
  BY <1>2, Zenon DEF Dead
<1>9. CASE s = "audio"
  <2>1. Stale(s)'
    BY <1>2, <1>4, <1>5, <1>6, <1>9 DEF Stale, Awaits
  <2> QED BY <1>1, <1>2, <1>7, <2>1 DEF StreamInv, PosInv, UnitInv, GotInv
<1>10. CASE s = "video"
  <2>1. ~Awaits(s) /\ ~Awaits(s)'
    BY <1>4, <1>5, <1>10 DEF Awaits
  <2>2. ~Stale(s) /\ ~Stale(s)'
    BY <1>7, <1>10, <2>1 DEF Stale
  <2> QED BY <1>1, <1>2, <1>7, <1>8, <2>1, <2>2, OtherStream
<1> QED BY <1>9, <1>10 DEF Streams

LEMMA SeekReturnsLines ==
    ASSUME ReadsTracked, Control, Lines, [Next]_vars, SeekReturns
    PROVE  Lines'
<1> SUFFICES ASSUME NEW s \in Streams, Live(s)'
             PROVE  StreamInv(s)'
  BY DEF Lines
<1>1. StreamInv(s) /\ Live(s)
  BY LiveStays DEF Lines
<1>2. UNCHANGED <<position, track, unit, reader, mStopRead, noVideo, mBuffers>>
  BY DEF SeekReturns, packetVars, readerVars
<1>3. work.what = "seek" /\ work.left = 0 /\ work' = Idle /\ call' = "none"
        /\ (work.stream = "audio" \/ "audio" \notin mHas)
  BY DEF SeekReturns, Returns
<1>4. ~Awaits(s) /\ ~Awaits(s)'
  BY <1>3 DEF Awaits, Idle
<1>5. ~Before /\ ~Before'
  BY <1>3 DEF Before
<1>6. ~Stale(s) /\ ~Stale(s)'
  BY <1>1, <1>3, <1>4, <1>5 DEF Stale, Live
<1>7. Dead' <=> Dead
  BY <1>2, Zenon DEF Dead
<1>8. Line(s)' = Line(s)
  BY <1>2, <1>4, <1>7, Zenon DEF Line
<1> QED BY <1>1, <1>2, <1>3, <1>4, <1>5, <1>6, <1>8, SameStream

LEMMA SeekToLines ==
    ASSUME ReadsTracked, Control, Lines, [Next]_vars, SeekTo
    PROVE  Lines'
<1> SUFFICES ASSUME NEW s \in Streams, Live(s)'
             PROVE  StreamInv(s)'
  BY DEF Lines
<1>1. StreamInv(s) /\ Live(s)
  BY LiveStays DEF Lines
<1>2. UNCHANGED <<track, unit, reader, mStopRead, noVideo, mBuffers, work>>
  BY DEF SeekTo, packetVars, sourceVars
<1>3. call = "none" /\ call' = "seek" /\ position' = position + 1 /\ reader[s] = "idle"
  BY <1>1 DEF SeekTo, PlayerFree, Quiet, Live
<1>4. work.what # "seek"
  BY <1>3 DEF Control, CallInv
<1>5. Before' /\ ~Before
  BY <1>2, <1>3, <1>4 DEF Before
<1>6. track[s] \in Unit /\ unit[s] \in Unit /\ position \in Int
  BY LineTypes, TakenIsUnit DEF Control, TypeInv, PlayerTypes
<1>7. track[s].pos = position /\ unit[s].pos <= position
  BY <1>1, <1>5 DEF StreamInv, PosInv, UnitInv
<1>8. PosInv(s)' /\ GotInv(s)'
  BY <1>2, <1>3, <1>5, <1>6, <1>7 DEF PosInv, GotInv
<1>9. UnitInv(s)'
  BY <1>1, <1>2, <1>3, <1>6, <1>7, UnitRanges DEF UnitInv, StreamInv
<1> QED BY <1>5, <1>8, <1>9 DEF StreamInv, Stale

LEMMA StopLines ==
    ASSUME ReadsTracked, Control, Lines, [Next]_vars, StopWidevine
    PROVE  Lines'
<1> SUFFICES ASSUME NEW s \in Streams, Live(s)'
             PROVE  StreamInv(s)'
  BY DEF Lines
<1>1. StreamInv(s) /\ Live(s)
  BY LiveStays DEF Lines
<1>2. UNCHANGED <<position, track, unit, reader, noVideo, work>>
  BY DEF StopWidevine, readerVars
<1>3. call = "stop" /\ call' = "none" /\ work.what = "none"
  BY CallInQueue DEF StopWidevine, Take, SourceRuns, Calls, CallOf, Control
<1>4. noVideo /\ mStopRead' = TRUE
  BY <1>3 DEF Control, StopInv, StopWidevine
<1>5. Dead'
  BY <1>2, <1>4, Zenon DEF Dead
<1>6. s = "audio"
  BY <1>1, <1>4 DEF Live, Streams
<1>7. mBuffers'[s] = mBuffers[s]
  BY <1>6 DEF StopWidevine, Control, TypeInv, DataTypes
<1>8. ~Awaits(s) /\ ~Awaits(s)'
  BY <1>2, <1>3 DEF Awaits, Control, WorkInv
<1>9. ~Before /\ ~Before'
  BY <1>3 DEF Before
<1>10. PosInv(s)' /\ UnitInv(s)' /\ GotInv(s)'
  BY <1>1, <1>2, <1>3, <1>9 DEF StreamInv, PosInv, UnitInv, GotInv
<1>11. LineInv(s)
  BY <1>1, <1>3, <1>9 DEF StreamInv, Stale
<1>12. Line(s)' = mBuffers[s]
  BY <1>5, <1>7 DEF Line
<1>13. Runs(mBuffers[s]) /\ Leads(s, unit[s], mBuffers[s])
  <2>1. CASE Line(s) = mBuffers[s]
    BY <1>11, <2>1 DEF LineInv
  <2>2. CASE Line(s) = Append(mBuffers[s], track[s])
    BY <1>11, <2>2, LineTypes, LinePrefix DEF LineInv, Control
  <2> QED BY <2>1, <2>2 DEF Line
<1>14. Runs(Line(s))' /\ Leads(s, unit[s], Line(s))'
  BY <1>2, <1>12, <1>13 DEF Runs, Leads, Follows, Units!Begins, Units!Continues, Units!Switches
<1>15. \A b : ItemInv(s, b) => ItemInv(s, b)'
  BY <1>2, <1>8 DEF ItemInv
<1>16. LineInv(s)'
  BY <1>7, <1>8, <1>11, <1>14, <1>15 DEF LineInv
<1> QED BY <1>10, <1>16 DEF StreamInv

\* The audio track that is selected.
LEMMA NewTrack ==
    ASSUME ReadsTracked, TypeInv, OnChangeAVSource
    PROVE  /\ track'["video"] = track["video"]
           /\ track'["audio"] \in Unit
           /\ track'["audio"].pos = track["audio"].pos
           /\ track'["audio"].version = track["audio"].version + 1
           /\ mLastDequeueTime["audio"] = 0 => track'["audio"].time = 1
           /\ mLastDequeueTime["audio"] # 0 => track'["audio"].time = mLastDequeueTime["audio"]
           /\ mLastDequeueTime["audio"] \in Nat
           /\ track'["audio"].time >= 1
<1> DEFINE last == mLastDequeueTime["audio"]
           time == IF last = 0 THEN 1 ELSE last
           t == track["audio"]
           v == [t EXCEPT !.version = t.version + 1, !.time = time]
<1>1. track \in [Streams -> Unit] /\ last \in 0 .. NumUnits /\ "audio" \in Streams
        /\ "video" \in Streams /\ NumUnits \in Nat /\ NumUnits > 0
  BY SizeFacts DEF TypeInv, DataTypes, Streams
<1>2. track' = [track EXCEPT !["audio"] = v]
  BY DEF OnChangeAVSource
<1>3. t \in Unit /\ time \in 0 .. NumUnits + 1 /\ time >= 1
  BY <1>1
<1>4. v \in Unit /\ v.pos = t.pos /\ v.version = t.version + 1 /\ v.time = time
  <2> HIDE DEF t, time
  <2>1. t \in [pos : 0 .. MaxPositions, version : Nat, time : 0 .. NumUnits + 1]
    BY <1>3 DEF Unit
  <2>2. t.version + 1 \in Nat
    BY <2>1
  <2>3. v \in Unit
    BY <1>3, <2>1, <2>2, UnitFields DEF Unit
  <2>4. v.pos = t.pos /\ v.version = t.version + 1 /\ v.time = time
    BY <2>1
  <2> QED BY <2>3, <2>4
<1>5. track'["audio"] = v /\ track'["video"] = track["video"]
  <2> HIDE DEF v
  <2> QED BY <1>1, <1>2
<1> QED BY <1>1, <1>3, <1>4, <1>5

LEMMA ChangeLines ==
    ASSUME ReadsTracked, Control, UnreadInv, LastInv, Lines, [Next]_vars, OnChangeAVSource,
           ~SelectedAhead
    PROVE  Lines'
<1> SUFFICES ASSUME NEW s \in Streams, Live(s)'
             PROVE  StreamInv(s)'
  BY DEF Lines
<1>1. StreamInv(s) /\ Live(s)
  BY LiveStays DEF Lines
<1>2. UNCHANGED <<position, unit, call, reader, mStopRead, noVideo, mBuffers>>
  BY DEF OnChangeAVSource, playerVars, packetVars, readerVars
<1>3. work.what = "none" /\ ReadBuffer("changeAVSource", "audio", TRUE, TRUE)
  BY DEF OnChangeAVSource, Take, SourceRuns
<1>4. work'.what = "changeAVSource" /\ work'.stream = "audio" /\ work'.seek = TRUE
        /\ work'.holds = FALSE
  BY <1>3 DEF ReadBuffer
<1>5. \A t : ~Awaits(t)
  BY <1>3 DEF Awaits, Control, WorkInv
<1>6. (Before' <=> Before) /\ (Before <=> call = "seek")
  BY <1>2, <1>3, <1>4 DEF Before
<1>7. \A t : (Stale(t) <=> call = "seek") /\ (Stale(t)' <=> call = "seek")
  BY <1>2, <1>6 DEF Stale
<1>8. Dead' <=> Dead
  BY <1>2, Zenon DEF Dead
<1>9. CASE s = "video"
  <2>1. ~Awaits(s)'
    BY <1>4, <1>9 DEF Awaits
  <2>2. mBuffers'[s] = mBuffers[s] /\ track'[s] = track[s] /\ (Stale(s)' <=> Stale(s))
    BY <1>2, <1>7, <1>9, NewTrack DEF Control
  <2> QED BY <1>1, <1>2, <1>5, <1>6, <1>8, <2>1, <2>2, OtherStream
<1>10. CASE s = "audio"
  <2> DEFINE t == track["audio"]
             v == track'["audio"]
             u == unit["audio"]
             q == mBuffers["audio"]
             last == mLastDequeueTime["audio"]
  <2>1. /\ v \in Unit /\ v.pos = t.pos /\ v.version = t.version + 1 /\ last \in Nat
        /\ last = 0 => v.time = 1
        /\ last # 0 => v.time = last
        /\ v.time >= 1
    BY NewTrack DEF Control
  <2>2. t \in Unit /\ u \in Unit /\ q \in Seq(Item) /\ position \in Int
    BY LineTypes, TakenIsUnit DEF Control, TypeInv, PlayerTypes, Streams
  <2>3. /\ u.pos \in Int /\ u.version \in Int /\ u.time \in Int /\ u.time >= 0
        /\ t.pos \in Int /\ t.version \in Int /\ t.time \in Int
        /\ v.pos \in Int /\ v.version \in Int /\ v.time \in Int
    BY <2>1, <2>2, UnitRanges
  <2>4. u.pos <= position /\ u.version <= t.version
    BY <1>1, <1>10 DEF StreamInv, UnitInv
  <2>5. PosInv(s)' /\ GotInv(s)'
    BY <1>1, <1>2, <1>6, <1>10, <2>1 DEF StreamInv, PosInv, GotInv
  <2>6. UnitInv(s)'
    BY <1>1, <1>2, <1>10, <2>1, <2>3 DEF StreamInv, UnitInv
  <2>7. ASSUME ~Stale(s)' PROVE LineInv(s)'
    <3>1. call # "seek" /\ LineInv(s) /\ t.pos = position
      BY <1>1, <1>6, <1>7, <1>10, <2>7 DEF StreamInv, PosInv
    <3>2. CASE mStopRead /\ noVideo
      <4>1. Dead
        BY <3>2 DEF Dead
      <4>2. Line(s)' = Line(s)
        BY <1>2, <1>8, <4>1, Zenon DEF Line
      <4>3. work'.left = 0
        BY <1>3, <3>2 DEF ReadBuffer
      <4>4. ~Awaits(s)'
        BY <4>3 DEF Awaits
      <4>5. Runs(Line(s))' /\ Leads(s, unit[s], Line(s))'
        BY <1>2, <3>1, <4>2 DEF LineInv, Runs, Leads, Follows, Units!Begins, Units!Continues, Units!Switches
      <4>6. ASSUME NEW i \in 1 .. Len(q), NEW b, b = q[i], b # FormatChange
            PROVE  ItemInv(s, b)'
        <5>1. ItemInv(s, b) /\ b \in Taken
          BY <1>10, <3>1, <4>6, ItemTypes DEF LineInv, Control
        <5>2. b.version \in Int
          BY <5>1, TakenIsUnit, UnitRanges
        <5> QED BY <1>2, <1>10, <2>1, <2>3, <4>4, <5>1, <5>2 DEF ItemInv
      <4> QED BY <1>2, <1>10, <4>4, <4>5, <4>6 DEF LineInv, ItemInv
    <3>3. CASE mStopRead /\ ~noVideo
      <4>1. q = <<>> /\ last = 0 /\ u = [pos |-> 0, version |-> 0, time |-> 0] /\ position = 0
        BY <3>3 DEF UnreadInv, Streams
      <4>2. ~Dead /\ ~Dead'
        BY <1>8, <3>3 DEF Dead
      <4>3. work'.left = 0
        BY <1>3, <3>3 DEF ReadBuffer
      <4>4. ~Awaits(s)'
        BY <4>3 DEF Awaits
      <4>5. Line(s)' = Append(<<>>, v)
        BY <1>2, <1>10, <4>1, <4>2, <4>4 DEF Line
      <4>6. Follows(s, u, v)
        BY <1>10, <2>1, <2>2, <2>3, <3>1, <4>1, UnitRanges DEF Follows, Units!Switches
      <4>7. <<>> \in Seq({FormatChange})
        OBVIOUS
      <4>8. Runs(Append(<<>>, v)) /\ Leads(s, u, Append(<<>>, v))
        <5> HIDE DEF u, v
        <5> QED BY <4>6, <4>7, FreshLine
      <4>9. Runs(Line(s))' /\ Leads(s, unit[s], Line(s))'
        BY <1>2, <1>10, <4>5, <4>8 DEF Runs, Leads, Follows, Units!Begins, Units!Continues, Units!Switches
      <4>10. Len(mBuffers'[s]) = 0
        BY <1>2, <1>10, <4>1
      <4> QED BY <4>4, <4>9, <4>10 DEF LineInv
    <3>4. CASE ~mStopRead
      <4>1. work'.left > 0
        BY <1>3, <3>4, ReadBufferWork DEF Control, Streams
      <4>2. Line(s)' = q
        BY <1>2, <1>4, <1>10, <4>1 DEF Line, Awaits
      <4>3. Runs(q) /\ Leads(s, u, q)
        <5>1. CASE Line(s) = q
          BY <1>10, <3>1, <5>1 DEF LineInv
        <5>2. CASE Line(s) = Append(q, t)
          <6>1. Runs(Append(q, t)) /\ Leads(s, u, Append(q, t)) /\ t \in Item
            BY <1>10, <2>2, <3>1, <5>2 DEF LineInv, Item
          <6> HIDE DEF q, u, t
          <6> QED BY <2>2, <6>1, LinePrefix
        <5> QED BY <1>10, <5>1, <5>2 DEF Line
      <4>4. Runs(Line(s))' /\ Leads(s, unit[s], Line(s))'
        BY <1>2, <1>10, <4>2, <4>3 DEF Runs, Leads, Follows, Units!Begins, Units!Continues, Units!Switches
      <4>5. ASSUME NEW b \in Unit, b.version <= t.version,
                   b = u \/ \E i \in 1 .. Len(q) : b = q[i],
                   b.pos # position => b = u
            PROVE  Superseded(b)'
        <5>1. b.version \in Int /\ b.time \in Int /\ b.time >= 0
          BY <4>5, UnitRanges
        <5>2. b.pos = position => v.time <= b.time + 1
          <6> SUFFICES ASSUME b.pos = position PROVE v.time <= b.time + 1
            OBVIOUS
          <6>1. b \in {unit["audio"]} \cup {mBuffers["audio"][i] : i \in DOMAIN mBuffers["audio"]}
            BY <2>2, <4>5
          <6>2. ~(b.time + 1 < last)
            BY <3>1, <6>1 DEF SelectedAhead
          <6> QED BY <2>1, <2>3, <5>1, <6>2
        <5>3. b.pos # position => v.time <= 1
          <6> SUFFICES ASSUME b.pos # position PROVE v.time <= 1
            OBVIOUS
          <6>1. u.pos < position
            BY <2>2, <2>3, <2>4, <4>5
          <6>2. last <= 1
            BY <1>1, <1>10, <3>1, <6>1 DEF LastInv
          <6> QED BY <2>1, <6>2
        <5> QED BY <1>2, <2>1, <2>3, <4>5, <5>1, <5>2, <5>3 DEF Superseded
      <4>6. ASSUME NEW i \in 1 .. Len(q), NEW b, b = q[i], b # FormatChange
            PROVE  ItemInv(s, b)'
        <5>1. ItemInv(s, b) /\ b \in Taken
          BY <1>10, <3>1, <4>6, ItemTypes DEF LineInv, Control
        <5>2. b \in Unit /\ b.version \in Int /\ b.pos = position /\ b.version <= t.version
          BY <1>10, <5>1, TakenIsUnit, UnitRanges DEF ItemInv
        <5>3. Superseded(b)'
          BY <4>5, <4>6, <5>2
        <5> QED BY <1>2, <1>10, <2>1, <2>3, <5>2, <5>3 DEF ItemInv
      <4>7. ASSUME NEW b, b = u PROVE Superseded(b)'
        BY <2>2, <2>4, <4>5, <4>7
      <4>8. Superseded(unit[s])'
        BY <1>2, <1>10, <4>7 DEF Superseded
      <4> QED BY <1>2, <1>10, <4>4, <4>6, <4>8 DEF LineInv, ItemInv
    <3> QED BY <3>2, <3>3, <3>4
  <2> QED BY <2>5, <2>6, <2>7 DEF StreamInv
<1> QED BY <1>9, <1>10 DEF Streams

\* The decoder of s takes what is next on its line.
LEMMA DequeuesOne ==
    ASSUME ReadsTracked, Control, Lines, [Next]_vars, NEW s \in Streams, Dequeues(s),
           mBuffers[s] # <<>>
    PROVE  /\ StreamInv(s)'
           /\ Head(mBuffers[s]) # FormatChange => Units!Deliver(s)
<1> DEFINE q == mBuffers[s]
           b == Head(q)
           l == Line(s)
           t == track[s]
<1>1. Live(s) /\ call # "seek"
  BY DEF Dequeues, Control, IdleInv
<1>2. StreamInv(s) /\ ~Before /\ ~Stale(s) /\ LineInv(s)
  BY <1>1 DEF Lines, StreamInv, Stale, Before
<1>3. UNCHANGED <<position, track, call, work, mStopRead, noVideo>>
  BY DEF Dequeues, DecoderFrame, playerVars
<1>4. q \in Seq(Item) /\ t \in Item /\ l \in Seq(Item) /\ unit[s] \in Taken
        /\ unit \in [Streams -> Taken] /\ reader \in [Streams -> {"idle", "available", "gotUnit", "gotOther"}]
        /\ mBuffers \in [Streams -> Seq(Taken \cup {FormatChange})]
  BY LineTypes DEF Control, TypeInv, DataTypes
<1>5. q # <<>>
  OBVIOUS
<1>6. mBuffers'[s] = Tail(q)
  BY <1>4 DEF Dequeues
<1>7. (Awaits(s)' <=> Awaits(s)) /\ ~Before' /\ ~Stale(s)'
  BY <1>1, <1>3 DEF Awaits, Before, Stale
<1>8. Dead' <=> Dead
  BY <1>3, Zenon DEF Dead
<1>9. l # <<>> /\ Head(l) = b /\ Tail(l) = Line(s)'
  <2>1. CASE Awaits(s) \/ Dead
    <3>1. l = q /\ Line(s)' = mBuffers'[s]
      BY <1>7, <1>8, <2>1, Zenon DEF Line
    <3> QED BY <1>5, <1>6, <3>1
  <2>2. CASE ~(Awaits(s) \/ Dead)
    <3>1. l = Append(q, t) /\ Line(s)' = Append(mBuffers'[s], track'[s])
      BY <1>7, <1>8, <2>2, Zenon DEF Line
    <3>2. Line(s)' = Append(Tail(q), t)
      BY <1>3, <1>6, <3>1
    <3> HIDE DEF q, t
    <3> QED BY <1>4, <1>5, <3>1, <3>2, AppendRest DEF l
  <2> QED BY <2>1, <2>2
<1>10. Runs(l) /\ Leads(s, unit[s], l)
  BY <1>2 DEF LineInv
<1>11. /\ Runs(Tail(l))
       /\ b = FormatChange => Leads(s, unit[s], Tail(l))
       /\ b # FormatChange => Follows(s, unit[s], b) /\ Leads(s, b, Tail(l))
  <2> DEFINE u == unit[s]
  <2>1. l \in Seq(Item) /\ l # <<>> /\ Runs(l) /\ Leads(s, u, l) /\ Head(l) = b
    BY <1>4, <1>9, <1>10
  <2> HIDE DEF l, b, u
  <2>2. /\ Runs(Tail(l))
        /\ Head(l) = FormatChange => Leads(s, u, Tail(l))
        /\ Head(l) # FormatChange => Follows(s, u, Head(l)) /\ Leads(s, Head(l), Tail(l))
    BY <2>1, LineTail
  <2> QED BY <2>1, <2>2 DEF u
<1>12. Len(q) \in Nat /\ 1 \in 1 .. Len(q) /\ b = q[1] /\ Len(Tail(q)) = Len(q) - 1
         /\ \A i \in 1 .. Len(q) - 1 : Tail(q)[i] = q[i + 1]
  BY <1>4, <1>5
<1>13. ASSUME NEW i \in 1 .. Len(q), q[i] # FormatChange PROVE ItemInv(s, q[i])
  BY <1>2, <1>13 DEF LineInv
<1>14. \A c : ItemInv(s, c) <=> ItemInv(s, c)'
  <2>1. \A c : Superseded(c) <=> Superseded(c)'
    BY <1>3 DEF Superseded
  <2> QED BY <1>3, <1>7, <2>1 DEF ItemInv
<1>15. \A i \in 1 .. Len(mBuffers'[s]) :
          mBuffers'[s][i] # FormatChange => ItemInv(s, mBuffers'[s][i])
  BY <1>6, <1>12, <1>13
<1>16. \A i \in 1 .. Len(mBuffers'[s]) :
          mBuffers'[s][i] # FormatChange =>
             \E c : c = mBuffers'[s][i] /\ ItemInv(s, c)'
  BY <1>14, <1>15
<1>17. (\A i \in 1 .. Len(mBuffers[s]) :
          mBuffers[s][i] # FormatChange => ItemInv(s, mBuffers[s][i]))'
  BY <1>16 DEF ItemInv
<1>18. PosInv(s)'
  BY <1>2, <1>3, <1>7 DEF StreamInv, PosInv
<1>19. CASE b = FormatChange
  <2>1. unit' = unit /\ reader'[s] = "gotOther"
    BY <1>4, <1>5, <1>19 DEF Dequeues
  <2>2. UnitInv(s)' /\ GotInv(s)'
    BY <1>2, <1>3, <2>1 DEF StreamInv, UnitInv, GotInv
  <2>3. Runs(Line(s))' /\ Leads(s, unit[s], Line(s))'
    BY <1>3, <1>9, <1>11, <1>19, <2>1 DEF Runs, Leads, Follows, Units!Begins, Units!Continues, Units!Switches
  <2>4. (Awaits(s) => Superseded(unit[s]))'
    BY <1>2, <1>3, <1>7, <2>1 DEF LineInv, Superseded
  <2> QED BY <1>17, <1>18, <1>19, <2>2, <2>3, <2>4 DEF StreamInv, LineInv
<1>20. CASE b # FormatChange
  <2>1. b \in Taken /\ b \in Unit
    BY <1>12, <1>20, ItemTypes, TakenIsUnit DEF Control
  <2>2. unit' = [unit EXCEPT ![s] = b] /\ unit'[s] = b
    BY <1>4, <1>5, <1>20 DEF Dequeues
  <2>3. ItemInv(s, b)
    BY <1>12, <1>13, <1>20
  <2>4. b.pos = position /\ b.version <= track[s].version /\ (s = "video" => b.time < track[s].time)
    BY <2>3 DEF ItemInv
  <2>5. UnitInv(s)' /\ GotInv(s)'
    <3>1. position \in Int /\ track[s].time >= 1
      BY <1>2 DEF Control, TypeInv, PlayerTypes, StreamInv, UnitInv
    <3> HIDE DEF b
    <3> QED BY <1>1, <1>3, <2>2, <2>4, <3>1 DEF UnitInv, GotInv
  <2>6. Runs(Line(s))' /\ Leads(s, unit[s], Line(s))'
    BY <1>3, <1>9, <1>11, <1>20, <2>2 DEF Runs, Leads, Follows, Units!Begins, Units!Continues, Units!Switches
  <2>7. (Awaits(s) => Superseded(unit[s]))'
    BY <1>3, <1>7, <2>2, <2>3 DEF ItemInv, Superseded
  <2>8. Units!Deliver(s)
    <3>1. Follows(s, unit[s], unit'[s])
      BY <1>11, <1>20, <2>2
    <3>2. unit'[s] \in Units!Unit /\ unit'[s].pos = position
      BY <2>1, <2>2, <2>4 DEF Taken, Units!Unit
    <3>3. unit' = [unit EXCEPT ![s] = unit'[s]]
      BY <2>2
    <3> QED BY <1>3, <3>1, <3>2, <3>3 DEF Units!Deliver, Follows
  <2> QED BY <1>17, <1>18, <2>5, <2>6, <2>7, <2>8 DEF StreamInv, LineInv
<1> QED BY <1>19, <1>20

LEMMA DequeueLines ==
    ASSUME ReadsTracked, Control, Lines, [Next]_vars, NEW d \in Streams, Dequeues(d)
    PROVE  Lines' /\ [Units!Next]_(Units!vars)
<1>1. UNCHANGED <<position, track, call, work, mStopRead, noVideo>>
  BY DEF Dequeues, DecoderFrame, playerVars
<1>2. /\ unit \in [Streams -> Taken]
      /\ reader \in [Streams -> {"idle", "available", "gotUnit", "gotOther"}]
      /\ mBuffers \in [Streams -> Seq(Taken \cup {FormatChange})]
  BY DEF Control, TypeInv, DataTypes
<1>3. Dead' <=> Dead
  BY <1>1, Zenon DEF Dead
<1>4. ASSUME NEW s \in Streams, Live(s)',
             mBuffers'[s] = mBuffers[s], unit'[s] = unit[s],
             reader'[s] = "gotUnit" => reader[s] = "gotUnit"
      PROVE  StreamInv(s)'
  <2>1. StreamInv(s)
    BY <1>4, LiveStays DEF Lines
  <2>2. Awaits(s)' <=> Awaits(s)
    BY <1>1 DEF Awaits
  <2>3. (Before' <=> Before) /\ (Stale(s)' <=> Stale(s))
    BY <1>1, <2>2 DEF Before, Stale
  <2>4. Line(s)' = Line(s)
    BY <1>1, <1>3, <1>4, <2>2, Zenon DEF Line
  <2> QED BY <1>1, <1>4, <2>1, <2>2, <2>3, <2>4, SameStream
<1>5. CASE mBuffers[d] = <<>>
  <2>1. UNCHANGED <<mBuffers, unit>> /\ reader' = [reader EXCEPT ![d] = "gotOther"]
    BY <1>5 DEF Dequeues
  <2>2. \A s \in Streams : reader'[s] = "gotUnit" => reader[s] = "gotUnit"
    BY <1>2, <2>1
  <2> QED BY <1>1, <1>4, <2>1, <2>2 DEF Lines, Units!vars
<1>6. CASE mBuffers[d] # <<>>
  <2>1. \A s \in Streams \ {d} : mBuffers'[s] = mBuffers[s] /\ unit'[s] = unit[s] /\ reader'[s] = reader[s]
    BY <1>2, <1>6 DEF Dequeues
  <2>2. Lines'
    BY <1>4, <1>6, <2>1, DequeuesOne DEF Lines
  <2>3. CASE Head(mBuffers[d]) = FormatChange
    <3>1. unit' = unit
      BY <1>6, <2>3 DEF Dequeues
    <3> QED BY <1>1, <2>2, <3>1 DEF Units!vars
  <2>4. CASE Head(mBuffers[d]) # FormatChange
    <3>1. Units!Deliver(d) /\ d \in Units!Streams
      BY <1>6, <2>4, DequeuesOne DEF Streams, Units!Streams
    <3> QED BY <2>2, <3>1 DEF Units!Next
  <2> QED BY <2>2, <2>3, <2>4
<1> QED BY <1>5, <1>6

LEMMA NextLines ==
    ASSUME "seekFails" \notin Mishaps, ReadsTracked, Control, UnreadInv, LastInv, Lines,
           [Next]_vars, ~SoughtAfterStop, ~SelectedAhead
    PROVE  Lines'
<1>1. CASE StillSteps
  BY <1>1, StillLines
<1>2. CASE OnReadBuffer \/ ReadBufferReturns \/ ReadsCounterpart \/ ChangeReturns \/ ReadsEnd
             \/ ReadWouldBlock
  BY <1>2, WaitingLines
<1>3. CASE ReadsFirstUnit \/ QueuesUnit
  BY <1>3, FirstUnitLines, QueuesLines
<1>4. CASE OnSeek \/ SeeksAudio \/ SeekReturns \/ SeekTo
  BY <1>4, OnSeekLines, SeeksAudioLines, SeekReturnsLines, SeekToLines
<1>5. CASE OnChangeAVSource \/ StopWidevine
  BY <1>5, ChangeLines, StopLines
<1>6. CASE \E s \in Streams : Dequeues(s)
  BY <1>6, DequeueLines
<1> QED BY <1>1, <1>2, <1>3, <1>4, <1>5, <1>6
     DEF Next, SourceNext, Reads, DecoderNext, PlayerNext, ClientNext, StillSteps

\* Before the start only the audio track that will be read may change.
LEMMA NextUnread ==
    ASSUME ReadsTracked, Control, UnreadInv, [Next]_vars
    PROVE  UnreadInv'
<1> SUFFICES ASSUME mStopRead', ~noVideo'
             PROVE  /\ position' = 0
                    /\ \A s \in Streams :
                          /\ mBuffers'[s] = <<>> /\ mLastDequeueTime'[s] = 0
                          /\ track'[s].time = 1
                          /\ unit'[s] = [pos |-> 0, version |-> 0, time |-> 0]
  BY DEF UnreadInv
<1>1. CASE StopWidevine
  <2>1. noVideo /\ noVideo' = noVideo
    BY <1>1, CallInQueue DEF StopWidevine, Calls, CallOf, Control, StopInv
  <2> QED BY <2>1, Zenon
<1>2. CASE OnStart
  BY <1>2 DEF OnStart
<1>3. CASE ~StopWidevine /\ ~OnStart
  <2>1. mStopRead' = mStopRead
    <3>1. CASE ~PlayerSteps
      BY <3>1, PlayerFrame
    <3>2. CASE PlayerSteps
      BY <1>3, <3>2 DEF PlayerSteps, OnSeek, OnSelectTrack, SeekReturns, PrepareAsync, OnPrepared, SeekTo,
        SelectTrack, StopForVideo, Reset, sourceVars
    <3> QED BY <3>1, <3>2
  <2>2. noVideo' = noVideo
    <3>1. CASE ~PlayerSteps
      BY <3>1, PlayerFrame
    <3>2. CASE StopForVideo
      BY <3>2 DEF StopForVideo
    <3>3. CASE PlayerSteps /\ ~StopForVideo
      BY <1>3, <3>3 DEF PlayerSteps, OnSeek, OnSelectTrack, SeekReturns, PrepareAsync, OnPrepared, SeekTo,
        SelectTrack, Reset
    <3> QED BY <3>1, <3>2, <3>3
  <2>3. mStopRead /\ ~noVideo
    BY <2>1, <2>2, Zenon
  <2>4. /\ position = 0
        /\ \A s \in Streams : /\ mBuffers[s] = <<>> /\ mLastDequeueTime[s] = 0
                              /\ track[s].time = 1
                              /\ unit[s] = [pos |-> 0, version |-> 0, time |-> 0]
    BY <2>3 DEF UnreadInv
  <2>5. state # "started" /\ call # "seek"
    BY <2>3 DEF Control, StopInv
  <2>6. work.left = 0 /\ work.what # "seek" /\ ~work.holds
    BY <2>3 DEF Control, WorkInv, TypeInv, WorkBounds
  <2>7. \A s \in Streams : reader[s] = "idle"
    BY <2>5 DEF Control, IdleInv
  <2>8. CASE StillSteps
    <3>1. mLastDequeueTime' = mLastDequeueTime
      <4>1. CASE CacheFills \/ CacheEnds \/ CacheDrains \/ PrefillCache \/ PrepareFails \/ Prepare
                   \/ PollBuffering \/ RestartsPoll \/ DelayPasses \/ OnSelectTrack
        BY <4>1 DEF CacheFills, CacheEnds, CacheDrains, PrefillCache, PrepareFails, Prepare, PollBuffering,
          RestartsPoll, DelayPasses, OnSelectTrack, sourceVars
      <4>2. CASE \E s \in Streams : Asks(s) \/ AsksForMore(s)
        BY <2>7, <4>2 DEF Asks, AsksForMore
      <4>3. CASE PrepareAsync \/ OnPrepared \/ OnBufferingNotify \/ ClientPauses \/ ClientResumes
                   \/ SelectTrack \/ StopForVideo \/ Reset \/ UNCHANGED vars
        BY <4>3 DEF PrepareAsync, OnPrepared, OnBufferingNotify, ClientPauses, ClientResumes, SelectTrack,
          StopForVideo, Reset, vars, sourceVars
      <4> QED BY <1>3, <2>8, <4>1, <4>2, <4>3 DEF StillSteps
    <3> QED BY <2>4, <2>8, <3>1, StillFrame
  <2>9. CASE OnReadBuffer \/ ReadBufferReturns \/ ReadsCounterpart \/ ChangeReturns
    <3>1. UNCHANGED <<position, track, mBuffers, unit, mLastDequeueTime>>
      BY <2>9 DEF OnReadBuffer, ReadBufferReturns, ReadsCounterpart, ChangeReturns, playerVars, packetVars,
        readerVars
    <3> QED BY <2>4, <3>1
  <2>10. ~(Reads \/ SeeksAudio \/ SeekReturns \/ SeekTo \/ OnSeek)
    <3>1. ~Reads
      BY <2>6 DEF Reads, ReadsFirstUnit, QueuesUnit, ReadsEnd, ReadWouldBlock, Reading
    <3>2. ~SeeksAudio /\ ~SeekReturns
      BY <2>6 DEF SeeksAudio, SeekReturns, Returns
    <3>3. ~SeekTo
      BY <2>5 DEF SeekTo
    <3>4. ~OnSeek
      <4> SUFFICES ASSUME OnSeek PROVE FALSE
        OBVIOUS
      <4>1. call = "seek"
        BY CallInQueue DEF OnSeek, Calls, CallOf, Control
      <4> QED BY <2>5, <4>1
    <3> QED BY <3>1, <3>2, <3>3, <3>4
  <2>11. ~(\E s \in Streams : Dequeues(s))
    BY <2>7 DEF Dequeues
  <2>12. CASE OnChangeAVSource
    <3>1. UNCHANGED <<position, mBuffers, unit, mLastDequeueTime>>
      BY <2>12 DEF OnChangeAVSource, playerVars, packetVars, readerVars
    <3>2. \A s \in Streams : track'[s].time = 1
      BY <2>4, <2>12, NewTrack DEF Control, Streams
    <3> QED BY <2>4, <3>1, <3>2
  <2> QED BY <1>3, <2>8, <2>9, <2>10, <2>11, <2>12
       DEF Next, SourceNext, DecoderNext, PlayerNext, ClientNext, StillSteps
<1> QED BY <1>1, <1>2, <1>3

LEMMA NextLast ==
    ASSUME ReadsTracked, Control, Lines, LastInv, [Next]_vars, ~SoughtAfterStop
    PROVE  LastInv'
<1> SUFFICES ASSUME Live("audio")', call' # "seek", unit'["audio"].pos < position'
             PROVE  mLastDequeueTime'["audio"] <= 1
  BY DEF LastInv
<1>1. Live("audio") /\ "audio" \in Streams
  BY LiveStays DEF Streams
<1>2. StreamInv("audio")
  BY <1>1 DEF Lines
<1>3. mLastDequeueTime \in [Streams -> 0 .. NumUnits] /\ unit \in [Streams -> Taken]
        /\ position \in Int
  BY DEF Control, TypeInv, DataTypes, PlayerTypes
<1>4. CASE UNCHANGED <<unit, position, mLastDequeueTime>> /\ (call = "seek" => call' = "seek")
  BY <1>1, <1>4 DEF LastInv
<1>5. CASE OnSeek
  <2>1. UNCHANGED <<unit, position, mLastDequeueTime>>
    BY <1>5 DEF OnSeek, readerVars
  <2>2. CASE mStopRead
    BY <1>1, <1>5, <2>2 DEF SoughtAfterStop, Live
  <2>3. CASE ~mStopRead
    BY <1>4, <1>5, <2>1, <2>3 DEF OnSeek
  <2> QED BY <2>2, <2>3
<1>6. CASE SeekReturns
  <2>1. work.stream = "audio" /\ mLastDequeueTime' = [mLastDequeueTime EXCEPT !["audio"] = 1]
    BY <1>1, <1>6 DEF SeekReturns, Live
  <2> QED BY <1>1, <1>3, <2>1
<1>7. CASE SeeksAudio
  BY <1>4, <1>7 DEF SeeksAudio, playerVars, Returns, Control, CallInv
<1>8. CASE SeekTo
  BY <1>8 DEF SeekTo
<1>9. CASE \E s \in Streams : AsksForMore(s)
  <2>1. PICK s \in Streams : AsksForMore(s)
    BY <1>9
  <2>2. UNCHANGED <<unit, position, call>>
    BY <2>1 DEF AsksForMore, DecoderFrame, playerVars
  <2>3. CASE s = "audio" /\ reader[s] = "gotUnit"
    BY <1>2, <2>2, <2>3, <1>3 DEF StreamInv, GotInv, Taken
  <2>4. CASE ~(s = "audio" /\ reader[s] = "gotUnit")
    <3>1. mLastDequeueTime'["audio"] = mLastDequeueTime["audio"]
      BY <1>1, <1>3, <2>1, <2>4 DEF AsksForMore
    <3> QED BY <1>1, <2>2, <3>1 DEF LastInv
  <2> QED BY <2>3, <2>4
<1>10. CASE \E s \in Streams : Dequeues(s)
  <2>1. PICK s \in Streams : Dequeues(s)
    BY <1>10
  <2>2. UNCHANGED <<mLastDequeueTime, position, call>>
    BY <2>1 DEF Dequeues, DecoderFrame, playerVars
  <2>3. CASE unit' = unit
    BY <1>4, <2>2, <2>3
  <2>4. CASE unit' # unit
    <3>1. mBuffers[s] # <<>> /\ Head(mBuffers[s]) # FormatChange
      BY <2>1, <2>4 DEF Dequeues
    <3>2. Units!Deliver(s)
      BY <2>1, <3>1, DequeuesOne
    <3>3. CASE s = "audio"
      <4>1. unit'["audio"].pos = position /\ position' = position
        BY <3>2, <3>3 DEF Units!Deliver
      <4> QED BY <1>3, <4>1
    <3>4. CASE s # "audio"
      <4>1. unit'["audio"] = unit["audio"]
        BY <1>1, <1>3, <2>1, <3>1, <3>4 DEF Dequeues
      <4> QED BY <1>1, <2>2, <4>1 DEF LastInv
    <3> QED BY <3>3, <3>4
  <2> QED BY <2>3, <2>4
<1>11. CASE \/ CacheFills \/ CacheEnds \/ CacheDrains
            \/ PrefillCache \/ PrepareFails \/ Prepare \/ PollBuffering \/ RestartsPoll
            \/ DelayPasses \/ OnReadBuffer \/ OnChangeAVSource \/ ReadBufferReturns
            \/ ReadsCounterpart \/ ChangeReturns
  BY <1>4, <1>11 DEF CacheFills, CacheEnds, CacheDrains, PrefillCache, PrepareFails, Prepare, PollBuffering,
    RestartsPoll, DelayPasses, OnReadBuffer, OnChangeAVSource, ReadBufferReturns, ReadsCounterpart,
    ChangeReturns, sourceVars, playerVars, readerVars
<1>12. CASE Reads
  BY <1>4, <1>12 DEF Reads, ReadsFirstUnit, QueuesUnit, ReadsEnd, ReadWouldBlock, ReadFrame, playerVars,
    readerVars
<1>13. CASE OnSelectTrack \/ StopWidevine
  <2>1. call # "seek"
    BY <1>13, CallInQueue DEF OnSelectTrack, StopWidevine, Calls, CallOf, Control
  <2>2. UNCHANGED <<unit, position, mLastDequeueTime>>
    BY <1>13 DEF OnSelectTrack, StopWidevine, sourceVars, readerVars
  <2> QED BY <1>4, <2>1, <2>2
<1>14. CASE \E s \in Streams : Asks(s)
  BY <1>4, <1>14 DEF Asks, DecoderFrame, playerVars
<1>15. CASE \/ PrepareAsync \/ OnPrepared \/ OnBufferingNotify \/ OnStart \/ ClientPauses
            \/ ClientResumes \/ SelectTrack \/ StopForVideo \/ Reset \/ UNCHANGED vars
  <2>1. UNCHANGED <<unit, position, mLastDequeueTime>> /\ (call' = call \/ call = "none")
    BY <1>15 DEF PrepareAsync, OnPrepared, OnBufferingNotify, OnStart, ClientPauses, ClientResumes,
      SelectTrack, StopForVideo, Reset, PlayerFree, vars, sourceVars, playerVars, readerVars
  <2> QED BY <1>4, <2>1
<1> QED BY <1>5, <1>6, <1>7, <1>8, <1>9, <1>10, <1>11, <1>12, <1>13, <1>14, <1>15
     DEF Next, SourceNext, DecoderNext, PlayerNext, ClientNext

\* What a step is to the decoders.
LEMMA NextUnits ==
    ASSUME ReadsTracked, Control, Lines, [Next]_vars
    PROVE  [Units!Next]_(Units!vars)
<1>1. CASE \E s \in Streams : Dequeues(s)
  BY <1>1, DequeueLines
<1>2. CASE SeekTo
  <2>1. position' = position + 1 /\ position < MaxPositions /\ UNCHANGED unit
    BY <1>2 DEF SeekTo
  <2> QED BY <2>1 DEF Units!Next, Units!Seek
<1>3. CASE StillSteps
  BY <1>3, StillFrame DEF Units!vars
<1>4. CASE OnReadBuffer \/ ReadBufferReturns \/ ReadsCounterpart \/ ChangeReturns \/ Reads
             \/ OnSeek \/ SeeksAudio \/ SeekReturns \/ OnChangeAVSource \/ StopWidevine
  <2>1. UNCHANGED <<unit, position>>
    BY <1>4 DEF OnReadBuffer, ReadBufferReturns, ReadsCounterpart, ChangeReturns, Reads, ReadsFirstUnit,
      QueuesUnit, ReadsEnd, ReadWouldBlock, ReadFrame, OnSeek, SeeksAudio, SeekReturns, OnChangeAVSource,
      StopWidevine, playerVars, readerVars
  <2> QED BY <2>1 DEF Units!vars
<1> QED BY <1>1, <1>2, <1>3, <1>4
     DEF Next, SourceNext, DecoderNext, PlayerNext, ClientNext, StillSteps

LEMMA InitLines == Init => Lines /\ UnreadInv /\ LastInv /\ Units!Init
<1> SUFFICES ASSUME Init PROVE Lines /\ UnreadInv /\ LastInv /\ Units!Init
  OBVIOUS
<1>1. /\ call = "none" /\ position = 0 /\ noVideo = FALSE /\ work = Idle
      /\ \A s \in Streams : /\ track[s] = Start /\ mBuffers[s] = <<>> /\ reader[s] = "idle"
                            /\ unit[s] = [Start EXCEPT !.time = 0]
                            /\ mLastDequeueTime[s] = 0
  BY DEF Init
<1>2. [Start EXCEPT !.time = 0] = [pos |-> 0, version |-> 0, time |-> 0]
  BY DEF Start
<1>3. ASSUME NEW s \in Streams PROVE StreamInv(s)
  <2> DEFINE u == [pos |-> 0, version |-> 0, time |-> 0]
             q == <<>>
  <2>1. ~Awaits(s) /\ ~Dead /\ ~Before
    BY <1>1 DEF Awaits, Dead, Before, Idle
  <2>2. Line(s) = Append(q, Start) /\ unit[s] = u /\ Len(mBuffers[s]) = 0
    <3>1. Line(s) = Append(mBuffers[s], track[s])
      BY <2>1, Zenon DEF Line
    <3>2. mBuffers[s] = q /\ track[s] = Start /\ unit[s] = u
      BY <1>1, <1>2
    <3>3. Len(q) = 0
      OBVIOUS
    <3> HIDE DEF q
    <3> QED BY <3>1, <3>2, <3>3
  <2>3. Follows(s, u, Start)
    BY DEF Follows, Units!Continues, Start
  <2>4. q \in Seq({FormatChange})
    OBVIOUS
  <2>5. Runs(Append(q, Start)) /\ Leads(s, u, Append(q, Start))
    <3> HIDE DEF u, q
    <3> QED BY <2>3, <2>4, FreshLine
  <2>6. LineInv(s)
    BY <2>1, <2>2, <2>5 DEF LineInv
  <2> QED BY <1>1, <2>1, <2>2, <2>6 DEF StreamInv, PosInv, UnitInv, GotInv, Start
<1>4. Units!Init
  BY <1>2 DEF Init, Units!Init, Streams, Units!Streams
<1>5. UnreadInv
  BY <1>1, <1>2 DEF UnreadInv, Start
<1>6. LastInv
  BY <1>1 DEF LastInv, Streams
<1> QED BY <1>3, <1>4, <1>5, <1>6 DEF Lines

\* AccessUnits is implemented: each decoder gets the units of its position one after
\* the other, nothing twice and nothing from before a seek or a selection once it has
\* got something from behind it.  No step is a seek of a source that has been stopped
\* for its video, or a change of the audio track while the decoder is behind the time
\* it has noted; what the queue, the track and the decoder hold is else kept in line
\* through every seek, selection, stop, pause and error.
THEOREM UnitsAreInOrder ==
    ASSUME "seekFails" \notin Mishaps
    PROVE  Spec /\ [][~SoughtAfterStop]_vars /\ [][~SelectedAhead]_vars => UnitsInOrder
<1> DEFINE IInv == ReadsTracked /\ Control /\ UnreadInv /\ LastInv /\ Lines
<1>1. Init => IInv /\ Units!Init
  BY InitTypes, InitCalls, InitPrep, InitStop, InitIdle, InitWork, InitLines, InitTracked DEF Control
<1>2. IInv /\ [Next]_vars => ReadsTracked' /\ Control' /\ UnreadInv' /\ [Units!Next]_(Units!vars)
  BY NextTracked, NextTypes, NextCalls, NextPrep, NextStop, NextIdle, NextWork, NextUnread, NextUnits DEF
    Control
<1>3. IInv /\ [Next]_vars /\ [~SoughtAfterStop]_vars /\ [~SelectedAhead]_vars
         => LastInv' /\ Lines'
  <2> SUFFICES ASSUME IInv, [Next]_vars, [~SoughtAfterStop]_vars, [~SelectedAhead]_vars
               PROVE  LastInv' /\ Lines'
    OBVIOUS
  <2>1. CASE ~SoughtAfterStop /\ ~SelectedAhead
    BY <2>1, NextLines, NextLast
  <2>2. CASE UNCHANGED vars
    <3>1. Lines'
      BY <2>2, StillLines DEF StillSteps
    <3>2. UNCHANGED <<mHas, noVideo, call, unit, position, mLastDequeueTime>>
      BY <2>2 DEF vars, sessionVars, playerVars, sourceVars, readerVars
    <3>3. Live("audio")' <=> Live("audio")
      BY <3>2, Zenon DEF Live
    <3> QED BY <3>1, <3>2, <3>3 DEF LastInv
  <2> QED BY <2>1, <2>2
<1>4. IInv /\ [Next]_vars /\ [~SoughtAfterStop]_vars /\ [~SelectedAhead]_vars => IInv'
  BY <1>2, <1>3
<1> HIDE DEF IInv
<1> QED BY <1>1, <1>2, <1>4, PTL DEF Spec, UnitsInOrder, Units!Spec

-----------------------------------------------------------------------------
(* Sessions in which neither SoughtAfterStop nor SelectedAhead happens.       *)

\* The audio track is changed once at most, and no source is sought in that may have
\* been stopped for its video while there is audio.
SessionsArePlain ==
    \A d \in Sessions :
        /\ d.budget["select"] <= 1
        /\ d.kind = "widevine" /\ "audio" \in d.streams =>
              d.budget["seek"] = 0 \/ d.budget["videoFails"] = 0

Changed == track["audio"].version # 0
IsSelecting == InKind(inbox, "selectTrack") # {}
IsChanging == InKind(inbox, "changeAVSource") # {}

\* A selection is only made where there is audio, and a second one never.
ChoiceInv ==
    /\ budget["select"] <= 1 /\ OnceIn(inbox, "changeAVSource")
    /\ budget["select"] = 1 => ~IsSelecting /\ ~IsChanging /\ ~Changed
    /\ IsSelecting => ~IsChanging /\ ~Changed
    /\ IsChanging => ~Changed
    /\ IsSelecting \/ IsChanging => "audio" \in mHas
\* With audio, no seek follows the failure of the video decoder, nor it a seek.
StoppedInv ==
    "audio" \in mHas =>
        \/ position = 0 /\ budget["seek"] = 0
        \/ ~noVideo /\ (budget["videoFails"] = 0 \/ kind # "widevine")

LEMMA BudgetKept ==
    ASSUME TypeInv, [Next]_vars
    PROVE  /\ ~SelectTrack => budget'["select"] = budget["select"]
           /\ ~SeekTo => budget'["seek"] = budget["seek"]
           /\ ~StopForVideo => budget'["videoFails"] = budget["videoFails"]
<1>1. budget \in [BoundedEvents -> Nat] /\ "select" \in BoundedEvents /\ "seek" \in BoundedEvents
        /\ "videoFails" \in BoundedEvents
  BY DEF TypeInv, PlayerTypes, BoundedEvents
<1>2. \A e : Spend(e) => \A f \in BoundedEvents \ {e} : budget'[f] = budget[f]
  BY <1>1 DEF Spend
<1>3. CASE CacheDrains \/ ReadsEnd \/ ClientPauses
  <2>1. budget' = budget \/ Spend("drain") \/ Spend("readError") \/ Spend("pause")
    BY <1>3 DEF CacheDrains, ReadsEnd, ClientPauses
  <2> QED BY <1>1, <1>2, <2>1
<1>4. CASE SelectTrack \/ SeekTo \/ StopForVideo
  BY <1>1, <1>2, <1>4 DEF SelectTrack, SeekTo, StopForVideo
<1>5. CASE budget' = budget
  BY <1>5
<1>6. CASE \/ CacheFills \/ CacheEnds
           \/ PrefillCache \/ PrepareFails \/ Prepare \/ PollBuffering \/ RestartsPoll
           \/ DelayPasses \/ OnReadBuffer \/ OnSeek \/ OnSelectTrack \/ OnChangeAVSource
           \/ StopWidevine \/ ReadBufferReturns \/ SeeksAudio \/ SeekReturns
           \/ ReadsCounterpart \/ ChangeReturns
  BY <1>5, <1>6 DEF CacheFills, CacheEnds, PrefillCache, PrepareFails, Prepare, PollBuffering, RestartsPoll,
    DelayPasses, OnReadBuffer, OnSeek, OnSelectTrack, OnChangeAVSource, StopWidevine, ReadBufferReturns,
    SeeksAudio, SeekReturns, ReadsCounterpart, ChangeReturns
<1>7. CASE ReadsFirstUnit \/ QueuesUnit \/ ReadWouldBlock
  BY <1>5, <1>7 DEF ReadsFirstUnit, QueuesUnit, ReadWouldBlock
<1>8. CASE \E s \in Streams : DecoderNext(s)
  BY <1>5, <1>8 DEF DecoderNext, Asks, Dequeues, AsksForMore, DecoderFrame
<1>9. CASE PrepareAsync \/ OnPrepared \/ OnBufferingNotify \/ OnStart \/ ClientResumes \/ Reset
             \/ UNCHANGED vars
  BY <1>5, <1>9 DEF PrepareAsync, OnPrepared, OnBufferingNotify, OnStart, ClientResumes, Reset, vars
<1> QED BY <1>3, <1>4, <1>6, <1>7, <1>8, <1>9
     DEF Next, SourceNext, Reads, PlayerNext, ClientNext

LEMMA SessionKept ==
    ASSUME [Next]_vars
    PROVE  UNCHANGED <<mHas, kind>>
<1>1. CASE ~PlayerSteps
  BY <1>1, PlayerFrame
<1>2. CASE PlayerSteps
  BY <1>2 DEF PlayerSteps, OnSeek, OnSelectTrack, StopWidevine, SeekReturns, PrepareAsync, OnPrepared,
    OnStart, SeekTo, SelectTrack, StopForVideo, Reset, sessionVars
<1> QED BY <1>1, <1>2

\* Reading leaves the version of the audio track.
LEMMA VersionKept ==
    ASSUME ReadsTracked, Control, [Next]_vars, ~OnChangeAVSource
    PROVE  track'["audio"].version = track["audio"].version
<1>1. WorkTypeOK /\ WorkInv /\ TypeInv /\ track \in [Streams -> Unit] /\ "audio" \in Streams
        /\ work.stream \in Streams
  BY DEF Control, ReadsTracked, ReadingTypeOK, TypeInv, DataTypes, Streams, WorkTypeOK
<1>2. CASE track' = track
  BY <1>2
<1>3. CASE StillSteps
  BY <1>2, <1>3, StillFrame
<1>4. CASE \/ OnReadBuffer \/ ReadBufferReturns \/ ReadsCounterpart \/ ChangeReturns
           \/ ReadsEnd \/ ReadWouldBlock \/ SeeksAudio \/ SeekReturns \/ SeekTo \/ StopWidevine
           \/ (\E s \in Streams : Dequeues(s))
  BY <1>2, <1>4 DEF OnReadBuffer, ReadBufferReturns, ReadsCounterpart, ChangeReturns, ReadsEnd,
    ReadWouldBlock, SeeksAudio, SeekReturns, SeekTo, StopWidevine, Dequeues, DecoderFrame, sourceVars
<1>5. CASE QueuesUnit
  <2> DEFINE t == track[work.stream]
             n == [t EXCEPT !.time = t.time + 1]
  <2>1. track' = [track EXCEPT ![work.stream] = n]
    BY <1>5 DEF QueuesUnit
  <2>2. n.version = t.version
    BY <1>1 DEF Unit
  <2> HIDE DEF n
  <2> QED BY <1>1, <2>1, <2>2
<1>6. CASE ReadsFirstUnit
  <2>1. CASE work.format /\ ~work.seek
    <3>1. work.stream = "video"
      <4>1. work.what \in {"none", "readBuffer", "seek", "changeAVSource"}
        BY <1>1 DEF WorkTypeOK
      <4> QED BY <1>1, <2>1, <4>1 DEF WorkInv
    <3> QED BY <1>1, <1>6, <2>1, <3>1 DEF ReadsFirstUnit
  <2>2. CASE ~(work.format /\ ~work.seek)
    BY <1>2, <1>6, <2>2 DEF ReadsFirstUnit
  <2> QED BY <2>1, <2>2
<1>7. CASE OnSeek
  <2>1. CASE mStopRead
    BY <1>2, <1>7, <2>1 DEF OnSeek
  <2>2. CASE ~mStopRead
    <3>1. track' = [s \in Streams |-> [track[s] EXCEPT !.pos = position, !.time = 1]]
      BY <1>7, <2>2 DEF OnSeek
    <3> QED BY <1>1, <3>1 DEF Unit
  <2> QED BY <2>1, <2>2
<1> QED BY <1>3, <1>4, <1>5, <1>6, <1>7
     DEF Next, SourceNext, Reads, DecoderNext, PlayerNext, ClientNext, StillSteps

LEMMA NextChoice ==
    ASSUME ReadsTracked, Control, ChoiceInv, [Next]_vars
    PROVE  ChoiceInv'
<1>1. mHas' = mHas /\ budget \in [BoundedEvents -> Nat] /\ "select" \in BoundedEvents
        /\ budget["select"] \in Nat
  BY SessionKept DEF Control, TypeInv, PlayerTypes, BoundedEvents
<1>2. CASE SelectTrack
  <2>1. Posts("selectTrack") /\ "audio" \in mHas
    BY <1>2, InboxPosts DEF SelectTrack
  <2>2. budget["select"] = 1 /\ budget'["select"] = 0
    BY <1>1, <1>2 DEF SelectTrack, Spend, ChoiceInv
  <2>3. ~OnSelectTrack /\ ~OnChangeAVSource
    <3>1. budget' # budget
      BY <2>2
    <3>2. OnSelectTrack => budget' = budget
      BY DEF OnSelectTrack
    <3>3. OnChangeAVSource => budget' = budget
      BY DEF OnChangeAVSource
    <3> QED BY <3>1, <3>2, <3>3
  <2>4. KindKept(inbox, inbox', "changeAVSource") /\ (Changed' <=> Changed)
    BY <2>3, ChangesInbox, VersionKept DEF Changed
  <2> QED BY <1>1, <2>1, <2>2, <2>4 DEF ChoiceInv, KindKept, IsChanging, IsSelecting
<1>3. CASE ~SelectTrack
  <2>1. budget'["select"] = budget["select"]
    BY <1>3, BudgetKept DEF Control
  <2>2. CASE OnSelectTrack
    <3>1. IsSelecting /\ ~IsSelecting'
      BY <2>2, InboxHandles DEF Handles, KindGone, IsSelecting, Control, CallInv, Calls
    <3>2. KindCome(inbox, inbox', "changeAVSource")
      BY <2>2, ChangesInbox
    <3>3. track' = track
      BY <2>2 DEF OnSelectTrack, sourceVars
    <3>4. ~IsChanging /\ ~Changed /\ "audio" \in mHas /\ budget["select"] # 1
      BY <3>1 DEF ChoiceInv
    <3>5. ~Changed' /\ OnceIn(inbox', "changeAVSource")
      BY <3>2, <3>3, <3>4 DEF Changed, KindCome, IsChanging
    <3> QED BY <1>1, <2>1, <3>1, <3>4, <3>5 DEF ChoiceInv
  <2>3. CASE OnChangeAVSource
    <3>1. IsChanging /\ ~IsChanging'
      BY <2>3, ChangesInbox DEF ChoiceInv, KindGone, IsChanging
    <3>2. KindKept(inbox, inbox', "selectTrack")
      BY <2>3, InboxKept DEF Bystander, KeepsAll, Watched
    <3>3. ~IsSelecting /\ ~IsSelecting'
      BY <3>1, <3>2 DEF ChoiceInv, KindKept, IsSelecting, Control, CallInv, Calls
    <3>4. budget["select"] # 1
      BY <3>1 DEF ChoiceInv
    <3>5. OnceIn(inbox', "changeAVSource")
      BY <3>1 DEF IsChanging, OnceIn
    <3> QED BY <1>1, <2>1, <3>1, <3>3, <3>4, <3>5 DEF ChoiceInv
  <2>4. CASE ~OnSelectTrack /\ ~OnChangeAVSource
    <3>1. KindKept(inbox, inbox', "changeAVSource") /\ (Changed' <=> Changed)
      BY <2>4, ChangesInbox, VersionKept DEF Changed
    <3>2. KindKept(inbox, inbox', "selectTrack")
      <4>1. CASE Bystander
        BY <4>1, InboxKept DEF KeepsAll, Watched
      <4>2. CASE DelayPasses
        <5>1. PICK w \in delayed : inbox' = Append(inbox, Msg(w))
          BY <4>2 DEF DelayPasses
        <5>2. w \in {"prepareAsync", "pollBuffering"}
          BY DEF ReadsTracked, ReadingTypeOK
        <5> QED BY <5>1, <5>2, PostKinds DEF Posts, KeepsAll, Watched
      <4>3. CASE PrefillCache \/ PrepareFails \/ Prepare \/ OnSeek \/ StopWidevine
        BY <4>3, InboxHandles DEF Handles, Watched
      <4>4. CASE PrepareAsync \/ SeekTo \/ StopForVideo
        BY <4>4, InboxPosts DEF Posts, Watched
      <4> QED BY <1>3, <2>4, <4>1, <4>2, <4>3, <4>4, NextKinds
    <3>3. (IsSelecting' <=> IsSelecting) /\ (IsChanging' <=> IsChanging)
            /\ OnceIn(inbox', "changeAVSource")
      BY <3>1, <3>2 DEF IsSelecting, IsChanging, KindKept, ChoiceInv, Control, CallInv, Calls
    <3> QED BY <1>1, <2>1, <3>1, <3>3 DEF ChoiceInv
  <2> QED BY <2>2, <2>3, <2>4
<1> QED BY <1>2, <1>3

LEMMA NextStopped ==
    ASSUME TypeInv, StoppedInv, [Next]_vars
    PROVE  StoppedInv'
<1>1. UNCHANGED <<mHas, kind>> /\ budget \in [BoundedEvents -> Nat] /\ "seek" \in BoundedEvents
        /\ "videoFails" \in BoundedEvents
  BY SessionKept DEF TypeInv, PlayerTypes, BoundedEvents
<1>2. CASE SeekTo
  <2>1. budget["seek"] # 0 /\ noVideo' = noVideo /\ ~StopForVideo
    BY <1>1, <1>2 DEF SeekTo, Spend, StopForVideo
  <2>2. "audio" \in mHas => ~noVideo /\ (budget["videoFails"] = 0 \/ kind # "widevine")
    BY <2>1 DEF StoppedInv
  <2>3. ~noVideo => ~noVideo'
    BY <2>1, Zenon
  <2> QED BY <1>1, <2>1, <2>2, <2>3, BudgetKept DEF StoppedInv
<1>3. CASE StopForVideo
  <2>1. budget["videoFails"] # 0 /\ kind = "widevine" /\ position' = position /\ ~SeekTo
    BY <1>1, <1>3 DEF StopForVideo, Spend, mIsWidevine, SeekTo
  <2> QED BY <1>1, <2>1, BudgetKept DEF StoppedInv
<1>4. CASE ~SeekTo /\ ~StopForVideo
  <2>1. UNCHANGED <<position, noVideo>>
    <3>1. CASE ~PlayerSteps
      BY <3>1, PlayerFrame
    <3>2. CASE PlayerSteps
      BY <1>4, <3>2 DEF PlayerSteps, OnSeek, OnSelectTrack, StopWidevine, SeekReturns, PrepareAsync,
        OnPrepared, OnStart, SelectTrack, Reset
    <3> QED BY <3>1, <3>2
  <2>2. budget'["seek"] = budget["seek"] /\ budget'["videoFails"] = budget["videoFails"]
    BY <1>4, BudgetKept
  <2>3. ~noVideo' <=> ~noVideo
    BY <2>1, Zenon
  <2> QED BY <1>1, <2>1, <2>2, <2>3 DEF StoppedInv
<1> QED BY <1>2, <1>3, <1>4

\* Until the audio track is changed, its units are taken in their order: the one the
\* decoder u got last, the queue q, and the track t that is read on.
Behind(u, t, q) ==
    /\ u.pos <= t.pos /\ t.time >= 1
    /\ u.pos = t.pos => u.time < t.time
    /\ \A i \in 1 .. Len(q) : q[i] # FormatChange =>
          /\ q[i].pos <= t.pos /\ q[i].time >= 1
          /\ q[i].pos = t.pos => q[i].time < t.time
          /\ q[i].pos = t.pos /\ u.pos = t.pos => u.time < q[i].time
    /\ \A i, j \in 1 .. Len(q) :
          i < j /\ q[i] # FormatChange /\ q[j] # FormatChange
                /\ q[i].pos = t.pos /\ q[j].pos = t.pos => q[i].time < q[j].time

\* mLastDequeueTime is not ahead of u.
Reached(u, t, last) == IF u.pos = t.pos THEN last <= u.time ELSE last <= 1

FreshInv ==
    Live("audio") /\ ~Changed =>
        /\ Behind(unit["audio"], track["audio"], mBuffers["audio"])
        /\ work.what # "seek" =>
              Reached(unit["audio"], track["audio"], mLastDequeueTime["audio"])

LEMMA BehindExtends ==
    ASSUME NEW u \in Unit, NEW t \in Unit, NEW q \in Seq(Item), Behind(u, t, q),
           NEW n \in Unit, n.pos = t.pos, n.time = t.time + 1
    PROVE  Behind(u, n, Append(q, t))
<1> DEFINE r == Append(q, t)
<1>1. t \in Item
  BY DEF Item
<1>2. Len(r) = Len(q) + 1 /\ Len(q) \in Nat /\ r[Len(q) + 1] = t
        /\ \A i \in 1 .. Len(q) : r[i] = q[i]
  BY <1>1, AppendParts
<1> HIDE DEF r
<1>3. t.pos \in Int /\ t.time \in Int /\ u.pos \in Int /\ u.time \in Int
  BY UnitRanges
<1>4. \A i \in 1 .. Len(r) : i = Len(q) + 1 \/ (i \in 1 .. Len(q) /\ r[i] = q[i])
  BY <1>2
<1>5. \A i \in 1 .. Len(q) : q[i] # FormatChange => q[i].pos \in Int /\ q[i].time \in Int
  <2> TAKE i \in 1 .. Len(q)
  <2>1. q[i] \in Item
    OBVIOUS
  <2> QED BY <2>1, UnitRanges DEF Item
<1>6. n.pos = t.pos /\ u.pos <= n.pos /\ n.time >= 1 /\ (u.pos = n.pos => u.time < n.time)
  BY <1>3 DEF Behind
<1>7. ASSUME NEW i \in 1 .. Len(r), r[i] # FormatChange
      PROVE  /\ r[i].pos <= n.pos /\ r[i].time >= 1
             /\ r[i].pos = n.pos => r[i].time < n.time
             /\ r[i].pos = n.pos /\ u.pos = n.pos => u.time < r[i].time
  <2>1. CASE i = Len(q) + 1
    BY <1>2, <1>3, <2>1 DEF Behind
  <2>2. CASE i \in 1 .. Len(q) /\ r[i] = q[i]
    BY <1>3, <1>5, <1>7, <2>2 DEF Behind
  <2> QED BY <1>4, <2>1, <2>2
<1>8. ASSUME NEW i \in 1 .. Len(r), NEW j \in 1 .. Len(r), i < j, r[i] # FormatChange,
             r[j] # FormatChange, r[i].pos = n.pos, r[j].pos = n.pos
      PROVE  r[i].time < r[j].time
  <2>1. i \in 1 .. Len(q) /\ r[i] = q[i]
    BY <1>2, <1>4, <1>8
  <2>2. CASE j = Len(q) + 1
    BY <1>2, <1>8, <2>1, <2>2 DEF Behind
  <2>3. CASE j \in 1 .. Len(q) /\ r[j] = q[j]
    BY <1>8, <2>1, <2>3 DEF Behind
  <2> QED BY <1>4, <2>2, <2>3
<1> QED BY <1>6, <1>7, <1>8 DEF Behind, r

LEMMA BehindFresh ==
    ASSUME NEW u, NEW t, NEW q, Behind(u, t, q), NEW r \in Seq({FormatChange})
    PROVE  Behind(u, t, r)
<1>1. \A i \in 1 .. Len(r) : r[i] = FormatChange
  OBVIOUS
<1> QED BY <1>1 DEF Behind

LEMMA BehindTail ==
    ASSUME NEW u, NEW t, NEW q \in Seq(Item), q # <<>>, Behind(u, t, q)
    PROVE  /\ Behind(u, t, Tail(q))
           /\ Head(q) # FormatChange => Behind(Head(q), t, Tail(q))
<1> DEFINE r == Tail(q)
           b == Head(q)
<1>1. r \in Seq(Item) /\ Len(q) \in Nat \ {0} /\ Len(r) = Len(q) - 1 /\ b = q[1]
        /\ \A i \in 1 .. Len(r) : r[i] = q[i + 1]
  OBVIOUS
<1> HIDE DEF r, b
<1>2. \A i \in 1 .. Len(r) : i + 1 \in 1 .. Len(q) /\ r[i] = q[i + 1] /\ 1 < i + 1
  BY <1>1
<1>3. 1 \in 1 .. Len(q)
  BY <1>1
<1>4. \A i, j \in 1 .. Len(r) : i < j => i + 1 < j + 1
  BY <1>1
<1>5. Behind(u, t, r)
  <2>1. \A i \in 1 .. Len(r) : r[i] # FormatChange =>
          /\ r[i].pos <= t.pos /\ r[i].time >= 1
          /\ r[i].pos = t.pos => r[i].time < t.time
          /\ r[i].pos = t.pos /\ u.pos = t.pos => u.time < r[i].time
    BY <1>2 DEF Behind
  <2>2. \A i, j \in 1 .. Len(r) :
          i < j /\ r[i] # FormatChange /\ r[j] # FormatChange
                /\ r[i].pos = t.pos /\ r[j].pos = t.pos => r[i].time < r[j].time
    BY <1>2, <1>4 DEF Behind
  <2> QED BY <2>1, <2>2 DEF Behind
<1>6. ASSUME b # FormatChange PROVE Behind(b, t, r)
  <2>1. b.pos <= t.pos /\ (b.pos = t.pos => b.time < t.time) /\ t.time >= 1
    BY <1>1, <1>3, <1>6 DEF Behind
  <2>2. ASSUME NEW i \in 1 .. Len(r), r[i] # FormatChange, r[i].pos = t.pos, b.pos = t.pos
        PROVE  b.time < r[i].time
    BY <1>1, <1>2, <1>3, <1>6, <2>2 DEF Behind
  <2> QED BY <1>5, <2>1, <2>2 DEF Behind
<1> QED BY <1>5, <1>6 DEF r, b

LEMMA FreshSet ==
    ASSUME NEW u, NEW t, NEW q, NEW last,
           u = unit'["audio"], t = track'["audio"], q = mBuffers'["audio"],
           last = mLastDequeueTime'["audio"],
           Behind(u, t, q), work'.what # "seek" => Reached(u, t, last)
    PROVE  FreshInv'
<1>1. Behind(unit["audio"], track["audio"], mBuffers["audio"])'
  BY DEF Behind
<1>2. work'.what # "seek" => Reached(unit["audio"], track["audio"], mLastDequeueTime["audio"])'
  BY DEF Reached
<1> QED BY <1>1, <1>2 DEF FreshInv

LEMMA FreshKept ==
    ASSUME FreshInv, [Next]_vars, track'["audio"].version = track["audio"].version,
           unit'["audio"] = unit["audio"], track'["audio"] = track["audio"],
           mBuffers'["audio"] = mBuffers["audio"],
           mLastDequeueTime'["audio"] = mLastDequeueTime["audio"],
           work'.what # "seek" => work.what # "seek"
    PROVE  FreshInv'
<1> SUFFICES ASSUME Live("audio")', ~Changed'
             PROVE  FreshInv'
  BY DEF FreshInv
<1>1. Live("audio") /\ ~Changed
  BY LiveStays DEF Changed
<1> DEFINE u == unit["audio"]
           t == track["audio"]
           q == mBuffers["audio"]
           last == mLastDequeueTime["audio"]
<1>2. Behind(u, t, q) /\ (work.what # "seek" => Reached(u, t, last))
  BY <1>1 DEF FreshInv
<1>3. u = unit'["audio"] /\ t = track'["audio"] /\ q = mBuffers'["audio"]
        /\ last = mLastDequeueTime'["audio"]
  OBVIOUS
<1>4. work'.what # "seek" => Reached(u, t, last)
  BY <1>2
<1> HIDE DEF u, t, q, last
<1> QED BY <1>2, <1>3, <1>4, FreshSet

LEMMA AudioFacts ==
    ASSUME TypeInv
    PROVE  /\ "audio" \in Streams /\ "video" \in Streams
           /\ unit \in [Streams -> Taken] /\ track \in [Streams -> Unit]
           /\ mBuffers \in [Streams -> Seq(Taken \cup {FormatChange})]
           /\ mLastDequeueTime \in [Streams -> 0 .. NumUnits]
           /\ unit["audio"] \in Unit /\ track["audio"] \in Unit
           /\ mBuffers["audio"] \in Seq(Item)
  BY LineTypes, TakenIsUnit DEF TypeInv, DataTypes, Streams

LEMMA QueuesFresh ==
    ASSUME ReadsTracked, Control, FreshInv, [Next]_vars, QueuesUnit
    PROVE  FreshInv'
<1> SUFFICES ASSUME Live("audio")', ~Changed'
             PROVE  FreshInv'
  BY DEF FreshInv
<1>1. WorkTypeOK /\ TypeInv /\ work.stream \in Streams
  BY DEF Control, ReadsTracked, ReadingTypeOK, WorkTypeOK
<1>2. work'.what = work.what
  BY <1>1, ReadsWork DEF Reads
<1>3. UNCHANGED <<unit, mLastDequeueTime>>
  BY DEF QueuesUnit, ReadFrame, readerVars
<1> DEFINE t == track[work.stream]
           n == [t EXCEPT !.time = t.time + 1]
<1>4. /\ mBuffers' = [mBuffers EXCEPT ![work.stream] = Append(mBuffers[work.stream], t)]
      /\ track' = [track EXCEPT ![work.stream] = n]
  BY DEF QueuesUnit
<1>5. t \in Unit /\ t.time \in Int
  BY <1>1, LineTypes, UnitRanges
<1>6. n.time = t.time + 1 /\ n.pos = t.pos /\ n.version = t.version
  BY <1>5 DEF Unit
<1>7. TypeInv'
  BY NextTypes DEF Control
<1> HIDE DEF n
<1>8. CASE work.stream # "audio"
  <2>1. mBuffers'["audio"] = mBuffers["audio"] /\ track'["audio"] = track["audio"]
    BY <1>1, <1>4, <1>8, AudioFacts
  <2> QED BY <1>2, <1>3, <2>1, FreshKept
<1>9. CASE work.stream = "audio"
  <2> DEFINE q == mBuffers["audio"]
             u == unit["audio"]
             last == mLastDequeueTime["audio"]
  <2>1. mBuffers'["audio"] = Append(q, t) /\ track'["audio"] = n /\ track["audio"] = t
    BY <1>1, <1>4, <1>9, AudioFacts
  <2>2. n \in Unit
    BY <1>7, <2>1 DEF TypeInv, DataTypes, Streams
  <2>3. Live("audio") /\ ~Changed
    BY <1>6, <2>1, LiveStays DEF Changed
  <2>4. Behind(u, t, q) /\ (work.what # "seek" => Reached(u, t, last))
    BY <2>1, <2>3 DEF FreshInv
  <2>5. u \in Unit /\ q \in Seq(Item)
    BY <1>1, AudioFacts
  <2>6. unit'["audio"] = u /\ mLastDequeueTime'["audio"] = last
    BY <1>3
  <2> HIDE DEF t, q, u, last
  <2>7. Behind(u, n, Append(q, t))
    BY <1>5, <1>6, <2>2, <2>4, <2>5, BehindExtends
  <2>8. work'.what # "seek" => Reached(u, n, last)
    BY <1>2, <1>6, <2>4 DEF Reached
  <2> QED BY <2>1, <2>6, <2>7, <2>8, FreshSet
<1> QED BY <1>8, <1>9

LEMMA FirstUnitFresh ==
    ASSUME ReadsTracked, Control, FreshInv, [Next]_vars, ReadsFirstUnit
    PROVE  FreshInv'
<1> SUFFICES ASSUME Live("audio")', ~Changed'
             PROVE  FreshInv'
  BY DEF FreshInv
<1>1. WorkTypeOK /\ TypeInv /\ WorkInv /\ work.stream \in Streams
  BY DEF Control, ReadsTracked, ReadingTypeOK, WorkTypeOK
<1>2. work'.what = work.what
  BY <1>1, ReadsWork DEF Reads
<1>3. UNCHANGED <<unit, mLastDequeueTime>>
  BY DEF ReadsFirstUnit, ReadFrame, readerVars
<1>4. track'["audio"] = track["audio"]
  <2>1. CASE work.format /\ ~work.seek
    <3>1. work.what \in {"none", "readBuffer", "seek", "changeAVSource"}
      BY <1>1 DEF WorkTypeOK
    <3>2. work.stream = "video"
      BY <1>1, <2>1, <3>1 DEF WorkInv
    <3> QED BY <1>1, <2>1, <3>2, AudioFacts DEF ReadsFirstUnit
  <2>2. CASE ~(work.format /\ ~work.seek)
    BY <2>2 DEF ReadsFirstUnit
  <2> QED BY <2>1, <2>2
<1>5. CASE work.stream # "audio"
  <2>1. mBuffers'["audio"] = mBuffers["audio"]
    BY <1>1, <1>5, FirstUnitQueue, AudioFacts
  <2> QED BY <1>2, <1>3, <1>4, <2>1, FreshKept
<1>6. CASE work.stream = "audio"
  <2> DEFINE r == mBuffers'["audio"]
             q == mBuffers["audio"]
             u == unit["audio"]
             t == track["audio"]
             last == mLastDequeueTime["audio"]
  <2>1. r \in Seq({FormatChange})
    BY <1>1, <1>6, FirstUnitQueue
  <2>2. Live("audio") /\ ~Changed
    BY <1>4, LiveStays DEF Changed
  <2>3. Behind(u, t, q) /\ (work.what # "seek" => Reached(u, t, last))
    BY <2>2 DEF FreshInv
  <2>4. u = unit'["audio"] /\ t = track'["audio"] /\ last = mLastDequeueTime'["audio"]
          /\ r = mBuffers'["audio"]
    BY <1>3, <1>4
  <2>5. work'.what # "seek" => Reached(u, t, last)
    BY <1>2, <2>3
  <2> HIDE DEF q, u, t, last, r
  <2>6. Behind(u, t, r)
    BY <2>1, <2>3, BehindFresh
  <2> QED BY <2>4, <2>5, <2>6, FreshSet
<1> QED BY <1>5, <1>6

LEMMA OnSeekFresh ==
    ASSUME ReadsTracked, Control, Lines, FreshInv, [Next]_vars, OnSeek
    PROVE  FreshInv'
<1> SUFFICES ASSUME Live("audio")', ~Changed'
             PROVE  FreshInv'
  BY DEF FreshInv
<1>1. UNCHANGED <<unit, mLastDequeueTime, mBuffers>>
  BY DEF OnSeek, packetVars, readerVars
<1>2. TypeInv /\ Live("audio") /\ work.what # "seek"
  BY LiveStays DEF Control, OnSeek, Take, SourceRuns
<1>3. CASE mStopRead
  BY <1>1, <1>2, <1>3, FreshKept DEF OnSeek
<1>4. CASE ~mStopRead
  <2> DEFINE q == mBuffers["audio"]
             u == unit["audio"]
             t == track["audio"]
             n == track'["audio"]
             last == mLastDequeueTime["audio"]
  <2>1. track' = [s \in Streams |-> [track[s] EXCEPT !.pos = position, !.time = 1]]
          /\ work'.what = "seek"
    <3> DEFINE d == IF "video" \in mHas THEN "video" ELSE "audio"
    <3>1. /\ track' = [s \in Streams |-> [track[s] EXCEPT !.pos = position, !.time = 1]]
          /\ ReadBuffer("seek", d, TRUE, FALSE)
      BY <1>4 DEF OnSeek
    <3>2. d \in Streams
      BY DEF Streams
    <3> HIDE DEF d
    <3> QED BY <1>2, <3>1, <3>2, ReadBufferWork
  <2>2. n.pos = position /\ n.time = 1 /\ n.version = t.version
    BY <1>2, <2>1, AudioFacts DEF Unit
  <2>3. Behind(u, t, q)
    BY <1>2, <2>2 DEF FreshInv, Changed
  <2>4. call = "seek" /\ StreamInv("audio")
    <3>1. call = "seek"
      BY CallInQueue DEF OnSeek, Calls, CallOf, Control
    <3> QED BY <1>2, <3>1, AudioFacts DEF Lines
  <2>5. u.pos < position /\ t.pos < position
    BY <1>2, <2>4 DEF StreamInv, UnitInv, PosInv, Before
  <2>6. u \in Unit /\ t \in Unit /\ q \in Seq(Item) /\ position \in Int
    BY <1>2, AudioFacts DEF TypeInv, PlayerTypes
  <2>7. u = unit'["audio"] /\ last = mLastDequeueTime'["audio"] /\ q = mBuffers'["audio"]
    BY <1>1
  <2> HIDE DEF q, u, t, n, last
  <2>8. \A i \in 1 .. Len(q) : q[i] # FormatChange => q[i].pos \in Int /\ q[i].time \in Int
    <3> TAKE i \in 1 .. Len(q)
    <3>1. q[i] \in Item
      BY <2>6
    <3> QED BY <3>1, UnitRanges DEF Item
  <2>9. Behind(u, n, q)
    <3>1. u.pos \in Int /\ t.pos \in Int
      BY <2>6, UnitRanges
    <3> QED BY <2>2, <2>3, <2>5, <2>6, <2>8, <3>1 DEF Behind
  <2> QED BY <2>1, <2>7, <2>9, FreshSet DEF n
<1> QED BY <1>3, <1>4

LEMMA SeekReturnsFresh ==
    ASSUME ReadsTracked, Control, Lines, FreshInv, [Next]_vars, SeekReturns
    PROVE  FreshInv'
<1> SUFFICES ASSUME Live("audio")', ~Changed'
             PROVE  FreshInv'
  BY DEF FreshInv
<1>1. UNCHANGED <<unit, mBuffers, track>>
  BY DEF SeekReturns, packetVars, readerVars
<1>2. TypeInv /\ Live("audio") /\ ~Changed
  BY <1>1, LiveStays DEF Control, Changed
<1> DEFINE q == mBuffers["audio"]
           u == unit["audio"]
           t == track["audio"]
           last == mLastDequeueTime'["audio"]
<1>3. Behind(u, t, q)
  BY <1>2 DEF FreshInv
<1>4. work.stream = "audio" /\ mLastDequeueTime' = [mLastDequeueTime EXCEPT !["audio"] = 1]
  BY <1>2 DEF SeekReturns, Live
<1>5. last = 1
  BY <1>2, <1>4, AudioFacts
<1>6. call = "seek" /\ work.what = "seek" /\ StreamInv("audio")
  BY <1>2, AudioFacts DEF SeekReturns, Returns, Lines, Control, CallInv
<1>7. u.pos < position /\ t.pos = position
  BY <1>6 DEF StreamInv, UnitInv, PosInv, Before
<1>8. u \in Unit /\ t \in Unit /\ position \in Int
  BY <1>2, AudioFacts DEF TypeInv, PlayerTypes
<1>9. Reached(u, t, last)
  BY <1>5, <1>7, <1>8, UnitRanges DEF Reached
<1>10. u = unit'["audio"] /\ t = track'["audio"] /\ q = mBuffers'["audio"]
  BY <1>1
<1> HIDE DEF q, u, t
<1> QED BY <1>3, <1>9, <1>10, FreshSet DEF last

LEMMA DequeuesFresh ==
    ASSUME ReadsTracked, Control, Lines, FreshInv, [Next]_vars, NEW s \in Streams, Dequeues(s)
    PROVE  FreshInv'
<1> SUFFICES ASSUME Live("audio")', ~Changed'
             PROVE  FreshInv'
  BY DEF FreshInv
<1>1. UNCHANGED <<mLastDequeueTime, track, work>>
  BY DEF Dequeues, DecoderFrame
<1>2. TypeInv /\ Live("audio") /\ ~Changed
  BY <1>1, LiveStays DEF Control, Changed
<1> DEFINE q == mBuffers["audio"]
           u == unit["audio"]
           t == track["audio"]
           last == mLastDequeueTime["audio"]
<1>3. Behind(u, t, q) /\ (work.what # "seek" => Reached(u, t, last))
  BY <1>2 DEF FreshInv
<1>4. u \in Unit /\ t \in Unit /\ q \in Seq(Item)
  BY <1>2, AudioFacts
<1>5. CASE s # "audio" \/ q = <<>>
  <2>1. mBuffers'["audio"] = q /\ unit'["audio"] = u
    BY <1>2, <1>5, AudioFacts DEF Dequeues
  <2> QED BY <1>1, <2>1, FreshKept
<1>6. CASE s = "audio" /\ q # <<>>
  <2>1. mBuffers'["audio"] = Tail(q)
    BY <1>2, <1>6, AudioFacts DEF Dequeues
  <2>2. t = track'["audio"] /\ last = mLastDequeueTime'["audio"]
    BY <1>1
  <2>3. CASE Head(q) = FormatChange
    <3>1. unit'["audio"] = u
      BY <1>6, <2>3 DEF Dequeues
    <3> HIDE DEF q, u, t, last
    <3>2. Behind(u, t, Tail(q))
      BY <1>3, <1>4, <1>6, BehindTail
    <3> QED BY <1>1, <1>3, <2>1, <2>2, <3>1, <3>2, FreshSet
  <2>4. CASE Head(q) # FormatChange
    <3> DEFINE b == Head(q)
    <3>1. unit'["audio"] = b
      BY <1>2, <1>6, <2>4, AudioFacts DEF Dequeues
    <3>2. Units!Deliver("audio")
      BY <1>6, <2>4, DequeuesOne
    <3>3. b.pos = position
      BY <3>1, <3>2 DEF Units!Deliver
    <3>4. call # "seek" /\ StreamInv("audio")
      BY <1>2, <1>6, AudioFacts DEF Dequeues, Control, IdleInv, Lines
    <3>5. t.pos = position
      BY <3>4 DEF StreamInv, PosInv, Before
    <3>6. work.what # "seek"
      BY <3>4 DEF Control, CallInv
    <3>7. Len(q) \in Nat \ {0} /\ b = q[1] /\ b \in Item
      BY <1>4, <1>6
    <3>8. last \in Int
      BY <1>2, AudioFacts, SizeFacts
    <3> HIDE DEF q, u, t, last, b
    <3>9. Behind(b, t, Tail(q))
      BY <1>3, <1>4, <1>6, <2>4, BehindTail DEF b
    <3>10. Reached(b, t, last)
      <4>1. 1 \in 1 .. Len(q)
        BY <3>7
      <4>2. b # FormatChange
        BY <2>4 DEF b
      <4>3. b.time >= 1 /\ (u.pos = t.pos => u.time < b.time)
        BY <1>3, <3>3, <3>5, <3>7, <4>1, <4>2 DEF Behind
      <4>4. b.time \in Int /\ u.time \in Int
        BY <1>4, <3>7, <4>2, UnitRanges DEF Item
      <4>5. IF u.pos = t.pos THEN last <= u.time ELSE last <= 1
        BY <1>3, <3>6 DEF Reached
      <4>6. last <= b.time
        BY <3>8, <4>3, <4>4, <4>5
      <4> QED BY <3>3, <3>5, <4>6 DEF Reached
    <3> QED BY <1>1, <2>1, <2>2, <3>1, <3>9, <3>10, FreshSet
  <2> QED BY <2>3, <2>4
<1> QED BY <1>5, <1>6

LEMMA AsksForMoreFresh ==
    ASSUME ReadsTracked, Control, Lines, FreshInv, [Next]_vars, NEW s \in Streams, AsksForMore(s)
    PROVE  FreshInv'
<1> SUFFICES ASSUME Live("audio")', ~Changed'
             PROVE  FreshInv'
  BY DEF FreshInv
<1>1. UNCHANGED <<unit, mBuffers, track, work>>
  BY DEF AsksForMore, DecoderFrame
<1>2. TypeInv /\ Live("audio") /\ ~Changed
  BY <1>1, LiveStays DEF Control, Changed
<1>3. CASE ~(s = "audio" /\ reader[s] = "gotUnit")
  <2>1. mLastDequeueTime'["audio"] = mLastDequeueTime["audio"]
    BY <1>2, <1>3, AudioFacts DEF AsksForMore
  <2> QED BY <1>1, <2>1, FreshKept
<1>4. CASE s = "audio" /\ reader[s] = "gotUnit"
  <2> DEFINE q == mBuffers["audio"]
             u == unit["audio"]
             t == track["audio"]
             last == mLastDequeueTime'["audio"]
  <2>1. last = u.time
    BY <1>2, <1>4, AudioFacts DEF AsksForMore
  <2>2. call # "seek" /\ StreamInv("audio")
    BY <1>2, <1>4, AudioFacts DEF Control, IdleInv, Lines
  <2>3. u.pos = t.pos
    BY <1>4, <2>2 DEF StreamInv, GotInv, PosInv, Before
  <2>4. u.time \in Int
    BY <1>2, AudioFacts, UnitRanges
  <2>5. Reached(u, t, last)
    BY <2>1, <2>3, <2>4 DEF Reached
  <2>6. Behind(u, t, q)
    BY <1>2 DEF FreshInv
  <2>7. u = unit'["audio"] /\ t = track'["audio"] /\ q = mBuffers'["audio"]
    BY <1>1
  <2> HIDE DEF q, u, t
  <2> QED BY <2>5, <2>6, <2>7, FreshSet DEF last
<1> QED BY <1>3, <1>4

LEMMA NextFresh ==
    ASSUME ReadsTracked, Control, Lines, FreshInv, [Next]_vars
    PROVE  FreshInv'
<1>1. TypeInv /\ WorkTypeOK
  BY DEF Control, ReadsTracked, ReadingTypeOK
<1>2. CASE UNCHANGED <<unit, track, mBuffers, mLastDequeueTime>>
             /\ (work'.what # "seek" => work.what # "seek")
  BY <1>2, FreshKept
<1>3. CASE OnChangeAVSource
  <2>1. track'["audio"].version = track["audio"].version + 1 /\ track["audio"].version \in Nat
    BY <1>1, <1>3, NewTrack, AudioFacts DEF Unit
  <2> QED BY <2>1 DEF FreshInv, Changed
<1>4. CASE SeeksAudio
  <2>1. work.what = "seek" /\ work'.what = "seek" /\ UNCHANGED <<unit, track, mBuffers>>
          /\ mLastDequeueTime' = [mLastDequeueTime EXCEPT !["video"] = 1]
    BY <1>4 DEF SeeksAudio, Returns, ReadBuffer, packetVars, readerVars
  <2>2. mLastDequeueTime'["audio"] = mLastDequeueTime["audio"]
    BY <1>1, <2>1, AudioFacts
  <2> QED BY <2>1, <2>2, FreshKept
<1>5. CASE StopWidevine
  <2>1. UNCHANGED <<unit, track, mLastDequeueTime, work>>
          /\ mBuffers' = [mBuffers EXCEPT !["video"] = <<>>]
    BY <1>5 DEF StopWidevine, readerVars
  <2>2. mBuffers'["audio"] = mBuffers["audio"]
    BY <1>1, <2>1, AudioFacts
  <2> QED BY <2>1, <2>2, FreshKept
<1>6. CASE OnReadBuffer \/ ReadBufferReturns \/ ReadsCounterpart \/ ChangeReturns
  <2>1. UNCHANGED <<unit, track, mBuffers, mLastDequeueTime>>
    BY <1>6 DEF OnReadBuffer, ReadBufferReturns, ReadsCounterpart, ChangeReturns, packetVars, readerVars
  <2>2. work.what # "seek"
    BY <1>6 DEF OnReadBuffer, ReadBufferReturns, ReadsCounterpart, ChangeReturns, Returns, Take, SourceRuns
  <2> QED BY <1>2, <2>1, <2>2
<1>7. CASE ReadsEnd \/ ReadWouldBlock
  <2>1. work'.what = work.what
    BY <1>1, <1>7, ReadsWork DEF Reads
  <2>2. UNCHANGED <<unit, track, mBuffers, mLastDequeueTime>>
    BY <1>7 DEF ReadsEnd, ReadWouldBlock, ReadFrame, packetVars, readerVars
  <2> QED BY <1>2, <2>1, <2>2
<1>8. CASE \/ CacheFills \/ CacheEnds \/ CacheDrains
           \/ PrefillCache \/ PrepareFails \/ Prepare \/ PollBuffering \/ RestartsPoll
           \/ DelayPasses \/ OnSelectTrack
  BY <1>2, <1>8 DEF CacheFills, CacheEnds, CacheDrains, PrefillCache, PrepareFails, Prepare, PollBuffering,
    RestartsPoll, DelayPasses, OnSelectTrack, sourceVars, packetVars, readerVars
<1>9. CASE \E s \in Streams : Asks(s)
  BY <1>2, <1>9 DEF Asks, DecoderFrame
<1>10. CASE \/ PrepareAsync \/ OnPrepared \/ OnBufferingNotify \/ OnStart \/ ClientPauses
            \/ ClientResumes \/ SeekTo \/ SelectTrack \/ StopForVideo \/ Reset \/ UNCHANGED vars
  BY <1>2, <1>10 DEF PrepareAsync, OnPrepared, OnBufferingNotify, OnStart, ClientPauses, ClientResumes,
    SeekTo, SelectTrack, StopForVideo, Reset, vars, sourceVars, packetVars, readerVars
<1>11. CASE \E s \in Streams : Dequeues(s) \/ AsksForMore(s)
  BY <1>11, DequeuesFresh, AsksForMoreFresh
<1> QED BY <1>3, <1>4, <1>5, <1>6, <1>7, <1>8, <1>9, <1>10, <1>11, QueuesFresh, FirstUnitFresh,
     OnSeekFresh, SeekReturnsFresh
     DEF Next, SourceNext, Reads, DecoderNext, PlayerNext, ClientNext

LEMMA InitPlain == SessionsArePlain /\ Init => ChoiceInv /\ StoppedInv /\ FreshInv
<1> SUFFICES ASSUME SessionsArePlain, Init
             PROVE  ChoiceInv /\ StoppedInv /\ FreshInv
  OBVIOUS
<1>1. PICK d \in Sessions : mHas = d.streams /\ kind = d.kind /\ budget = d.budget
  BY DEF Init
<1>2. /\ d.budget["select"] <= 1 /\ d.budget["seek"] \in Nat
      /\ d.kind = "widevine" /\ "audio" \in d.streams =>
            d.budget["seek"] = 0 \/ d.budget["videoFails"] = 0
  BY EnvironmentAssumption DEF SessionsArePlain, BoundedEvents
<1>3. inbox = <<>> /\ position = 0 /\ noVideo = FALSE
        /\ track = [s \in Streams |-> Start] /\ unit = [s \in Streams |-> [Start EXCEPT !.time = 0]]
        /\ mBuffers = [s \in Streams |-> <<>>] /\ mLastDequeueTime = [s \in Streams |-> 0]
  BY DEF Init
<1>4. \A w : InKind(inbox, w) = {}
  BY <1>3 DEF InKind
<1>5. "audio" \in Streams
  BY DEF Streams
<1>6. track["audio"] = Start /\ unit["audio"] = [pos |-> 0, version |-> 0, time |-> 0]
        /\ mBuffers["audio"] = <<>> /\ mLastDequeueTime["audio"] = 0
  BY <1>3, <1>5 DEF Start
<1>7. ChoiceInv
  BY <1>1, <1>2, <1>4, <1>6 DEF ChoiceInv, OnceIn, IsSelecting, IsChanging, Changed, Start
<1>8. StoppedInv
  <2>1. ~noVideo
    BY <1>3, Zenon
  <2> QED BY <1>1, <1>2, <1>3, <2>1 DEF StoppedInv
<1>9. FreshInv
  BY <1>6 DEF FreshInv, Behind, Reached, Start
<1> QED BY <1>7, <1>8, <1>9

LEMMA NeverSoughtAfterStop ==
    ASSUME ReadsTracked, Control, Lines, StoppedInv
    PROVE  ~SoughtAfterStop
<1> SUFFICES ASSUME SoughtAfterStop
             PROVE  FALSE
  OBVIOUS
<1>1. "audio" \in mHas /\ mStopRead /\ Take("seek")
  BY DEF SoughtAfterStop, OnSeek
<1>2. call = "seek" /\ work.what # "seek"
  BY <1>1, CallInQueue DEF Take, SourceRuns, Control, Calls, CallOf
<1>3. noVideo
  BY <1>1, <1>2 DEF Control, StopInv
<1>4. position = 0
  BY <1>1, <1>3 DEF StoppedInv
<1>5. StreamInv("audio")
  BY <1>1, AudioFacts DEF Lines, Live, Control
<1>6. track["audio"].pos < position
  BY <1>2, <1>5 DEF StreamInv, PosInv, Before
<1> QED BY <1>4, <1>6, AudioFacts, UnitRanges DEF Control

LEMMA NeverSelectedAhead ==
    ASSUME ReadsTracked, Control, ChoiceInv, FreshInv
    PROVE  ~SelectedAhead
<1> SUFFICES ASSUME SelectedAhead
             PROVE  FALSE
  OBVIOUS
<1>1. Take("changeAVSource")
  BY DEF SelectedAhead, OnChangeAVSource
<1>2. work.what = "none" /\ inbox # <<>> /\ Head(inbox).what = "changeAVSource"
        /\ inbox \in Seq(Message)
  BY <1>1 DEF Take, SourceRuns, ReadsTracked, ReadingTypeOK
<1>3. IsChanging
  <2>1. 1 \in DOMAIN inbox /\ Head(inbox) = inbox[1]
    BY <1>2
  <2> QED BY <1>2, <2>1 DEF IsChanging, InKind
<1>4. Live("audio") /\ ~Changed
  BY <1>3 DEF ChoiceInv, Live
<1> DEFINE q == mBuffers["audio"]
           t == track["audio"]
           v == unit["audio"]
           last == mLastDequeueTime["audio"]
<1>5. Behind(v, t, q) /\ Reached(v, t, last)
  BY <1>2, <1>4 DEF FreshInv
<1>6. PICK u \in {v} \cup {q[i] : i \in DOMAIN q} : u.pos = t.pos /\ u.time + 1 < last
  BY DEF SelectedAhead
<1>7. v \in Unit /\ t \in Unit /\ q \in Seq(Item) /\ last \in Int
  BY AudioFacts, SizeFacts DEF Control
<1>8. ASSUME NEW i \in DOMAIN q, u = q[i] PROVE u \in Item /\ i \in 1 .. Len(q)
  BY <1>7, <1>8
<1> HIDE DEF q, t, v, last
<1>9. v.time \in Int /\ t.pos \in Int /\ t.pos >= 0
  BY <1>7, UnitRanges
<1>10. IF v.pos = t.pos THEN last <= v.time ELSE last <= 1
  BY <1>5 DEF Reached
<1>11. CASE u = v
  BY <1>6, <1>7, <1>9, <1>10, <1>11
<1>12. CASE u \in {q[i] : i \in DOMAIN q}
  <2>1. PICK i \in DOMAIN q : u = q[i]
    BY <1>12
  <2>2. u \in Item /\ i \in 1 .. Len(q)
    BY <1>8, <2>1
  <2>3. u # FormatChange
    BY <1>6, <1>9 DEF FormatChange
  <2>4. u.time \in Int
    BY <2>2, <2>3, UnitRanges DEF Item
  <2>5. u.time >= 1 /\ (v.pos = t.pos => v.time < u.time)
    BY <1>5, <1>6, <2>1, <2>2, <2>3 DEF Behind
  <2> QED BY <1>6, <1>7, <1>9, <1>10, <2>4, <2>5
<1> QED BY <1>6, <1>11, <1>12

\* In sessions in which the audio track is changed once at most, and in which a
\* Widevine source with audio is not both sought in and stopped for its video, the
\* decoders get every unit in its order, with no more assumed than that reading after
\* a seek does not fail.
THEOREM PlainSessionsAreInOrder ==
    ASSUME "seekFails" \notin Mishaps, SessionsArePlain
    PROVE  Spec => UnitsInOrder
<1> DEFINE IInv == /\ ReadsTracked /\ Control /\ UnreadInv /\ LastInv /\ Lines
                   /\ ChoiceInv /\ StoppedInv /\ FreshInv
<1>1. Init => IInv /\ Units!Init
  BY InitTypes, InitCalls, InitPrep, InitStop, InitIdle, InitWork, InitLines, InitTracked, InitPlain DEF
    Control
<1>2. IInv /\ [Next]_vars => ReadsTracked' /\ Control' /\ UnreadInv' /\ [Units!Next]_(Units!vars)
  BY NextTracked, NextTypes, NextCalls, NextPrep, NextStop, NextIdle, NextWork, NextUnread, NextUnits DEF
    Control
<1>3. IInv => ~SoughtAfterStop /\ ~SelectedAhead
  BY NeverSoughtAfterStop, NeverSelectedAhead
<1>4. IInv /\ [Next]_vars => LastInv' /\ Lines'
  BY <1>3, NextLines, NextLast
<1>5. IInv /\ [Next]_vars => ChoiceInv' /\ StoppedInv' /\ FreshInv'
  BY NextChoice, NextStopped, NextFresh DEF Control
<1>6. IInv /\ [Next]_vars => IInv'
  BY <1>2, <1>4, <1>5
<1> HIDE DEF IInv
<1> QED BY <1>1, <1>2, <1>6, PTL DEF Spec, UnitsInOrder, Units!Spec
=============================================================================
