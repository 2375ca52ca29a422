----------------------------- MODULE TunnelSink -----------------------------
(***************************************************************************)
(* The Wi-Fi display sink from the network to the parser: RTPSink numbers  *)
(* the packets of one source, TunnelRenderer puts them in order and asks   *)
(* for the missing ones, its StreamSource copies them into the buffers it  *)
(* shares with NuPlayerStreamListener, and StreamingSource reads them.     *)
(*                                                                         *)
(* The sink runs on one looper and a binder thread, the listener is called *)
(* by another binder thread and read by a looper of the player.  The calls *)
(* between the two processes are one way: FIFO.  Time is two thresholds:   *)
(* an attempt that failed less than 10 ms ago, or longer.                  *)
(***************************************************************************)
EXTENDS Integers, Queues

CONSTANTS
    SeqMod,          \* kRTPSeqMod
    MaxDropout,      \* kMaxDropout
    MaxMisorder,     \* kMaxMisorder
    MinSequential,   \* kMinSequential
    NumBuffers,      \* kNumBuffers: the memory shared with the listener
    ReadLimit,       \* reads of one kWhatReadBuffer, 50 in the code
    Chunks,          \* transport stream packets in a packet's payload
    \* bounds of the environment
    NumPackets,      \* packets the source sends at most
    FirstSeqs,       \* the sequence numbers it may start with
    Budgets          \* how many packets are sent, lost, late, duplicated, unreadable:
                     \* one of these

Packets == 1 .. NumPackets
BoundedEvents == {"packet", "loss", "delay", "duplicate", "parseError"}

ASSUME NumbersAssumption ==
    /\ MaxDropout \in Nat \ {0} /\ MaxMisorder \in Nat \ {0}
    /\ SeqMod \in Nat /\ MaxDropout + MaxMisorder <= SeqMod
    /\ MinSequential \in Nat \ {0}
ASSUME SizesAssumption ==
    NumBuffers \in Nat \ {0} /\ ReadLimit \in Nat \ {0} /\ Chunks \in Nat \ {0, 1}
ASSUME EnvironmentAssumption ==
    /\ NumPackets \in Nat /\ FirstSeqs \subseteq 0 .. SeqMod - 1
    /\ Budgets \subseteq [BoundedEvents -> 0 .. NumPackets]

VARIABLES
    \* the source and the network
    first,                     \* the sequence number of packet 1
    sent,                      \* how many packets have come, or have been passed or lost
    network,                   \* those of them, or copies, that are still under way
    newest,                    \* the last of them that came
    wrapsWell,                 \* every packet that has come did WrapsWell
    budget,
    \* RTPSink::Source
    source,
    \* the sink's looper and its binder thread
    inbox,                     \* kWhatQueueBuffer and kWhatPacketLost, in order
    worker,                    \* what each thread does about doSomeWork()
    \* TunnelRenderer
    mPackets,
    mLastDequeuedExtSeqNo,
    mFirstFailedAttempt,       \* mFirstFailedAttemptUs: "none", "recent" or 10 ms "old"
    mRequestedRetransmission,
    gapSeen,                   \* an attempt has found the next packet missing
    \* StreamSource
    session,                   \* "none", the player is "created", "started"
    mDequeued,                 \* mNumDeqeued > 0
    mIndicesAvailable,
    \* the calls on their way between the processes
    toSource, toListener,
    \* NuPlayerStreamListener and StreamingSource
    mQueue,
    mBuffering,
    reads,                     \* what onReadBuffer() may still read
    mFinalResult,
    synchronised, parsed       \* what the parser has been fed

networkVars  == <<first, sent, network, newest, wrapsWell, budget>>
sinkVars     == <<source, inbox, worker>>
rendererVars == <<mPackets, mLastDequeuedExtSeqNo, mFirstFailedAttempt,
                  mRequestedRetransmission, gapSeen>>
streamVars   == <<session, mDequeued, mIndicesAvailable>>
callVars     == <<toSource, toListener>>
readerVars   == <<mQueue, mBuffering, reads, mFinalResult, synchronised, parsed>>
vars == <<networkVars, sinkVars, rendererVars, streamVars, callVars, readerVars>>

Threads == {"looper", "binder"}
Indices == 1 .. NumBuffers
NoSource == [known |-> FALSE, mMaxSeq |-> 0, mCycles |-> 0, mBadSeq |-> 0, mProbation |-> 0]

\* An RTP packet with its extended sequence number.
Numbered == [packet : Packets, ext : Nat]
Earlier(ext) == {n \in Numbered : n.ext < ext}
Later(ext)   == {n \in Numbered : n.ext > ext}
QueueMsg(p, e) == [what |-> "QueueBuffer", packet |-> p, ext |-> e]
LostMsg(seq)   == [what |-> "PacketLost", packet |-> 0, ext |-> seq]
SinkMessage == [what : {"QueueBuffer"}, packet : Packets, ext : Nat]
                 \cup [what : {"PacketLost"}, packet : {0}, ext : Nat]

\* The listener's QueueEntry: a shared buffer with chunks left of a packet, or
\* index 0 for the command DISCONTINUITY.
Discontinuity == [index |-> 0, packet |-> 0, left |-> 0]
Entry == {Discontinuity} \cup [index : Indices, packet : Packets, left : 1 .. Chunks]

SourceState == [known : BOOLEAN, mMaxSeq : 0 .. SeqMod - 1, mCycles : Nat,
                mBadSeq : 0 .. SeqMod + 1, mProbation : 0 .. MinSequential]

NetworkTypeOK ==
    /\ first \in FirstSeqs /\ sent \in 0 .. NumPackets /\ newest \in 0 .. sent
    /\ network \subseteq 1 .. sent /\ wrapsWell \in BOOLEAN
    /\ budget \in [BoundedEvents -> 0 .. NumPackets]
SinkTypeOK ==
    /\ source \in SourceState
    /\ inbox \in Seq(SinkMessage)
    /\ worker \in [Threads -> {"idle", "waits", "works"}]
RendererTypeOK ==
    /\ mPackets \in Seq(Numbered)
    /\ mLastDequeuedExtSeqNo \in Nat \cup {-1}
    /\ mFirstFailedAttempt \in {"none", "recent", "old"}
    /\ mRequestedRetransmission \in BOOLEAN /\ gapSeen \in BOOLEAN
StreamTypeOK ==
    /\ session \in {"none", "created", "started"}
    /\ mDequeued \in BOOLEAN
    /\ mIndicesAvailable \in Seq(Indices)
CallTypeOK == toSource \in Seq(Indices) /\ toListener \in Seq(Entry)
ReaderTypeOK ==
    /\ mQueue \in Seq(Entry)
    /\ mBuffering \in BOOLEAN /\ reads \in 0 .. ReadLimit
    /\ mFinalResult \in {"OK", "error"}
    /\ synchronised \in BOOLEAN
    /\ parsed \in [packet : 0 .. NumPackets, chunk : 1 .. Chunks]
TypeOK ==
    /\ NetworkTypeOK /\ SinkTypeOK /\ RendererTypeOK
    /\ StreamTypeOK /\ CallTypeOK /\ ReaderTypeOK

Init ==
    /\ first \in FirstSeqs /\ sent = 0 /\ network = {} /\ newest = 0
    /\ wrapsWell = TRUE /\ budget \in Budgets
    /\ source = NoSource
    /\ inbox = <<>> /\ worker = [t \in Threads |-> "idle"]
    /\ mPackets = <<>> /\ mLastDequeuedExtSeqNo = -1 /\ mFirstFailedAttempt = "none"
    /\ mRequestedRetransmission = FALSE /\ gapSeen = FALSE
    /\ session = "none" /\ mDequeued = FALSE /\ mIndicesAvailable = <<>>
    /\ toSource = <<>> /\ toListener = <<>>
    /\ mQueue = <<>> /\ mBuffering = FALSE /\ reads = 0 /\ mFinalResult = "OK"
    /\ synchronised = FALSE /\ parsed = [packet |-> 0, chunk |-> Chunks]

Spend(e) == budget[e] > 0 /\ budget' = [budget EXCEPT ![e] = @ - 1]

-----------------------------------------------------------------------------
(* The source and the network.                                             *)

SeqNo(p) == (first + p - 1) % SeqMod
Cycle(p) == (first + p - 1) \div SeqMod

\* The next packet is lost, or passed by those that follow.
Lose ==
    /\ sent < budget["packet"] /\ sent' = sent + 1
    /\ \/ Spend("loss") /\ UNCHANGED network
       \/ Spend("delay") /\ network' = network \cup {sent'}
    /\ UNCHANGED <<first, newest, wrapsWell, sinkVars, rendererVars, streamVars, callVars,
                   readerVars>>

-----------------------------------------------------------------------------
(* RTPSink: sequence numbers are extended to 32 bits.                      *)

\* initSeq()
InitSeq(s, seq) ==
    [s EXCEPT !.mMaxSeq = seq, !.mCycles = 0, !.mBadSeq = SeqMod + 1]

Delta(s, seq) == (seq - s.mMaxSeq) % SeqMod

\* The source after updateSeq(), the cases in its order.  The comparison on
\* probation is one of ints: nothing follows the largest number.
Probation(s, seq) ==
    IF seq = s.mMaxSeq + 1
    THEN IF s.mProbation = 1 THEN [InitSeq(s, seq) EXCEPT !.mProbation = 0]
         ELSE [s EXCEPT !.mProbation = @ - 1, !.mMaxSeq = seq]
    ELSE [s EXCEPT !.mProbation = MinSequential - 1, !.mMaxSeq = seq]

InOrder(s, seq) ==
    [s EXCEPT !.mMaxSeq = seq, !.mCycles = IF seq < s.mMaxSeq THEN @ + SeqMod ELSE @]

LargeJump(s, seq) ==
    IF seq = s.mBadSeq THEN InitSeq(s, seq) ELSE [s EXCEPT !.mBadSeq = (seq + 1) % SeqMod]

Jumps(s, seq) == s.mProbation = 0 /\ Delta(s, seq) \in MaxDropout .. SeqMod - MaxMisorder

UpdateSeq(s, seq) ==
    IF s.mProbation > 0 THEN Probation(s, seq)
    ELSE IF Delta(s, seq) < MaxDropout THEN InOrder(s, seq)
    ELSE IF Jumps(s, seq) THEN LargeJump(s, seq)
    ELSE s

\* The first packet after a very large jump is dropped.
Dropped(s, seq) == Jumps(s, seq) /\ seq # s.mBadSeq

\* Source(): the first packet is queued but does not count.
NewSource(seq) ==
    [InitSeq(NoSource, seq) EXCEPT !.known = TRUE, !.mMaxSeq = (seq - 1) % SeqMod,
                                   !.mProbation = MinSequential]

\* What updateSeq() asks of a packet to number it with those before: the numbers
\* wrap off probation and without a large jump, nothing of before a wrap, late,
\* doubled or sent again, comes behind it, and no re-sync follows it.
WrapsWell(p) ==
    \/ newest = 0
    \/ Cycle(p) = Cycle(newest) /\ (source.mCycles = 0 \/ ~Jumps(source, SeqNo(p)))
    \/ Cycle(p) > Cycle(newest) /\ source.mProbation = 0 /\ ~Jumps(source, SeqNo(p))

\* parseRTP(): a packet arrives, or a duplicate of it does.  On probation it is
\* numbered before the probation ends.
Arrive(p) ==
    /\ worker["looper"] = "idle"
    /\ p \in network \/ (p = sent + 1 /\ sent < budget["packet"])
    /\ newest' = IF p > newest THEN p ELSE newest
    /\ wrapsWell' = (wrapsWell /\ WrapsWell(p))
    /\ sent' = IF p > sent THEN p ELSE sent
    /\ \/ network' = network \ {p} /\ UNCHANGED budget
       \/ network' = network \cup {p} /\ Spend("duplicate")
    /\ source' = IF source.known THEN UpdateSeq(source, SeqNo(p)) ELSE NewSource(SeqNo(p))
    /\ inbox' = IF source.known /\ Dropped(source, SeqNo(p)) THEN inbox
                ELSE Append(inbox, QueueMsg(p, SeqNo(p) + IF source.mProbation > 0
                                                          THEN source.mCycles
                                                          ELSE source'.mCycles))
    /\ UNCHANGED <<first, worker, rendererVars, streamVars, callVars, readerVars>>

\* onPacketLost(): the source sends the last packet of that number again.
PacketLost ==
    /\ worker["looper"] = "idle"
    /\ inbox # <<>> /\ Head(inbox).what = "PacketLost"
    /\ inbox' = Tail(inbox)
    /\ network' = network \cup
          {p \in 1 .. sent : /\ SeqNo(p) = Head(inbox).ext
                             /\ \A q \in p + 1 .. sent : SeqNo(q) # SeqNo(p)}
    /\ UNCHANGED <<first, sent, newest, wrapsWell, budget, source, worker, rendererVars,
                   streamVars, callVars, readerVars>>

-----------------------------------------------------------------------------
(* TunnelRenderer on the looper.                                           *)

\* Mutant of Inserted: packets are kept in the order of arrival.
Appended(n) ==
    IF \E i \in DOMAIN mPackets : mPackets[i].ext = n.ext THEN mPackets ELSE Append(mPackets, n)

\* queueBuffer(): in order of the extended numbers, a duplicate is left out.
Inserted(n) ==
    IF \E i \in DOMAIN mPackets : mPackets[i].ext = n.ext THEN mPackets
    ELSE Kept(mPackets, Earlier(n.ext)) \o <<n>> \o Kept(mPackets, Later(n.ext))

\* Mutant of QueueBuffer: only a buffer that becomes available sets off the work.
QueueBufferOnly ==
    /\ worker["looper"] = "idle"
    /\ inbox # <<>> /\ Head(inbox).what = "QueueBuffer"
    /\ inbox' = Tail(inbox)
    /\ mPackets' = Inserted([packet |-> Head(inbox).packet, ext |-> Head(inbox).ext])
    /\ session' = IF session = "none" THEN "created" ELSE session
    /\ UNCHANGED <<networkVars, source, worker, mLastDequeuedExtSeqNo, mFirstFailedAttempt,
                   mRequestedRetransmission, gapSeen, mDequeued, mIndicesAvailable,
                   callVars, readerVars>>

\* kWhatQueueBuffer: the first packet creates the player.
QueueBuffer ==
    /\ worker["looper"] = "idle"
    /\ inbox # <<>> /\ Head(inbox).what = "QueueBuffer"
    /\ inbox' = Tail(inbox)
    /\ mPackets' = Inserted([packet |-> Head(inbox).packet, ext |-> Head(inbox).ext])
    /\ IF session = "none"
       THEN session' = "created" /\ UNCHANGED worker
       ELSE worker' = [worker EXCEPT !["looper"] = "waits"] /\ UNCHANGED session
    /\ UNCHANGED <<networkVars, source, mLastDequeuedExtSeqNo, mFirstFailedAttempt,
                   mRequestedRetransmission, gapSeen, mDequeued,
                   mIndicesAvailable, callVars, readerVars>>

\* 10 ms have passed since the first failed attempt.
AttemptAges ==
    /\ mFirstFailedAttempt = "recent"
    /\ mFirstFailedAttempt' = "old"
    /\ UNCHANGED <<networkVars, sinkVars, mPackets, mLastDequeuedExtSeqNo,
                   mRequestedRetransmission, gapSeen, streamVars,
                   callVars, readerVars>>

-----------------------------------------------------------------------------
(* StreamSource: doSomeWork() of the looper and of the binder thread, which *)
(* hold its mLock in turn.                                                  *)

Free == \A t \in Threads : worker[t] # "works"

\* onBufferAvailable(): the index is put down, then there is work to do.
OnBufferAvailable ==
    /\ worker["binder"] = "idle" /\ toSource # <<>> /\ Free
    /\ mIndicesAvailable' = Append(mIndicesAvailable, Head(toSource))
    /\ toSource' = Tail(toSource)
    /\ worker' = [worker EXCEPT !["binder"] = "waits"]
    /\ UNCHANGED <<networkVars, source, inbox, rendererVars, session, mDequeued,
                   toListener, readerVars>>

Lock(t) ==
    /\ worker[t] = "waits" /\ Free
    /\ worker' = [worker EXCEPT ![t] = "works"]
    /\ UNCHANGED <<networkVars, source, inbox, rendererVars, streamVars, callVars, readerVars>>

Unlock(t) == worker' = [worker EXCEPT ![t] = "idle"]

\* Mutant of Fresh: the packet returned last is returned again.
FreshOrLast == Kept(mPackets, Later(mLastDequeuedExtSeqNo - 1))

\* The packets dequeueBuffer() does not discard as retransmissions.
Fresh == Kept(mPackets, Later(mLastDequeuedExtSeqNo))

NextIsThere ==
    /\ Fresh # <<>>
    /\ mLastDequeuedExtSeqNo < 0 \/ Head(Fresh).ext = mLastDequeuedExtSeqNo + 1
NextIsMissing == Fresh # <<>> /\ ~NextIsThere

\* Mutant of ReturnsNothing: the index has been taken already.
ReturnsNothingLosesIndex(t) ==
    /\ worker[t] = "works" /\ mIndicesAvailable # <<>>
    /\ mPackets' = Fresh
    /\ mIndicesAvailable' = Tail(mIndicesAvailable)
    /\ Unlock(t)
    /\ UNCHANGED <<networkVars, source, mLastDequeuedExtSeqNo, session, mDequeued, callVars,
                   readerVars>>

\* A round of the loop that ends in dequeueBuffer() returning NULL.
ReturnsNothing(t) ==
    /\ worker[t] = "works" /\ mIndicesAvailable # <<>>
    /\ mPackets' = Fresh
    /\ Unlock(t)
    /\ UNCHANGED <<networkVars, source, mLastDequeuedExtSeqNo, streamVars, callVars,
                   readerVars>>

\* A round that copies the first packet into a shared buffer for the listener.
\* Before the first one the listener is told of the new time.
Returns(t) ==
    /\ worker[t] = "works" /\ mIndicesAvailable # <<>>
    /\ mPackets' = Tail(Fresh)
    /\ mLastDequeuedExtSeqNo' = Head(Fresh).ext
    /\ mFirstFailedAttempt' = "none"
    /\ mRequestedRetransmission' = FALSE
    /\ gapSeen' = FALSE
    /\ mDequeued' = TRUE
    /\ mIndicesAvailable' = Tail(mIndicesAvailable)
    /\ toListener' = toListener
          \o (IF mDequeued THEN <<>> ELSE <<Discontinuity>>)
          \o <<[index |-> Head(mIndicesAvailable), packet |-> Head(Fresh).packet,
                left |-> Chunks]>>
    /\ UNCHANGED <<networkVars, sinkVars, session, toSource, readerVars>>

NoIndexLeft(t) ==
    /\ worker[t] = "works" /\ mIndicesAvailable = <<>>
    /\ Unlock(t)
    /\ UNCHANGED <<networkVars, source, inbox, rendererVars, streamVars, callVars, readerVars>>

\* No packet is there.  After 12 s of this the sink is stopped, or the time
\* begins anew.
FindsNothing(t) ==
    /\ Fresh = <<>>
    /\ IF mFirstFailedAttempt = "none"
       THEN mFirstFailedAttempt' = "recent" /\ mRequestedRetransmission' = FALSE
       ELSE /\ mFirstFailedAttempt' \in
                  {mFirstFailedAttempt} \cup IF mFirstFailedAttempt = "old" THEN {"recent"} ELSE {}
            /\ UNCHANGED mRequestedRetransmission
    /\ ReturnsNothing(t)
    /\ UNCHANGED <<inbox, gapSeen>>

ReturnsNext(t) == NextIsThere /\ Returns(t)

FirstFailure(t) ==
    /\ NextIsMissing /\ mFirstFailedAttempt = "none"
    /\ mFirstFailedAttempt' = "recent"
    /\ gapSeen' = TRUE
    /\ ReturnsNothing(t)
    /\ UNCHANGED <<inbox, mRequestedRetransmission>>

\* Less than 10 ms after the first failure the missing packet is asked for, once.
Waits(t) ==
    /\ NextIsMissing /\ mFirstFailedAttempt = "recent"
    /\ inbox' = IF mRequestedRetransmission THEN inbox
                ELSE Append(inbox, LostMsg((mLastDequeuedExtSeqNo + 1) % SeqMod))
    /\ mRequestedRetransmission' = TRUE
    /\ gapSeen' = TRUE
    /\ ReturnsNothing(t)
    /\ UNCHANGED mFirstFailedAttempt

\* Later the missing packet is given up and the next one there is returned.
GivesUp(t) == NextIsMissing /\ mFirstFailedAttempt = "old" /\ Returns(t)

-----------------------------------------------------------------------------
(* The player's process.                                                   *)

\* StreamingSource::start(): every buffer is available, and reading begins.
Start ==
    /\ session = "created"
    /\ session' = "started"
    /\ toSource' = [i \in Indices |-> i]
    /\ mBuffering' = TRUE /\ reads' = ReadLimit
    /\ UNCHANGED <<networkVars, sinkVars, rendererVars, mDequeued, mIndicesAvailable,
                   toListener, mQueue, mFinalResult, synchronised, parsed>>

\* NuPlayerStreamListener::queueBuffer(), issueCommand()
ListenerQueues ==
    /\ toListener # <<>>
    /\ mQueue' = Append(mQueue, Head(toListener))
    /\ toListener' = Tail(toListener)
    /\ UNCHANGED <<networkVars, sinkVars, rendererVars, streamVars, toSource, mBuffering,
                   reads, mFinalResult, synchronised, parsed>>

\* postReadBuffer(), for feedMoreTSData() and dequeueAccessUnit(), unless a
\* message is on its way or being handled, and onReadBuffer().
OnReadBuffer ==
    /\ session = "started" /\ mFinalResult = "OK" /\ ~mBuffering
    /\ mBuffering' = TRUE /\ reads' = ReadLimit
    /\ UNCHANGED <<networkVars, sinkVars, rendererVars, streamVars, callVars, mQueue,
                   mFinalResult, synchronised, parsed>>

Reads(n) == mBuffering /\ reads > 0 /\ mQueue # <<>> /\ reads' = n

ReadsDiscontinuity ==
    /\ Reads(reads - 1) /\ Head(mQueue).index = 0
    /\ mQueue' = Tail(mQueue)
    /\ synchronised' = TRUE
    /\ UNCHANGED <<networkVars, sinkVars, rendererVars, streamVars, callVars, mBuffering,
                   mFinalResult, parsed>>

\* Mutant of ReadsPacket: the buffer goes back when its last packet is left.
ReadsAllButOne ==
    /\ Reads(reads - 1) /\ UNCHANGED <<budget, mFinalResult>>
    /\ LET entry == Head(mQueue)
       IN  /\ entry.index # 0
           /\ parsed' = [packet |-> entry.packet, chunk |-> Chunks + 1 - entry.left]
           /\ IF entry.left <= 2
              THEN mQueue' = Tail(mQueue) /\ toSource' = Append(toSource, entry.index)
              ELSE /\ mQueue' = <<[entry EXCEPT !.left = @ - 1]>> \o Tail(mQueue)
                   /\ UNCHANGED toSource
    /\ UNCHANGED <<first, sent, network, newest, wrapsWell, sinkVars, rendererVars,
                   streamVars, toListener, mBuffering, synchronised>>

\* read(): one transport stream packet; the buffer goes back after its last one.
\* An error of the parser ends the reading for good.
ReadsPacket ==
    /\ \/ Reads(reads - 1) /\ UNCHANGED <<budget, mFinalResult>>
       \/ Reads(0) /\ Spend("parseError") /\ mFinalResult' = "error"
    /\ LET entry == Head(mQueue)
       IN  /\ entry.index # 0
           /\ parsed' = [packet |-> entry.packet, chunk |-> Chunks + 1 - entry.left]
           /\ IF entry.left = 1
              THEN mQueue' = Tail(mQueue) /\ toSource' = Append(toSource, entry.index)
              ELSE /\ mQueue' = <<[entry EXCEPT !.left = @ - 1]>> \o Tail(mQueue)
                   /\ UNCHANGED toSource
    /\ UNCHANGED <<first, sent, network, newest, wrapsWell, sinkVars, rendererVars,
                   streamVars, toListener, mBuffering, synchronised>>

\* The queue is empty or this message has read enough: mBuffering is cleared.
ReadingEnds ==
    /\ mBuffering /\ (reads = 0 \/ mQueue = <<>>)
    /\ mBuffering' = FALSE /\ reads' = 0
    /\ UNCHANGED <<networkVars, sinkVars, rendererVars, streamVars, callVars, mQueue,
                   mFinalResult, synchronised, parsed>>

-----------------------------------------------------------------------------
NetworkNext == Lose \/ (\E p \in Packets : Arrive(p))
Work(t) == \/ Lock(t) \/ NoIndexLeft(t) \/ FindsNothing(t) \/ ReturnsNext(t)
           \/ FirstFailure(t) \/ Waits(t) \/ GivesUp(t)
LooperNext   == PacketLost \/ QueueBuffer \/ Work("looper")
BinderNext   == OnBufferAvailable \/ Work("binder")
ListenerNext == Start \/ ListenerQueues
ReaderNext   ==
    \/ OnReadBuffer \/ ReadsDiscontinuity \/ ReadsPacket \/ ReadingEnds

Next == NetworkNext \/ AttemptAges \/ LooperNext \/ BinderNext \/ ListenerNext \/ ReaderNext
Spec == Init /\ [][Next]_vars

\* Threads go on, locks are granted, and the player reads while it plays.  The
\* network and the clock are free.
Fairness ==
    /\ WF_vars(PacketLost \/ QueueBuffer) /\ WF_vars(OnBufferAvailable)
    /\ \A t \in Threads : WF_vars(Work(t)) /\ SF_vars(Lock(t))
    /\ WF_vars(ListenerNext) /\ WF_vars(ReaderNext)
FairSpec == Spec /\ Fairness

-----------------------------------------------------------------------------
(* Properties.                                                             *)

\* The parser is fed what the source has sent, in that order, each packet whole
\* and once, behind a discontinuity, whatever is lost, doubled, late or sent
\* again: RTPSink's numbers, the order of mPackets, the buffers and both ends of
\* the shared memory have to agree.  The hypothesis is wrapsWell: what updateSeq()
\* numbers in the wrong cycle is delivered late, and what it overtook is discarded.
Delivery == INSTANCE TransportStream
DeliversInOrder == Delivery!Init /\ [][wrapsWell => Delivery!Next]_(Delivery!vars)

\* The same without the hypothesis, "Duplicate or reordered packet": refuted by a
\* packet of before a wrap that comes after it, and by a wrap on probation.
DeliversAcrossWraps == Delivery!Spec

Holding(seq, i)     == Cardinality({k \in DOMAIN seq : seq[k].index = i})

\* Each of the shared buffers is in one place: on its way to the sink or from it,
\* put down as available, or in the listener's queue.  One that is lost would
\* slow the stream down for good, one that is given back twice be overwritten.
BuffersCirculate ==
    session = "started" =>
        \A i \in Indices :
            Occurrences(toSource, i) + Occurrences(mIndicesAvailable, i)
            + Holding(toListener, i) + Holding(mQueue, i) = 1

\* doSomeWork() is called by whoever brings a packet or a buffer: the next packet
\* of the stream is not left behind, unless the parser has failed or an earlier
\* one has come before the first was returned.
NextPacketIsPlayed ==
    \A p \in Packets :
        (NextIsThere /\ Head(Fresh).packet = p)
            ~> \/ parsed.packet >= p \/ mFinalResult # "OK"
               \/ NextIsMissing /\ Head(Fresh).packet = p

\* Only missing packets are passed over: when a packet is returned, none that is
\* queued comes between the one returned before and it.  Packets come late, twice
\* and again after they were asked for, and attempts fail for three reasons.
OnlyMissingIsPassedOver ==
    [][\A i \in DOMAIN mPackets :
          mPackets[i].ext > mLastDequeuedExtSeqNo => mPackets[i].ext >= mLastDequeuedExtSeqNo']_vars

\* "We're willing to wait a little while to get the right packet": a packet is
\* not given up by the attempt that finds it missing.
WaitsForMissing == [][\A t \in Threads : GivesUp(t) => gapSeen]_vars
=============================================================================
