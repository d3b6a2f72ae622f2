------------------------- MODULE TransmitDispatcher -------------------------
(***************************************************************************)
(* CTransmitDispatcher of one Connectivity Agent: the transmit thread goes *)
(* over the sources by priority, takes frames, sends them and repeats the  *)
(* queued ones, with mRegistryMutex held for a pass.  Other threads fill   *)
(* buffers, open and close channels, and acknowledge.  What becomes of the *)
(* frames is the subject of module FrameTransfer.                          *)
(***************************************************************************)
EXTENDS Naturals, Sequences, FiniteSetsExt, SequencesExt

CONSTANTS Channel, NoChannel,
          Priority,   \* the priority that each channel is allocated with
          Closable,   \* channels that L1 closes
          QueueSize,  \* buffers of a CSourceAgent
          Window,     \* bound: frames in mQueue
          MaxOpens    \* bound: times that a channel is opened

eSafetyCritical == 0
eRealTime == 1
ePlainData == 2
TChannelPriority == 0..2

realTimeMessagesLimit == 2

ASSUME NoChannelAssumption == NoChannel \notin Channel
ASSUME PriorityAssumption == Priority \in [Channel -> TChannelPriority]
ASSUME ClosableAssumption == Closable \subseteq Channel
ASSUME BoundsAssumption ==
  QueueSize \in Nat \ {0} /\ Window \in Nat \ {0} /\ MaxOpens \in Nat \ {0}

VARIABLES
  registry,   \* mRegistry: the sources of each priority, in the order they were opened
  buffers,    \* length of mBuffersQueue of each source
  at,         \* where the thread is
  realTimeMessagesCounter,
  queued,     \* CTransmittedFramesQueue: frames of each channel (their order is
              \* the subject of FrameTransfer)
  closing,    \* channels inside closeChannel
  opens,      \* history: how often each channel was opened
  overtaken   \* history: lower frames taken since a priority had data and was not served

vars == <<registry, buffers, at, realTimeMessagesCounter, queued, closing, opens, overtaken>>

At(pc, prio, pos, ch) == [pc |-> pc, prio |-> prio, pos |-> pos, ch |-> ch]
Waiting == At("wait", 0, 1, NoChannel)

IsOpen(ch) == ch \in ToSet(registry[Priority[ch]])

\* mRegistryMutex is free.
RegistryUnlocked == at = Waiting

hasCertainPriorityData(prio) == \E ch \in ToSet(registry[prio]) : buffers[ch] > 0

-----------------------------------------------------------------------------
Init ==
  /\ registry = [prio \in TChannelPriority |-> <<>>]
  /\ buffers = [ch \in Channel |-> 0]
  /\ at = Waiting
  /\ realTimeMessagesCounter = 0
  /\ queued = [ch \in Channel |-> 0]
  /\ closing = {}
  /\ opens = [ch \in Channel |-> 0]
  /\ overtaken = [prio \in TChannelPriority |-> 0]

(* Other threads. *)

openChannel(ch) ==
  /\ RegistryUnlocked
  /\ ~IsOpen(ch) /\ ch \notin closing
  /\ opens[ch] < MaxOpens
  /\ registry' = [registry EXCEPT ![Priority[ch]] = Append(@, ch)]
  /\ opens' = [opens EXCEPT ![ch] = @ + 1]
  /\ UNCHANGED <<buffers, at, realTimeMessagesCounter, queued, closing, overtaken>>

\* CSourceAgent::fillBuffer, CSource::consumeBuffer.
consumeBuffer(ch) ==
  /\ IsOpen(ch)
  /\ buffers[ch] < QueueSize
  /\ buffers' = [buffers EXCEPT ![ch] = @ + 1]
  /\ UNCHANGED <<registry, at, realTimeMessagesCounter, queued, closing, opens, overtaken>>

\* closeChannel first takes the frames out of the queue, ...
deleteFramesForChannel(ch) ==
  /\ ch \in Closable /\ ch \notin closing
  /\ IsOpen(ch)
  /\ queued' = [queued EXCEPT ![ch] = 0]
  /\ closing' = closing \cup {ch}
  /\ UNCHANGED <<registry, buffers, at, realTimeMessagesCounter, opens, overtaken>>

\* ... then waits for mRegistryMutex and deletes the source, which gives its
\* buffers back.  Mutant: it does not wait.
closeChannel_Unlocked(ch) ==
  /\ ch \in closing
  /\ \E i \in DOMAIN registry[Priority[ch]] :
       /\ registry[Priority[ch]][i] = ch
       /\ registry' = [registry EXCEPT ![Priority[ch]] = RemoveAt(@, i)]
  /\ buffers' = [buffers EXCEPT ![ch] = 0]
  /\ closing' = closing \ {ch}
  /\ overtaken' = [overtaken EXCEPT ![Priority[ch]] =
       IF hasCertainPriorityData(Priority[ch])' THEN @ ELSE 0]
  /\ UNCHANGED <<at, realTimeMessagesCounter, queued, opens>>

closeChannel(ch) == RegistryUnlocked /\ closeChannel_Unlocked(ch)

InQueue == MapThenSumSet(LAMBDA ch : queued[ch], Channel)

\* A frame leaves the queue.
Leaves(ch) == queued[ch] > 0 /\ queued' = [queued EXCEPT ![ch] = @ - 1]

\* CTransmittedFramesQueue::dequeue: some frame is acknowledged.
dequeue ==
  /\ \E ch \in Channel : Leaves(ch)
  /\ UNCHANGED <<registry, buffers, at, realTimeMessagesCounter, closing, opens, overtaken>>

-----------------------------------------------------------------------------
(* The thread. *)

\* The semaphore is signalled or 500 ms are over.
waitTimeout ==
  /\ at = Waiting
  /\ at' = At("scan", eSafetyCritical, 1, NoChannel)
  /\ UNCHANGED <<registry, buffers, realTimeMessagesCounter, queued, closing, opens, overtaken>>

ToRetransmission == at' = At("retransmit", at.prio, 1, NoChannel)
ToNextSource == at' = At("scan", at.prio, at.pos + 1, NoChannel)

\* Mutant: only real-time sources give way to safety critical data.
GivesWay_RealTime == at.prio = eRealTime /\ hasCertainPriorityData(eSafetyCritical)

GivesWay == at.prio # eSafetyCritical /\ hasCertainPriorityData(eSafetyCritical)

\* One source: without data it is passed over; safety critical data breaks the
\* loop of the other priorities.
visitSource ==
  /\ at.pc = "scan"
  /\ IF at.pos > Len(registry[at.prio]) THEN ToRetransmission
     ELSE LET ch == registry[at.prio][at.pos]
          IN \/ buffers[ch] = 0 /\ ToNextSource
             \/ /\ buffers[ch] > 0
                /\ IF GivesWay
                   THEN ToRetransmission
                   ELSE at' = At("dispatch", at.prio, at.pos, ch)
  /\ UNCHANGED <<registry, buffers, realTimeMessagesCounter, queued, closing, opens, overtaken>>

OnDispatch ==
  /\ at.pc = "dispatch"
  /\ buffers' = [buffers EXCEPT ![at.ch] = @ - 1]
  /\ at' = [at EXCEPT !.pc = "send"]
  /\ overtaken' = [prio \in TChannelPriority |->
       IF prio < at.prio /\ hasCertainPriorityData(prio) THEN overtaken[prio] + 1
       ELSE IF prio = at.prio THEN 0 ELSE overtaken[prio]]
  /\ UNCHANGED <<registry, realTimeMessagesCounter, queued, closing, opens>>

\* Mutant: the limit is off by one.
BelowLimit_OffByOne == realTimeMessagesCounter < realTimeMessagesLimit

BelowLimit == realTimeMessagesCounter < realTimeMessagesLimit - 1

\* After realTimeMessagesLimit real-time frames the plain sources have their
\* turn, a plain frame at a time while there is real-time data.  Mutant: there is
\* no limit.
AfterSend_Unlimited ==
  /\ IF at.prio = ePlainData /\ hasCertainPriorityData(eRealTime)
     THEN ToRetransmission
     ELSE IF at.prio = eRealTime /\ hasCertainPriorityData(eRealTime)
          THEN at' = At("scan", eRealTime, 1, NoChannel)
          ELSE ToNextSource
  /\ UNCHANGED realTimeMessagesCounter

AfterSend ==
  \/ /\ at.prio = eSafetyCritical /\ ToNextSource
     /\ UNCHANGED realTimeMessagesCounter
  \/ /\ at.prio = eRealTime
     /\ IF BelowLimit
        THEN /\ realTimeMessagesCounter' = realTimeMessagesCounter + 1
             /\ ToNextSource
        ELSE realTimeMessagesCounter' = 0 /\ ToRetransmission
  \/ /\ at.prio = ePlainData
     /\ IF hasCertainPriorityData(eRealTime) THEN ToRetransmission ELSE ToNextSource
     /\ UNCHANGED realTimeMessagesCounter

\* The frame is queued when the carrier took it.
sendFrame ==
  /\ at.pc = "send"
  /\ \/ InQueue < Window /\ queued' = [queued EXCEPT ![at.ch] = @ + 1]
     \/ UNCHANGED queued
  /\ AfterSend
  /\ UNCHANGED <<registry, buffers, closing, opens, overtaken>>

\* The loop over the frames that are due, the oldest first: each is put back or,
\* after RETRANSMIT_TIMEOUT_SEC, given up.
retransmit ==
  /\ at.pc = "retransmit"
  /\ \E ch \in Channel :
       \/ Leaves(ch)
       \/ queued[ch] > 0 /\ UNCHANGED queued
  /\ UNCHANGED <<registry, buffers, at, realTimeMessagesCounter, closing, opens, overtaken>>

\* The oldest frame is not due: the next priority, or the end of the pass.
retransmissionDone ==
  /\ at.pc = "retransmit"
  /\ at' = IF at.prio = ePlainData THEN Waiting ELSE At("scan", at.prio + 1, 1, NoChannel)
  /\ UNCHANGED <<registry, buffers, realTimeMessagesCounter, queued, closing, opens, overtaken>>

-----------------------------------------------------------------------------
threadFunc ==
  waitTimeout \/ visitSource \/ OnDispatch \/ sendFrame \/ retransmit \/ retransmissionDone

Next ==
  \/ threadFunc
  \/ dequeue
  \/ \E ch \in Channel :
       \/ openChannel(ch)
       \/ consumeBuffer(ch)
       \/ deleteFramesForChannel(ch)
       \/ closeChannel(ch)

Spec == Init /\ [][Next]_vars

\* The thread never stops, and a frame sent again is not due at once.  Nothing is
\* asked of the other threads.
FairSpec == Spec /\ WF_vars(threadFunc) /\ WF_vars(retransmissionDone)

-----------------------------------------------------------------------------
(* Properties. *)

\* The thread is at a source of the registry or between two; frames are of
\* channels that were opened.
TypeOK ==
  /\ registry \in [TChannelPriority -> Seq(Channel)]
  /\ buffers \in [Channel -> 0..QueueSize]
  /\ at \in [pc : {"wait", "scan", "dispatch", "send", "retransmit"},
             prio : TChannelPriority, pos : Nat \ {0}, ch : Channel \cup {NoChannel}]
  /\ realTimeMessagesCounter \in 0..(realTimeMessagesLimit - 1)
  /\ queued \in [Channel -> Nat]
  /\ closing \subseteq Channel
  /\ opens \in [Channel -> 0..MaxOpens]
  /\ overtaken \in [TChannelPriority -> Nat]

\* The source that the thread is about to read exists and has data, although
\* clients close channels and hasData was asked before (threadFunc, closeChannel).
SourceInUse == at.pc = "dispatch" => IsOpen(at.ch) /\ buffers[at.ch] > 0

\* At most one frame of a lower priority is taken while a higher one has data
\* and is not served: the one already decided when the data came (threadFunc).
OvertakenOnce == \A prio \in TChannelPriority : overtaken[prio] <= 1

Quiet == ~hasCertainPriorityData(eSafetyCritical)

IsServed(ch) == at.pc = "dispatch" /\ at.ch = ch

\* The sources that a pass reaches however busy the others are.
IsEarly(ch) ==
  \E pos \in DOMAIN registry[Priority[ch]] :
    /\ registry[Priority[ch]][pos] = ch
    /\ \/ Priority[ch] = eSafetyCritical
       \/ Priority[ch] = eRealTime /\ pos <= realTimeMessagesLimit
       \/ Priority[ch] = ePlainData /\ pos = 1

\* Once safety critical data ends, the first real-time sources and the first
\* plain source are served again and again, although all the others are busy
\* (realTimeMessagesLimit).
EarlySourcesAreServed ==
  <>[]Quiet =>
    \A ch \in Channel : (buffers[ch] > 0 /\ IsEarly(ch)) ~> (IsServed(ch) \/ ~IsOpen(ch))

=============================================================================
