--------------------------- MODULE FrameTransfer ---------------------------
(***************************************************************************)
(* L0 of two Connectivity Agents: what clients write is numbered, sent     *)
(* over the carrier (a TCP connection), acknowledged frame by frame and    *)
(* sent again until it is.  Per agent, the transmit thread (module         *)
(* TransmitDispatcher has its scheduling) and the carrier's receiving      *)
(* thread share CTransmittedFramesQueue; the transmit thread holds its     *)
(* mutex while it sends.  A buffer above the quota is several items here.  *)
(***************************************************************************)
EXTENDS Naturals, Sequences, SequencesExt

CONSTANTS Node,       \* the two devices
          Channel,    \* channel numbers
          Service,    \* CA_SERVICE_CHANNEL, safety critical
          Wrap,       \* 2^32: frame numbers are UInt32
          QueueSize,  \* buffers of a CSourceAgent
          WireSize,   \* frames that the TCP connection takes before send blocks
          Window,     \* bound: frames of a channel unacknowledged at a time (in the
                      \* code, time alone keeps them far below 2^32)
          Budget,     \* bound: items written per device and channel
          Fault,      \* the faults that may happen
          MaxFaults   \* bound: how many of them

ASSUME NodesAssumption == \E a, b \in Node : a # b /\ Node = {a, b}
ASSUME ServiceAssumption == Service \in Channel
ASSUME SizesAssumption ==
  /\ Wrap \in Nat \ {0} /\ QueueSize \in Nat \ {0} /\ WireSize \in Nat \ {0}
  /\ Window \in Nat \ {0} /\ MaxFaults \in Nat
ASSUME FaultAssumption ==
  Fault \subseteq {"early", "reject", "expire", "break", "half"}
ASSUME BudgetAssumption == Budget \in [Node -> [Channel -> Nat]]

VARIABLES
  sources,    \* channels with a CSource (the dispatcher's mRegistry)
  buffers,    \* mBuffersQueue of every CSource
  counter,    \* mFrameCounter of every CSource
  unacked,    \* CTransmittedFramesQueue::mQueue
  sending,    \* what the transmit thread is sending, with the queue's mutex held
  targets,    \* channels with a CTarget (mTargetMap)
  last,       \* mLastFrameNr of every CTarget
  replaced,   \* targets with mCarrierReplaced
  firstFlag,  \* the static variable of CTarget::receiveFrame
  acking,     \* the acknowledgement the receiving thread is sending
  allowed,    \* mIsFrameProcessingAllowed of the carrier adapter
  link,       \* the carrier adapter's socket
  wire,       \* wire[n]: frames on their way to n
  written, delivered,  \* history: items per sender and channel
  faults      \* faults so far, and whether one of them gives up what was sent

sourceVars == <<sources, buffers, counter, unacked, sending, written>>
targetVars == <<targets, last, replaced, firstFlag, acking, delivered>>
carrierVars == <<allowed, link, wire>>
vars == <<sourceVars, targetVars, carrierVars, faults>>

Other(n) == CHOOSE m \in Node : m # n

Frame(ch, number, item) == [ack |-> FALSE, ch |-> ch, number |-> number, item |-> item]

\* Mutant: setACK is forgotten.
Ack_Unmarked(f) == [ack |-> FALSE, ch |-> f.ch, number |-> f.number]

Ack(f) == [ack |-> TRUE, ch |-> f.ch, number |-> f.number]
Idle == [job |-> "idle"]

Faulty(kind) ==
  /\ kind \in Fault /\ faults.count < MaxFaults
  /\ faults' = [count |-> faults.count + 1,
                gaveUp |-> faults.gaveUp \/ kind \in {"expire", "break", "half"}]

-----------------------------------------------------------------------------
Init ==
  /\ sources = [n \in Node |-> {}]
  /\ buffers = [n \in Node |-> [ch \in Channel |-> <<>>]]
  /\ counter = [n \in Node |-> [ch \in Channel |-> 1 % Wrap]]
  /\ unacked = [n \in Node |-> <<>>]
  /\ sending = [n \in Node |-> Idle]
  /\ targets = [n \in Node |-> {}]
  /\ last = [n \in Node |-> [ch \in Channel |-> 0]]
  /\ replaced = [n \in Node |-> {}]
  /\ firstFlag = [n \in Node |-> TRUE]
  /\ acking = [n \in Node |-> Idle]
  /\ allowed = [n \in Node |-> FALSE]
  /\ link = [n \in Node |-> "up"]
  /\ wire = [n \in Node |-> <<>>]
  /\ written = [n \in Node |-> [ch \in Channel |-> 0]]
  /\ delivered = [n \in Node |-> [ch \in Channel |-> <<>>]]
  /\ faults = [count |-> 0, gaveUp |-> FALSE]

\* A new manager: L1InterfaceStub opens the service channel and lets the
\* receiving thread process frames.
OnConnected(n) ==
  /\ Service \notin sources[n]
  /\ sources' = [sources EXCEPT ![n] = @ \cup {Service}]
  /\ targets' = [targets EXCEPT ![n] = @ \cup {Service}]
  /\ allowed' = [allowed EXCEPT ![n] = TRUE]
  /\ UNCHANGED <<buffers, counter, unacked, sending, written, last, replaced,
                 firstFlag, acking, delivered, link, wire, faults>>

\* CChannelAllocator::allocateChannel: L1 opens a channel only after a service
\* message of the peer arrived (module ChannelAllocation).
openChannel(n, ch) ==
  /\ Service \in sources[n] /\ ~firstFlag[n]
  /\ ch \notin sources[n]
  /\ sources' = [sources EXCEPT ![n] = @ \cup {ch}]
  /\ targets' = [targets EXCEPT ![n] = @ \cup {ch}]
  /\ UNCHANGED <<buffers, counter, unacked, sending, written, last, replaced,
                 firstFlag, acking, delivered, carrierVars, faults>>

\* CSourceAgent::fillBuffer; without a free buffer the data is not taken.
fillBuffer(n, ch) ==
  /\ ch \in sources[n]
  /\ written[n][ch] < Budget[n][ch]
  /\ Len(buffers[n][ch]) < QueueSize
  /\ written' = [written EXCEPT ![n][ch] = @ + 1]
  /\ buffers' = [buffers EXCEPT ![n][ch] = Append(@, written'[n][ch])]
  /\ UNCHANGED <<sources, counter, unacked, sending, targetVars, carrierVars, faults>>

-----------------------------------------------------------------------------
(* The transmit thread. *)

\* Safety critical data goes first; the number is taken before the frame is sent.
OnDispatch(n, ch) ==
  /\ sending[n] = Idle
  /\ Len(SelectSeq(unacked[n], LAMBDA f : f.ch = ch)) < Window
  /\ buffers[n][ch] # <<>>
  /\ ch # Service => buffers[n][Service] = <<>>
  /\ buffers' = [buffers EXCEPT ![n][ch] = Tail(@)]
  /\ counter' = [counter EXCEPT ![n][ch] = (@ + 1) % Wrap]
  /\ sending' = [sending EXCEPT ![n] =
       [job |-> "send", frame |-> Frame(ch, counter[n][ch], Head(buffers[n][ch]))]]
  /\ UNCHANGED <<sources, unacked, written, targetVars, carrierVars, faults>>

\* The frame or its acknowledgement is still on its way.
InFlight(n, f) ==
  \/ Contains(wire[Other(n)], f)
  \/ Contains(wire[n], Ack(f))
  \/ acking[Other(n)] = [job |-> "ack", frame |-> Ack(f)]

\* The oldest frame is due; early when it took longer than RETRANSMIT_TIME_NSEC.
getFrameToRetransmit(n) ==
  /\ sending[n] = Idle
  /\ unacked[n] # <<>>
  /\ \/ ~InFlight(n, Head(unacked[n])) /\ UNCHANGED faults
     \/ InFlight(n, Head(unacked[n])) /\ Faulty("early")
  /\ sending' = [sending EXCEPT ![n] = [job |-> "again", frame |-> Head(unacked[n])]]
  /\ UNCHANGED <<sources, buffers, counter, unacked, written, targetVars, carrierVars>>

Transmits(n, f) ==
  /\ link[n] = "up"
  /\ Len(wire[Other(n)]) < WireSize
  /\ wire' = [wire EXCEPT ![Other(n)] = Append(@, f)]

TransmitFails(n) == link[n] = "down" /\ UNCHANGED wire

enqueue(n, f) == unacked' = [unacked EXCEPT ![n] = Append(@, f)]

sendFrame(n) ==
  /\ sending[n].job = "send"
  /\ \/ Transmits(n, sending[n].frame) /\ enqueue(n, sending[n].frame)
     \/ TransmitFails(n) /\ UNCHANGED unacked
  /\ sending' = [sending EXCEPT ![n] = Idle]
  /\ UNCHANGED <<sources, buffers, counter, written, targetVars, allowed, link, faults>>

Requeued(q) == Append(Tail(q), Head(q))

\* The result of the repeated sendFrame is ignored; after
\* RETRANSMIT_TIMEOUT_SEC the frame is given up.
reenqueueRetransmittedFrame(n) ==
  /\ sending[n].job = "again"
  /\ Transmits(n, sending[n].frame) \/ TransmitFails(n)
  /\ \/ unacked' = [unacked EXCEPT ![n] = Requeued(@)] /\ UNCHANGED faults
     \/ unacked' = [unacked EXCEPT ![n] = Tail(@)] /\ Faulty("expire")
  /\ sending' = [sending EXCEPT ![n] = Idle]
  /\ UNCHANGED <<sources, buffers, counter, written, targetVars, allowed, link>>

-----------------------------------------------------------------------------
(* The receiving thread: CCarrierAdapter::processFrame. *)

Arrives(n) ==
  /\ acking[n] = Idle /\ allowed[n] /\ link[n] = "up"
  /\ wire[n] # <<>>
  /\ wire' = [wire EXCEPT ![n] = Tail(@)]

\* Where the queue has the frames that m acknowledges.
Acked(n, m) ==
  {i \in DOMAIN unacked[n] : unacked[n][i].ch = m.ch /\ unacked[n][i].number = m.number}

\* An acknowledgement: the queue's mutex must be free.
dequeue(n) ==
  /\ Arrives(n)
  /\ LET m == Head(wire[n])
     IN /\ m.ack /\ sending[n] = Idle
        /\ \/ Acked(n, m) = {} /\ UNCHANGED unacked
           \/ \E i \in Acked(n, m) :
                /\ \A j \in Acked(n, m) : i <= j
                /\ unacked' = [unacked EXCEPT ![n] = RemoveAt(@, i)]
  /\ UNCHANGED <<sources, buffers, counter, sending, written, targetVars, allowed, link,
                 faults>>

\* CTarget::receiveFrame.  Mutant: a gap is accepted.
Expected_Gap(n, f) == f.number >= (last[n][f.ch] + 1) % Wrap

Expected(n, f) ==
  \/ firstFlag[n]
  \/ f.ch \in replaced[n]
  \/ f.number = (last[n][f.ch] + 1) % Wrap

\* A retransmitted frame is acknowledged again.  Mutant: so is a frame ahead of
\* a gap.
ResendAck_Always(n, f) == TRUE
ResendAck(n, f) == f.number <= last[n][f.ch]

receiveFrame(n) ==
  /\ Arrives(n)
  /\ LET f == Head(wire[n])
         ack == [acking EXCEPT ![n] = [job |-> "ack", frame |-> Ack(f)]]
     IN /\ ~f.ack
        /\ \/ /\ f.ch \in targets[n] /\ Expected(n, f)
              /\ delivered' = [delivered EXCEPT ![Other(n)][f.ch] = Append(@, f.item)]
              /\ last' = [last EXCEPT ![n][f.ch] = f.number]
              /\ firstFlag' = [firstFlag EXCEPT ![n] = FALSE]
              /\ replaced' = [replaced EXCEPT ![n] = @ \ {f.ch}]
              /\ acking' = ack
              /\ UNCHANGED faults
           \/ /\ f.ch \in targets[n] /\ Expected(n, f) /\ f.ch # Service
              /\ Faulty("reject")  \* the IPC request to the client failed
              /\ UNCHANGED <<delivered, last, firstFlag, replaced, acking>>
           \/ /\ f.ch \in targets[n] /\ ~Expected(n, f)
              /\ acking' = IF ResendAck(n, f) THEN ack ELSE acking
              /\ UNCHANGED <<delivered, last, firstFlag, replaced, faults>>
           \/ /\ f.ch \notin targets[n]
              /\ UNCHANGED <<delivered, last, firstFlag, replaced, acking, faults>>
  /\ UNCHANGED <<sourceVars, targets, allowed, link>>

sendACK(n) ==
  /\ acking[n] # Idle
  /\ Transmits(n, acking[n].frame) \/ TransmitFails(n)
  /\ acking' = [acking EXCEPT ![n] = Idle]
  /\ UNCHANGED <<sourceVars, targets, last, replaced, firstFlag, delivered, allowed, link,
                 faults>>

-----------------------------------------------------------------------------
(* The carrier. *)

\* A connection that is lost before both devices have a manager ("half") is a
\* fault of its own.
connectionLost ==
  /\ \A n \in Node : link[n] = "up"
  /\ Faulty(IF \A n \in Node : Service \in sources[n] THEN "break" ELSE "half")
  /\ link' = [n \in Node |-> "down"]
  /\ wire' = [n \in Node |-> <<>>]
  /\ UNCHANGED <<sourceVars, targetVars, allowed>>

\* A new adapter does not process frames until unlockFrameProcessing, which only
\* OnConnected calls.
replaceCarrier(n) ==
  /\ link[n] = "down"
  /\ sending[n] = Idle /\ acking[n] = Idle
  /\ link' = [link EXCEPT ![n] = "up"]
  /\ allowed' = [allowed EXCEPT ![n] = FALSE]
  /\ replaced' = [replaced EXCEPT ![n] = targets[n]]
  /\ UNCHANGED <<sourceVars, targets, last, firstFlag, acking, delivered, wire, faults>>

-----------------------------------------------------------------------------
TransmitStep(n) ==
  \/ \E ch \in Channel : OnDispatch(n, ch)
  \/ getFrameToRetransmit(n)
  \/ sendFrame(n)
  \/ reenqueueRetransmittedFrame(n)

ReceiveStep(n) == dequeue(n) \/ receiveFrame(n) \/ sendACK(n)

OpenStep(n) == OnConnected(n) \/ \E ch \in Channel : openChannel(n, ch)

Next ==
  \/ \E n \in Node :
       \/ TransmitStep(n)
       \/ ReceiveStep(n)
       \/ OpenStep(n)
       \/ replaceCarrier(n)
       \/ \E ch \in Channel : fillBuffer(n, ch)
  \/ connectionLost

Spec == Init /\ [][Next]_vars

\* Each pass of the transmit thread visits every source and then the queue's
\* head until it is not due; the receiving thread gets the mutex between passes
\* (the thread waits for its semaphore there).  Nobody has to write or to fail.
Scheduling ==
  \A n \in Node :
    /\ \A ch \in Channel : SF_vars(OnDispatch(n, ch))
    /\ SF_vars(getFrameToRetransmit(n))
    /\ WF_vars(sendFrame(n))
    /\ WF_vars(reenqueueRetransmittedFrame(n))
    /\ SF_vars(dequeue(n))
    /\ WF_vars(receiveFrame(n))
    /\ WF_vars(sendACK(n))
    /\ WF_vars(OnConnected(n))
    /\ WF_vars(replaceCarrier(n))

FairSpec == Spec /\ Scheduling

-----------------------------------------------------------------------------
(* Properties. *)

Item == Nat \ {0}
Frames == [ack : {FALSE}, ch : Channel, number : 0..(Wrap - 1), item : Item]
Acks == [ack : {TRUE}, ch : Channel, number : 0..(Wrap - 1)]

\* Queues hold frames, the wire frames and acknowledgements.
TypeOK ==
  /\ sources \in [Node -> SUBSET Channel] /\ targets \in [Node -> SUBSET Channel]
  /\ buffers \in [Node -> [Channel -> Seq(Item)]]
  /\ counter \in [Node -> [Channel -> 0..(Wrap - 1)]]
  /\ unacked \in [Node -> Seq(Frames)]
  /\ sending \in [Node -> {Idle} \cup [job : {"send", "again"}, frame : Frames]]
  /\ last \in [Node -> [Channel -> 0..(Wrap - 1)]]
  /\ replaced \in [Node -> SUBSET Channel]
  /\ firstFlag \in [Node -> BOOLEAN] /\ allowed \in [Node -> BOOLEAN]
  /\ acking \in [Node -> {Idle} \cup [job : {"ack"}, frame : Acks]]
  /\ link \in [Node -> {"up", "down"}]
  /\ wire \in [Node -> Seq(Frames \cup Acks)]
  /\ written \in [Node -> [Channel -> Nat]]
  /\ delivered \in [Node -> [Channel -> Seq(Item)]]
  /\ faults \in [count : 0..MaxFaults, gaveUp : BOOLEAN]

\* Whatever is repeated, rejected, given up or lost with the connection, the
\* consumer gets a prefix of what was written (CTarget::receiveFrame).
Abstract == INSTANCE ReliableChannel WITH Sender <- Node, received <- delivered
ReliableInOrder == Abstract!Spec

\* What the transmit thread works on.
InHand(n) == IF sending[n] = Idle THEN {} ELSE {sending[n].frame}

\* As long as no frame is given up and the connection lasts, an item that the
\* peer does not have is still kept to be sent: no acknowledgement removes a
\* frame that was not delivered.
UndeliveredIsKept ==
  ~faults.gaveUp =>
    \A n \in Node, ch \in Channel :
      \A item \in (Len(delivered[n][ch]) + 1)..written[n][ch] :
        \/ item \in ToSet(buffers[n][ch])
        \/ \E f \in ToSet(unacked[n]) \cup InHand(n) : f.ch = ch /\ f.item = item

\* A frame whose number is not above the last one is a retransmitted one
\* (IFrameReceiver::receiveFrame on ERROR_RESEND_ACK): whatever is acknowledged
\* has been delivered.
AckedIsDelivered ==
  [][\A n \in Node :
       acking[n] = Idle /\ acking'[n] # Idle =>
         LET f == Head(wire[n])
         IN f.item \in ToSet(delivered'[Other(n)][f.ch])]_vars

\* Everything written to a channel that the peer has opened arrives, although
\* clients reject and timeouts repeat.
EverythingArrives ==
  \A n \in Node, ch \in Channel : \A item \in 1..Budget[n][ch] :
    written[n][ch] >= item /\ ch \in targets[Other(n)]
      ~> Len(delivered[n][ch]) >= item

\* Frames that reached a device are processed: neither thread of the two devices
\* waits for another one forever, and each new adapter gets to work.
FramesAreProcessed ==
  \A n \in Node : []<>(wire[n] = <<>>) \/ []<><<ReceiveStep(n)>>_vars

=============================================================================
