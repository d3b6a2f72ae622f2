------------------------ MODULE FrameTransferProofs ------------------------
(***************************************************************************)
(* For any channels, queue and window sizes, items and faults: the peer    *)
(* gets a prefix of what was written, whatever it acknowledges it has got, *)
(* and the transmit side keeps what it has not.  Two assumptions: no       *)
(* connection is lost before both devices have their manager (fault        *)
(* "half"), and no channel numbers as many frames as UInt32 has values.    *)
(***************************************************************************)
EXTENDS FrameTransfer, SequenceTheorems, TLAPS

\* What the theorems assume of the instance.
Bounded ==
  /\ "half" \notin Fault
  /\ \A n \in Node, ch \in Channel : Budget[n][ch] < Wrap

\* Items that the transmit thread has taken out of the buffers.
Taken(n, ch) == written[n][ch] - Len(buffers[n][ch])

\* Frames of n that its transmit thread has, and those that may still arrive.
Held(n) == ToSet(unacked[n]) \cup InHand(n)
Outstanding(n) == Held(n) \cup {f \in ToSet(wire[Other(n)]) : ~f.ack}

\* Acknowledgements on their way to n.
AcksFor(n) ==
  {m \in ToSet(wire[n]) : m.ack}
    \cup (IF acking[Other(n)] = Idle THEN {} ELSE {acking[Other(n)].frame})

\* Buffers hold the items that are not taken, in their order.
BuffersInv ==
  \A n \in Node, ch \in Channel :
    /\ written[n][ch] <= Budget[n][ch]
    /\ Len(buffers[n][ch]) <= written[n][ch]
    /\ \A i \in DOMAIN buffers[n][ch] : buffers[n][ch][i] = Taken(n, ch) + i
    /\ counter[n][ch] = (Taken(n, ch) + 1) % Wrap

\* The number of a frame is its item, and the item has been taken.
FramesInv ==
  \A n \in Node : \A f \in Outstanding(n) :
    /\ f.number = f.item
    /\ f.item <= Taken(n, f.ch)

\* The peer has a prefix of the items taken, and its target knows the last one.
DeliveredInv ==
  \A n \in Node, ch \in Channel :
    /\ \A i \in DOMAIN delivered[n][ch] : delivered[n][ch][i] = i
    /\ last[Other(n)][ch] = Len(delivered[n][ch])
    /\ Len(delivered[n][ch]) <= Taken(n, ch)

\* Only delivered frames are acknowledged.
AcksInv ==
  \A n \in Node : \A m \in AcksFor(n) :
    m.number \in 1..Len(delivered[n][m.ch])

\* A frame that is sent again stays at the head of the queue meanwhile.
AgainInv ==
  \A n \in Node : sending[n].job = "again" =>
    unacked[n] # <<>> /\ sending[n].frame = Head(unacked[n])

\* No connection has been lost; frames are processed as soon as there is a
\* manager.
Fresh ==
  \A n \in Node :
    /\ link[n] = "up" /\ replaced[n] = {}
    /\ allowed[n] <=> Service \in sources[n]

\* A connection was lost: no device processes frames any more.
Stale ==
  \A n \in Node : Service \in sources[n] /\ (link[n] = "down" \/ ~allowed[n])

\* The first frame of the service channel arrives before its other frames.
FirstFrame == Frame(Service, 1, 1)
WireFirst(q) ==
  \A j \in DOMAIN q : ~q[j].ack /\ q[j].ch = Service => \E i \in 1..j : q[i] = FirstFrame

\* Until it gets its first frame, which it accepts whatever its number, a device
\* has only the service channel, and that frame is the next one it can get.
FirstInv ==
  \A n \in Node : firstFlag[Other(n)] =>
    /\ targets[Other(n)] \subseteq {Service}
    /\ \A ch \in Channel : delivered[n][ch] = <<>>
    /\ WireFirst(wire[Other(n)])
    /\ \/ Taken(n, Service) = 0
       \/ sending[n] = [job |-> "send", frame |-> FirstFrame]
       \/ FirstFrame \in ToSet(wire[Other(n)])

\* What no acknowledgement or loss may disturb.
KeptInv ==
  ~faults.gaveUp =>
    \A n \in Node, ch \in Channel :
      \A item \in (Len(delivered[n][ch]) + 1)..Taken(n, ch) :
        \E f \in Held(n) : f.ch = ch /\ f.item = item

ConnectionInv ==
  /\ sources = targets
  /\ Fresh \/ Stale
  /\ ~faults.gaveUp => Fresh

DataInv ==
  /\ BuffersInv /\ FramesInv /\ DeliveredInv /\ AcksInv
  /\ ConnectionInv /\ KeptInv
  /\ Fresh => FirstInv

IInv == TypeOK /\ AgainInv /\ DataInv

-----------------------------------------------------------------------------
(* What the operators return. *)

LEMMA OtherFacts ==
  \A n \in Node : /\ Other(n) \in Node /\ Other(n) # n /\ Other(Other(n)) = n
                  /\ \A m \in Node : m = n \/ m = Other(n)
  BY NodesAssumption DEF Other

LEMMA SmallModulo ==
  ASSUME NEW w \in Nat \ {0}, NEW x \in 0..(w - 1)
  PROVE x % w = x
  OBVIOUS

LEMMA AppendElements ==
  ASSUME NEW S, NEW s \in Seq(S), NEW x \in S
  PROVE /\ Append(s, x) \in Seq(S)
        /\ ToSet(Append(s, x)) = ToSet(s) \cup {x}
  <1>1. \A i \in 1..Len(s) : Append(s, x)[i] = s[i]
    OBVIOUS
  <1>2. Append(s, x)[Len(s) + 1] = x /\ Len(Append(s, x)) = Len(s) + 1
    OBVIOUS
  <1>3. ToSet(s) \cup {x} \subseteq ToSet(Append(s, x))
    BY <1>1, <1>2 DEF ToSet
  <1>4. ToSet(Append(s, x)) \subseteq ToSet(s) \cup {x}
    BY <1>1, <1>2 DEF ToSet
  <1>5. QED BY <1>3, <1>4

LEMMA TailElements ==
  ASSUME NEW S, NEW s \in Seq(S), s # <<>>
  PROVE /\ Head(s) \in S /\ Tail(s) \in Seq(S)
        /\ Head(s) = s[1] /\ Len(Tail(s)) = Len(s) - 1 /\ Len(s) \in Nat \ {0}
        /\ \A i \in 1..(Len(s) - 1) : Tail(s)[i] = s[i + 1]
        /\ ToSet(s) = ToSet(Tail(s)) \cup {Head(s)}
  <1>1. /\ Len(s) \in Nat \ {0} /\ Len(Tail(s)) = Len(s) - 1 /\ Head(s) = s[1]
        /\ Head(s) \in S /\ Tail(s) \in Seq(S)
        /\ \A i \in 1..(Len(s) - 1) : Tail(s)[i] = s[i + 1]
    OBVIOUS
  <1>2. ToSet(Tail(s)) \cup {Head(s)} \subseteq ToSet(s)
    BY <1>1 DEF ToSet
  <1>3. ASSUME NEW i \in 1..Len(s)
        PROVE s[i] \in ToSet(Tail(s)) \cup {Head(s)}
    <2>1. CASE i = 1
      BY <2>1, <1>1
    <2>2. CASE i # 1
      <3>1. i - 1 \in 1..(Len(s) - 1) /\ (i - 1) + 1 = i
        BY <2>2, <1>1
      <3>2. Tail(s)[i - 1] = s[i]
        BY <3>1, <1>1
      <3>3. i - 1 \in DOMAIN Tail(s)
        BY <3>1, <1>1
      <3>4. QED BY <3>2, <3>3 DEF ToSet
    <2>3. QED BY <2>1, <2>2
  <1>4. ToSet(s) \subseteq ToSet(Tail(s)) \cup {Head(s)}
    BY <1>3 DEF ToSet
  <1>5. QED BY <1>1, <1>2, <1>4

LEMMA RequeuedElements ==
  ASSUME NEW S, NEW s \in Seq(S), s # <<>>
  PROVE Requeued(s) \in Seq(S) /\ ToSet(Requeued(s)) = ToSet(s)
  <1>1. Head(s) \in S /\ Tail(s) \in Seq(S) /\ ToSet(s) = ToSet(Tail(s)) \cup {Head(s)}
    BY TailElements
  <1> DEFINE t == Tail(s)
             h == Head(s)
  <1>2. h \in S /\ t \in Seq(S) /\ ToSet(s) = ToSet(t) \cup {h}
    BY <1>1
  <1>3. Requeued(s) = Append(t, h)
    BY DEF Requeued
  <1> HIDE DEF t, h
  <1>4. Append(t, h) \in Seq(S) /\ ToSet(Append(t, h)) = ToSet(t) \cup {h}
    BY <1>2, AppendElements
  <1>5. QED BY <1>2, <1>3, <1>4

LEMMA RemoveAtElements ==
  ASSUME NEW S, NEW s \in Seq(S), NEW i \in DOMAIN s
  PROVE /\ RemoveAt(s, i) \in Seq(S)
        /\ ToSet(RemoveAt(s, i)) \subseteq ToSet(s)
        /\ ToSet(s) \subseteq ToSet(RemoveAt(s, i)) \cup {s[i]}
  <1> DEFINE a == SubSeq(s, 1, i - 1)
             b == SubSeq(s, i + 1, Len(s))
  <1>1. i \in 1..Len(s) /\ Len(s) \in Nat
    OBVIOUS
  <1>2. /\ a \in Seq(S) /\ Len(a) = i - 1
        /\ \A j \in 1..(i - 1) : a[j] = s[j]
    BY <1>1
  <1>3. /\ b \in Seq(S) /\ Len(b) = Len(s) - i
        /\ \A j \in 1..(Len(s) - i) : b[j] = s[i + j]
    BY <1>1
  <1>4. RemoveAt(s, i) = a \o b
    BY DEF RemoveAt
  <1> HIDE DEF a, b
  <1>5. /\ a \o b \in Seq(S) /\ Len(a \o b) = Len(s) - 1
        /\ \A j \in 1..(Len(s) - 1) : (a \o b)[j] = IF j < i THEN s[j] ELSE s[j + 1]
    BY <1>1, <1>2, <1>3
  <1>6. ASSUME NEW j \in 1..(Len(s) - 1)
        PROVE (a \o b)[j] \in ToSet(s)
    <2>1. \A k \in 1..Len(s) : s[k] \in ToSet(s)
      BY DEF ToSet
    <2>2. j \in 1..Len(s) /\ j + 1 \in 1..Len(s)
      BY <1>1
    <2>3. QED BY <2>1, <2>2, <1>5
  <1>7. ASSUME NEW j \in 1..Len(s), j # i
        PROVE s[j] \in ToSet(a \o b)
    <2>1. CASE j < i
      <3>1. j \in 1..(Len(s) - 1)
        BY <2>1, <1>1
      <3>2. (a \o b)[j] = s[j] /\ j \in DOMAIN (a \o b)
        BY <3>1, <2>1, <1>5
      <3>3. QED BY <3>2 DEF ToSet
    <2>2. CASE j > i
      <3>1. j - 1 \in 1..(Len(s) - 1) /\ ~(j - 1 < i) /\ (j - 1) + 1 = j
        BY <2>2, <1>1
      <3>2. (a \o b)[j - 1] = s[j] /\ j - 1 \in DOMAIN (a \o b)
        BY <3>1, <1>5
      <3>3. QED BY <3>2 DEF ToSet
    <2>3. QED BY <1>7, <2>1, <2>2, <1>1
  <1>8. ToSet(s) \subseteq ToSet(a \o b) \cup {s[i]}
    BY <1>7 DEF ToSet
  <1>9. ToSet(a \o b) \subseteq ToSet(s)
    BY <1>5, <1>6 DEF ToSet
  <1>10. QED BY <1>4, <1>5, <1>8, <1>9

-----------------------------------------------------------------------------
(* Types. *)

LEMMA FrameTypes ==
  /\ \A f \in Frames : /\ f.ack = FALSE /\ f.ch \in Channel
                       /\ f.number \in 0..(Wrap - 1) /\ f.item \in Item
                       /\ Ack(f) \in Acks
                       /\ f = Frame(f.ch, f.number, f.item)
  /\ \A m \in Acks : m.ack = TRUE /\ m.ch \in Channel /\ m.number \in 0..(Wrap - 1)
  /\ \A ch \in Channel, number \in 0..(Wrap - 1), item \in Item :
       Frame(ch, number, item) \in Frames
  <1>1. \A f \in Frames : f = Frame(f.ch, f.number, f.item)
    <2>1. TAKE f \in Frames
    <2>2. f = [ack |-> f.ack, ch |-> f.ch, number |-> f.number, item |-> f.item]
      BY DEF Frames
    <2>3. f.ack = FALSE
      BY DEF Frames
    <2>4. QED BY <2>2, <2>3 DEF Frame
  <1>2. \A f \in Frames : /\ f.ack = FALSE /\ f.ch \in Channel
                          /\ f.number \in 0..(Wrap - 1) /\ f.item \in Item
                          /\ Ack(f) \in Acks
    BY DEF Frames, Acks, Ack
  <1>3. \A m \in Acks : m.ack = TRUE /\ m.ch \in Channel /\ m.number \in 0..(Wrap - 1)
    BY DEF Acks
  <1>4. \A ch \in Channel, number \in 0..(Wrap - 1), item \in Item :
          Frame(ch, number, item) \in Frames
    BY DEF Frames, Frame
  <1>5. QED BY <1>1, <1>2, <1>3, <1>4

\* An arriving message without the mark of an acknowledgement is a frame.
LEMMA ArrivalTypes ==
  ASSUME TypeOK, NEW n \in Node, Arrives(n)
  PROVE /\ Head(wire[n]) \in Frames \cup Acks
        /\ ~Head(wire[n]).ack => Head(wire[n]) \in Frames
        /\ Head(wire[n]).ack => Head(wire[n]) \in Acks
        /\ Tail(wire[n]) \in Seq(Frames \cup Acks)
        /\ wire' \in [Node -> Seq(Frames \cup Acks)]
  <1>1. wire[n] \in Seq(Frames \cup Acks) /\ wire[n] # <<>>
    BY DEF TypeOK, Arrives
  <1>2. Head(wire[n]) \in Frames \cup Acks /\ Tail(wire[n]) \in Seq(Frames \cup Acks)
    BY <1>1
  <1>3. wire' \in [Node -> Seq(Frames \cup Acks)]
    BY <1>2 DEF TypeOK, Arrives
  <1>4. QED BY <1>2, <1>3, FrameTypes

LEMMA TransmitTypes ==
  ASSUME TypeOK, NEW n \in Node, NEW f \in Frames \cup Acks,
         Transmits(n, f) \/ TransmitFails(n)
  PROVE wire' \in [Node -> Seq(Frames \cup Acks)]
  <1>1. wire[Other(n)] \in Seq(Frames \cup Acks)
    BY OtherFacts DEF TypeOK
  <1>2. Append(wire[Other(n)], f) \in Seq(Frames \cup Acks)
    BY <1>1
  <1>3. CASE Transmits(n, f)
    BY <1>2, <1>3, OtherFacts DEF TypeOK, Transmits
  <1>4. CASE TransmitFails(n)
    BY <1>4 DEF TypeOK, TransmitFails
  <1>5. QED BY <1>3, <1>4

LEMMA FaultTypes ==
  ASSUME TypeOK, NEW kind, Faulty(kind)
  PROVE faults' \in [count : 0..MaxFaults, gaveUp : BOOLEAN]
  BY SizesAssumption DEF TypeOK, Faulty

LEMMA TransmitTypeStep ==
  ASSUME TypeOK, AgainInv, NEW n \in Node, TransmitStep(n)
  PROVE TypeOK' /\ AgainInv'
  <1>1. unacked[n] \in Seq(Frames)
    BY DEF TypeOK
  <1> USE DEF AgainInv, Idle
  <1>2. ASSUME NEW ch \in Channel, OnDispatch(n, ch)
        PROVE TypeOK' /\ AgainInv'
    <2>1. buffers[n][ch] \in Seq(Item) /\ buffers[n][ch] # <<>>
      BY <1>2 DEF TypeOK, OnDispatch
    <2>2. Head(buffers[n][ch]) \in Item /\ Tail(buffers[n][ch]) \in Seq(Item)
      BY <2>1
    <2>3. counter[n][ch] \in 0..(Wrap - 1) /\ (counter[n][ch] + 1) % Wrap \in 0..(Wrap - 1)
      BY SizesAssumption DEF TypeOK
    <2>4. Frame(ch, counter[n][ch], Head(buffers[n][ch])) \in Frames
      BY <2>2, <2>3, FrameTypes
    <2>5. sending' \in [Node -> {Idle} \cup [job : {"send", "again"}, frame : Frames]]
      BY <1>2, <2>4 DEF TypeOK, OnDispatch
    <2>6. buffers' \in [Node -> [Channel -> Seq(Item)]]
      BY <1>2, <2>2 DEF TypeOK, OnDispatch
    <2>7. counter' \in [Node -> [Channel -> 0..(Wrap - 1)]]
      BY <1>2, <2>3 DEF TypeOK, OnDispatch
    <2>8. QED BY <1>2, <2>5, <2>6, <2>7 DEF TypeOK, OnDispatch, targetVars, carrierVars
  <1>3. CASE getFrameToRetransmit(n)
    <2>1. Head(unacked[n]) \in Frames
      BY <1>1, <1>3 DEF getFrameToRetransmit
    <2>2. sending' \in [Node -> {Idle} \cup [job : {"send", "again"}, frame : Frames]]
      BY <1>3, <2>1 DEF TypeOK, getFrameToRetransmit
    <2>3. faults' \in [count : 0..MaxFaults, gaveUp : BOOLEAN]
      BY <1>3, FaultTypes DEF TypeOK, getFrameToRetransmit
    <2>4. QED
      BY <1>3, <2>2, <2>3 DEF TypeOK, getFrameToRetransmit, targetVars, carrierVars
  <1>4. CASE sendFrame(n)
    <2>1. sending[n].frame \in Frames
      BY <1>4 DEF TypeOK, sendFrame
    <2>2. Append(unacked[n], sending[n].frame) \in Seq(Frames)
      BY <1>1, <2>1
    <2>3. unacked' \in [Node -> Seq(Frames)]
      BY <1>4, <2>2 DEF TypeOK, sendFrame, enqueue
    <2>4. wire' \in [Node -> Seq(Frames \cup Acks)]
      BY <1>4, <2>1, TransmitTypes DEF sendFrame
    <2>5. TypeOK'
      BY <1>4, <2>3, <2>4 DEF TypeOK, sendFrame, targetVars
    <2>6. \A m \in Node : m # n => unacked'[m] = unacked[m] /\ sending'[m] = sending[m]
      BY <1>4 DEF TypeOK, sendFrame, enqueue
    <2>7. sending'[n].job # "again"
      BY <1>4 DEF TypeOK, sendFrame
    <2>8. QED BY <2>5, <2>6, <2>7
  <1>5. CASE reenqueueRetransmittedFrame(n)
    <2>1. sending[n].frame \in Frames
      BY <1>5 DEF TypeOK, reenqueueRetransmittedFrame
    <2>2. Requeued(unacked[n]) \in Seq(Frames) /\ Tail(unacked[n]) \in Seq(Frames)
      BY <1>1, <1>5, RequeuedElements DEF reenqueueRetransmittedFrame
    <2>3. unacked' \in [Node -> Seq(Frames)]
      BY <1>5, <2>2 DEF TypeOK, reenqueueRetransmittedFrame
    <2>4. wire' \in [Node -> Seq(Frames \cup Acks)]
      BY <1>5, <2>1, TransmitTypes DEF reenqueueRetransmittedFrame
    <2>5. faults' \in [count : 0..MaxFaults, gaveUp : BOOLEAN]
      BY <1>5, FaultTypes DEF TypeOK, reenqueueRetransmittedFrame
    <2>6. QED
      BY <1>5, <2>3, <2>4, <2>5 DEF TypeOK, reenqueueRetransmittedFrame, targetVars
  <1>6. QED BY <1>2, <1>3, <1>4, <1>5 DEF TransmitStep

\* The two outcomes of receiveFrame: the head of the wire is delivered, or
\* nothing is; what is acknowledged then has been delivered before.
Delivers(n) ==
  LET f == Head(wire[n])
  IN /\ f.ch \in targets[n] /\ Expected(n, f)
     /\ delivered' = [delivered EXCEPT ![Other(n)][f.ch] = Append(@, f.item)]
     /\ last' = [last EXCEPT ![n][f.ch] = f.number]
     /\ firstFlag' = [firstFlag EXCEPT ![n] = FALSE]
     /\ replaced' = [replaced EXCEPT ![n] = @ \ {f.ch}]
     /\ acking' = [acking EXCEPT ![n] = [job |-> "ack", frame |-> Ack(f)]]
     /\ UNCHANGED faults

Discards(n) ==
  LET f == Head(wire[n])
  IN /\ f.ch \in targets[n] /\ Expected(n, f) => f.ch # Service
     /\ \/ UNCHANGED acking
        \/ /\ f.ch \in targets[n] /\ ResendAck(n, f)
           /\ acking' = [acking EXCEPT ![n] = [job |-> "ack", frame |-> Ack(f)]]
     /\ UNCHANGED faults \/ Faulty("reject")
     /\ UNCHANGED <<delivered, last, firstFlag, replaced>>

LEMMA ReceiveCases ==
  ASSUME NEW n \in Node, receiveFrame(n)
  PROVE /\ Arrives(n) /\ ~Head(wire[n]).ack
        /\ UNCHANGED <<sourceVars, targets, allowed, link>>
        /\ Delivers(n) \/ Discards(n)
  <1> DEFINE f == Head(wire[n])
             ack == [acking EXCEPT ![n] = [job |-> "ack", frame |-> Ack(f)]]
  <1>1. /\ Arrives(n) /\ ~f.ack
        /\ UNCHANGED <<sourceVars, targets, allowed, link>>
    BY DEF receiveFrame
  <1>2. CASE f.ch \in targets[n] /\ Expected(n, f) /\ acking' # acking
    BY <1>2 DEF receiveFrame, Delivers
  <1>3. CASE f.ch \in targets[n] /\ Expected(n, f) /\ acking' = acking
    BY <1>3 DEF receiveFrame, Delivers, Discards
  <1>4. CASE f.ch \in targets[n] /\ ~Expected(n, f)
    BY <1>4 DEF receiveFrame, Discards
  <1>5. CASE f.ch \notin targets[n]
    BY <1>5 DEF receiveFrame, Discards
  <1>6. QED BY <1>1, <1>2, <1>3, <1>4, <1>5

LEMMA ReceiveTypeStep ==
  ASSUME TypeOK, AgainInv, NEW n \in Node, ReceiveStep(n)
  PROVE TypeOK' /\ AgainInv'
  <1> USE DEF AgainInv, Idle
  <1>1. CASE dequeue(n)
    <2>1. wire' \in [Node -> Seq(Frames \cup Acks)]
      BY <1>1, ArrivalTypes DEF dequeue
    <2>2. unacked[n] \in Seq(Frames)
      BY DEF TypeOK
    <2>3. \A i \in Acked(n, Head(wire[n])) : RemoveAt(unacked[n], i) \in Seq(Frames)
      BY <2>2, RemoveAtElements DEF Acked
    <2>4. unacked' \in [Node -> Seq(Frames)]
      <3>1. CASE UNCHANGED unacked
        BY <3>1 DEF TypeOK
      <3>2. CASE \E i \in Acked(n, Head(wire[n])) :
                   unacked' = [unacked EXCEPT ![n] = RemoveAt(@, i)]
        BY <3>2, <2>3 DEF TypeOK
      <3>3. QED BY <1>1, <3>1, <3>2 DEF dequeue
    <2>5. TypeOK'
      BY <1>1, <2>1, <2>4 DEF TypeOK, dequeue, targetVars
    <2>6. \A m \in Node : m # n => unacked'[m] = unacked[m]
      BY <1>1 DEF TypeOK, dequeue
    <2>7. sending[n].job # "again" /\ sending' = sending
      BY <1>1 DEF dequeue
    <2>8. QED BY <2>5, <2>6, <2>7
  <1>2. CASE receiveFrame(n)
    <2> DEFINE f == Head(wire[n])
    <2>1. f \in Frames /\ wire' \in [Node -> Seq(Frames \cup Acks)]
      BY <1>2, ArrivalTypes DEF receiveFrame
    <2>2. f.ch \in Channel /\ f.number \in 0..(Wrap - 1) /\ f.item \in Item /\ Ack(f) \in Acks
      BY <2>1, FrameTypes
    <2>3. delivered[Other(n)][f.ch] \in Seq(Item)
      BY <2>2, OtherFacts DEF TypeOK
    <2>4. Append(delivered[Other(n)][f.ch], f.item) \in Seq(Item)
      BY <2>2, <2>3
    <2> HIDE DEF f
    <2>5. CASE Delivers(n)
      <3>1. delivered' \in [Node -> [Channel -> Seq(Item)]]
        BY <2>5, <2>2, <2>4, OtherFacts DEF TypeOK, Delivers, f
      <3>2. last' \in [Node -> [Channel -> 0..(Wrap - 1)]]
        BY <2>5, <2>2 DEF TypeOK, Delivers, f
      <3>3. acking' \in [Node -> {Idle} \cup [job : {"ack"}, frame : Acks]]
        BY <2>5, <2>2 DEF TypeOK, Delivers, f
      <3>4. firstFlag' \in [Node -> BOOLEAN] /\ replaced' \in [Node -> SUBSET Channel]
        BY <2>5 DEF TypeOK, Delivers
      <3>5. QED
        BY <1>2, <2>1, <2>5, <3>1, <3>2, <3>3, <3>4, ReceiveCases
           DEF TypeOK, Delivers, sourceVars
    <2>6. CASE Discards(n)
      <3>1. acking' \in [Node -> {Idle} \cup [job : {"ack"}, frame : Acks]]
        <4>1. CASE UNCHANGED acking
          BY <4>1 DEF TypeOK
        <4>2. CASE acking' = [acking EXCEPT ![n] = [job |-> "ack", frame |-> Ack(f)]]
          BY <4>2, <2>2 DEF TypeOK
        <4>3. QED BY <2>6, <4>1, <4>2 DEF Discards, f
      <3>2. faults' \in [count : 0..MaxFaults, gaveUp : BOOLEAN]
        BY <2>6, FaultTypes DEF TypeOK, Discards
      <3>3. QED
        BY <1>2, <2>1, <2>6, <3>1, <3>2, ReceiveCases DEF TypeOK, Discards, sourceVars
    <2>7. TypeOK'
      BY <1>2, <2>5, <2>6, ReceiveCases
    <2>8. QED BY <1>2, <2>7 DEF receiveFrame, sourceVars
  <1>3. CASE sendACK(n)
    <2>1. acking[n].frame \in Frames \cup Acks
      BY <1>3 DEF TypeOK, sendACK
    <2>2. wire' \in [Node -> Seq(Frames \cup Acks)]
      BY <1>3, <2>1, TransmitTypes DEF sendACK
    <2>3. acking' \in [Node -> {Idle} \cup [job : {"ack"}, frame : Acks]]
      BY <1>3 DEF TypeOK, sendACK
    <2>4. QED BY <1>3, <2>2, <2>3 DEF TypeOK, sendACK, sourceVars
  <1>4. QED BY <1>1, <1>2, <1>3 DEF ReceiveStep

LEMMA OtherTypeStep ==
  ASSUME TypeOK, AgainInv,
         \/ \E n \in Node : OpenStep(n) \/ replaceCarrier(n)
                            \/ \E ch \in Channel : fillBuffer(n, ch)
         \/ connectionLost
         \/ UNCHANGED vars
  PROVE TypeOK' /\ AgainInv'
  <1> USE DEF AgainInv, sourceVars, targetVars, carrierVars
  <1>1. ASSUME NEW n \in Node, OnConnected(n)
        PROVE TypeOK' /\ AgainInv'
    BY <1>1, ServiceAssumption DEF TypeOK, OnConnected
  <1>2. ASSUME NEW n \in Node, NEW ch \in Channel, openChannel(n, ch)
        PROVE TypeOK' /\ AgainInv'
    BY <1>2 DEF TypeOK, openChannel
  <1>3. ASSUME NEW n \in Node, replaceCarrier(n)
        PROVE TypeOK' /\ AgainInv'
    BY <1>3 DEF TypeOK, replaceCarrier
  <1>4. ASSUME NEW n \in Node, NEW ch \in Channel, fillBuffer(n, ch)
        PROVE TypeOK' /\ AgainInv'
    <2>1. written' \in [Node -> [Channel -> Nat]] /\ written'[n][ch] \in Item
      BY <1>4 DEF TypeOK, fillBuffer, Item
    <2>2. Append(buffers[n][ch], written'[n][ch]) \in Seq(Item)
      BY <2>1 DEF TypeOK
    <2>3. buffers' \in [Node -> [Channel -> Seq(Item)]]
      BY <1>4, <2>2 DEF TypeOK, fillBuffer
    <2>4. QED BY <1>4, <2>1, <2>3 DEF TypeOK, fillBuffer
  <1>5. CASE connectionLost
    <2>1. wire' \in [Node -> Seq(Frames \cup Acks)] /\ link' \in [Node -> {"up", "down"}]
      BY <1>5 DEF connectionLost
    <2>2. faults' \in [count : 0..MaxFaults, gaveUp : BOOLEAN]
      BY <1>5, FaultTypes DEF connectionLost
    <2>3. QED BY <1>5, <2>1, <2>2 DEF TypeOK, connectionLost
  <1>6. CASE UNCHANGED vars
    BY <1>6 DEF TypeOK, vars
  <1>7. QED BY <1>1, <1>2, <1>3, <1>4, <1>5, <1>6 DEF OpenStep

LEMMA TypeStep == TypeOK /\ AgainInv /\ [Next]_vars => TypeOK' /\ AgainInv'
  BY TransmitTypeStep, ReceiveTypeStep, OtherTypeStep DEF Next

LEMMA TypeInit == Init => TypeOK /\ AgainInv
  <1> SUFFICES ASSUME Init PROVE TypeOK /\ AgainInv
    OBVIOUS
  <1>1. 1 % Wrap \in 0..(Wrap - 1) /\ 0 \in 0..(Wrap - 1) /\ 0 \in 0..MaxFaults
    BY SizesAssumption
  <1>2. QED BY <1>1 DEF Init, TypeOK, AgainInv, Idle

\* Queues hold frames and the wire frames and acknowledgements, whatever fails
\* (CTransmittedFramesQueue, CTarget::receiveFrame, CCarrierAdapter).
THEOREM TypeCorrect == Spec => []TypeOK
  BY TypeInit, TypeStep, PTL DEF Spec

-----------------------------------------------------------------------------
(* What a step leaves alone. *)

LEMMA TakenFacts ==
  ASSUME TypeOK, BuffersInv, Bounded, NEW n \in Node, NEW ch \in Channel
  PROVE /\ Taken(n, ch) \in 0..(Wrap - 1) /\ Taken(n, ch) <= written[n][ch]
        /\ written[n][ch] \in Nat /\ written[n][ch] < Wrap /\ Wrap \in Nat
        /\ Budget[n][ch] \in Nat /\ Budget[n][ch] < Wrap
        /\ Len(buffers[n][ch]) \in Nat
  <1>1. written[n][ch] \in Nat /\ buffers[n][ch] \in Seq(Item)
    BY DEF TypeOK
  <1>2. Len(buffers[n][ch]) \in Nat /\ Len(buffers[n][ch]) <= written[n][ch]
    BY <1>1 DEF BuffersInv
  <1>3. Budget[n][ch] \in Nat /\ Wrap \in Nat /\ Budget[n][ch] < Wrap
    BY BudgetAssumption, SizesAssumption DEF Bounded
  <1>4. written[n][ch] <= Budget[n][ch]
    BY DEF BuffersInv
  <1>5. QED BY <1>1, <1>2, <1>3, <1>4 DEF Taken

\* No frame and no acknowledgement is added.
LEMMA NothingNew ==
  ASSUME BuffersInv, FramesInv, DeliveredInv, AcksInv,
         UNCHANGED <<buffers, counter, written, delivered, last>>,
         \A n \in Node : /\ Outstanding(n)' \subseteq Outstanding(n)
                         /\ AcksFor(n)' \subseteq AcksFor(n)
  PROVE BuffersInv' /\ FramesInv' /\ DeliveredInv' /\ AcksInv'
  <1>1. \A n, ch : Taken(n, ch)' = Taken(n, ch)
    BY DEF Taken
  <1>2. BuffersInv'
    BY <1>1 DEF BuffersInv
  <1>3. FramesInv'
    BY <1>1 DEF FramesInv
  <1>4. DeliveredInv'
    BY <1>1 DEF DeliveredInv
  <1>5. AcksInv'
    BY DEF AcksInv
  <1>6. QED BY <1>2, <1>3, <1>4, <1>5

\* No frame is dropped.
LEMMA StillKept ==
  ASSUME KeptInv, UNCHANGED <<buffers, written, delivered>>,
         faults.gaveUp => faults'.gaveUp,
         ~faults'.gaveUp => \A n \in Node : Held(n) \subseteq Held(n)'
  PROVE KeptInv'
  <1>1. \A n, ch : Taken(n, ch)' = Taken(n, ch)
    BY DEF Taken
  <1>2. QED BY <1>1 DEF KeptInv

LEMMA WireFirstAppend ==
  ASSUME NEW S, NEW q \in Seq(S), NEW x \in S, WireFirst(q),
         ~x.ack /\ x.ch = Service => x = FirstFrame \/ FirstFrame \in ToSet(q)
  PROVE WireFirst(Append(q, x))
  <1>1. /\ Len(q) \in Nat /\ Len(Append(q, x)) = Len(q) + 1
        /\ \A i \in 1..Len(q) : Append(q, x)[i] = q[i]
        /\ Append(q, x)[Len(q) + 1] = x
    OBVIOUS
  <1>2. SUFFICES ASSUME NEW j \in 1..(Len(q) + 1),
                        ~Append(q, x)[j].ack, Append(q, x)[j].ch = Service
                 PROVE \E i \in 1..j : Append(q, x)[i] = FirstFrame
    BY <1>1 DEF WireFirst
  <1>3. CASE j \in 1..Len(q)
    <2>1. PICK i \in 1..j : q[i] = FirstFrame
      BY <1>1, <1>2, <1>3 DEF WireFirst
    <2>2. QED BY <1>1, <1>3, <2>1
  <1>4. CASE j = Len(q) + 1 /\ x = FirstFrame
    BY <1>1, <1>4
  <1>5. CASE j = Len(q) + 1 /\ FirstFrame \in ToSet(q)
    <2>1. PICK i \in 1..Len(q) : q[i] = FirstFrame
      BY <1>5 DEF ToSet
    <2>2. QED BY <1>1, <1>5, <2>1
  <1>6. QED BY <1>1, <1>2, <1>3, <1>4, <1>5

LEMMA WireFirstTail ==
  ASSUME NEW S, NEW q \in Seq(S), q # <<>>, WireFirst(q),
         Head(q).ack \/ Head(q).ch # Service, ~FirstFrame.ack, FirstFrame.ch = Service
  PROVE WireFirst(Tail(q)) /\ (FirstFrame \in ToSet(q) => FirstFrame \in ToSet(Tail(q)))
  <1>1. /\ Tail(q) \in Seq(S) /\ Head(q) = q[1] /\ Len(q) \in Nat \ {0}
        /\ Len(Tail(q)) = Len(q) - 1
        /\ \A i \in 1..(Len(q) - 1) : Tail(q)[i] = q[i + 1]
        /\ ToSet(q) = ToSet(Tail(q)) \cup {Head(q)}
    BY TailElements
  <1>2. q[1] # FirstFrame
    BY <1>1
  <1> DEFINE t == Tail(q)
  <1>t. /\ DOMAIN t = 1..(Len(q) - 1)
        /\ FirstFrame \in ToSet(q) => FirstFrame \in ToSet(t)
    BY <1>1, <1>2
  <1> HIDE DEF t
  <1>3. SUFFICES ASSUME NEW j \in 1..(Len(q) - 1), ~t[j].ack, t[j].ch = Service
                 PROVE \E i \in 1..j : t[i] = FirstFrame
    BY <1>t DEF WireFirst, t
  <1>4. j + 1 \in 1..Len(q) /\ ~q[j + 1].ack /\ q[j + 1].ch = Service
    BY <1>1, <1>3 DEF t
  <1>5. PICK i \in 1..(j + 1) : q[i] = FirstFrame
    BY <1>4 DEF WireFirst
  <1>6. i # 1
    BY <1>2, <1>5
  <1>7. i - 1 \in 1..j /\ i - 1 \in 1..(Len(q) - 1) /\ (i - 1) + 1 = i
    BY <1>1, <1>5, <1>6
  <1>8. t[i - 1] = FirstFrame
    BY <1>1, <1>5, <1>7 DEF t
  <1>9. QED BY <1>7, <1>8

LEMMA SameConnection ==
  ASSUME ConnectionInv, UNCHANGED <<sources, targets, allowed, link, replaced>>,
         faults.gaveUp => faults'.gaveUp
  PROVE ConnectionInv' /\ Fresh' = Fresh
  BY DEF ConnectionInv, Fresh, Stale

LEMMA FaultStays ==
  ASSUME NEW kind, Faulty(kind)
  PROVE faults.gaveUp => faults'.gaveUp
  BY DEF Faulty

LEMMA FirstFrameFacts ==
  /\ FirstFrame.ack = FALSE /\ FirstFrame.ch = Service
  /\ FirstFrame.number = 1 /\ FirstFrame.item = 1
  BY DEF FirstFrame, Frame

LEMMA OutstandingTypes ==
  ASSUME TypeOK, NEW n \in Node, NEW f \in Outstanding(n)
  PROVE f \in Frames
  <1>1. CASE f \in ToSet(unacked[n])
    <2>1. unacked[n] \in Seq(Frames)
      BY DEF TypeOK
    <2>2. QED BY <1>1, <2>1 DEF ToSet
  <1>2. CASE f \in InHand(n)
    BY <1>2 DEF InHand, TypeOK
  <1>3. CASE f \in ToSet(wire[Other(n)]) /\ ~f.ack
    <2>1. wire[Other(n)] \in Seq(Frames \cup Acks)
      BY OtherFacts DEF TypeOK
    <2>2. f \in Frames \cup Acks
      BY <1>3, <2>1 DEF ToSet
    <2>3. QED BY <1>3, <2>2, FrameTypes
  <1>4. QED BY <1>1, <1>2, <1>3 DEF Outstanding, Held

LEMMA AckTypes ==
  ASSUME TypeOK, NEW n \in Node, NEW m \in AcksFor(n)
  PROVE m \in Acks /\ m.ch \in Channel /\ m.number \in Nat
  <1>1. CASE m \in ToSet(wire[n]) /\ m.ack
    <2>1. wire[n] \in Seq(Frames \cup Acks)
      BY DEF TypeOK
    <2>2. m \in Frames \cup Acks
      BY <1>1, <2>1 DEF ToSet
    <2>3. QED BY <1>1, <2>2, FrameTypes
  <1>2. CASE acking[Other(n)] # Idle /\ m = acking[Other(n)].frame
    <2>1. m \in Acks
      BY <1>2, OtherFacts DEF TypeOK
    <2>2. QED BY <2>1, FrameTypes
  <1>3. QED BY <1>1, <1>2 DEF AcksFor

LEMMA LengthIsNat ==
  ASSUME TypeOK', NEW n \in Node, NEW ch \in Channel
  PROVE Len(delivered'[n][ch]) \in Nat
  BY DEF TypeOK

-----------------------------------------------------------------------------
(* Opening, writing and the carrier. *)

LEMMA OnConnectedStep ==
  ASSUME IInv, TypeOK', NEW n \in Node, OnConnected(n)
  PROVE DataInv'
  <1> USE DEF IInv, DataInv
  <1>1. BuffersInv' /\ FramesInv' /\ DeliveredInv' /\ AcksInv'
    BY NothingNew DEF OnConnected, Outstanding, AcksFor, Held, InHand
  <1>2. KeptInv'
    BY StillKept DEF OnConnected, Held, InHand
  <1>3. Fresh /\ ~Stale
    BY DEF OnConnected, ConnectionInv, Stale
  <1>4. ConnectionInv' /\ Fresh'
    BY <1>3 DEF OnConnected, ConnectionInv, Fresh, TypeOK
  <1>5. \A m \in Node : targets[m] \subseteq {Service} => targets'[m] \subseteq {Service}
    BY DEF OnConnected, TypeOK
  <1>6. FirstInv'
    BY <1>3, <1>5, OtherFacts DEF OnConnected, FirstInv, Taken
  <1>7. QED BY <1>1, <1>2, <1>4, <1>6

LEMMA OpenChannelStep ==
  ASSUME IInv, TypeOK', NEW n \in Node, NEW ch \in Channel, openChannel(n, ch)
  PROVE DataInv'
  <1> USE DEF IInv, DataInv
  <1>1. BuffersInv' /\ FramesInv' /\ DeliveredInv' /\ AcksInv'
    BY NothingNew DEF openChannel, Outstanding, AcksFor, Held, InHand, carrierVars
  <1>2. KeptInv'
    BY StillKept DEF openChannel, Held, InHand
  <1>3. Service \in sources[n] /\ \A m \in Node : Service \in sources'[m] <=> Service \in sources[m]
    BY DEF openChannel, TypeOK
  <1>4. ConnectionInv' /\ Fresh' = Fresh
    BY <1>3 DEF openChannel, ConnectionInv, Fresh, Stale, carrierVars, TypeOK
  <1>5. \A m \in Node : firstFlag[m] => targets'[m] = targets[m]
    BY DEF openChannel, TypeOK
  <1>6. Fresh => FirstInv'
    BY <1>5, OtherFacts DEF openChannel, FirstInv, Taken, carrierVars
  <1>7. QED BY <1>1, <1>2, <1>4, <1>6

LEMMA FillBufferStep ==
  ASSUME IInv, TypeOK', Bounded, NEW n \in Node, NEW ch \in Channel, fillBuffer(n, ch)
  PROVE DataInv'
  <1> USE DEF IInv, DataInv
  <1>1. /\ buffers[n][ch] \in Seq(Item) /\ Len(buffers[n][ch]) \in Nat
        /\ written[n][ch] \in Nat
        /\ Budget[n][ch] \in Nat
    <2>1. buffers[n][ch] \in Seq(Item)
      BY DEF TypeOK
    <2>2. QED BY <2>1, TakenFacts
  <1>2. /\ written'[n][ch] = written[n][ch] + 1
        /\ buffers'[n][ch] = Append(buffers[n][ch], written[n][ch] + 1)
        /\ \A m \in Node, c \in Channel : m # n \/ c # ch =>
             written'[m][c] = written[m][c] /\ buffers'[m][c] = buffers[m][c]
    <2>1. written' = [written EXCEPT ![n][ch] = @ + 1]
      BY DEF fillBuffer
    <2>2. written'[n][ch] = written[n][ch] + 1
      BY <2>1 DEF TypeOK
    <2>3. buffers' = [buffers EXCEPT ![n][ch] = Append(@, written[n][ch] + 1)]
      BY <2>2 DEF fillBuffer
    <2>4. buffers'[n][ch] = Append(buffers[n][ch], written[n][ch] + 1)
      BY <2>3 DEF TypeOK
    <2>5. ASSUME NEW m \in Node, NEW c \in Channel, m # n \/ c # ch
          PROVE written'[m][c] = written[m][c] /\ buffers'[m][c] = buffers[m][c]
      <3>1. CASE m # n
        BY <3>1, <2>1, <2>3 DEF TypeOK
      <3>2. CASE m = n /\ c # ch
        BY <3>2, <2>1, <2>3 DEF TypeOK
      <3>3. QED BY <2>5, <3>1, <3>2
    <2>6. QED BY <2>2, <2>4, <2>5
  <1>3. Len(buffers'[n][ch]) = Len(buffers[n][ch]) + 1
    BY <1>1, <1>2
  <1>4. ASSUME NEW m \in Node, NEW c \in Channel
        PROVE Taken(m, c)' = Taken(m, c)
    <2>1. CASE m = n /\ c = ch
      BY <2>1, <1>1, <1>2, <1>3 DEF Taken
    <2>2. CASE m # n \/ c # ch
      BY <2>2, <1>2 DEF Taken
    <2>3. QED BY <2>1, <2>2
  <1>5. BuffersInv'
    <2>1. \A i \in DOMAIN buffers'[n][ch] : buffers'[n][ch][i] = Taken(n, ch) + i
      <3>1. SUFFICES ASSUME NEW i \in 1..(Len(buffers[n][ch]) + 1)
                     PROVE buffers'[n][ch][i] = Taken(n, ch) + i
        BY <1>1, <1>2, <1>3
      <3>2. CASE i \in 1..Len(buffers[n][ch])
        BY <3>2, <1>1, <1>2 DEF BuffersInv
      <3>3. CASE i = Len(buffers[n][ch]) + 1
        BY <3>3, <1>1, <1>2 DEF Taken
      <3>4. QED BY <3>2, <3>3, <1>1
    <2>2. /\ written'[n][ch] <= Budget[n][ch]
          /\ Len(buffers'[n][ch]) <= written'[n][ch]
      BY <1>1, <1>2, <1>3 DEF fillBuffer, BuffersInv
    <2>3. counter' = counter
      BY DEF fillBuffer
    <2>4. ASSUME NEW m \in Node, NEW c \in Channel
          PROVE /\ written'[m][c] <= Budget[m][c]
                /\ Len(buffers'[m][c]) <= written'[m][c]
                /\ \A i \in DOMAIN buffers'[m][c] : buffers'[m][c][i] = Taken(m, c) + i
                /\ counter'[m][c] = (Taken(m, c) + 1) % Wrap
      <3>1. CASE m = n /\ c = ch
        BY <3>1, <2>1, <2>2, <2>3 DEF BuffersInv
      <3>2. CASE m # n \/ c # ch
        BY <3>2, <1>2, <2>3 DEF BuffersInv
      <3>3. QED BY <3>1, <3>2
    <2>5. QED BY <1>4, <2>4 DEF BuffersInv
  <1>6. /\ \A m \in Node : Outstanding(m)' = Outstanding(m) /\ AcksFor(m)' = AcksFor(m)
        /\ \A m \in Node : Held(m)' = Held(m)
    BY DEF fillBuffer, Outstanding, AcksFor, Held, InHand, targetVars, carrierVars
  <1>7. \A m \in Node : \A f \in Outstanding(m) : f.ch \in Channel
    BY OutstandingTypes, FrameTypes
  <1>8. FramesInv'
    BY <1>4, <1>6, <1>7 DEF FramesInv
  <1>9. DeliveredInv' /\ AcksInv'
    BY <1>4, <1>6 DEF DeliveredInv, AcksInv, fillBuffer, targetVars
  <1>10. KeptInv'
    BY <1>4, <1>6 DEF KeptInv, fillBuffer, targetVars
  <1>11. ConnectionInv' /\ Fresh' = Fresh
    BY SameConnection DEF fillBuffer, targetVars, carrierVars
  <1>12. Fresh => FirstInv'
    BY <1>4, ServiceAssumption DEF FirstInv, fillBuffer, targetVars, carrierVars
  <1>13. QED BY <1>5, <1>8, <1>9, <1>10, <1>11, <1>12

LEMMA ConnectionLostStep ==
  ASSUME IInv, TypeOK', Bounded, connectionLost
  PROVE DataInv'
  <1> USE DEF IInv, DataInv
  <1>1. /\ \A n \in Node : Service \in sources[n]
        /\ faults'.gaveUp
    BY DEF connectionLost, Faulty, Bounded
  <1>2. \A n \in Node : link'[n] = "down" /\ wire'[n] = <<>>
    BY DEF connectionLost
  <1>3. ConnectionInv' /\ ~Fresh'
    BY <1>1, <1>2, NodesAssumption
       DEF ConnectionInv, Fresh, Stale, connectionLost, sourceVars, targetVars
  <1>4. ToSet(<<>>) = {}
    BY DEF ToSet
  <1>5. \A n \in Node : Outstanding(n)' \subseteq Outstanding(n) /\ AcksFor(n)' \subseteq AcksFor(n)
    BY <1>2, <1>4, OtherFacts
       DEF Outstanding, AcksFor, Held, InHand, connectionLost, sourceVars, targetVars
  <1>6. BuffersInv' /\ FramesInv' /\ DeliveredInv' /\ AcksInv'
    BY <1>5, NothingNew DEF connectionLost, sourceVars, targetVars
  <1>7. QED BY <1>1, <1>3, <1>6 DEF KeptInv

LEMMA ReplaceCarrierStep ==
  ASSUME IInv, TypeOK', NEW n \in Node, replaceCarrier(n)
  PROVE DataInv'
  <1> USE DEF IInv, DataInv
  <1>1. ~Fresh /\ Stale /\ faults.gaveUp /\ faults' = faults
    BY DEF replaceCarrier, ConnectionInv, Fresh
  <1>2. ~Fresh'
    BY <1>1 DEF Stale, Fresh, replaceCarrier, sourceVars, TypeOK
  <1>3. ConnectionInv'
    BY <1>1 DEF ConnectionInv, Stale, replaceCarrier, sourceVars, TypeOK
  <1>4. BuffersInv' /\ FramesInv' /\ DeliveredInv' /\ AcksInv'
    BY NothingNew DEF replaceCarrier, Outstanding, AcksFor, Held, InHand, sourceVars
  <1>5. QED BY <1>1, <1>2, <1>3, <1>4 DEF KeptInv

-----------------------------------------------------------------------------
(* The transmit thread. *)

LEMMA OnDispatchStep ==
  ASSUME IInv, TypeOK', Bounded, NEW n \in Node, NEW ch \in Channel, OnDispatch(n, ch)
  PROVE DataInv'
  <1> USE DEF IInv, DataInv
  <1> DEFINE b == buffers[n][ch]
             taken == Taken(n, ch)
             f == Frame(ch, counter[n][ch], Head(b))
  <1>1. /\ b \in Seq(Item) /\ b # <<>> /\ Len(b) \in Nat \ {0}
        /\ Head(b) = b[1] /\ Tail(b) \in Seq(Item) /\ Len(Tail(b)) = Len(b) - 1
        /\ \A i \in 1..(Len(b) - 1) : Tail(b)[i] = b[i + 1]
    <2>1. b \in Seq(Item) /\ b # <<>>
      BY DEF OnDispatch, TypeOK
    <2>2. QED BY <2>1, TailElements
  <1>2. /\ buffers'[n][ch] = Tail(b)
        /\ counter'[n][ch] = (counter[n][ch] + 1) % Wrap
    BY DEF OnDispatch, TypeOK
  <1>3. ASSUME NEW m \in Node, NEW c \in Channel, m # n \/ c # ch
        PROVE buffers'[m][c] = buffers[m][c] /\ counter'[m][c] = counter[m][c]
    <2>1. CASE m # n
      BY <2>1 DEF OnDispatch, TypeOK
    <2>2. CASE m = n /\ c # ch
      BY <2>2 DEF OnDispatch, TypeOK
    <2>3. QED BY <1>3, <2>1, <2>2
  <1>4. /\ written' = written /\ wire' = wire /\ delivered' = delivered /\ last' = last
        /\ acking' = acking /\ unacked' = unacked /\ firstFlag' = firstFlag
        /\ targets' = targets
    BY DEF OnDispatch, targetVars, carrierVars
  <1>5. /\ sending[n] = Idle /\ sending'[n] = [job |-> "send", frame |-> f]
        /\ \A m \in Node : m # n => sending'[m] = sending[m]
    BY DEF OnDispatch, TypeOK
  <1>6. /\ taken \in 0..(Wrap - 1) /\ written[n][ch] \in Nat /\ written[n][ch] < Wrap
        /\ Wrap \in Nat /\ taken + 1 <= written[n][ch]
        /\ taken = written[n][ch] - Len(b)
    BY <1>1, TakenFacts DEF Taken
  <1>7. Head(b) = taken + 1 /\ counter[n][ch] = taken + 1
    <2>1. Head(b) = taken + 1
      BY <1>1 DEF BuffersInv
    <2>2. counter[n][ch] = (taken + 1) % Wrap
      BY DEF BuffersInv
    <2>3. Wrap \in Nat \ {0} /\ taken + 1 \in 0..(Wrap - 1)
      BY <1>6
    <2>4. (taken + 1) % Wrap = taken + 1
      BY <2>3, SmallModulo
    <2>5. QED BY <2>1, <2>2, <2>4
  <1>8. Taken(n, ch)' = taken + 1
    BY <1>1, <1>2, <1>4, <1>6 DEF Taken
  <1>9. \A m \in Node, c \in Channel : m # n \/ c # ch => Taken(m, c)' = Taken(m, c)
    BY <1>3, <1>4 DEF Taken
  <1>10. Len(b) <= written[n][ch] /\ written[n][ch] <= Budget[n][ch]
    BY DEF BuffersInv
  <1>11. \A i \in 1..Len(b) : b[i] = taken + i
    BY <1>1 DEF BuffersInv
  <1> HIDE DEF b, taken, f
  <1>12. /\ written'[n][ch] <= Budget[n][ch] /\ Len(buffers'[n][ch]) <= written'[n][ch]
         /\ counter'[n][ch] = (Taken(n, ch)' + 1) % Wrap
    BY <1>1, <1>2, <1>4, <1>6, <1>7, <1>8, <1>10
  <1>13. ASSUME NEW i \in DOMAIN buffers'[n][ch]
         PROVE buffers'[n][ch][i] = Taken(n, ch)' + i
    <2>1. i \in 1..(Len(b) - 1) /\ i + 1 \in 1..Len(b) /\ i \in Nat /\ taken \in Nat
      BY <1>1, <1>2, <1>6
    <2>2. Tail(b)[i] = taken + (i + 1)
      BY <1>1, <1>11, <2>1
    <2>3. taken + (i + 1) = (taken + 1) + i
      BY <2>1
    <2>4. QED BY <1>2, <1>8, <2>2, <2>3
  <1>14. BuffersInv'
    <2>1. ASSUME NEW m \in Node, NEW c \in Channel
          PROVE /\ written'[m][c] <= Budget[m][c]
                /\ Len(buffers'[m][c]) <= written'[m][c]
                /\ \A i \in DOMAIN buffers'[m][c] : buffers'[m][c][i] = Taken(m, c)' + i
                /\ counter'[m][c] = (Taken(m, c)' + 1) % Wrap
      <3>1. CASE m = n /\ c = ch
        BY <3>1, <1>12, <1>13
      <3>2. CASE m # n \/ c # ch
        BY <3>2, <1>3, <1>4, <1>9 DEF BuffersInv
      <3>3. QED BY <3>1, <3>2
    <2>2. QED BY <2>1 DEF BuffersInv
  <1>15. f.ch = ch /\ f.number = taken + 1 /\ f.item = taken + 1
    BY <1>7 DEF f, Frame
  <1>16. /\ Held(n)' = Held(n) \cup {f} /\ Outstanding(n)' = Outstanding(n) \cup {f}
         /\ \A m \in Node : m # n => Held(m)' = Held(m) /\ Outstanding(m)' = Outstanding(m)
         /\ \A m \in Node : AcksFor(m)' = AcksFor(m)
    BY <1>4, <1>5 DEF Held, InHand, Outstanding, AcksFor, Idle
  <1>17. FramesInv'
    <2>1. ASSUME NEW m \in Node, NEW g \in Outstanding(m)'
          PROVE g.number = g.item /\ g.item <= Taken(m, g.ch)'
      <3>1. CASE m = n /\ g = f
        BY <3>1, <1>6, <1>8, <1>15
      <3>2. CASE g \in Outstanding(m)
        <4>1. g.ch \in Channel /\ g.item \in Nat
          BY <3>2, OutstandingTypes, FrameTypes DEF Item
        <4>2. g.number = g.item /\ g.item <= Taken(m, g.ch)
          BY <3>2 DEF FramesInv
        <4>3. CASE m = n /\ g.ch = ch
          BY <4>1, <4>2, <4>3, <1>6, <1>8 DEF taken
        <4>4. CASE m # n \/ g.ch # ch
          BY <4>1, <4>2, <4>4, <1>9
        <4>5. QED BY <4>3, <4>4
      <3>3. QED BY <3>1, <3>2, <1>16
    <2>2. QED BY <2>1 DEF FramesInv
  <1>18. DeliveredInv'
    <2>1. Len(delivered[n][ch]) \in Nat /\ Len(delivered[n][ch]) <= taken
      BY DEF DeliveredInv, TypeOK, taken
    <2>2. \A m \in Node, c \in Channel : Len(delivered[m][c]) <= Taken(m, c)'
      BY <2>1, <1>6, <1>8, <1>9 DEF DeliveredInv
    <2>3. QED BY <2>2, <1>4 DEF DeliveredInv
  <1>19. AcksInv'
    BY <1>4, <1>16 DEF AcksInv
  <1>20. KeptInv'
    <2>1. ASSUME ~faults.gaveUp, NEW m \in Node, NEW c \in Channel,
                 NEW item \in (Len(delivered[m][c]) + 1)..Taken(m, c)'
          PROVE \E g \in Held(m)' : g.ch = c /\ g.item = item
      <3>1. CASE m = n /\ c = ch /\ item = taken + 1
        BY <3>1, <1>15, <1>16
      <3>2. CASE m = n /\ c = ch /\ item # taken + 1
        <4>1. Len(delivered[n][ch]) \in Nat
          BY DEF TypeOK
        <4>2. item \in (Len(delivered[m][c]) + 1)..Taken(m, c)
          BY <3>2, <4>1, <1>6, <1>8 DEF taken
        <4>3. QED BY <2>1, <3>2, <4>2, <1>16 DEF KeptInv
      <3>3. CASE m # n \/ c # ch
        BY <2>1, <3>3, <1>9, <1>16 DEF KeptInv
      <3>4. QED BY <3>1, <3>2, <3>3
    <2>2. QED BY <2>1, <1>4 DEF KeptInv, OnDispatch
  <1>21. ConnectionInv' /\ Fresh' = Fresh
    BY SameConnection DEF OnDispatch, targetVars, carrierVars
  <1>22. Fresh => FirstInv'
    <2>1. SUFFICES ASSUME Fresh, NEW m \in Node, firstFlag[Other(m)]
                   PROVE \/ Taken(m, Service)' = 0
                         \/ sending'[m] = [job |-> "send", frame |-> FirstFrame]
                         \/ FirstFrame \in ToSet(wire[Other(m)])
      BY <1>4 DEF FirstInv
    <2>2. \/ Taken(m, Service) = 0
          \/ sending[m] = [job |-> "send", frame |-> FirstFrame]
          \/ FirstFrame \in ToSet(wire[Other(m)])
      BY <2>1 DEF FirstInv
    <2>3. CASE m # n
      BY <2>2, <2>3, <1>5, <1>9, ServiceAssumption
    <2>4. CASE m = n /\ ch # Service
      BY <2>2, <2>4, <1>5, <1>9, ServiceAssumption DEF Idle
    <2>5. CASE m = n /\ ch = Service
      <3>1. taken = 0 => f = FirstFrame
        BY <2>5, <1>7 DEF f, FirstFrame
      <3>2. QED BY <2>2, <2>5, <3>1, <1>5 DEF Idle, taken
    <2>6. QED BY <2>3, <2>4, <2>5
  <1>23. QED BY <1>14, <1>17, <1>18, <1>19, <1>20, <1>21, <1>22

LEMMA GetFrameToRetransmitStep ==
  ASSUME IInv, TypeOK', NEW n \in Node, getFrameToRetransmit(n)
  PROVE DataInv'
  <1> USE DEF IInv, DataInv
  <1>1. /\ UNCHANGED <<sources, buffers, counter, unacked, written, targetVars, carrierVars>>
        /\ faults.gaveUp => faults'.gaveUp
    BY FaultStays DEF getFrameToRetransmit
  <1>2. /\ sending[n] = Idle
        /\ sending'[n] = [job |-> "again", frame |-> Head(unacked[n])]
        /\ \A m \in Node : m # n => sending'[m] = sending[m]
    BY DEF getFrameToRetransmit, TypeOK
  <1>3. Head(unacked[n]) \in ToSet(unacked[n])
    <2>1. unacked[n] \in Seq(Frames) /\ unacked[n] # <<>>
      BY DEF getFrameToRetransmit, TypeOK
    <2>2. QED BY <2>1, TailElements
  <1>4. \A m \in Node : Held(m)' = Held(m)
    BY <1>1, <1>2, <1>3 DEF Held, InHand, Idle
  <1>5. \A m \in Node : Outstanding(m)' = Outstanding(m) /\ AcksFor(m)' = AcksFor(m)
    BY <1>1, <1>4 DEF Outstanding, AcksFor, targetVars, carrierVars
  <1>6. BuffersInv' /\ FramesInv' /\ DeliveredInv' /\ AcksInv'
    BY <1>1, <1>5, NothingNew DEF targetVars
  <1>7. KeptInv'
    BY <1>1, <1>4, StillKept DEF targetVars
  <1>8. ConnectionInv' /\ Fresh' = Fresh
    BY <1>1, SameConnection DEF targetVars, carrierVars
  <1>9. \A m \in Node : sending[m].job = "send" => sending'[m] = sending[m]
    BY <1>2 DEF Idle
  <1>10. Fresh => FirstInv'
    BY <1>1, <1>9 DEF FirstInv, Taken, targetVars, carrierVars
  <1>11. QED BY <1>6, <1>7, <1>8, <1>10

LEMMA WireAfterTransmit ==
  ASSUME TypeOK, NEW n \in Node, NEW x \in Frames \cup Acks,
         Transmits(n, x) \/ TransmitFails(n)
  PROVE /\ wire'[n] = wire[n]
        /\ ToSet(wire'[Other(n)]) \subseteq ToSet(wire[Other(n)]) \cup {x}
        /\ Transmits(n, x) => /\ wire'[Other(n)] = Append(wire[Other(n)], x)
                              /\ ToSet(wire'[Other(n)]) = ToSet(wire[Other(n)]) \cup {x}
  <1>1. CASE Transmits(n, x)
    <2>1. wire'[Other(n)] = Append(wire[Other(n)], x) /\ wire'[n] = wire[n]
      BY <1>1, OtherFacts DEF Transmits, TypeOK
    <2>2. wire[Other(n)] \in Seq(Frames \cup Acks)
      BY OtherFacts DEF TypeOK
    <2>3. ToSet(Append(wire[Other(n)], x)) = ToSet(wire[Other(n)]) \cup {x}
      BY <2>2, AppendElements
    <2>4. QED BY <2>1, <2>3
  <1>2. CASE ~Transmits(n, x)
    BY <1>2 DEF TransmitFails
  <1>3. QED BY <1>1, <1>2

\* A frame that is sent is not new, and it leaves the hand of the transmit thread.
LEMMA AfterSending ==
  ASSUME IInv, TypeOK', NEW n \in Node, NEW f \in Frames,
         sending[n] # Idle, sending[n].frame = f,
         Transmits(n, f) \/ TransmitFails(n),
         sending' = [sending EXCEPT ![n] = Idle],
         ToSet(unacked'[n]) \subseteq Held(n),
         \A m \in Node : m # n => unacked'[m] = unacked[m],
         UNCHANGED <<sources, buffers, counter, written, targetVars, allowed, link>>,
         faults.gaveUp => faults'.gaveUp,
         ~faults'.gaveUp => Held(n) \subseteq ToSet(unacked'[n])
  PROVE DataInv'
  <1> USE DEF IInv, DataInv
  <1>1. f \in Held(n) /\ f.ack = FALSE /\ f.ch \in Channel
    BY FrameTypes DEF Held, InHand
  <1>2. /\ wire'[n] = wire[n]
        /\ ToSet(wire'[Other(n)]) \subseteq ToSet(wire[Other(n)]) \cup {f}
    BY WireAfterTransmit
  <1>3. /\ sending'[n] = Idle
        /\ \A m \in Node : m # n => sending'[m] = sending[m]
    BY DEF TypeOK
  <1>4. \A m \in Node : Held(m)' \subseteq Held(m)
    BY <1>3 DEF Held, InHand
  <1>5. ASSUME NEW m \in Node
        PROVE Outstanding(m)' \subseteq Outstanding(m) /\ AcksFor(m)' \subseteq AcksFor(m)
    <2>1. CASE m = n
      BY <2>1, <1>1, <1>2, <1>4 DEF Outstanding, AcksFor, targetVars
    <2>2. CASE m = Other(n)
      BY <2>2, <1>1, <1>2, <1>4, OtherFacts DEF Outstanding, AcksFor, targetVars
    <2>3. QED BY <2>1, <2>2, OtherFacts
  <1>6. BuffersInv' /\ FramesInv' /\ DeliveredInv' /\ AcksInv'
    BY <1>5, NothingNew DEF targetVars
  <1>7. ~faults'.gaveUp => \A m \in Node : Held(m) \subseteq Held(m)'
    BY <1>3 DEF Held, InHand
  <1>8. KeptInv'
    BY <1>7, StillKept DEF targetVars
  <1>9. ConnectionInv' /\ Fresh' = Fresh
    BY SameConnection DEF targetVars
  <1>10. ASSUME Fresh PROVE FirstInv'
    <2>1. Transmits(n, f)
      BY <1>10 DEF Fresh, TransmitFails
    <2>2. /\ wire'[Other(n)] = Append(wire[Other(n)], f)
          /\ ToSet(wire'[Other(n)]) = ToSet(wire[Other(n)]) \cup {f}
      BY <2>1, WireAfterTransmit
    <2>3. \A m \in Node, c \in Channel : Taken(m, c)' = Taken(m, c)
      BY DEF Taken
    <2>4. FirstInv
      BY <1>10
    <2>5. ASSUME NEW m \in Node, firstFlag[Other(m)]
          PROVE /\ WireFirst(wire'[Other(m)])
                /\ \/ Taken(m, Service) = 0
                   \/ sending'[m] = [job |-> "send", frame |-> FirstFrame]
                   \/ FirstFrame \in ToSet(wire'[Other(m)])
      <3>1. CASE m = n
        <4>1. \/ Taken(n, Service) = 0
              \/ sending[n] = [job |-> "send", frame |-> FirstFrame]
              \/ FirstFrame \in ToSet(wire[Other(n)])
          BY <2>4, <2>5, <3>1 DEF FirstInv
        <4>2. f.ch = Service => Taken(n, Service) # 0
          <5>1. f.item \in Nat \ {0} /\ f.item <= Taken(n, f.ch)
            BY <1>1, FrameTypes DEF FramesInv, Outstanding, Item
          <5>2. QED BY <5>1
        <4>3. sending[n] = [job |-> "send", frame |-> FirstFrame] => f = FirstFrame
          OBVIOUS
        <4>4. f.ch = Service => f = FirstFrame \/ FirstFrame \in ToSet(wire[Other(n)])
          BY <4>1, <4>2, <4>3
        <4>5. wire[Other(n)] \in Seq(Frames \cup Acks) /\ WireFirst(wire[Other(n)])
          BY <2>4, <2>5, <3>1, OtherFacts DEF TypeOK, FirstInv
        <4>6. WireFirst(wire'[Other(n)])
          BY <2>2, <4>4, <4>5, WireFirstAppend
        <4>7. QED BY <3>1, <2>2, <4>1, <4>3, <4>6
      <3>2. CASE m = Other(n)
        BY <3>2, <1>2, <1>3, <2>4, <2>5, OtherFacts DEF FirstInv
      <3>3. QED BY <3>1, <3>2, OtherFacts
    <2>6. QED BY <2>3, <2>4, <2>5, ServiceAssumption DEF FirstInv, targetVars
  <1>11. QED BY <1>6, <1>8, <1>9, <1>10

LEMMA SendFrameStep ==
  ASSUME IInv, TypeOK', NEW n \in Node, sendFrame(n)
  PROVE DataInv'
  <1> USE DEF IInv, DataInv
  <1> DEFINE f == sending[n].frame
  <1>1. sending[n] # Idle /\ f \in Frames
    BY DEF sendFrame, TypeOK, Idle
  <1>2. unacked[n] \in Seq(Frames) /\ InHand(n) = {f}
    BY <1>1 DEF TypeOK, InHand
  <1>3. ToSet(Append(unacked[n], f)) = Held(n)
    BY <1>1, <1>2, AppendElements DEF Held
  <1>4. /\ \/ unacked'[n] = Append(unacked[n], f)
           \/ unacked'[n] = unacked[n] /\ ~Fresh
        /\ \A m \in Node : m # n => unacked'[m] = unacked[m]
    BY DEF sendFrame, enqueue, TransmitFails, Fresh, TypeOK
  <1>5. /\ ToSet(unacked'[n]) \subseteq Held(n)
        /\ Fresh => Held(n) \subseteq ToSet(unacked'[n])
    BY <1>3, <1>4 DEF Held
  <1>6. ~faults.gaveUp => Fresh
    BY DEF ConnectionInv
  <1> HIDE DEF f, IInv, DataInv
  <1>7. QED BY <1>1, <1>4, <1>5, <1>6, AfterSending DEF sendFrame, f

LEMMA ReenqueueStep ==
  ASSUME IInv, TypeOK', NEW n \in Node, reenqueueRetransmittedFrame(n)
  PROVE DataInv'
  <1> USE DEF IInv
  <1> DEFINE f == sending[n].frame
             q == unacked[n]
  <1>1. sending[n] # Idle /\ f \in Frames
    BY DEF reenqueueRetransmittedFrame, TypeOK, Idle
  <1>2. q \in Seq(Frames) /\ q # <<>> /\ f = Head(q) /\ InHand(n) = {f}
    BY <1>1 DEF reenqueueRetransmittedFrame, TypeOK, AgainInv, InHand
  <1>3. ToSet(Requeued(q)) = ToSet(q) /\ ToSet(Tail(q)) \subseteq ToSet(q) /\ f \in ToSet(q)
    BY <1>2, RequeuedElements, TailElements
  <1>4. /\ \/ unacked'[n] = Requeued(q) /\ faults' = faults
           \/ unacked'[n] = Tail(q) /\ faults'.gaveUp
        /\ \A m \in Node : m # n => unacked'[m] = unacked[m]
    BY DEF reenqueueRetransmittedFrame, Faulty, TypeOK
  <1>5. Held(n) = ToSet(q)
    BY <1>2, <1>3 DEF Held
  <1>6. /\ ToSet(unacked'[n]) \subseteq Held(n)
        /\ ~faults'.gaveUp => Held(n) \subseteq ToSet(unacked'[n])
        /\ faults.gaveUp => faults'.gaveUp
    BY <1>3, <1>4, <1>5
  <1> HIDE DEF f, q, IInv
  <1>7. QED BY <1>1, <1>4, <1>6, AfterSending DEF reenqueueRetransmittedFrame, f

-----------------------------------------------------------------------------
(* The receiving thread. *)

\* What arrives: the head of the wire is a message of the peer, and the
\* connection is the first one.
LEMMA ArrivalFacts ==
  ASSUME IInv, NEW n \in Node, Arrives(n)
  PROVE /\ Fresh
        /\ Head(wire[n]) \in ToSet(wire[n]) /\ Head(wire[n]) = wire[n][1]
        /\ wire[n] \in Seq(Frames \cup Acks) /\ wire[n] # <<>> /\ 1 \in DOMAIN wire[n]
        /\ wire'[n] = Tail(wire[n]) /\ wire'[Other(n)] = wire[Other(n)]
        /\ ToSet(wire'[n]) \subseteq ToSet(wire[n])
        /\ acking[n] = Idle
        /\ ~Head(wire[n]).ack => Head(wire[n]) \in Outstanding(Other(n))
        /\ Head(wire[n]).ack => Head(wire[n]) \in AcksFor(n)
  <1> USE DEF IInv, DataInv
  <1>1. Fresh
    BY DEF Arrives, ConnectionInv, Stale
  <1>2. wire[n] \in Seq(Frames \cup Acks) /\ wire[n] # <<>>
    BY DEF Arrives, TypeOK
  <1>3. /\ Head(wire[n]) = wire[n][1] /\ Len(wire[n]) \in Nat \ {0}
        /\ ToSet(wire[n]) = ToSet(Tail(wire[n])) \cup {Head(wire[n])}
    BY <1>2, TailElements
  <1>4. wire'[n] = Tail(wire[n]) /\ wire'[Other(n)] = wire[Other(n)] /\ acking[n] = Idle
    BY OtherFacts DEF Arrives, TypeOK
  <1>5. 1 \in DOMAIN wire[n]
    BY <1>2, <1>3
  <1>6. /\ ~Head(wire[n]).ack => Head(wire[n]) \in Outstanding(Other(n))
        /\ Head(wire[n]).ack => Head(wire[n]) \in AcksFor(n)
    BY <1>3, OtherFacts DEF Outstanding, AcksFor
  <1>7. QED BY <1>1, <1>2, <1>3, <1>4, <1>5, <1>6

\* A message that is not a service frame leaves the wire.
LEMMA FirstAfterArrival ==
  ASSUME IInv, NEW n \in Node, Arrives(n),
         Head(wire[n]).ack \/ Head(wire[n]).ch # Service,
         UNCHANGED <<buffers, sending, written, targets, firstFlag, delivered>>
  PROVE FirstInv'
  <1> USE DEF IInv, DataInv
  <1>1. FirstInv
    BY ArrivalFacts
  <1>2. \A m \in Node : Taken(m, Service)' = Taken(m, Service)
    BY DEF Taken
  <1>3. ASSUME NEW m \in Node, firstFlag[Other(m)]
        PROVE /\ WireFirst(wire'[Other(m)])
              /\ FirstFrame \in ToSet(wire[Other(m)]) => FirstFrame \in ToSet(wire'[Other(m)])
    <2>1. CASE Other(m) = n
      <3>1. WireFirst(wire[n])
        BY <1>1, <1>3, <2>1 DEF FirstInv
      <3>2. /\ WireFirst(Tail(wire[n]))
            /\ FirstFrame \in ToSet(wire[n]) => FirstFrame \in ToSet(Tail(wire[n]))
        BY <3>1, ArrivalFacts, FirstFrameFacts, WireFirstTail
      <3>3. QED BY <2>1, <3>2, ArrivalFacts
    <2>2. CASE Other(m) = Other(n)
      BY <1>1, <1>3, <2>2, ArrivalFacts DEF FirstInv
    <2>3. QED BY <2>1, <2>2, OtherFacts
  <1>4. QED BY <1>1, <1>2, <1>3 DEF FirstInv

LEMMA DequeueStep ==
  ASSUME IInv, TypeOK', NEW n \in Node, dequeue(n)
  PROVE DataInv'
  <1> USE DEF IInv, DataInv
  <1> DEFINE a == Head(wire[n])
  <1>1. /\ Arrives(n) /\ a.ack /\ sending[n] = Idle
        /\ UNCHANGED <<sources, buffers, counter, sending, written, targetVars, allowed,
                       link, faults>>
    BY DEF dequeue
  <1>2. /\ a \in AcksFor(n) /\ wire'[Other(n)] = wire[Other(n)]
        /\ ToSet(wire'[n]) \subseteq ToSet(wire[n])
    BY <1>1, ArrivalFacts
  <1>3. unacked[n] \in Seq(Frames) /\ \A m \in Node : m # n => unacked'[m] = unacked[m]
    BY DEF dequeue, TypeOK
  <1>4. /\ ToSet(unacked'[n]) \subseteq ToSet(unacked[n])
        /\ \A f \in ToSet(unacked[n]) :
             f \notin ToSet(unacked'[n]) => f.ch = a.ch /\ f.number = a.number
    <2>1. CASE UNCHANGED unacked
      BY <2>1
    <2>2. ASSUME NEW i \in Acked(n, a), unacked' = [unacked EXCEPT ![n] = RemoveAt(@, i)]
          PROVE /\ ToSet(unacked'[n]) \subseteq ToSet(unacked[n])
                /\ \A f \in ToSet(unacked[n]) :
                     f \notin ToSet(unacked'[n]) => f.ch = a.ch /\ f.number = a.number
      <3>1. unacked'[n] = RemoveAt(unacked[n], i)
        BY <2>2 DEF TypeOK
      <3>2. /\ i \in DOMAIN unacked[n]
            /\ unacked[n][i].ch = a.ch /\ unacked[n][i].number = a.number
        BY DEF Acked
      <3>3. /\ ToSet(RemoveAt(unacked[n], i)) \subseteq ToSet(unacked[n])
            /\ ToSet(unacked[n]) \subseteq ToSet(RemoveAt(unacked[n], i)) \cup {unacked[n][i]}
        BY <1>3, <3>2, RemoveAtElements
      <3>4. QED BY <3>1, <3>2, <3>3
    <2>3. QED BY <2>1, <2>2 DEF dequeue
  <1>5. \A m \in Node : Held(m)' \subseteq Held(m)
    BY <1>1, <1>3, <1>4 DEF Held, InHand
  <1>6. ASSUME NEW m \in Node
        PROVE Outstanding(m)' \subseteq Outstanding(m) /\ AcksFor(m)' \subseteq AcksFor(m)
    <2>1. CASE m = n
      BY <2>1, <1>1, <1>2, <1>5 DEF Outstanding, AcksFor, targetVars
    <2>2. CASE m = Other(n)
      BY <2>2, <1>1, <1>2, <1>5, OtherFacts DEF Outstanding, AcksFor, targetVars
    <2>3. QED BY <2>1, <2>2, OtherFacts
  <1>7. BuffersInv' /\ FramesInv' /\ DeliveredInv' /\ AcksInv'
    BY <1>1, <1>6, NothingNew DEF targetVars
  <1>8. KeptInv'
    <2>1. \A m \in Node, c \in Channel : Taken(m, c)' = Taken(m, c)
      BY <1>1 DEF Taken
    <2>2. ASSUME ~faults.gaveUp, NEW m \in Node, NEW c \in Channel,
                 NEW item \in (Len(delivered[m][c]) + 1)..Taken(m, c)
          PROVE \E f \in Held(m)' : f.ch = c /\ f.item = item
      <3>1. PICK f \in Held(m) : f.ch = c /\ f.item = item
        BY <2>2 DEF KeptInv
      <3>2. CASE f \in Held(m)'
        BY <3>1, <3>2
      <3>3. CASE f \notin Held(m)'
        <4>1. m = n /\ f.ch = a.ch /\ f.number = a.number
          BY <3>1, <3>3, <1>1, <1>3, <1>4 DEF Held, InHand
        <4>2. a.number \in 1..Len(delivered[n][c])
          BY <1>2, <3>1, <4>1 DEF AcksInv
        <4>3. f.number = item
          BY <3>1 DEF FramesInv, Outstanding
        <4>4. Len(delivered[m][c]) \in Nat
          BY DEF TypeOK
        <4>5. FALSE
          BY <4>1, <4>2, <4>3, <4>4, <2>2
        <4>6. QED BY <4>5
      <3>4. QED BY <3>2, <3>3
    <2>3. QED BY <2>1, <2>2, <1>1 DEF KeptInv, targetVars
  <1>9. ConnectionInv' /\ Fresh' = Fresh
    BY <1>1, SameConnection DEF targetVars
  <1>10. FirstInv'
    BY <1>1, FirstAfterArrival DEF targetVars
  <1>11. QED BY <1>7, <1>8, <1>9, <1>10

LEMMA SendACKStep ==
  ASSUME IInv, TypeOK', NEW n \in Node, sendACK(n)
  PROVE DataInv'
  <1> USE DEF IInv, DataInv
  <1> DEFINE a == acking[n].frame
  <1>1. /\ acking[n] # Idle
        /\ UNCHANGED <<sourceVars, targets, last, replaced, firstFlag, delivered, allowed,
                       link, faults>>
        /\ acking'[n] = Idle /\ \A m \in Node : m # n => acking'[m] = acking[m]
    BY DEF sendACK, TypeOK
  <1>2. a \in Acks /\ a.ack = TRUE
    BY <1>1, FrameTypes DEF TypeOK
  <1>3. /\ wire'[n] = wire[n]
        /\ ToSet(wire'[Other(n)]) \subseteq ToSet(wire[Other(n)]) \cup {a}
        /\ Transmits(n, a) => /\ wire'[Other(n)] = Append(wire[Other(n)], a)
                              /\ ToSet(wire'[Other(n)]) = ToSet(wire[Other(n)]) \cup {a}
    BY <1>2, WireAfterTransmit DEF sendACK
  <1>4. a \in AcksFor(Other(n))
    BY <1>1, OtherFacts DEF AcksFor
  <1>5. \A m \in Node : Held(m)' = Held(m)
    BY <1>1 DEF Held, InHand, sourceVars
  <1>6. ASSUME NEW m \in Node
        PROVE Outstanding(m)' \subseteq Outstanding(m) /\ AcksFor(m)' \subseteq AcksFor(m)
    <2>1. CASE m = n
      BY <2>1, <1>1, <1>2, <1>3, <1>5, OtherFacts DEF Outstanding, AcksFor
    <2>2. CASE m = Other(n)
      BY <2>2, <1>1, <1>3, <1>4, <1>5, OtherFacts DEF Outstanding, AcksFor
    <2>3. QED BY <2>1, <2>2, OtherFacts
  <1>7. BuffersInv' /\ FramesInv' /\ DeliveredInv' /\ AcksInv'
    BY <1>1, <1>6, NothingNew DEF sourceVars
  <1>8. KeptInv'
    BY <1>1, <1>5, StillKept DEF sourceVars
  <1>9. ConnectionInv' /\ Fresh' = Fresh
    BY <1>1, SameConnection DEF sourceVars
  <1>10. ASSUME Fresh PROVE FirstInv'
    <2>1. Transmits(n, a)
      BY <1>10 DEF Fresh, TransmitFails, sendACK
    <2>2. FirstInv /\ \A m \in Node : Taken(m, Service)' = Taken(m, Service)
      BY <1>1, <1>10 DEF Taken, sourceVars
    <2>3. ASSUME NEW m \in Node, firstFlag[Other(m)]
          PROVE /\ WireFirst(wire'[Other(m)])
                /\ ToSet(wire[Other(m)]) \subseteq ToSet(wire'[Other(m)])
      <3>1. CASE m = n
        <4>1. wire[Other(n)] \in Seq(Frames \cup Acks) /\ WireFirst(wire[Other(n)])
          BY <2>2, <2>3, <3>1, OtherFacts DEF TypeOK, FirstInv
        <4>2. WireFirst(Append(wire[Other(n)], a))
          BY <1>2, <4>1, WireFirstAppend
        <4>3. QED BY <3>1, <1>3, <2>1, <4>2
      <3>2. CASE m = Other(n)
        BY <3>2, <1>3, <2>2, <2>3, OtherFacts DEF FirstInv
      <3>3. QED BY <3>1, <3>2, OtherFacts
    <2>4. QED BY <1>1, <2>2, <2>3 DEF FirstInv, sourceVars
  <1>11. QED BY <1>7, <1>8, <1>9, <1>10

\* What is delivered is the next item.
LEMMA DeliversNext ==
  ASSUME IInv, Bounded, NEW n \in Node, Arrives(n), ~Head(wire[n]).ack, Delivers(n)
  PROVE LET f == Head(wire[n])
            s == Other(n)
        IN /\ f \in Frames /\ f.ch \in Channel
           /\ f.number = f.item
           /\ f.item = Len(delivered[s][f.ch]) + 1
           /\ f.item <= Taken(s, f.ch)
  <1> USE DEF IInv, DataInv
  <1> DEFINE f == Head(wire[n])
             s == Other(n)
             d == Len(delivered[s][f.ch])
  <1>1. f \in Outstanding(s) /\ Fresh /\ s \in Node /\ Other(s) = n
    BY ArrivalFacts, OtherFacts
  <1>2. f \in Frames /\ f.ch \in Channel /\ f.item \in Nat \ {0} /\ f.ack = FALSE
    BY <1>1, OutstandingTypes, FrameTypes DEF Item
  <1>3. f.number = f.item /\ f.item <= Taken(s, f.ch)
    BY <1>1 DEF FramesInv
  <1>4. d \in Nat /\ d <= Taken(s, f.ch) /\ last[n][f.ch] = d
    <2>1. delivered[s][f.ch] \in Seq(Item)
      BY <1>1, <1>2 DEF TypeOK
    <2>2. QED BY <2>1, <1>1, <1>2 DEF DeliveredInv
  <1>5. /\ Taken(s, f.ch) <= written[s][f.ch] /\ written[s][f.ch] < Wrap
        /\ written[s][f.ch] \in Nat /\ Taken(s, f.ch) \in Nat /\ Wrap \in Nat
    BY <1>1, <1>2, TakenFacts
  <1> HIDE DEF d
  <1>6. CASE firstFlag[n]
    <2>1. /\ targets[n] \subseteq {Service} /\ delivered[s][f.ch] = <<>> /\ WireFirst(wire[n])
      BY <1>1, <1>2, <1>6 DEF FirstInv
    <2>2. f.ch = Service /\ f = wire[n][1] /\ 1 \in DOMAIN wire[n]
      BY <2>1, ArrivalFacts DEF Delivers
    <2>3. PICK i \in 1..1 : wire[n][i] = FirstFrame
      BY <2>1, <2>2, <1>2 DEF WireFirst
    <2>4. f.item = 1
      BY <2>2, <2>3, FirstFrameFacts
    <2>5. QED BY <1>2, <1>3, <2>1, <2>4 DEF d
  <1>7. CASE ~firstFlag[n]
    <2>1. f.number = (d + 1) % Wrap
      BY <1>1, <1>4, <1>7 DEF Delivers, Expected, Fresh
    <2>2. CASE d + 1 < Wrap
      <3>1. Wrap \in Nat \ {0} /\ d + 1 \in 0..(Wrap - 1)
        BY <1>4, <1>5, <2>2
      <3>2. (d + 1) % Wrap = d + 1
        BY <3>1, SmallModulo
      <3>3. QED BY <1>2, <1>3, <2>1, <3>2 DEF d
    <2>3. CASE d + 1 = Wrap
      <3>1. Wrap \in Nat \ {0} /\ Wrap % Wrap = 0
        BY SizesAssumption
      <3>2. QED BY <1>2, <1>3, <2>1, <2>3, <3>1
    <2>4. d + 1 <= Wrap
      BY <1>4, <1>5
    <2>5. QED BY <2>2, <2>3, <2>4, <1>2, <1>3, <1>4, <1>5 DEF d
  <1>8. QED BY <1>6, <1>7

\* A frame that is acknowledged without being delivered has been before.
LEMMA DiscardsOld ==
  ASSUME IInv, NEW n \in Node, Arrives(n), ~Head(wire[n]).ack,
         ResendAck(n, Head(wire[n]))
  PROVE LET f == Head(wire[n])
        IN /\ f \in Frames /\ f.ch \in Channel
           /\ f.number = f.item
           /\ f.item \in 1..Len(delivered[Other(n)][f.ch])
  <1> USE DEF IInv, DataInv
  <1> DEFINE f == Head(wire[n])
             s == Other(n)
             d == Len(delivered[s][f.ch])
  <1>1. f \in Outstanding(s) /\ s \in Node /\ Other(s) = n
    BY ArrivalFacts, OtherFacts
  <1>2. f \in Frames /\ f.ch \in Channel /\ f.item \in Nat \ {0}
    BY <1>1, OutstandingTypes, FrameTypes DEF Item
  <1>3. f.number = f.item
    BY <1>1 DEF FramesInv
  <1>4. d \in Nat /\ last[n][f.ch] = d
    <2>1. delivered[s][f.ch] \in Seq(Item)
      BY <1>1, <1>2 DEF TypeOK
    <2>2. QED BY <2>1, <1>1, <1>2 DEF DeliveredInv
  <1>5. f.item <= d
    BY <1>3, <1>4 DEF ResendAck
  <1>6. QED BY <1>2, <1>3, <1>4, <1>5

LEMMA AckOf ==
  ASSUME NEW f \in Frames
  PROVE Ack(f).ack = TRUE /\ Ack(f).ch = f.ch /\ Ack(f).number = f.number
  BY DEF Ack

LEMMA DeliversStep ==
  ASSUME IInv, TypeOK', Bounded, NEW n \in Node, receiveFrame(n), Delivers(n)
  PROVE DataInv'
  <1> USE DEF IInv, DataInv
  <1> DEFINE f == Head(wire[n])
             s == Other(n)
             c == f.ch
             d == Len(delivered[s][c])
  <1>1. /\ Arrives(n) /\ ~f.ack
        /\ UNCHANGED <<sourceVars, targets, allowed, link, faults>>
    BY ReceiveCases DEF Delivers
  <1>2. /\ f \in Frames /\ c \in Channel /\ f.number = f.item /\ f.item = d + 1
        /\ f.item <= Taken(s, c)
    BY <1>1, DeliversNext
  <1>3. /\ Fresh /\ FirstInv /\ s \in Node /\ s # n /\ Other(s) = n
        /\ ToSet(wire'[n]) \subseteq ToSet(wire[n]) /\ wire'[s] = wire[s]
        /\ acking[n] = Idle
    BY <1>1, ArrivalFacts, OtherFacts
  <1>4. delivered[s][c] \in Seq(Item) /\ d \in Nat
    <2>1. s \in Node /\ c \in Channel
      BY <1>2, <1>3
    <2> HIDE DEF f, s, c
    <2>2. delivered[s][c] \in Seq(Item)
      BY <2>1 DEF TypeOK
    <2>3. QED BY <2>2
  <1>5. delivered'[s][c] = Append(delivered[s][c], f.item) /\ last'[n][c] = f.number
    <2>1. /\ delivered' = [delivered EXCEPT ![s][c] = Append(@, f.item)]
          /\ last' = [last EXCEPT ![n][c] = f.number]
      BY DEF Delivers
    <2>2. s \in Node /\ c \in Channel
      BY <1>2, <1>3
    <2> HIDE DEF f, s, c
    <2>3. QED BY <2>1, <2>2 DEF TypeOK
  <1>6. ASSUME NEW m \in Node, NEW x \in Channel, m # s \/ x # c
        PROVE delivered'[m][x] = delivered[m][x] /\ last'[Other(m)][x] = last[Other(m)][x]
    <2>1. CASE m # s
      BY <2>1, <1>3, OtherFacts DEF Delivers, TypeOK
    <2>2. CASE m = s /\ x # c
      BY <2>2, <1>3, OtherFacts DEF Delivers, TypeOK
    <2>3. QED BY <1>6, <2>1, <2>2
  <1>7. \A m, x : Taken(m, x)' = Taken(m, x)
    BY <1>1 DEF Taken, sourceVars
  <1>8. /\ acking'[n] = [job |-> "ack", frame |-> Ack(f)]
        /\ acking'[s] = acking[s]
    BY <1>3 DEF Delivers, TypeOK
  <1>9. Ack(f).ack = TRUE /\ Ack(f).ch = c /\ Ack(f).number = d + 1
    BY <1>2, AckOf
  <1>10. f.item \in Item
    BY <1>2, FrameTypes
  <1> HIDE DEF f, s, c, d
  <1>11. /\ Len(delivered'[s][c]) = d + 1 /\ delivered'[s][c][d + 1] = d + 1
         /\ \A i \in 1..d : delivered'[s][c][i] = delivered[s][c][i]
    BY <1>2, <1>4, <1>5, <1>10 DEF d
  <1>12. BuffersInv'
    BY <1>1, <1>7 DEF BuffersInv, sourceVars
  <1>13. \A m \in Node : Held(m)' = Held(m) /\ Outstanding(m)' \subseteq Outstanding(m)
    BY <1>1, <1>3, OtherFacts DEF Held, InHand, Outstanding, sourceVars
  <1>14. FramesInv'
    BY <1>7, <1>13 DEF FramesInv
  <1>15. DeliveredInv'
    <2>1. ASSUME NEW m \in Node, NEW x \in Channel
          PROVE /\ \A i \in DOMAIN delivered'[m][x] : delivered'[m][x][i] = i
                /\ last'[Other(m)][x] = Len(delivered'[m][x])
                /\ Len(delivered'[m][x]) <= Taken(m, x)
      <3>1. CASE m = s /\ x = c
        <4>1. delivered'[s][c] \in Seq(Item) /\ DOMAIN delivered'[s][c] = 1..(d + 1)
          BY <1>2, <1>3, <1>4, <1>11 DEF TypeOK
        <4>2. \A i \in 1..d : delivered[s][c][i] = i
          BY <1>2, <1>3, <1>4 DEF DeliveredInv, d
        <4>3. ASSUME NEW i \in 1..(d + 1)
              PROVE delivered'[s][c][i] = i
          <5>1. CASE i \in 1..d
            BY <5>1, <4>2, <1>11
          <5>2. CASE i = d + 1
            BY <5>2, <1>11
          <5>3. QED BY <5>1, <5>2, <1>4
        <4>4. QED BY <3>1, <4>1, <4>3, <1>2, <1>3, <1>5, <1>11
      <3>2. CASE m # s \/ x # c
        BY <3>2, <1>6 DEF DeliveredInv
      <3>3. QED BY <3>1, <3>2
    <2>2. QED BY <2>1, <1>7 DEF DeliveredInv
  <1>16. \A m \in Node, x \in Channel :
           /\ Len(delivered[m][x]) \in Nat
           /\ Len(delivered[m][x]) <= Len(delivered'[m][x])
    <2>1. ASSUME NEW m \in Node, NEW x \in Channel
          PROVE Len(delivered[m][x]) \in Nat /\ Len(delivered[m][x]) <= Len(delivered'[m][x])
      <3>1. Len(delivered[m][x]) \in Nat
        BY DEF TypeOK
      <3>2. CASE m = s /\ x = c
        BY <3>1, <3>2, <1>11 DEF d
      <3>3. CASE m # s \/ x # c
        BY <3>1, <3>3, <1>6
      <3>4. QED BY <3>1, <3>2, <3>3
    <2>2. QED BY <2>1
  <1>17. AcksInv'
    <2>1. ASSUME NEW m \in Node, NEW a \in AcksFor(m)'
          PROVE a.number \in 1..Len(delivered'[m][a.ch])
      <3>1. CASE a \in AcksFor(m)
        <4>1. a.ch \in Channel
          BY <3>1, AckTypes
        <4>2. a.number \in 1..Len(delivered[m][a.ch])
          BY <3>1 DEF AcksInv
        <4>3. QED BY <4>1, <4>2, <1>16, LengthIsNat
      <3>2. CASE m = s /\ a = Ack(f)
        BY <3>2, <1>4, <1>9, <1>11
      <3>3. \/ AcksFor(m)' \subseteq AcksFor(m)
            \/ m = s /\ AcksFor(m)' \subseteq AcksFor(m) \cup {Ack(f)}
        BY <1>3, <1>8, OtherFacts DEF AcksFor, Idle
      <3>4. QED BY <3>1, <3>2, <3>3
    <2>2. QED BY <2>1 DEF AcksInv
  <1>18. KeptInv'
    <2>1. ASSUME ~faults.gaveUp, NEW m \in Node, NEW x \in Channel,
                 NEW item \in (Len(delivered'[m][x]) + 1)..Taken(m, x)
          PROVE \E g \in Held(m) : g.ch = x /\ g.item = item
      <3>1. item \in (Len(delivered[m][x]) + 1)..Taken(m, x)
        BY <1>16, LengthIsNat
      <3>2. QED BY <2>1, <3>1 DEF KeptInv
    <2>2. QED BY <2>1, <1>1, <1>7, <1>13 DEF KeptInv
  <1>19. replaced' = replaced
    <2>1. replaced[n] = {} /\ replaced' = [replaced EXCEPT ![n] = @ \ {c}]
      BY <1>3 DEF Fresh, Delivers, f, c
    <2>2. QED BY <2>1 DEF TypeOK
  <1>20. ConnectionInv' /\ Fresh' = Fresh
    BY <1>1, <1>19, SameConnection DEF sourceVars
  <1>21. FirstInv'
    <2>1. ASSUME NEW m \in Node, firstFlag'[Other(m)]
          PROVE m = n /\ firstFlag[Other(m)]
      BY <2>1, <1>3, OtherFacts DEF Delivers, TypeOK
    <2>2. \A x \in Channel : delivered'[n][x] = delivered[n][x]
      BY <1>3, <1>6
    <2>3. QED
      BY <2>1, <2>2, <1>1, <1>3, <1>7 DEF FirstInv, sourceVars, s
  <1>22. QED BY <1>12, <1>14, <1>15, <1>17, <1>18, <1>20, <1>21

LEMMA DiscardsStep ==
  ASSUME IInv, TypeOK', NEW n \in Node, receiveFrame(n), Discards(n)
  PROVE DataInv'
  <1> USE DEF IInv, DataInv
  <1> DEFINE f == Head(wire[n])
             s == Other(n)
  <1>1. /\ Arrives(n) /\ ~f.ack
        /\ UNCHANGED <<sourceVars, targets, allowed, link, delivered, last, firstFlag, replaced>>
        /\ faults.gaveUp => faults'.gaveUp
    BY ReceiveCases, FaultStays DEF Discards
  <1>2. /\ Fresh /\ FirstInv /\ s \in Node /\ s # n /\ Other(s) = n
        /\ ToSet(wire'[n]) \subseteq ToSet(wire[n]) /\ wire'[s] = wire[s]
        /\ acking[n] = Idle
    BY <1>1, ArrivalFacts, OtherFacts
  <1>3. /\ f.ch \in targets[n] /\ Expected(n, f) => f.ch # Service
        /\ \/ acking' = acking
           \/ ResendAck(n, f) /\ acking' = [acking EXCEPT ![n] = [job |-> "ack", frame |-> Ack(f)]]
    BY DEF Discards
  <1>4. ASSUME firstFlag[n] PROVE f.ch # Service
    <2>1. Service \in targets[n] /\ Expected(n, f)
      BY <1>1, <1>2, <1>4 DEF Arrives, Fresh, ConnectionInv, Expected
    <2>2. QED BY <1>3, <2>1
  <1>5. ASSUME acking' # acking
        PROVE /\ acking'[n] = [job |-> "ack", frame |-> Ack(f)] /\ acking'[s] = acking[s]
              /\ Ack(f).ch = f.ch /\ Ack(f).number \in 1..Len(delivered[s][f.ch])
    <2>1. /\ ResendAck(n, f)
          /\ acking' = [acking EXCEPT ![n] = [job |-> "ack", frame |-> Ack(f)]]
      BY <1>3, <1>5
    <2>2. acking'[n] = [job |-> "ack", frame |-> Ack(f)] /\ acking'[s] = acking[s]
      BY <1>2, <2>1 DEF TypeOK
    <2>3. f \in Frames /\ f.number = f.item /\ f.item \in 1..Len(delivered[s][f.ch])
      BY <1>1, <2>1, DiscardsOld
    <2>4. QED BY <2>2, <2>3, AckOf
  <1> HIDE DEF f, s
  <1>6. \A m, x : Taken(m, x)' = Taken(m, x)
    BY <1>1 DEF Taken, sourceVars
  <1>7. \A m \in Node : Held(m)' = Held(m) /\ Outstanding(m)' \subseteq Outstanding(m)
    BY <1>1, <1>2, OtherFacts DEF Held, InHand, Outstanding, sourceVars, s
  <1>8. BuffersInv' /\ FramesInv' /\ DeliveredInv'
    BY <1>1, <1>6, <1>7 DEF BuffersInv, FramesInv, DeliveredInv, sourceVars
  <1>9. AcksInv'
    <2>1. ASSUME NEW m \in Node, NEW a \in AcksFor(m)'
          PROVE a.number \in 1..Len(delivered[m][a.ch])
      <3>1. CASE a \in AcksFor(m)
        BY <3>1 DEF AcksInv
      <3>2. CASE m = s /\ acking' # acking /\ a = Ack(f)
        BY <3>2, <1>5
      <3>3. CASE acking' = acking
        BY <3>1, <3>3, <1>2, OtherFacts DEF AcksFor, s
      <3>4. CASE acking' # acking
        <4>1. CASE m = s
          BY <4>1, <3>1, <3>2, <3>4, <1>2, <1>5 DEF AcksFor
        <4>2. CASE m = n
          BY <4>2, <3>1, <1>2, <1>5, <3>4 DEF AcksFor, s
        <4>3. QED BY <4>1, <4>2, OtherFacts DEF s
      <3>5. QED BY <3>3, <3>4
    <2>2. QED BY <2>1, <1>1 DEF AcksInv
  <1>10. KeptInv'
    BY <1>1, <1>7, StillKept DEF sourceVars
  <1>11. ConnectionInv' /\ Fresh' = Fresh
    BY <1>1, SameConnection DEF sourceVars
  <1>12. FirstInv'
    <2>1. CASE f.ch # Service
      BY <2>1, <1>1, FirstAfterArrival DEF sourceVars, f
    <2>2. CASE f.ch = Service
      <3>1. ~firstFlag[n]
        BY <2>2, <1>4
      <3>2. ASSUME NEW m \in Node, firstFlag[Other(m)]
            PROVE wire'[Other(m)] = wire[Other(m)]
        BY <3>1, <3>2, <1>2, OtherFacts DEF s
      <3>3. QED BY <3>2, <1>1, <1>2, <1>6 DEF FirstInv, sourceVars
    <2>3. QED BY <2>1, <2>2
  <1>13. QED BY <1>8, <1>9, <1>10, <1>11, <1>12

-----------------------------------------------------------------------------
(* The theorems. *)

LEMMA DataStep ==
  ASSUME IInv, Bounded, [Next]_vars, TypeOK'
  PROVE DataInv'
  <1>1. ASSUME NEW n \in Node, TransmitStep(n)
        PROVE DataInv'
    BY <1>1, OnDispatchStep, GetFrameToRetransmitStep, SendFrameStep, ReenqueueStep
       DEF TransmitStep
  <1>2. ASSUME NEW n \in Node, ReceiveStep(n)
        PROVE DataInv'
    BY <1>2, DequeueStep, SendACKStep, ReceiveCases, DeliversStep, DiscardsStep
       DEF ReceiveStep
  <1>3. ASSUME NEW n \in Node, OpenStep(n)
        PROVE DataInv'
    BY <1>3, OnConnectedStep, OpenChannelStep DEF OpenStep
  <1>4. ASSUME NEW n \in Node, NEW ch \in Channel, fillBuffer(n, ch)
        PROVE DataInv'
    BY <1>4, FillBufferStep
  <1>5. CASE UNCHANGED vars
    <2>1. UNCHANGED <<sources, buffers, counter, unacked, sending, written, targets, last,
                      replaced, firstFlag, acking, delivered, allowed, link, wire, faults>>
      BY <1>5 DEF vars, sourceVars, targetVars, carrierVars
    <2>2. \A n, ch : Taken(n, ch)' = Taken(n, ch)
      BY <2>1 DEF Taken
    <2>3. \A n : Held(n)' = Held(n)
      BY <2>1 DEF Held, InHand
    <2>4. \A n : Outstanding(n)' = Outstanding(n) /\ AcksFor(n)' = AcksFor(n)
      BY <2>1, <2>3 DEF Outstanding, AcksFor
    <2>5. BuffersInv' /\ FramesInv' /\ DeliveredInv' /\ AcksInv' /\ KeptInv'
      BY <2>1, <2>2, <2>3, <2>4
         DEF IInv, DataInv, BuffersInv, FramesInv, DeliveredInv, AcksInv, KeptInv
    <2>6. ConnectionInv' /\ Fresh' = Fresh
      BY <2>1, SameConnection DEF IInv, DataInv
    <2>7. Fresh => FirstInv'
      BY <2>1, <2>2 DEF IInv, DataInv, FirstInv
    <2>8. QED BY <2>5, <2>6, <2>7 DEF DataInv
  <1>6. QED
    BY <1>1, <1>2, <1>3, <1>4, <1>5, ConnectionLostStep, ReplaceCarrierStep DEF Next

LEMMA DataInit == Init => DataInv
  <1> SUFFICES ASSUME Init PROVE DataInv
    OBVIOUS
  <1>1. /\ \A n \in Node : /\ unacked[n] = <<>> /\ sending[n] = Idle /\ wire[n] = <<>>
                           /\ acking[n] = Idle /\ targets[n] = {} /\ sources[n] = {}
                           /\ link[n] = "up" /\ replaced[n] = {} /\ allowed[n] = FALSE
        /\ \A n \in Node, ch \in Channel :
             /\ buffers[n][ch] = <<>> /\ written[n][ch] = 0 /\ counter[n][ch] = 1 % Wrap
             /\ delivered[n][ch] = <<>> /\ last[n][ch] = 0
    BY DEF Init
  <1>2. ToSet(<<>>) = {}
    BY DEF ToSet
  <1>3. \A n \in Node : Outstanding(n) = {} /\ AcksFor(n) = {} /\ Held(n) = {}
    BY <1>1, <1>2, OtherFacts DEF Outstanding, AcksFor, Held, InHand
  <1>4. \A n \in Node, ch \in Channel : Taken(n, ch) = 0
    BY <1>1 DEF Taken
  <1>5. BuffersInv
    BY <1>1, <1>4, BudgetAssumption DEF BuffersInv
  <1>6. FramesInv /\ AcksInv /\ KeptInv
    <2>1. \A n \in Node, ch \in Channel :
            (Len(delivered[n][ch]) + 1)..Taken(n, ch) = {}
      BY <1>1, <1>4
    <2>2. QED BY <1>3, <2>1 DEF FramesInv, AcksInv, KeptInv
  <1>7. DeliveredInv
    BY <1>1, <1>4, OtherFacts DEF DeliveredInv
  <1>8. ConnectionInv
    BY <1>1 DEF ConnectionInv, Fresh, Init
  <1>9. FirstInv
    BY <1>1, <1>4, OtherFacts, ServiceAssumption DEF FirstInv, WireFirst
  <1>10. QED BY <1>5, <1>6, <1>7, <1>8, <1>9 DEF DataInv

LEMMA Inductive == ASSUME Bounded PROVE Spec => []IInv
  <1>1. Init => IInv
    BY TypeInit, DataInit DEF IInv
  <1>2. IInv /\ [Next]_vars => IInv'
    BY TypeStep, DataStep DEF IInv
  <1>3. QED BY <1>1, <1>2, PTL DEF Spec

\* The position in a buffer of an item that is written and not yet taken.
LEMMA PlaceInBuffer ==
  ASSUME NEW wrote \in Nat, NEW len \in Nat, NEW taken \in Nat, NEW item \in Nat,
         taken = wrote - len, item > taken, item <= wrote
  PROVE item - taken \in 1..len /\ item = taken + (item - taken)
OBVIOUS

\* As long as no frame is given up (RETRANSMIT_TIMEOUT_SEC) and the connection
\* lasts, the buffers, CTransmittedFramesQueue and the transmit thread together
\* have every item that the peer's target has not delivered.
THEOREM NothingIsLost == ASSUME Bounded PROVE Spec => []UndeliveredIsKept
  <1>1. IInv => UndeliveredIsKept
    <2> SUFFICES ASSUME IInv, ~faults.gaveUp, NEW n \in Node, NEW ch \in Channel,
                        NEW item \in (Len(delivered[n][ch]) + 1)..written[n][ch]
                 PROVE \/ item \in ToSet(buffers[n][ch])
                       \/ \E f \in ToSet(unacked[n]) \cup InHand(n) :
                            f.ch = ch /\ f.item = item
      BY DEF UndeliveredIsKept
    <2> USE DEF IInv, DataInv
    <2>1. /\ Taken(n, ch) \in Nat /\ Len(buffers[n][ch]) \in Nat /\ written[n][ch] \in Nat
          /\ Len(delivered[n][ch]) \in Nat
      BY TakenFacts DEF TypeOK
    <2>2. CASE item <= Taken(n, ch)
      BY <2>1, <2>2 DEF KeptInv, Held
    <2>3. CASE item > Taken(n, ch)
      <3> DEFINE i == item - Taken(n, ch)
      <3>1. i \in 1..Len(buffers[n][ch]) /\ item = Taken(n, ch) + i
        <4>1. Taken(n, ch) = written[n][ch] - Len(buffers[n][ch])
          BY DEF Taken
        <4>2. item \in Nat /\ item <= written[n][ch]
          BY <2>1
        <4> HIDE DEF IInv, DataInv
        <4>3. item - Taken(n, ch) \in 1..Len(buffers[n][ch])
              /\ item = Taken(n, ch) + (item - Taken(n, ch))
          <5> HIDE DEF i
          <5>1. QED BY ONLY <2>1, <2>3, <4>1, <4>2, PlaceInBuffer
        <4>4. QED BY <4>3
      <3>2. buffers[n][ch] \in Seq(Item)
        BY DEF TypeOK
      <3>3. i \in DOMAIN buffers[n][ch]
        BY <3>1, <3>2
      <3>4. buffers[n][ch][i] = item
        BY <3>1, <3>3 DEF BuffersInv
      <3>5. QED BY <3>3, <3>4 DEF ToSet
    <2>4. QED BY <2>1, <2>2, <2>3
  <1>2. QED BY <1>1, Inductive, PTL

\* CTarget::receiveFrame acknowledges only what it has delivered, now or before.
THEOREM AcknowledgedIsDelivered == ASSUME Bounded PROVE Spec => AckedIsDelivered
  <1> DEFINE Delivered ==
        \A n \in Node :
          acking[n] = Idle /\ acking'[n] # Idle =>
            LET f == Head(wire[n])
            IN f.item \in ToSet(delivered'[Other(n)][f.ch])
  <1>1. IInv /\ IInv' /\ [Next]_vars => [Delivered]_vars
    <2> SUFFICES ASSUME IInv, IInv', Next, NEW n \in Node, acking[n] = Idle, acking'[n] # Idle
                 PROVE LET f == Head(wire[n])
                       IN f.item \in ToSet(delivered'[Other(n)][f.ch])
      OBVIOUS
    <2> DEFINE f == Head(wire[n])
               s == Other(n)
    <2>1. receiveFrame(n)
      <3>1. \A m \in Node : ~ (dequeue(m) /\ acking' # acking)
        BY DEF dequeue, targetVars
      <3>2. \A m \in Node : sendACK(m) => acking'[n] = Idle \/ acking'[n] = acking[n]
        BY DEF sendACK, IInv, TypeOK
      <3>3. \A m \in Node : receiveFrame(m) /\ m # n => acking'[n] = acking[n]
        <4>1. SUFFICES ASSUME NEW m \in Node, receiveFrame(m), m # n
                       PROVE acking'[n] = acking[n]
          OBVIOUS
        <4>2. CASE Delivers(m)
          BY <4>1, <4>2 DEF Delivers, IInv, TypeOK
        <4>3. CASE Discards(m)
          BY <4>1, <4>3 DEF Discards, IInv, TypeOK
        <4>4. QED BY <4>1, <4>2, <4>3, ReceiveCases
      <3>4. \A m \in Node : TransmitStep(m) => acking' = acking
        BY DEF TransmitStep, OnDispatch, getFrameToRetransmit, sendFrame,
               reenqueueRetransmittedFrame, targetVars
      <3>5. \A m \in Node : OpenStep(m) \/ replaceCarrier(m) => acking' = acking
        BY DEF OpenStep, OnConnected, openChannel, replaceCarrier
      <3>6. \A m \in Node, ch \in Channel : fillBuffer(m, ch) => acking' = acking
        BY DEF fillBuffer, targetVars
      <3>7. connectionLost => acking' = acking
        BY DEF connectionLost, targetVars
      <3>8. QED BY <3>1, <3>2, <3>3, <3>4, <3>5, <3>6, <3>7 DEF Next, ReceiveStep
    <2>2. Arrives(n) /\ ~f.ack
      BY <2>1, ReceiveCases
    <2>3. s \in Node
      BY OtherFacts
    <2>4. f \in Frames /\ f.ch \in Channel /\ f.item \in 1..Len(delivered'[s][f.ch])
      <3>1. CASE Delivers(n)
        <4>1. /\ f \in Frames /\ f.ch \in Channel
              /\ f.item = Len(delivered[s][f.ch]) + 1
          BY <2>2, <3>1, DeliversNext
        <4>2. /\ delivered[s][f.ch] \in Seq(Item) /\ f.item \in Item
              /\ delivered' = [delivered EXCEPT ![s][f.ch] = Append(@, f.item)]
          BY <2>3, <3>1, <4>1, FrameTypes DEF IInv, TypeOK, Delivers
        <4> HIDE DEF f, s
        <4>3. delivered'[s][f.ch] = Append(delivered[s][f.ch], f.item)
          BY <2>3, <4>1, <4>2 DEF IInv, TypeOK
        <4>4. Len(delivered'[s][f.ch]) = Len(delivered[s][f.ch]) + 1
          BY <4>2, <4>3
        <4>5. QED BY <4>1, <4>2, <4>4 DEF Item
      <3>2. CASE Discards(n)
        <4>1. ResendAck(n, f) /\ delivered' = delivered
          BY <3>2 DEF Discards
        <4>2. QED BY <2>2, <4>1, DiscardsOld
      <3>3. QED BY <2>1, <3>1, <3>2, ReceiveCases
    <2> HIDE DEF f, s
    <2>5. delivered'[s][f.ch] \in Seq(Item)
      <3>1. delivered' \in [Node -> [Channel -> Seq(Item)]]
        BY DEF IInv, TypeOK
      <3>2. QED BY <2>3, <2>4, <3>1
    <2>6. f.item \in DOMAIN delivered'[s][f.ch]
      BY <2>4, <2>5
    <2>7. delivered'[s][f.ch][f.item] = f.item
      BY <2>3, <2>4, <2>6 DEF IInv, DataInv, DeliveredInv
    <2>8. QED BY <2>6, <2>7 DEF ToSet, f, s
  <1>2. QED BY <1>1, Inductive, PTL DEF Spec, AckedIsDelivered

LEMMA RefinementStep ==
  ASSUME IInv, Bounded, [Next]_vars
  PROVE [Abstract!Next]_<<written, delivered>>
  <1>1. ASSUME NEW n \in Node, TransmitStep(n)
        PROVE UNCHANGED <<written, delivered>>
    BY <1>1 DEF TransmitStep, OnDispatch, getFrameToRetransmit, sendFrame,
                reenqueueRetransmittedFrame, targetVars
  <1>2. ASSUME NEW n \in Node, dequeue(n) \/ sendACK(n) \/ OpenStep(n) \/ replaceCarrier(n)
        PROVE UNCHANGED <<written, delivered>>
    BY <1>2 DEF dequeue, sendACK, OpenStep, OnConnected, openChannel, replaceCarrier,
                targetVars, sourceVars
  <1>3. CASE connectionLost
    BY <1>3 DEF connectionLost, sourceVars, targetVars
  <1>4. ASSUME NEW n \in Node, NEW ch \in Channel, fillBuffer(n, ch)
        PROVE Abstract!Write(n, ch)
    BY <1>4 DEF fillBuffer, targetVars, Abstract!Write
  <1>5. ASSUME NEW n \in Node, receiveFrame(n), Discards(n)
        PROVE UNCHANGED <<written, delivered>>
    BY <1>5, ReceiveCases DEF Discards, sourceVars
  <1>6. ASSUME NEW n \in Node, receiveFrame(n), Delivers(n)
        PROVE \E s \in Node, ch \in Channel : Abstract!Deliver(s, ch)
    <2> DEFINE f == Head(wire[n])
               s == Other(n)
    <2>1. /\ f.ch \in Channel /\ f.item = Len(delivered[s][f.ch]) + 1
          /\ f.item <= Taken(s, f.ch) /\ f.item \in Nat
      BY <1>6, ReceiveCases, DeliversNext, FrameTypes DEF Item
    <2>2. s \in Node
      BY OtherFacts
    <2>3. /\ delivered' = [delivered EXCEPT ![s][f.ch] = Append(@, f.item)]
          /\ written' = written
      BY <1>6, ReceiveCases DEF Delivers, sourceVars
    <2> HIDE DEF f, s
    <2>4. f.item <= written[s][f.ch]
      BY <2>1, <2>2, TakenFacts DEF IInv, DataInv
    <2>5. Abstract!Deliver(s, f.ch)
      BY <2>1, <2>3, <2>4 DEF Abstract!Deliver
    <2>6. QED BY <2>1, <2>2, <2>5
  <1>7. CASE UNCHANGED vars
    BY <1>7 DEF vars, sourceVars, targetVars
  <1>8. QED
    BY <1>1, <1>2, <1>3, <1>4, <1>5, <1>6, <1>7, ReceiveCases
       DEF Next, ReceiveStep, Abstract!Next

\* Whatever is repeated, rejected, given up or lost with the connection: the
\* frame transfer implements a channel that delivers a prefix of what is written,
\* in order and each item once (CTarget::receiveFrame).
THEOREM TransferIsReliable == ASSUME Bounded PROVE Spec => ReliableInOrder
  <1>1. Init => Abstract!Init
    BY DEF Init, Abstract!Init
  <1>2. IInv /\ [Next]_vars => [Abstract!Next]_<<written, delivered>>
    BY RefinementStep
  <1>3. QED BY <1>1, <1>2, Inductive, PTL DEF Spec, ReliableInOrder, Abstract!Spec

=============================================================================
