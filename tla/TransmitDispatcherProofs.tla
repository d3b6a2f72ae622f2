---------------------- MODULE TransmitDispatcherProofs ----------------------
(***************************************************************************)
(* For any channels, priorities, queue sizes and bounds: the transmit      *)
(* thread reads only sources that exist and have data, and data of a       *)
(* higher priority is overtaken at most once.                              *)
(***************************************************************************)
EXTENDS TransmitDispatcher, SequenceTheorems, TLAPS

\* A source is in the list of its priority.
RegistryInv ==
  \A prio \in TChannelPriority : \A ch \in ToSet(registry[prio]) : Priority[ch] = prio

\* The source at hand is registered, and it has data until it is read.
SourceInv ==
  /\ at.pc \in {"dispatch", "send"} => at.ch \in ToSet(registry[at.prio])
  /\ at.pc = "dispatch" => buffers[at.ch] > 0

\* A real-time source with data is still to be visited.
RealTimeAhead ==
  \E i \in DOMAIN registry[eRealTime] :
    i >= at.pos /\ buffers[registry[eRealTime][i]] > 0

\* Only a priority with data is overtaken.  Before a source is read, no higher
\* priority has been: of safety critical data because the check of this source
\* would have given way, of real-time data because the pass either served it
\* before or gives way to safety critical data up to its end.
OvertakenInv ==
  /\ overtaken[ePlainData] = 0
  /\ \A prio \in TChannelPriority :
       overtaken[prio] > 0 => overtaken[prio] = 1 /\ hasCertainPriorityData(prio)
  /\ at.pc = "dispatch" =>
       \A prio \in TChannelPriority : prio < at.prio => overtaken[prio] = 0
  /\ at.pc = "send" => overtaken[at.prio] = 0
  /\ at.pc = "scan" /\ at.prio = eRealTime /\ overtaken[eRealTime] > 0 => RealTimeAhead
  /\ \/ at.pc = "retransmit" /\ at.prio = eRealTime
     \/ at.pc = "scan" /\ at.prio = ePlainData
     => (overtaken[eRealTime] > 0 => hasCertainPriorityData(eSafetyCritical))

IInv == TypeOK /\ RegistryInv /\ SourceInv /\ OvertakenInv

-----------------------------------------------------------------------------
(* What the operators return. *)

Place == [pc : {"wait", "scan", "dispatch", "send", "retransmit"},
          prio : TChannelPriority, pos : Nat \ {0}, ch : Channel \cup {NoChannel}]

LEMMA Priorities == TChannelPriority = {eSafetyCritical, eRealTime, ePlainData}
  BY DEF TChannelPriority, eSafetyCritical, eRealTime, ePlainData

LEMMA AtFields ==
  ASSUME NEW pc, NEW prio, NEW pos, NEW ch
  PROVE /\ At(pc, prio, pos, ch).pc = pc /\ At(pc, prio, pos, ch).prio = prio
        /\ At(pc, prio, pos, ch).pos = pos /\ At(pc, prio, pos, ch).ch = ch
        /\ pc \in {"wait", "scan", "dispatch", "send", "retransmit"}
             /\ prio \in TChannelPriority /\ pos \in Nat \ {0}
             /\ ch \in Channel \cup {NoChannel}
           => At(pc, prio, pos, ch) \in Place
  BY DEF At, Place

LEMMA PlaceFacts ==
  ASSUME TypeOK
  PROVE /\ at \in Place /\ at.prio \in TChannelPriority /\ at.pos \in Nat \ {0}
        /\ at.ch \in Channel \cup {NoChannel}
        /\ at.pc \in {"wait", "scan", "dispatch", "send", "retransmit"}
        /\ Waiting \in Place /\ Waiting.pc = "wait"
        /\ \A p \in TChannelPriority : registry[p] \in Seq(Channel)
        /\ \A p \in TChannelPriority : ToSet(registry[p]) \subseteq Channel
        /\ \A ch \in Channel : Priority[ch] \in TChannelPriority
  <1>1. /\ at \in Place /\ at.prio \in TChannelPriority /\ at.pos \in Nat \ {0}
        /\ at.ch \in Channel \cup {NoChannel}
        /\ at.pc \in {"wait", "scan", "dispatch", "send", "retransmit"}
    BY DEF TypeOK, Place
  <1>2. Waiting \in Place /\ Waiting.pc = "wait"
    BY AtFields DEF Waiting, TChannelPriority
  <1>3. \A p \in TChannelPriority : registry[p] \in Seq(Channel)
    BY DEF TypeOK
  <1>4. \A p \in TChannelPriority : ToSet(registry[p]) \subseteq Channel
    BY <1>3 DEF ToSet
  <1>5. \A ch \in Channel : Priority[ch] \in TChannelPriority
    BY PriorityAssumption
  <1>6. QED BY <1>1, <1>2, <1>3, <1>4, <1>5

LEMMA AppendElements ==
  ASSUME NEW S, NEW s \in Seq(S), NEW x \in S
  PROVE /\ Append(s, x) \in Seq(S)
        /\ ToSet(Append(s, x)) = ToSet(s) \cup {x}
  <1>1. \A i \in 1..Len(s) : Append(s, x)[i] = s[i]
    OBVIOUS
  <1>2. Append(s, x)[Len(s) + 1] = x /\ Len(Append(s, x)) = Len(s) + 1
    OBVIOUS
  <1>3. ToSet(s) \cup {x} \subseteq ToSet(Append(s, x))
    BY <1>1, <1>2 DEF ToSet
  <1>4. ToSet(Append(s, x)) \subseteq ToSet(s) \cup {x}
    BY <1>1, <1>2 DEF ToSet
  <1>5. QED BY <1>3, <1>4

LEMMA RemoveAtElements ==
  ASSUME NEW S, NEW s \in Seq(S), NEW i \in DOMAIN s
  PROVE RemoveAt(s, i) \in Seq(S) /\ ToSet(RemoveAt(s, i)) \subseteq ToSet(s)
  <1> DEFINE a == SubSeq(s, 1, i - 1)
             b == SubSeq(s, i + 1, Len(s))
  <1>1. i \in 1..Len(s) /\ Len(s) \in Nat
    OBVIOUS
  <1>2. a \in Seq(S) /\ Len(a) = i - 1 /\ \A j \in 1..(i - 1) : a[j] = s[j]
    BY <1>1
  <1>3. b \in Seq(S) /\ Len(b) = Len(s) - i /\ \A j \in 1..(Len(s) - i) : b[j] = s[i + j]
    BY <1>1
  <1>4. RemoveAt(s, i) = a \o b
    BY DEF RemoveAt
  <1> HIDE DEF a, b
  <1>5. /\ a \o b \in Seq(S) /\ Len(a \o b) = Len(s) - 1
        /\ \A j \in 1..(Len(s) - 1) : (a \o b)[j] = IF j < i THEN s[j] ELSE s[j + 1]
    BY <1>1, <1>2, <1>3
  <1>6. ASSUME NEW j \in 1..(Len(s) - 1)
        PROVE (a \o b)[j] \in ToSet(s)
    <2>1. \A k \in 1..Len(s) : s[k] \in ToSet(s)
      BY DEF ToSet
    <2>2. j \in 1..Len(s) /\ j + 1 \in 1..Len(s)
      BY <1>1
    <2>3. QED BY <2>1, <2>2, <1>5
  <1>7. ToSet(a \o b) \subseteq ToSet(s)
    BY <1>5, <1>6 DEF ToSet
  <1>8. QED BY <1>4, <1>5, <1>7

\* A step that leaves the sources alone, and where the thread is.
LEMMA SameSources ==
  ASSUME UNCHANGED <<registry, buffers>>
  PROVE \A p : hasCertainPriorityData(p)' = hasCertainPriorityData(p)
  BY DEF hasCertainPriorityData

-----------------------------------------------------------------------------
(* The other threads. *)

LEMMA OpenChannelStep ==
  ASSUME IInv, NEW ch \in Channel, openChannel(ch)
  PROVE IInv'
  <1> USE DEF IInv
  <1>1. /\ at = Waiting /\ at' = at /\ at.pc = "wait"
        /\ UNCHANGED <<buffers, realTimeMessagesCounter, queued, closing, overtaken>>
    BY PlaceFacts DEF openChannel, RegistryUnlocked
  <1>2. /\ Priority[ch] \in TChannelPriority /\ registry[Priority[ch]] \in Seq(Channel)
        /\ registry' = [registry EXCEPT ![Priority[ch]] = Append(@, ch)]
    BY PlaceFacts DEF openChannel
  <1>3. /\ Append(registry[Priority[ch]], ch) \in Seq(Channel)
        /\ ToSet(Append(registry[Priority[ch]], ch)) = ToSet(registry[Priority[ch]]) \cup {ch}
    BY <1>2, AppendElements
  <1>4. \A p \in TChannelPriority :
          /\ p # Priority[ch] => registry'[p] = registry[p]
          /\ p = Priority[ch] => registry'[p] = Append(registry[p], ch)
    BY <1>2 DEF TypeOK
  <1>5. TypeOK'
    <2>1. registry' \in [TChannelPriority -> Seq(Channel)]
      BY <1>2, <1>3 DEF TypeOK
    <2>2. opens' \in [Channel -> 0..MaxOpens]
      BY BoundsAssumption DEF TypeOK, openChannel
    <2>3. QED BY <2>1, <2>2, <1>1 DEF TypeOK
  <1>6. \A p \in TChannelPriority : /\ ToSet(registry[p]) \subseteq ToSet(registry'[p])
                                    /\ ToSet(registry'[p]) \subseteq ToSet(registry[p]) \cup {ch}
                                    /\ p # Priority[ch] => registry'[p] = registry[p]
    BY <1>3, <1>4
  <1>7. RegistryInv'
    BY <1>2, <1>4, <1>6 DEF RegistryInv
  <1>8. \A p \in TChannelPriority : hasCertainPriorityData(p) => hasCertainPriorityData(p)'
    BY <1>1, <1>6 DEF hasCertainPriorityData
  <1>9. SourceInv' /\ OvertakenInv'
    BY <1>1, <1>8 DEF SourceInv, OvertakenInv
  <1>10. QED BY <1>5, <1>7, <1>9

LEMMA ConsumeBufferStep ==
  ASSUME IInv, NEW ch \in Channel, consumeBuffer(ch)
  PROVE IInv'
  <1> USE DEF IInv
  <1>1. UNCHANGED <<registry, at, realTimeMessagesCounter, queued, closing, opens, overtaken>>
    BY DEF consumeBuffer
  <1>2. TypeOK'
    <2>1. buffers' \in [Channel -> 0..QueueSize]
      BY BoundsAssumption DEF TypeOK, consumeBuffer
    <2>2. QED BY <2>1, <1>1 DEF TypeOK
  <1>3. \A c \in Channel : buffers[c] > 0 => buffers'[c] > 0
    BY DEF TypeOK, consumeBuffer
  <1>4. \A p \in TChannelPriority : hasCertainPriorityData(p) => hasCertainPriorityData(p)'
    BY <1>1, <1>3, PlaceFacts DEF hasCertainPriorityData
  <1>5. RealTimeAhead => RealTimeAhead'
    <2>1. eRealTime \in TChannelPriority
      BY Priorities
    <2>2. \A i \in DOMAIN registry[eRealTime] : registry[eRealTime][i] \in Channel
      BY <2>1, PlaceFacts
    <2>3. QED BY <2>2, <1>1, <1>3 DEF RealTimeAhead
  <1>6. SourceInv'
    <2>1. at.pc = "dispatch" => at.ch \in Channel
      BY PlaceFacts DEF SourceInv
    <2>2. QED BY <2>1, <1>1, <1>3 DEF SourceInv
  <1>7. OvertakenInv'
    BY <1>1, <1>4, <1>5, Priorities DEF OvertakenInv
  <1>8. RegistryInv'
    BY <1>1 DEF RegistryInv
  <1>9. QED BY <1>2, <1>6, <1>7, <1>8

LEMMA CloseChannelStep ==
  ASSUME IInv, NEW ch \in Channel, closeChannel(ch)
  PROVE IInv'
  <1> USE DEF IInv
  <1> DEFINE prio == Priority[ch]
  <1>1. /\ at = Waiting /\ at' = at /\ at.pc = "wait" /\ prio \in TChannelPriority
        /\ UNCHANGED <<realTimeMessagesCounter, queued, opens>>
    BY PlaceFacts DEF closeChannel, closeChannel_Unlocked, RegistryUnlocked
  <1>2. PICK i \in DOMAIN registry[prio] :
          registry' = [registry EXCEPT ![prio] = RemoveAt(@, i)]
    BY DEF closeChannel, closeChannel_Unlocked
  <1>3. registry[prio] \in Seq(Channel)
    BY <1>1, PlaceFacts
  <1>4. /\ RemoveAt(registry[prio], i) \in Seq(Channel)
        /\ ToSet(RemoveAt(registry[prio], i)) \subseteq ToSet(registry[prio])
    BY <1>3, RemoveAtElements
  <1>5. /\ registry' \in [TChannelPriority -> Seq(Channel)]
        /\ \A p \in TChannelPriority : /\ ToSet(registry'[p]) \subseteq ToSet(registry[p])
                                       /\ p # prio => registry'[p] = registry[p]
    BY <1>1, <1>2, <1>4 DEF TypeOK
  <1>6. overtaken' = [overtaken EXCEPT ![prio] = IF hasCertainPriorityData(prio)' THEN @ ELSE 0]
    BY DEF closeChannel, closeChannel_Unlocked
  <1>7. buffers' = [buffers EXCEPT ![ch] = 0] /\ closing' = closing \ {ch}
    BY DEF closeChannel, closeChannel_Unlocked
  <1>8. TypeOK'
    <2>1. buffers' \in [Channel -> 0..QueueSize]
      BY <1>7, BoundsAssumption DEF TypeOK
    <2>2. overtaken' \in [TChannelPriority -> Nat]
      BY <1>1, <1>6 DEF TypeOK
    <2>3. closing' \subseteq Channel
      BY <1>7 DEF TypeOK
    <2>4. QED BY <2>1, <2>2, <2>3, <1>1, <1>5 DEF TypeOK
  <1>9. RegistryInv'
    BY <1>5 DEF RegistryInv
  <1> HIDE DEF prio
  <1>10. ASSUME NEW p \in TChannelPriority, p # prio, hasCertainPriorityData(p)
         PROVE hasCertainPriorityData(p)'
    <2>1. PICK c \in ToSet(registry[p]) : buffers[c] > 0
      BY <1>10 DEF hasCertainPriorityData
    <2>2. c # ch /\ c \in Channel
      BY <1>10, PlaceFacts DEF RegistryInv, prio
    <2>3. buffers'[c] > 0
      BY <2>1, <2>2, <1>7 DEF TypeOK
    <2>4. QED BY <2>1, <2>3, <1>5, <1>10 DEF hasCertainPriorityData
  <1>11. ASSUME NEW p \in TChannelPriority
         PROVE /\ overtaken'[p] \in {0, overtaken[p]}
               /\ overtaken'[p] > 0 => hasCertainPriorityData(p)'
    <2>1. CASE p = prio
      BY <2>1, <1>1, <1>6 DEF TypeOK
    <2>2. CASE p # prio
      BY <2>2, <1>6, <1>10 DEF TypeOK, OvertakenInv
    <2>3. QED BY <2>1, <2>2
  <1>12. SourceInv'
    BY <1>1 DEF SourceInv
  <1>13. OvertakenInv'
    BY <1>1, <1>11, Priorities DEF OvertakenInv
  <1>14. QED BY <1>8, <1>9, <1>12, <1>13

LEMMA LeavesType ==
  ASSUME TypeOK, NEW ch \in Channel, Leaves(ch)
  PROVE queued' \in [Channel -> Nat]
  <1>1. queued[ch] - 1 \in Nat /\ queued' = [queued EXCEPT ![ch] = queued[ch] - 1]
    BY DEF TypeOK, Leaves
  <1>2. QED BY <1>1 DEF TypeOK

LEMMA QueueStep ==
  ASSUME IInv, dequeue \/ \E ch \in Channel : deleteFramesForChannel(ch)
  PROVE IInv'
  <1> USE DEF IInv
  <1>1. UNCHANGED <<registry, buffers, at, realTimeMessagesCounter, opens, overtaken>>
    BY DEF dequeue, deleteFramesForChannel
  <1>2. queued' \in [Channel -> Nat] /\ closing' \subseteq Channel
    <2>1. CASE dequeue
      BY <2>1, LeavesType DEF dequeue, TypeOK
    <2>2. ASSUME NEW ch \in Channel, deleteFramesForChannel(ch)
          PROVE queued' \in [Channel -> Nat] /\ closing' \subseteq Channel
      BY <2>2 DEF deleteFramesForChannel, TypeOK
    <2>3. QED BY <2>1, <2>2
  <1>3. TypeOK'
    BY <1>1, <1>2 DEF TypeOK
  <1>4. QED
    BY <1>1, <1>3, SameSources DEF RegistryInv, SourceInv, OvertakenInv, RealTimeAhead

-----------------------------------------------------------------------------
(* The thread. *)

\* Constants and comparisons of the three priorities.
LEMMA PriorityOrder ==
  /\ eSafetyCritical = 0 /\ eRealTime = 1 /\ ePlainData = 2
  /\ TChannelPriority = {0, 1, 2}
  BY DEF TChannelPriority, eSafetyCritical, eRealTime, ePlainData

LEMMA WaitTimeoutStep ==
  ASSUME IInv, waitTimeout
  PROVE IInv'
  <1> USE DEF IInv
  <1>1. /\ at' = At("scan", eSafetyCritical, 1, NoChannel)
        /\ UNCHANGED <<registry, buffers, realTimeMessagesCounter, queued, closing, opens,
                       overtaken>>
    BY DEF waitTimeout
  <1>2. at' \in Place /\ at'.pc = "scan" /\ at'.prio = 0
    BY <1>1, AtFields, PriorityOrder
  <1>3. TypeOK'
    BY <1>1, <1>2 DEF TypeOK, Place
  <1>4. RegistryInv' /\ SourceInv'
    BY <1>1, <1>2 DEF RegistryInv, SourceInv
  <1>5. OvertakenInv'
    BY <1>1, <1>2, SameSources, PriorityOrder DEF OvertakenInv
  <1>6. QED BY <1>3, <1>4, <1>5

\* The loop over the sources ends.
LEMMA RetransmissionInv ==
  ASSUME IInv, ToRetransmission,
         UNCHANGED <<registry, buffers, overtaken>>,
         at.prio = eRealTime /\ overtaken[eRealTime] > 0
           => hasCertainPriorityData(eSafetyCritical)
  PROVE SourceInv' /\ OvertakenInv' /\ at' \in Place
  <1> USE DEF IInv
  <1>1. at'.pc = "retransmit" /\ at'.prio = at.prio /\ at' \in Place
    BY AtFields, PlaceFacts DEF ToRetransmission
  <1>2. SourceInv'
    BY <1>1 DEF SourceInv
  <1>3. OvertakenInv'
    BY <1>1, SameSources, PriorityOrder DEF OvertakenInv
  <1>4. QED BY <1>1, <1>2, <1>3

\* The loop goes on with the next source.
LEMMA NextSourceInv ==
  ASSUME IInv, ToNextSource,
         UNCHANGED <<registry, buffers, overtaken>>,
         at.prio = eRealTime /\ overtaken[eRealTime] > 0
           => \E i \in DOMAIN registry[eRealTime] :
                i >= at.pos + 1 /\ buffers[registry[eRealTime][i]] > 0,
         at.prio = ePlainData /\ overtaken[eRealTime] > 0
           => hasCertainPriorityData(eSafetyCritical)
  PROVE SourceInv' /\ OvertakenInv' /\ at' \in Place
  <1> USE DEF IInv
  <1>1. at.pos + 1 \in Nat \ {0}
    BY PlaceFacts
  <1>2. at'.pc = "scan" /\ at'.prio = at.prio /\ at'.pos = at.pos + 1 /\ at' \in Place
    BY <1>1, AtFields, PlaceFacts DEF ToNextSource
  <1>3. SourceInv'
    BY <1>2 DEF SourceInv
  <1>4. at.prio = eRealTime /\ overtaken[eRealTime] > 0 => RealTimeAhead'
    BY <1>2 DEF RealTimeAhead
  <1>5. OvertakenInv'
    BY <1>2, <1>4, SameSources, PriorityOrder DEF OvertakenInv
  <1>6. QED BY <1>2, <1>3, <1>5

LEMMA VisitSourceStep ==
  ASSUME IInv, visitSource
  PROVE IInv'
  <1> USE DEF IInv
  <1>1. /\ at.pc = "scan" /\ at.prio \in TChannelPriority /\ at.pos \in Nat \ {0}
        /\ UNCHANGED <<registry, buffers, realTimeMessagesCounter, queued, closing, opens,
                       overtaken>>
    BY PlaceFacts DEF visitSource
  <1> DEFINE list == registry[at.prio]
  <1>2. list \in Seq(Channel) /\ Len(list) \in Nat /\ DOMAIN list = 1..Len(list)
    BY <1>1, PlaceFacts
  <1>3. at.prio = eRealTime /\ overtaken[eRealTime] > 0 =>
          \E i \in DOMAIN list : i >= at.pos /\ buffers[list[i]] > 0
    BY <1>1 DEF OvertakenInv, RealTimeAhead
  <1>4. at.prio = ePlainData /\ overtaken[eRealTime] > 0
          => hasCertainPriorityData(eSafetyCritical)
    BY <1>1 DEF OvertakenInv
  <1>5. RegistryInv' /\ (at' \in Place => TypeOK')
    BY <1>1 DEF RegistryInv, TypeOK, Place
  <1>6. CASE at.pos > Len(list)
    <2>1. ToRetransmission
      BY <1>6 DEF visitSource
    <2>2. ~(at.prio = eRealTime /\ overtaken[eRealTime] > 0)
      BY <1>1, <1>2, <1>3, <1>6
    <2>3. QED BY <2>1, <2>2, <1>1, <1>5, RetransmissionInv
  <1>7. CASE at.pos \in 1..Len(list)
    <2> DEFINE ch == list[at.pos]
    <2>1. ch \in Channel /\ ch \in ToSet(list) /\ buffers[ch] \in Nat
      <3>1. ch \in Channel
        BY <1>2, <1>7
      <3>2. ch \in ToSet(list)
        BY <1>2, <1>7 DEF ToSet
      <3>3. QED BY <3>1, <3>2, BoundsAssumption DEF TypeOK
    <2>2. CASE buffers[ch] = 0
      <3>1. ToNextSource
        BY <1>1, <1>2, <1>7, <2>2 DEF visitSource
      <3>2. at.prio = eRealTime /\ overtaken[eRealTime] > 0 =>
              \E i \in DOMAIN list : i >= at.pos + 1 /\ buffers[list[i]] > 0
        <4>1. SUFFICES ASSUME at.prio = eRealTime, overtaken[eRealTime] > 0
                       PROVE \E i \in DOMAIN list : i >= at.pos + 1 /\ buffers[list[i]] > 0
          OBVIOUS
        <4>2. PICK i \in DOMAIN list : i >= at.pos /\ buffers[list[i]] > 0
          BY <1>3, <4>1
        <4>3. i # at.pos
          BY <2>2, <4>2
        <4>4. i >= at.pos + 1
          BY <1>1, <1>2, <4>2, <4>3
        <4>5. QED BY <4>2, <4>4
      <3>3. QED BY <3>1, <3>2, <1>1, <1>4, <1>5, NextSourceInv
    <2>3. CASE buffers[ch] > 0 /\ GivesWay
      <3>1. ToRetransmission
        BY <1>1, <1>2, <1>7, <2>3 DEF visitSource
      <3>2. hasCertainPriorityData(eSafetyCritical)
        BY <2>3 DEF GivesWay
      <3>3. QED BY <3>1, <3>2, <1>1, <1>5, RetransmissionInv
    <2>4. CASE buffers[ch] > 0 /\ ~GivesWay
      <3>1. at' = At("dispatch", at.prio, at.pos, ch)
        BY <1>1, <1>2, <1>7, <2>4 DEF visitSource
      <3>2. /\ at'.pc = "dispatch" /\ at'.prio = at.prio /\ at'.ch = ch /\ at' \in Place
        BY <3>1, <1>1, <2>1, AtFields
      <3>3. SourceInv'
        BY <3>2, <2>1, <2>4, <1>1 DEF SourceInv
      <3>4. at.prio # eSafetyCritical => ~hasCertainPriorityData(eSafetyCritical)
        BY <2>4 DEF GivesWay
      <3>5. \A p \in TChannelPriority : overtaken[p] \in Nat
        BY DEF TypeOK
      <3>6. ASSUME NEW p \in TChannelPriority, p < at.prio
            PROVE overtaken[p] = 0
        <4>1. at.prio # eSafetyCritical /\ overtaken[eSafetyCritical] = 0
          BY <3>4, <3>5, <3>6, <1>1, PriorityOrder DEF OvertakenInv
        <4>2. CASE p = eRealTime
          BY <4>1, <4>2, <3>4, <3>5, <3>6, <1>1, <1>4, PriorityOrder
        <4>3. QED BY <4>1, <4>2, <3>6, <1>1, PriorityOrder
      <3>7. OvertakenInv'
        BY <3>2, <3>6, <1>1, SameSources, PriorityOrder DEF OvertakenInv
      <3>8. QED BY <3>2, <3>3, <3>7, <1>5
    <2>5. QED BY <2>1, <2>2, <2>3, <2>4
  <1>8. QED BY <1>1, <1>2, <1>6, <1>7

LEMMA OnDispatchStep ==
  ASSUME IInv, OnDispatch
  PROVE IInv'
  <1> USE DEF IInv
  <1>1. /\ at.pc = "dispatch" /\ at.prio \in TChannelPriority /\ at.ch \in ToSet(registry[at.prio])
        /\ at.ch \in Channel /\ buffers[at.ch] > 0 /\ Priority[at.ch] = at.prio
        /\ UNCHANGED <<registry, realTimeMessagesCounter, queued, closing, opens>>
    BY PlaceFacts DEF OnDispatch, SourceInv, RegistryInv
  <1>2. at' = [at EXCEPT !.pc = "send"] /\ at \in Place
    BY PlaceFacts DEF OnDispatch
  <1>3. at' \in Place /\ at'.pc = "send" /\ at'.prio = at.prio /\ at'.ch = at.ch
    BY <1>2 DEF Place
  <1>4. buffers' = [buffers EXCEPT ![at.ch] = @ - 1]
    BY DEF OnDispatch
  <1>5. buffers' \in [Channel -> 0..QueueSize]
    <2>1. buffers[at.ch] - 1 \in 0..QueueSize
      BY <1>1, BoundsAssumption DEF TypeOK
    <2>2. QED BY <1>4, <2>1 DEF TypeOK
  <1>6. ASSUME NEW p \in TChannelPriority, p # at.prio, hasCertainPriorityData(p)
        PROVE hasCertainPriorityData(p)'
    <2>1. PICK c \in ToSet(registry[p]) : buffers[c] > 0
      BY <1>6 DEF hasCertainPriorityData
    <2>2. c # at.ch /\ c \in Channel
      BY <1>1, <1>6, PlaceFacts DEF RegistryInv
    <2>3. buffers'[c] > 0
      BY <2>1, <2>2, <1>4 DEF TypeOK
    <2>4. QED BY <2>1, <2>3, <1>1 DEF hasCertainPriorityData
  <1>7. ASSUME NEW p \in TChannelPriority
        PROVE overtaken'[p] = IF p < at.prio /\ hasCertainPriorityData(p) THEN overtaken[p] + 1
                              ELSE IF p = at.prio THEN 0 ELSE overtaken[p]
    BY DEF OnDispatch
  <1>8. \A p \in TChannelPriority : overtaken[p] \in Nat
    BY DEF TypeOK
  <1>9. \A p \in TChannelPriority : p < at.prio => overtaken[p] = 0
    BY <1>1 DEF OvertakenInv
  <1>10. ASSUME NEW p \in TChannelPriority
         PROVE /\ overtaken'[p] \in Nat
               /\ overtaken'[p] > 0 => overtaken'[p] = 1 /\ hasCertainPriorityData(p)'
    <2>1. CASE p < at.prio /\ hasCertainPriorityData(p)
      <3>1. p # at.prio
        BY <2>1, <1>1, PriorityOrder
      <3>2. QED BY <2>1, <3>1, <1>6, <1>7, <1>9
    <2>2. CASE p = at.prio
      <3>1. ~(p < at.prio)
        BY <2>2, <1>1, PriorityOrder
      <3>2. overtaken'[p] = 0
        BY <2>2, <3>1, <1>7
      <3>3. QED BY <3>2
    <2>3. CASE ~(p < at.prio /\ hasCertainPriorityData(p)) /\ p # at.prio
      <3>1. overtaken'[p] = overtaken[p]
        BY <2>3, <1>7
      <3>2. QED BY <2>3, <3>1, <1>6, <1>8 DEF OvertakenInv
    <2>4. QED BY <2>1, <2>2, <2>3
  <1>11. TypeOK'
    <2>1. overtaken' \in [TChannelPriority -> Nat]
      BY <1>10 DEF OnDispatch
    <2>2. QED BY <2>1, <1>1, <1>3, <1>5 DEF TypeOK, Place
  <1>12. RegistryInv' /\ SourceInv'
    BY <1>1, <1>3 DEF RegistryInv, SourceInv
  <1>13. overtaken'[ePlainData] = 0
    <2>1. ~(ePlainData < at.prio) /\ overtaken[ePlainData] = 0 /\ ePlainData \in TChannelPriority
      BY <1>1, PriorityOrder DEF OvertakenInv
    <2>2. QED BY <2>1, <1>7
  <1>14. overtaken'[at.prio] = 0
    <2>1. ~(at.prio < at.prio)
      BY <1>1, PriorityOrder
    <2>2. QED BY <2>1, <1>1, <1>7
  <1>15. OvertakenInv'
    BY <1>3, <1>10, <1>13, <1>14 DEF OvertakenInv
  <1>16. QED BY <1>11, <1>12, <1>15

LEMMA SendFrameStep ==
  ASSUME IInv, sendFrame
  PROVE IInv'
  <1> USE DEF IInv
  <1>1. /\ at.pc = "send" /\ at.ch \in ToSet(registry[at.prio]) /\ at.prio \in TChannelPriority
        /\ at.ch \in Channel
        /\ AfterSend
        /\ UNCHANGED <<registry, buffers, closing, opens, overtaken>>
    BY PlaceFacts DEF sendFrame, SourceInv
  <1>2. overtaken[at.prio] = 0 /\ \A p \in TChannelPriority : overtaken[p] \in Nat
    BY <1>1 DEF OvertakenInv, TypeOK
  <1>3. queued' \in [Channel -> Nat]
    <2>1. queued[at.ch] + 1 \in Nat
      BY <1>1 DEF TypeOK
    <2>2. CASE UNCHANGED queued
      BY <2>2 DEF TypeOK
    <2>3. CASE queued' = [queued EXCEPT ![at.ch] = @ + 1]
      BY <1>1, <2>1, <2>3 DEF TypeOK
    <2>4. QED BY <2>2, <2>3 DEF sendFrame
  <1>4. realTimeMessagesCounter' \in 0..(realTimeMessagesLimit - 1)
    <2>1. realTimeMessagesCounter \in 0..1 /\ realTimeMessagesLimit = 2
      BY DEF TypeOK, realTimeMessagesLimit
    <2>2. BelowLimit => realTimeMessagesCounter + 1 \in 0..1
      BY <2>1 DEF BelowLimit
    <2>3. QED BY <1>1, <2>1, <2>2 DEF AfterSend
  <1>5. ~(at.prio = eRealTime /\ overtaken[eRealTime] > 0)
    BY <1>2
  <1>6. ToRetransmission => SourceInv' /\ OvertakenInv' /\ at' \in Place
    BY <1>1, <1>5, RetransmissionInv
  <1>7. \/ ToRetransmission
        \/ ToNextSource /\ (at.prio = ePlainData => ~hasCertainPriorityData(eRealTime))
    BY <1>1, PriorityOrder DEF AfterSend
  <1>8. ~hasCertainPriorityData(eRealTime) => overtaken[eRealTime] = 0
    BY <1>2, PriorityOrder DEF OvertakenInv
  <1>9. ToNextSource /\ (at.prio = ePlainData => ~hasCertainPriorityData(eRealTime))
          => SourceInv' /\ OvertakenInv' /\ at' \in Place
    BY <1>1, <1>5, <1>8, NextSourceInv
  <1>10. SourceInv' /\ OvertakenInv' /\ at' \in Place
    BY <1>6, <1>7, <1>9
  <1>11. TypeOK'
    BY <1>1, <1>3, <1>4, <1>10 DEF TypeOK, Place
  <1>12. RegistryInv'
    BY <1>1 DEF RegistryInv
  <1>13. QED BY <1>10, <1>11, <1>12

LEMMA RetransmitStep ==
  ASSUME IInv, retransmit \/ retransmissionDone
  PROVE IInv'
  <1> USE DEF IInv
  <1>1. at.pc = "retransmit" /\ at.prio \in TChannelPriority
        /\ UNCHANGED <<registry, buffers, realTimeMessagesCounter, closing, opens, overtaken>>
    BY PlaceFacts DEF retransmit, retransmissionDone
  <1>2. RegistryInv'
    BY <1>1 DEF RegistryInv
  <1>3. queued' \in [Channel -> Nat]
    BY LeavesType DEF retransmit, retransmissionDone, TypeOK
  <1>4. CASE at' = at
    <2>1. TypeOK'
      BY <1>1, <1>3, <1>4 DEF TypeOK
    <2>2. SourceInv' /\ OvertakenInv'
      BY <1>1, <1>4, SameSources DEF SourceInv, OvertakenInv
    <2>3. QED BY <1>2, <2>1, <2>2
  <1>5. CASE at' = Waiting
    <2>1. TypeOK'
      BY <1>1, <1>3, <1>5, PlaceFacts DEF TypeOK, Place
    <2>2. SourceInv' /\ OvertakenInv'
      BY <1>1, <1>5, PlaceFacts, SameSources DEF SourceInv, OvertakenInv
    <2>3. QED BY <1>2, <2>1, <2>2
  <1>6. CASE at.prio # ePlainData /\ at' = At("scan", at.prio + 1, 1, NoChannel)
    <2>1. at.prio + 1 \in TChannelPriority
      BY <1>1, <1>6, PriorityOrder
    <2>2. at'.pc = "scan" /\ at'.prio = at.prio + 1 /\ at'.pos = 1 /\ at' \in Place
      BY <1>6, <2>1, AtFields
    <2>3. TypeOK'
      BY <1>1, <1>3, <2>2 DEF TypeOK, Place
    <2>4. SourceInv'
      BY <2>2 DEF SourceInv
    <2>5. hasCertainPriorityData(eRealTime) => RealTimeAhead'
      <3>1. registry[eRealTime] \in Seq(Channel)
        BY PlaceFacts, PriorityOrder
      <3>2. \A i \in DOMAIN registry[eRealTime] : i >= 1
        BY <3>1
      <3>3. QED BY <3>2, <1>1, <2>2 DEF hasCertainPriorityData, RealTimeAhead, ToSet
    <2>6. /\ at.prio = eRealTime /\ overtaken[eRealTime] > 0
               => hasCertainPriorityData(eSafetyCritical)
          /\ overtaken[eRealTime] > 0 => hasCertainPriorityData(eRealTime)
      BY <1>1, PriorityOrder DEF OvertakenInv
    <2>7. OvertakenInv'
      BY <1>1, <2>2, <2>5, <2>6, SameSources, PriorityOrder DEF OvertakenInv
    <2>8. QED BY <1>2, <2>3, <2>4, <2>7
  <1>7. QED BY <1>1, <1>4, <1>5, <1>6 DEF retransmit, retransmissionDone

-----------------------------------------------------------------------------
(* The theorems. *)

LEMMA Initial == Init => IInv
  <1> SUFFICES ASSUME Init PROVE IInv
    OBVIOUS
  <1>1. at = Waiting /\ Waiting \in Place /\ Waiting.pc = "wait"
    BY AtFields, PriorityOrder DEF Init, Waiting
  <1>2. TypeOK
    <2>1. 0 \in 0..QueueSize /\ 0 \in 0..MaxOpens /\ 0 \in 0..(realTimeMessagesLimit - 1)
      BY BoundsAssumption DEF realTimeMessagesLimit
    <2>2. QED BY <1>1, <2>1 DEF Init, TypeOK, Place
  <1>3. RegistryInv
    <2>1. \A p \in TChannelPriority : ToSet(registry[p]) = {}
      BY DEF Init, ToSet
    <2>2. QED BY <2>1 DEF RegistryInv
  <1>4. SourceInv /\ OvertakenInv
    BY <1>1, PriorityOrder DEF Init, SourceInv, OvertakenInv
  <1>5. QED BY <1>2, <1>3, <1>4 DEF IInv

LEMMA Step == IInv /\ [Next]_vars => IInv'
  <1> SUFFICES ASSUME IInv, [Next]_vars PROVE IInv'
    OBVIOUS
  <1>1. CASE threadFunc
    BY <1>1, WaitTimeoutStep, VisitSourceStep, OnDispatchStep, SendFrameStep, RetransmitStep
       DEF threadFunc
  <1>2. CASE dequeue \/ \E ch \in Channel : deleteFramesForChannel(ch)
    BY <1>2, QueueStep
  <1>3. ASSUME NEW ch \in Channel, openChannel(ch) \/ consumeBuffer(ch) \/ closeChannel(ch)
        PROVE IInv'
    BY <1>3, OpenChannelStep, ConsumeBufferStep, CloseChannelStep
  <1>4. CASE UNCHANGED vars
    <2>1. UNCHANGED <<registry, buffers, at, realTimeMessagesCounter, queued, closing, opens,
                      overtaken>>
      BY <1>4 DEF vars
    <2>2. QED
      BY <2>1, SameSources DEF IInv, TypeOK, RegistryInv, SourceInv, OvertakenInv, RealTimeAhead
  <1>5. QED BY <1>1, <1>2, <1>3, <1>4 DEF Next

\* The thread is at a source of the registry or between two, the counters keep
\* their bounds (CTransmitDispatcher, CTransmittedFramesQueue).
THEOREM TypeCorrect == Spec => []TypeOK
  <1>1. IInv => TypeOK
    BY DEF IInv
  <1>2. QED BY <1>1, Initial, Step, PTL DEF Spec

\* The thread reads no source that closeChannel has deleted and none whose data is
\* gone, although it asked for the data before it reads (threadFunc).
THEOREM SourceIsInUse == Spec => []SourceInUse
  <1>1. IInv => SourceInUse
    BY PlaceFacts DEF IInv, SourceInv, RegistryInv, SourceInUse, IsOpen
  <1>2. QED BY <1>1, Initial, Step, PTL DEF Spec

\* At most one frame of a lower priority goes before data of a higher one
\* (threadFunc, hasCertainPriorityData).
THEOREM HigherIsOvertakenOnce == Spec => []OvertakenOnce
  <1>1. IInv => OvertakenOnce
    <2> SUFFICES ASSUME IInv, NEW prio \in TChannelPriority
                 PROVE  overtaken[prio] <= 1
      BY DEF OvertakenOnce
    <2>1. overtaken[prio] \in Nat
      BY DEF IInv, TypeOK
    <2>2. overtaken[prio] > 0 => overtaken[prio] = 1
      BY DEF IInv, OvertakenInv
    <2>3. QED BY <2>1, <2>2
  <1>2. QED BY <1>1, Initial, Step, PTL DEF Spec

=============================================================================
