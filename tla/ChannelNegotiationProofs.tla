---------------------- MODULE ChannelNegotiationProofs ----------------------
(***************************************************************************)
(* Proofs about ChannelNegotiation, for any tags, numbers, requests and    *)
(* faults: its types; that a channel a client owns is in the negotiator's  *)
(* map (KnownToNegotiator) and has one owner on a device; and that the two *)
(* clients of a tag ask their Connectivity Agents for one number           *)
(* (SameNumber).                                                           *)
(*                                                                         *)
(* The client that waits in updateMapWithCID is answered by the number of  *)
(* its request alone (waitForResponse compares mMessageId).  The argument  *)
(* is that this number stands for one request: a processor or an answer    *)
(* that carries it belongs to the second exchange and to this channel, so  *)
(* addChannelInfo came before the answer, whatever answers of requests     *)
(* that timed out are still about.                                         *)
(*                                                                         *)
(* For SameNumber the same has to be known of the first exchange: what a   *)
(* request has reached belongs to the client's latest one (SessionInv),    *)
(* and of a tag's numbers those the slave has confirmed are not above those*)
(* it is offered, nor these above the one the master has chosen, for the   *)
(* master's numbers only grow (NumberInv).                                 *)
(***************************************************************************)
EXTENDS ChannelNegotiation, TLAPS

\* The notifications of the second exchange.
ConfirmsChannel == {"CA_ALLOCATE", "MAP_ADD_CID"}

\* A processor that a client's request has reached carries one of the numbers
\* given out; one that waits for it expects the notification it is made for.
ProcessorsInv ==
  \A n \in Node : \A p \in proc[n] :
    /\ p.tag \in Tag
    /\ p.reqType = "UNKNOWN" => p.req \in 1..reqs[n][p.tag]
    /\ p.reqType # "UNKNOWN" => p.reqType = p.ntfType /\ p.req = 0

\* No answer is ahead of the requests.
AnswersInv ==
  \A n \in Node : \A r \in answers[n] : r.req <= reqs[n][r.tag]

\* What carries the number of a request to update the map is about that
\* channel, and is answered when the map has it.
UpdateInv ==
  \A n \in Node, t \in Tag : call[n][t].at = "update" =>
    /\ reqs[n][t] > 0
    /\ \A p \in proc[n] : p.tag = t /\ p.req = reqs[n][t] =>
         p.ntfType \in ConfirmsChannel /\ p.id = call[n][t].id
    /\ \A r \in answers[n] : r.tag = t /\ r.req = reqs[n][t] =>
         r.id = call[n][t].id /\ (r.id \in Id => map[n][r.id] # None)

NegotiationInv ==
  TypeOK /\ ProcessorsInv /\ AnswersInv /\ UpdateInv /\ KnownToNegotiator

-----------------------------------------------------------------------------
(* The operators. *)

\* The other end of a tag is a tag.
LEMMA ComplementIsTag == \A t \in Tag : getComplementingTag(t) \in Tag
  BY DEF Tag, Side, getComplementingTag

\* Numbers are natural, and each device is the other's other.
LEMMA NumbersAndNodes ==
  /\ Id \subseteq Nat
  /\ \A n \in Node : Other(n) \in Node /\ Other(n) # n
  BY BoundsAreNat, NodesDiffer DEF Id, Node, Other

\* A new processor waits for the request and the notification of its type.
LEMMA NewProcessor ==
  ASSUME NEW type \in RequestType
  PROVE  /\ createProcessorForType(type) \in Processor
         /\ createProcessorForType(type).reqType = type
         /\ createProcessorForType(type).ntfType = type
         /\ createProcessorForType(type).req = 0
  BY DEF createProcessorForType, Processor, RequestType, NotificationType

\* A request finds a processor that waits for it.
LEMMA FoundForRequest ==
  ASSUME TypeOK, ProcessorsInv, NEW n \in Node, NEW type \in RequestType, NEW t, NEW id,
         NEW p \in obtainProcessorForRequest(n, type, t, id)
  PROVE  p \in Processor /\ p.reqType = type /\ p.ntfType = type
  <1>1. CASE p \in proc[n] /\ p.reqType = type
    BY <1>1 DEF TypeOK, ProcessorsInv, RequestType
  <1>2. CASE p = createProcessorForType(type)
    BY <1>2, NewProcessor
  <1>3. \/ p \in proc[n] /\ p.reqType = type
        \/ p = createProcessorForType(type)
    BY DEF obtainProcessorForRequest
  <1> QED BY <1>1, <1>2, <1>3

\* A notification finds a processor that expects it, or makes one.
LEMMA FoundForNotification ==
  ASSUME NEW n \in Node, NEW m \in Notification,
         NEW p \in obtainProcessorForNotification(n, m)
  PROVE  \/ /\ p \in proc[n] /\ p.ntfType = m.type
            /\ p.tag = getComplementingTag(m.tag)
         \/ m.type \in RequestType /\ p = createProcessorForType(m.type)
  BY DEF obtainProcessorForNotification, Finds

\* What a processor sends is a notification.
LEMMA NtfType ==
  ASSUME NEW type \in NotificationType, NEW p \in Processor, p.tag \in Tag
  PROVE  Ntf(type, p) \in Notification
  BY DEF Ntf, Notification, Processor

\* The second notification of an exchange.
LEMMA SecondType ==
  ASSUME NEW type \in RequestType
  PROVE  /\ Second(type) \in NotificationType
         /\ type = "ALLOCATE" => Second(type) = "CHECK_MAP"
         /\ type = "CA_ALLOCATE" => Second(type) = "MAP_ADD_CID"
  BY DEF Second, RequestType, NotificationType

\* The queue to a device keeps its type when it grows or is read.
LEMMA QueueTypes ==
  ASSUME NEW q \in Seq(Notification), NEW m \in Notification, NEW k \in Notification
  PROVE  /\ Append(q, m) \in Seq(Notification)
         /\ q \o <<m>> \in Seq(Notification)
         /\ q \o <<m, k>> \in Seq(Notification)
         /\ q # <<>> => Head(q) \in Notification /\ Tail(q) \in Seq(Notification)
  <1> HIDE DEF Notification
  <1> QED OBVIOUS

-----------------------------------------------------------------------------
(* The handlers of the negotiator: what they do to the processors. *)

\* One processor of n takes the place of another.
Replaced(n, p) == \E old : proc' = [proc EXCEPT ![n] = (@ \ {old}) \cup {p}]

\* A local request: one processor carries the client's new number, and in the
\* second exchange the client's channel.
LEMMA RequestMade ==
  ASSUME TypeOK, ProcessorsInv, NEW n \in Node, NEW type \in RequestType, NEW t \in Tag,
         NEW id \in Nat, onLocalRequest(n, type, t, id)
  PROVE  /\ \E p \in Processor :
              /\ p.tag = t /\ p.reqType = "UNKNOWN" /\ p.req = reqs[n][t] + 1
              /\ type = "CA_ALLOCATE" => p.id = id /\ p.ntfType \in ConfirmsChannel
              /\ Replaced(n, p)
         /\ net' \in [Node -> Seq(Notification)]
         /\ free' \in [Node -> Nat]
         /\ reqs' = [reqs EXCEPT ![n][t] = @ + 1]
         /\ UNCHANGED <<ipc, answers, map>>
  <1> DEFINE generates == type = "ALLOCATE" /\ n = Master
             next == updateFreeChannel(n, id)
             made(old) == [old EXCEPT !.reqType = "UNKNOWN", !.tag = t, !.req = reqs[n][t] + 1,
                         !.id = IF generates THEN next
                                ELSE IF type = "ALLOCATE" THEN @ ELSE id,
                         !.ntfType = IF old.got THEN Second(type) ELSE @]
             sent(old) == IF old.got
                          THEN <<Ntf(type, made(old)), Ntf(Second(type), made(old))>>
                          ELSE <<Ntf(type, made(old))>>
  <1>1. PICK old \in obtainProcessorForRequest(n, type, t, id) :
          /\ proc' = [proc EXCEPT ![n] = (@ \ {old}) \cup {made(old)}]
          /\ net' = [net EXCEPT ![Other(n)] = @ \o sent(old)]
    BY DEF onLocalRequest
  <1>2. /\ reqs' = [reqs EXCEPT ![n][t] = @ + 1]
        /\ free' = [free EXCEPT ![n] = IF generates THEN next ELSE @]
        /\ UNCHANGED <<ipc, answers, map>>
    BY DEF onLocalRequest
  <1>3. old \in Processor /\ old.reqType = type /\ old.ntfType = type
    BY <1>1, FoundForRequest
  <1>4. reqs[n][t] \in Nat /\ free[n] \in Nat /\ net[Other(n)] \in Seq(Notification)
    BY NumbersAndNodes DEF TypeOK
  <1>5. next \in Nat
    BY <1>4 DEF updateFreeChannel
  <1>6. /\ Second(type) \in NotificationType /\ type \in NotificationType
        /\ type = "CA_ALLOCATE" => Second(type) = "MAP_ADD_CID"
    BY SecondType DEF RequestType, NotificationType
  <1>7. made(old) \in Processor
    <2>1. /\ (IF generates THEN next ELSE IF type = "ALLOCATE" THEN old.id ELSE id) \in Nat
          /\ (IF old.got THEN Second(type) ELSE old.ntfType) \in NotificationType
      <3> HIDE DEF next
      <3> QED BY <1>3, <1>5, <1>6 DEF Processor
    <2>2. \A i \in Nat, r \in Nat, k \in NotificationType :
            [old EXCEPT !.reqType = "UNKNOWN", !.tag = t, !.req = r, !.id = i,
                        !.ntfType = k] \in Processor
      BY <1>3 DEF Processor
    <2>3. reqs[n][t] + 1 \in Nat
      BY <1>4
    <2> HIDE DEF next, generates, Processor
    <2> QED BY <2>1, <2>2, <2>3
  <1>8. /\ made(old).tag = t /\ made(old).reqType = "UNKNOWN"
        /\ made(old).req = reqs[n][t] + 1
        /\ type = "CA_ALLOCATE" =>
             made(old).id = id /\ made(old).ntfType \in ConfirmsChannel
    BY <1>3, <1>6 DEF Processor, ConfirmsChannel
  <1>9. net[Other(n)] \o sent(old) \in Seq(Notification)
    <2>1. /\ Ntf(type, made(old)) \in Notification
          /\ Ntf(Second(type), made(old)) \in Notification
      <3> HIDE DEF made
      <3> QED BY <1>6, <1>7, <1>8, NtfType
    <2> HIDE DEF made
    <2> QED BY <2>1, <1>4, QueueTypes
  <1>10. net' \in [Node -> Seq(Notification)]
    <2> HIDE DEF sent
    <2> QED BY <1>1, <1>9 DEF TypeOK
  <1>11. free' \in [Node -> Nat]
    <2> HIDE DEF next
    <2> QED BY <1>2, <1>5 DEF TypeOK
  <1> HIDE DEF made
  <1> QED BY <1>1, <1>2, <1>7, <1>8, <1>10, <1>11 DEF Replaced

\* A remote request: one processor changes, and never one of the second
\* exchange that a client's request has reached, but for its notification.
LEMMA RemoteRequestHandled ==
  ASSUME TypeOK, ProcessorsInv, NEW n \in Node, onRemoteRequest(n)
  PROVE  /\ \E p \in Processor : \E old :
              /\ proc' = [proc EXCEPT ![n] = (@ \ {old}) \cup {p}]
              /\ p.tag \in Tag
              /\ p.reqType # "UNKNOWN" => p.reqType = p.ntfType /\ p.req = 0
              /\ p.reqType = "UNKNOWN" =>
                   /\ old \in proc[n] /\ old.reqType = "UNKNOWN"
                   /\ p.tag = old.tag /\ p.req = old.req
                   /\ old.ntfType \in ConfirmsChannel =>
                        p.ntfType \in ConfirmsChannel /\ p.id = old.id
                   /\ old.ntfType \in RequestType
         /\ net' \in [Node -> Seq(Notification)]
         /\ UNCHANGED <<call, ipc, answers, free, map, ca, reqs, bounds>>
  <1> DEFINE m == Head(net[n])
             takesId == m.type = "ALLOCATE" /\ n # Master
             first(old) == old.reqType # "UNKNOWN"
             made(old) == [old EXCEPT !.got = TRUE, !.rreq = m.req,
                      !.id = IF takesId \/ (m.type = "CA_ALLOCATE" /\ first(old))
                             THEN m.id ELSE @,
                      !.tag = IF first(old) THEN getComplementingTag(m.tag) ELSE @,
                      !.ntfType = IF first(old) THEN @ ELSE Second(m.type)]
  <1>1. PICK old \in obtainProcessorForNotification(n, m) :
          /\ proc' = [proc EXCEPT ![n] = (@ \ {old}) \cup {made(old)}]
          /\ net' = IF first(old) THEN Rest(n)
                    ELSE [Rest(n) EXCEPT ![Other(n)] =
                            Append(@, Ntf(Second(m.type), made(old)))]
    BY DEF onRemoteRequest
  <1>2. UNCHANGED <<call, ipc, answers, free, map, ca, reqs, bounds>>
    BY DEF onRemoteRequest
  <1>3. net[n] \in Seq(Notification) /\ net[n] # <<>> /\ m.type \in RequestType
    BY DEF onRemoteRequest, Receives, TypeOK
  <1>4. m \in Notification /\ Tail(net[n]) \in Seq(Notification)
    <2> HIDE DEF Notification
    <2> QED BY <1>3
  <1>5. \/ old \in proc[n] /\ old.ntfType = m.type
        \/ old = createProcessorForType(m.type)
    <2> HIDE DEF m
    <2> QED BY <1>1, <1>4, FoundForNotification
  <1>6. /\ old \in Processor /\ old.ntfType = m.type
        /\ first(old) => old.reqType = old.ntfType /\ old.req = 0
        /\ ~first(old) => old \in proc[n] /\ old.tag \in Tag
    <2>1. CASE old \in proc[n] /\ old.ntfType = m.type
      BY <2>1 DEF TypeOK, ProcessorsInv
    <2>2. CASE old = createProcessorForType(m.type)
      <3> HIDE DEF m
      <3> QED BY <2>2, <1>3, NewProcessor DEF RequestType
    <2> QED BY <1>5, <2>1, <2>2
  <1>7. /\ m.req \in Nat /\ m.id \in Nat /\ getComplementingTag(m.tag) \in Tag
    BY <1>4, ComplementIsTag DEF Notification
  <1>8. /\ Second(m.type) \in NotificationType
        /\ m.type = "CA_ALLOCATE" => Second(m.type) = "MAP_ADD_CID"
    <2> HIDE DEF m
    <2> QED BY <1>3, SecondType
  <1> HIDE DEF m
  <1>9. made(old) \in Processor
    BY <1>6, <1>7, <1>8 DEF Processor
  <1>10. /\ made(old).tag \in Tag
         /\ made(old).reqType = old.reqType /\ made(old).req = old.req
         /\ first(old) => made(old).ntfType = old.ntfType
         /\ ~first(old) => /\ made(old).tag = old.tag
                           /\ m.type = "CA_ALLOCATE" => /\ made(old).ntfType = "MAP_ADD_CID"
                                                        /\ made(old).id = old.id
    BY <1>6, <1>7, <1>8 DEF Processor
  <1>11. net' \in [Node -> Seq(Notification)]
    <2>1. Rest(n) \in [Node -> Seq(Notification)]
      <3> HIDE DEF Notification
      <3> QED BY <1>4 DEF TypeOK, Rest
    <2>2. ~first(old) => Ntf(Second(m.type), made(old)) \in Notification
      <3> HIDE DEF made
      <3> QED BY <1>6, <1>8, <1>9, <1>10, NtfType
    <2> HIDE DEF made, Notification
    <2> QED BY <1>1, <2>1, <2>2, NumbersAndNodes
  <1>12. /\ made(old).reqType # "UNKNOWN" =>
              made(old).reqType = made(old).ntfType /\ made(old).req = 0
         /\ made(old).reqType = "UNKNOWN" =>
              /\ old \in proc[n] /\ old.reqType = "UNKNOWN"
              /\ made(old).tag = old.tag /\ made(old).req = old.req
              /\ old.ntfType \in ConfirmsChannel =>
                   made(old).ntfType \in ConfirmsChannel /\ made(old).id = old.id
              /\ old.ntfType \in RequestType
    <2> HIDE DEF made
    <2> QED BY <1>3, <1>6, <1>10 DEF ConfirmsChannel, RequestType
  <1> HIDE DEF made
  <1> QED BY <1>1, <1>2, <1>9, <1>10, <1>11, <1>12

\* The map of a device never forgets a number.
MapGrows == \A k \in Node, i \in Id : map[k][i] # None => map'[k][i] # None

\* addChannelInfo: the number is in the map, and the others stay.
LEMMA ChannelAdded ==
  ASSUME TypeOK, NEW n \in Node, NEW id \in Nat, NEW t \in Tag, addChannelInfo(n, id, t)
  PROVE  /\ map' \in [Node -> [Id -> ChannelInfo \cup {None}]]
         /\ free' \in [Node -> Nat]
         /\ MapGrows
         /\ id \in Id => map'[n][id] # None
  <1> DEFINE e == IF map[n][id] = None THEN [tag |-> t] ELSE map[n][id]
  <1>1. map' = [map EXCEPT ![n] = [@ EXCEPT ![id] = e]]
    BY DEF addChannelInfo
  <1>2. map[n] \in [Id -> ChannelInfo \cup {None}]
    BY DEF TypeOK
  <1>3. [tag |-> t] \in ChannelInfo /\ [tag |-> t] # None
    BY NoneIsNoInfo DEF ChannelInfo
  <1>4. id \in Id => e \in ChannelInfo \cup {None} /\ e # None
    BY <1>2, <1>3
  <1>5. [map[n] EXCEPT ![id] = e] \in [Id -> ChannelInfo \cup {None}]
    <2> HIDE DEF e
    <2> QED BY <1>2, <1>4
  <1>6. free' \in [Node -> Nat]
    BY DEF addChannelInfo, updateFreeChannel, TypeOK
  <1>7. \A k \in Node : map'[k] = IF k = n THEN [map[n] EXCEPT ![id] = e] ELSE map[k]
    <2> HIDE DEF e
    <2> QED BY <1>1 DEF TypeOK
  <1>8. MapGrows /\ (id \in Id => map'[n][id] # None)
    <2>1. \A i \in Id : map'[n][i] = IF i = id THEN e ELSE map[n][i]
      <3> HIDE DEF e
      <3> QED BY <1>2, <1>7
    <2> QED BY <1>3, <1>7, <2>1 DEF MapGrows
  <1> HIDE DEF e
  <1> QED BY <1>1, <1>5, <1>6, <1>8 DEF TypeOK

\* A confirmation: it finds nothing, or the answer goes to the client of a
\* processor that a request has reached, the map grown first.
LEMMA ConfirmationHandled ==
  ASSUME TypeOK, ProcessorsInv, NEW n \in Node, onRemoteConfirmation(n)
  PROVE  /\ UNCHANGED <<call, ipc, ca, reqs, bounds>>
         /\ proc' \in [Node -> SUBSET Processor]
         /\ \A k \in Node : proc'[k] \subseteq proc[k]
         /\ net' \in [Node -> Seq(Notification)]
         /\ map' \in [Node -> [Id -> ChannelInfo \cup {None}]]
         /\ free' \in [Node -> Nat]
         /\ MapGrows
         /\ \/ UNCHANGED answers
            \/ \E p \in proc[n] :
                 /\ answers' = [answers EXCEPT ![n] = @ \cup
                                  {[tag |-> p.tag, req |-> p.req, id |-> p.id]}]
                 /\ p.reqType = "UNKNOWN"
                 /\ p.ntfType \in ConfirmsChannel /\ p.id \in Id => map'[n][p.id] # None
  <1> DEFINE m == Head(net[n])
             found == obtainProcessorForNotification(n, m)
  <1>1. /\ net[n] \in Seq(Notification) /\ net[n] # <<>>
        /\ m.type \in {"CHECK_MAP", "MAP_ADD_CID"}
        /\ net' = Rest(n)
        /\ UNCHANGED <<call, ipc, ca, reqs, bounds>>
    BY DEF onRemoteConfirmation, Receives, TypeOK
  <1>2. m \in Notification /\ Tail(net[n]) \in Seq(Notification)
    <2> HIDE DEF Notification
    <2> QED BY <1>1
  <1>3. net' \in [Node -> Seq(Notification)]
    <2> HIDE DEF Notification, m
    <2> QED BY <1>1, <1>2 DEF TypeOK, Rest
  <1>4. CASE UNCHANGED <<proc, answers, free, map>>
    BY <1>1, <1>3, <1>4 DEF TypeOK, MapGrows
  <1>5. ASSUME NEW p \in found,
               proc' = [proc EXCEPT ![n] = @ \ {p}],
               answers' = [answers EXCEPT ![n] = @ \cup
                             {[tag |-> p.tag, req |-> p.req, id |-> p.id]}],
               \/ m.type = "CHECK_MAP" /\ UNCHANGED <<free, map>>
               \/ m.type = "MAP_ADD_CID" /\ addChannelInfo(n, p.id, p.tag)
        PROVE  /\ proc' \in [Node -> SUBSET Processor]
               /\ \A k \in Node : proc'[k] \subseteq proc[k]
               /\ map' \in [Node -> [Id -> ChannelInfo \cup {None}]]
               /\ free' \in [Node -> Nat]
               /\ MapGrows
               /\ p \in proc[n]
               /\ p.reqType = "UNKNOWN"
               /\ p.ntfType \in ConfirmsChannel /\ p.id \in Id => map'[n][p.id] # None
    <2>1. p \in proc[n] /\ p.ntfType = m.type
      <3> HIDE DEF m
      <3> QED BY <1>1, <1>2, <1>5, FoundForNotification DEF RequestType
    <2>2. p.tag \in Tag /\ p.id \in Nat /\ p.reqType = "UNKNOWN"
      <3>1. p \in Processor
        BY <2>1 DEF TypeOK
      <3>2. p.reqType # "UNKNOWN" => p.reqType \in RequestType
        BY <3>1 DEF Processor
      <3>3. p.id \in Nat
        BY <3>1 DEF Processor
      <3> HIDE DEF m
      <3> QED BY <1>1, <2>1, <3>2, <3>3 DEF ProcessorsInv, RequestType
    <2>3. proc' \in [Node -> SUBSET Processor] /\ \A k \in Node : proc'[k] \subseteq proc[k]
      BY <1>5 DEF TypeOK
    <2>4. CASE m.type = "CHECK_MAP" /\ UNCHANGED <<free, map>>
      <3> HIDE DEF m
      <3> QED BY <2>1, <2>2, <2>3, <2>4 DEF TypeOK, MapGrows, ConfirmsChannel
    <2>5. CASE addChannelInfo(n, p.id, p.tag)
      BY <2>1, <2>2, <2>3, <2>5, ChannelAdded
    <2> QED BY <1>5, <2>4, <2>5
  <1>6. \/ UNCHANGED <<proc, answers, free, map>>
        \/ \E p \in found :
             /\ proc' = [proc EXCEPT ![n] = @ \ {p}]
             /\ answers' = [answers EXCEPT ![n] = @ \cup
                              {[tag |-> p.tag, req |-> p.req, id |-> p.id]}]
             /\ \/ m.type = "CHECK_MAP" /\ UNCHANGED <<free, map>>
                \/ m.type = "MAP_ADD_CID" /\ addChannelInfo(n, p.id, p.tag)
    BY DEF onRemoteConfirmation
  <1> HIDE DEF found, m
  <1>7. CASE \E p \in found :
             /\ proc' = [proc EXCEPT ![n] = @ \ {p}]
             /\ answers' = [answers EXCEPT ![n] = @ \cup
                              {[tag |-> p.tag, req |-> p.req, id |-> p.id]}]
             /\ \/ m.type = "CHECK_MAP" /\ UNCHANGED <<free, map>>
                \/ m.type = "MAP_ADD_CID" /\ addChannelInfo(n, p.id, p.tag)
    BY <1>1, <1>3, <1>5, <1>7
  <1> QED BY <1>4, <1>6, <1>7

-----------------------------------------------------------------------------
(* The kinds of steps, and what each keeps. *)

\* Processors and answers only go, numbers stay, and a client only leaves.
Aside ==
  /\ \A k \in Node : proc'[k] \subseteq proc[k] /\ answers'[k] \subseteq answers[k]
  /\ UNCHANGED reqs
  /\ MapGrows
  /\ \A k \in Node, u \in Tag :
       call'[k][u] = call[k][u] \/ call'[k][u].at \notin {"update", "open"}

\* A step that leaves requests aside keeps what is known of them.
LEMMA AsideKeeps ==
  ASSUME NegotiationInv, Aside
  PROVE  ProcessorsInv' /\ AnswersInv' /\ UpdateInv' /\ KnownToNegotiator'
  <1>1. ProcessorsInv'
    BY DEF NegotiationInv, ProcessorsInv, Aside
  <1>2. AnswersInv'
    BY DEF NegotiationInv, AnswersInv, Aside
  <1>3. UpdateInv'
    <2> SUFFICES ASSUME NEW k \in Node, NEW u \in Tag, call'[k][u].at = "update"
                 PROVE  /\ reqs'[k][u] > 0
                        /\ \A p \in proc'[k] : p.tag = u /\ p.req = reqs'[k][u] =>
                             p.ntfType \in ConfirmsChannel /\ p.id = call'[k][u].id
                        /\ \A r \in answers'[k] : r.tag = u /\ r.req = reqs'[k][u] =>
                             /\ r.id = call'[k][u].id
                             /\ r.id \in Id => map'[k][r.id] # None
      BY DEF UpdateInv
    <2>1. call'[k][u] = call[k][u]
      BY DEF Aside
    <2>2. /\ reqs[k][u] > 0
          /\ \A p \in proc[k] : p.tag = u /\ p.req = reqs[k][u] =>
               p.ntfType \in ConfirmsChannel /\ p.id = call[k][u].id
          /\ \A r \in answers[k] : r.tag = u /\ r.req = reqs[k][u] =>
               r.id = call[k][u].id /\ (r.id \in Id => map[k][r.id] # None)
      BY <2>1 DEF NegotiationInv, UpdateInv
    <2> QED BY <2>1, <2>2 DEF Aside, MapGrows
  <1>4. KnownToNegotiator'
    BY DEF NegotiationInv, KnownToNegotiator, Has, Aside, MapGrows
  <1> QED BY <1>1, <1>2, <1>3, <1>4

\* A client's request: its number is new, so that nothing else carries it.
LEMMA RequestKeeps ==
  ASSUME NegotiationInv, NEW n \in Node, NEW type \in RequestType, NEW t \in Tag,
         NEW id \in Nat, onLocalRequest(n, type, t, id),
         NEW at \in {"negotiate", "update"}, Goes(n, t, at, id),
         at = "update" => type = "CA_ALLOCATE"
  PROVE  ProcessorsInv' /\ AnswersInv' /\ UpdateInv' /\ KnownToNegotiator'
  <1>1. TypeOK /\ ProcessorsInv /\ AnswersInv /\ UpdateInv /\ KnownToNegotiator
    BY DEF NegotiationInv
  <1>2. PICK p \in Processor :
          /\ p.tag = t /\ p.reqType = "UNKNOWN" /\ p.req = reqs[n][t] + 1
          /\ type = "CA_ALLOCATE" => p.id = id /\ p.ntfType \in ConfirmsChannel
          /\ Replaced(n, p)
    BY <1>1, RequestMade
  <1>3. reqs' = [reqs EXCEPT ![n][t] = @ + 1] /\ UNCHANGED <<answers, map>>
    BY <1>1, RequestMade
  <1>4. /\ \A k \in Node : proc'[k] \subseteq proc[k] \cup (IF k = n THEN {p} ELSE {})
        /\ \A k \in Node, u \in Tag :
             reqs[k][u] \in Nat
             /\ reqs'[k][u] = reqs[k][u] + (IF k = n /\ u = t THEN 1 ELSE 0)
        /\ \A k \in Node, u \in Tag :
             call'[k][u] = IF k = n /\ u = t THEN [at |-> at, id |-> id] ELSE call[k][u]
    BY <1>1, <1>2, <1>3 DEF Goes, TypeOK, Replaced
  <1>5. ProcessorsInv'
    <2> SUFFICES ASSUME NEW k \in Node, NEW q \in proc'[k]
                 PROVE  /\ q.tag \in Tag
                        /\ q.reqType = "UNKNOWN" => q.req \in 1..reqs'[k][q.tag]
                        /\ q.reqType # "UNKNOWN" => q.reqType = q.ntfType /\ q.req = 0
      BY DEF ProcessorsInv
    <2>1. CASE q \in proc[k]
      BY <1>1, <1>4, <2>1 DEF ProcessorsInv
    <2>2. CASE k = n /\ q = p
      BY <1>2, <1>4, <2>2
    <2> QED BY <1>4, <2>1, <2>2
  <1>6. AnswersInv'
    <2> SUFFICES ASSUME NEW k \in Node, NEW r \in answers[k]
                 PROVE  r.req <= reqs'[k][r.tag]
      BY <1>3 DEF AnswersInv
    <2>1. r.tag \in Tag /\ r.req \in Nat /\ r.req <= reqs[k][r.tag]
      BY <1>1 DEF TypeOK, Answer, AnswersInv
    <2> QED BY <1>4, <2>1
  <1>7. UpdateInv'
    <2> SUFFICES ASSUME NEW k \in Node, NEW u \in Tag, call'[k][u].at = "update"
                 PROVE  /\ reqs'[k][u] > 0
                        /\ \A q \in proc'[k] : q.tag = u /\ q.req = reqs'[k][u] =>
                             q.ntfType \in ConfirmsChannel /\ q.id = call'[k][u].id
                        /\ \A r \in answers[k] : r.tag = u /\ r.req = reqs'[k][u] =>
                             r.id = call'[k][u].id /\ (r.id \in Id => map[k][r.id] # None)
      BY <1>3 DEF UpdateInv
    <2>1. CASE k = n /\ u = t
      <3>1. at = "update" /\ call'[k][u].id = id
        BY <1>4, <2>1
      <3>2. \A q \in proc[n] : q.tag = t => q.req # reqs'[n][t]
        BY <1>1, <1>4 DEF ProcessorsInv
      <3>3. \A r \in answers[n] : r.tag = t => r.req # reqs'[n][t]
        <4> SUFFICES ASSUME NEW r \in answers[n], r.tag = t
                     PROVE  r.req # reqs'[n][t]
          OBVIOUS
        <4>1. r.req \in Nat /\ r.req <= reqs[n][t]
          BY <1>1 DEF TypeOK, Answer, AnswersInv
        <4> QED BY <1>4, <4>1
      <3> QED BY <1>2, <1>4, <2>1, <3>1, <3>2, <3>3
    <2>2. CASE ~(k = n /\ u = t)
      <3>1. call'[k][u] = call[k][u] /\ reqs'[k][u] = reqs[k][u]
        BY <1>4, <2>2
      <3>2. \A q \in proc'[k] : q.tag = u => q \in proc[k]
        BY <1>2, <1>4, <2>2
      <3> QED BY <1>1, <3>1, <3>2 DEF UpdateInv
    <2> QED BY <2>1, <2>2
  <1>8. KnownToNegotiator'
    BY <1>1, <1>3, <1>4 DEF KnownToNegotiator, Has
  <1> QED BY <1>5, <1>6, <1>7, <1>8

\* A remote request changes no processor of a channel but for its notification.
LEMMA RemoteRequestKeeps ==
  ASSUME NegotiationInv, NEW n \in Node, onRemoteRequest(n)
  PROVE  ProcessorsInv' /\ AnswersInv' /\ UpdateInv' /\ KnownToNegotiator'
  <1>1. TypeOK /\ ProcessorsInv /\ AnswersInv /\ UpdateInv /\ KnownToNegotiator
    BY DEF NegotiationInv
  <1>2. PICK p \in Processor : \E old :
          /\ proc' = [proc EXCEPT ![n] = (@ \ {old}) \cup {p}]
          /\ p.tag \in Tag
          /\ p.reqType # "UNKNOWN" => p.reqType = p.ntfType /\ p.req = 0
          /\ p.reqType = "UNKNOWN" =>
               /\ old \in proc[n] /\ old.reqType = "UNKNOWN"
               /\ p.tag = old.tag /\ p.req = old.req
               /\ old.ntfType \in ConfirmsChannel =>
                    p.ntfType \in ConfirmsChannel /\ p.id = old.id
               /\ old.ntfType \in RequestType
    BY <1>1, RemoteRequestHandled
  <1>3. UNCHANGED <<call, answers, map, reqs>>
    BY <1>1, RemoteRequestHandled
  <1>4. \A k \in Node : proc'[k] \subseteq proc[k] \cup (IF k = n THEN {p} ELSE {})
    BY <1>1, <1>2 DEF TypeOK
  <1>5. ProcessorsInv'
    <2> SUFFICES ASSUME NEW k \in Node, NEW q \in proc'[k]
                 PROVE  /\ q.tag \in Tag
                        /\ q.reqType = "UNKNOWN" => q.req \in 1..reqs[k][q.tag]
                        /\ q.reqType # "UNKNOWN" => q.reqType = q.ntfType /\ q.req = 0
      BY <1>3 DEF ProcessorsInv
    <2>1. CASE q \in proc[k]
      BY <1>1, <2>1 DEF ProcessorsInv
    <2>2. CASE k = n /\ q = p
      BY <1>1, <1>2, <2>2 DEF ProcessorsInv
    <2> QED BY <1>4, <2>1, <2>2
  <1>6. AnswersInv' /\ KnownToNegotiator'
    BY <1>1, <1>3 DEF AnswersInv, KnownToNegotiator, Has
  <1>7. UpdateInv'
    <2> SUFFICES ASSUME NEW k \in Node, NEW u \in Tag, call[k][u].at = "update",
                        NEW q \in proc'[k], q.tag = u, q.req = reqs[k][u]
                 PROVE  q.ntfType \in ConfirmsChannel /\ q.id = call[k][u].id
      BY <1>1, <1>3 DEF UpdateInv
    <2>1. CASE q \in proc[k]
      BY <1>1, <2>1 DEF UpdateInv
    <2>2. CASE k = n /\ q = p
      <3>1. CASE p.reqType = "UNKNOWN"
        BY <1>1, <1>2, <2>2, <3>1 DEF UpdateInv
      <3>2. CASE p.reqType # "UNKNOWN"
        BY <1>1, <1>2, <2>2, <3>2 DEF UpdateInv
      <3> QED BY <3>1, <3>2
    <2> QED BY <1>4, <2>1, <2>2
  <1> QED BY <1>5, <1>6, <1>7

\* An answer is sent for the number its processor carries, once the map has
\* the channel that the number stands for.
LEMMA ConfirmationKeeps ==
  ASSUME NegotiationInv, NEW n \in Node, onRemoteConfirmation(n)
  PROVE  ProcessorsInv' /\ AnswersInv' /\ UpdateInv' /\ KnownToNegotiator'
  <1>1. TypeOK /\ ProcessorsInv /\ AnswersInv /\ UpdateInv /\ KnownToNegotiator
    BY DEF NegotiationInv
  <1>2. /\ UNCHANGED <<call, reqs>>
        /\ \A k \in Node : proc'[k] \subseteq proc[k]
        /\ MapGrows
    BY <1>1, ConfirmationHandled
  <1>3. \/ UNCHANGED answers
        \/ \E p \in proc[n] :
             /\ answers' = [answers EXCEPT ![n] = @ \cup
                              {[tag |-> p.tag, req |-> p.req, id |-> p.id]}]
             /\ p.reqType = "UNKNOWN"
             /\ p.ntfType \in ConfirmsChannel /\ p.id \in Id => map'[n][p.id] # None
    BY <1>1, ConfirmationHandled
  <1>4. CASE UNCHANGED answers
    BY <1>2, <1>4, AsideKeeps DEF Aside
  <1>5. ASSUME NEW p \in proc[n],
               answers' = [answers EXCEPT ![n] = @ \cup
                             {[tag |-> p.tag, req |-> p.req, id |-> p.id]}],
               p.reqType = "UNKNOWN",
               p.ntfType \in ConfirmsChannel /\ p.id \in Id => map'[n][p.id] # None
        PROVE  ProcessorsInv' /\ AnswersInv' /\ UpdateInv' /\ KnownToNegotiator'
    <2> DEFINE a == [tag |-> p.tag, req |-> p.req, id |-> p.id]
    <2>1. \A k \in Node : answers'[k] \subseteq answers[k] \cup (IF k = n THEN {a} ELSE {})
      BY <1>1, <1>5 DEF TypeOK
    <2>2. /\ a.tag = p.tag /\ a.req = p.req /\ a.id = p.id
          /\ p.tag \in Tag /\ p.req \in 1..reqs[n][p.tag] /\ reqs[n][p.tag] \in Nat
      BY <1>1, <1>5 DEF ProcessorsInv, TypeOK
    <2> HIDE DEF a
    <2>3. ProcessorsInv' /\ KnownToNegotiator'
      BY <1>1, <1>2 DEF ProcessorsInv, KnownToNegotiator, Has, MapGrows
    <2>4. AnswersInv'
      BY <1>1, <1>2, <2>1, <2>2 DEF AnswersInv
    <2>5. UpdateInv'
      <3> SUFFICES ASSUME NEW k \in Node, NEW u \in Tag, call[k][u].at = "update"
                   PROVE  /\ reqs[k][u] > 0
                          /\ \A q \in proc'[k] : q.tag = u /\ q.req = reqs[k][u] =>
                               q.ntfType \in ConfirmsChannel /\ q.id = call[k][u].id
                          /\ \A r \in answers'[k] : r.tag = u /\ r.req = reqs[k][u] =>
                               r.id = call[k][u].id /\ (r.id \in Id => map'[k][r.id] # None)
        BY <1>2 DEF UpdateInv
      <3>1. /\ reqs[k][u] > 0
            /\ \A q \in proc[k] : q.tag = u /\ q.req = reqs[k][u] =>
                 q.ntfType \in ConfirmsChannel /\ q.id = call[k][u].id
            /\ \A r \in answers[k] : r.tag = u /\ r.req = reqs[k][u] =>
                 r.id = call[k][u].id /\ (r.id \in Id => map[k][r.id] # None)
        BY <1>1 DEF UpdateInv
      <3>2. ASSUME NEW r \in answers'[k], r.tag = u, r.req = reqs[k][u]
            PROVE  r.id = call[k][u].id /\ (r.id \in Id => map'[k][r.id] # None)
        <4>1. CASE r \in answers[k]
          BY <1>2, <3>1, <3>2, <4>1 DEF MapGrows
        <4>2. CASE k = n /\ r = a
          BY <1>5, <2>2, <3>1, <3>2, <4>2
        <4> QED BY <2>1, <3>2, <4>1, <4>2
      <3> QED BY <1>2, <3>1, <3>2
    <2> QED BY <2>3, <2>4, <2>5
  <1> QED BY <1>3, <1>4, <1>5

\* The client that takes the answer it waits for owns a channel the map has.
LEMMA AnswerKeeps ==
  ASSUME NegotiationInv, NEW n \in Node, getAnswer(n)
  PROVE  /\ ProcessorsInv' /\ AnswersInv' /\ UpdateInv' /\ KnownToNegotiator'
         /\ call' \in [Node -> [Tag -> Call]]
         /\ answers' \in [Node -> SUBSET Answer]
  <1>1. TypeOK /\ ProcessorsInv /\ AnswersInv /\ UpdateInv /\ KnownToNegotiator
    BY DEF NegotiationInv
  <1>2. PICK r \in answers[n] :
          LET c == call[n][r.tag]
              expected == c.at \in Waiting /\ reqs[n][r.tag] = r.req
          IN \/ /\ expected /\ c.at = "negotiate"
                /\ Goes(n, r.tag, "caAllocate", r.id)
             \/ /\ expected /\ c.at = "update"
                /\ Goes(n, r.tag, IF ca[n][c.id] = [by |-> r.tag, st |-> "open"]
                                  THEN "open" ELSE "idle", c.id)
             \/ ~expected /\ UNCHANGED call
    BY DEF getAnswer
  <1>3. /\ UNCHANGED <<proc, map, reqs>>
        /\ \A k \in Node : answers'[k] \subseteq answers[k]
        /\ answers' \in [Node -> SUBSET Answer]
    BY <1>1 DEF getAnswer, TypeOK
  <1>4. r.tag \in Tag /\ r.id \in Nat
    BY <1>1 DEF TypeOK, Answer
  <1>5. MapGrows
    BY <1>3 DEF MapGrows
  <1>6. CASE UNCHANGED call
    BY <1>1, <1>3, <1>5, <1>6, AsideKeeps DEF Aside, TypeOK
  <1>7. ASSUME NEW at \in {"caAllocate", "open", "idle"}, NEW id \in Nat,
               Goes(n, r.tag, at, id),
               at = "open" => call[n][r.tag].at = "update" /\ reqs[n][r.tag] = r.req
                              /\ id = call[n][r.tag].id
        PROVE  /\ ProcessorsInv' /\ AnswersInv' /\ UpdateInv' /\ KnownToNegotiator'
               /\ call' \in [Node -> [Tag -> Call]]
    <2>1. call' \in [Node -> [Tag -> Call]]
      <3>1. [at |-> at, id |-> id] \in Call
        BY DEF Call, Waiting
      <3> HIDE DEF Call
      <3> QED BY <1>1, <1>4, <1>7, <3>1 DEF TypeOK, Goes
    <2>2. \A k \in Node, u \in Tag :
            call'[k][u] = IF k = n /\ u = r.tag THEN [at |-> at, id |-> id] ELSE call[k][u]
      BY <1>1, <1>7 DEF TypeOK, Goes
    <2>3. ProcessorsInv' /\ AnswersInv'
      BY <1>1, <1>3 DEF ProcessorsInv, AnswersInv
    <2>4. UpdateInv'
      <3> SUFFICES ASSUME NEW k \in Node, NEW u \in Tag, call'[k][u].at = "update"
                   PROVE  /\ reqs[k][u] > 0
                          /\ \A q \in proc[k] : q.tag = u /\ q.req = reqs[k][u] =>
                               q.ntfType \in ConfirmsChannel /\ q.id = call'[k][u].id
                          /\ \A s \in answers'[k] : s.tag = u /\ s.req = reqs[k][u] =>
                               s.id = call'[k][u].id /\ (s.id \in Id => map[k][s.id] # None)
        BY <1>3 DEF UpdateInv
      <3>1. call'[k][u] = call[k][u]
        BY <2>2
      <3> QED BY <1>1, <1>3, <3>1 DEF UpdateInv
    <2>5. KnownToNegotiator'
      <3> SUFFICES ASSUME NEW k \in Node, NEW i \in Id, NEW u \in Tag,
                          call'[k][u] = [at |-> "open", id |-> i]
                   PROVE  map[k][i] # None
        BY <1>3 DEF KnownToNegotiator, Has
      <3>1. CASE call'[k][u] = call[k][u]
        BY <1>1, <3>1 DEF KnownToNegotiator, Has
      <3>2. CASE k = n /\ u = r.tag
        BY <1>1, <1>4, <1>7, <2>2, <3>2 DEF UpdateInv
      <3> QED BY <2>2, <3>1, <3>2
    <2> QED BY <2>1, <2>3, <2>4, <2>5
  <1>8. call[n][r.tag].id \in Nat
    BY <1>1, <1>4 DEF TypeOK, Call
  <1>9. CASE /\ call[n][r.tag].at = "update" /\ reqs[n][r.tag] = r.req
             /\ Goes(n, r.tag, IF ca[n][call[n][r.tag].id] = [by |-> r.tag, st |-> "open"]
                               THEN "open" ELSE "idle", call[n][r.tag].id)
    BY <1>3, <1>7, <1>8, <1>9
  <1>10. CASE Goes(n, r.tag, "caAllocate", r.id)
    BY <1>3, <1>4, <1>7, <1>10
  <1> QED BY <1>2, <1>3, <1>6, <1>9, <1>10

-----------------------------------------------------------------------------
(* The agents' channels and the clients keep their types. *)

CallType == call \in [Node -> [Tag -> Call]]
CaType == ca \in [Node -> [Id -> CAChannel \cup {None}]]
NetType == net \in [Node -> Seq(Notification)]
IpcType == ipc \in [Node -> Removal \cup {None}]

\* Clients only leave what they were doing.
ClientsLeave ==
  /\ CallType'
  /\ \A k \in Node, u \in Tag :
       call'[k][u] = call[k][u] \/ call'[k][u].at \notin {"update", "open"}

\* An agent's entry is replaced by an entry.
LEMMA CAChanged ==
  ASSUME TypeOK, NEW n \in Node, NEW i, NEW e \in CAChannel \cup {None}, CAChange(n, i, e)
  PROVE  CaType'
  <1> HIDE DEF CAChannel
  <1> QED BY DEF TypeOK, CAChange, CaType

\* A client that goes on is still a client, and has left the update if it goes elsewhere.
LEMMA ClientGoes ==
  ASSUME TypeOK, NEW n \in Node, NEW t \in Tag, NEW id \in Nat,
         NEW at \in {"idle", "renegotiate", "caAllocate", "caWait", "open", "failed",
                     "negotiate", "update"},
         Goes(n, t, at, id)
  PROVE  /\ CallType'
         /\ at \notin {"update", "open"} => ClientsLeave
  <1>1. [at |-> at, id |-> id] \in Call
    BY DEF Call, Waiting
  <1>2. CallType'
    <2> HIDE DEF Call
    <2> QED BY <1>1 DEF TypeOK, Goes, CallType
  <1>3. \A k \in Node, u \in Tag :
          call'[k][u] = IF k = n /\ u = t THEN [at |-> at, id |-> id] ELSE call[k][u]
    BY DEF TypeOK, Goes
  <1> QED BY <1>2, <1>3 DEF ClientsLeave

\* A refusal, or a failure, reaches the thread that waits for the channel.
LEMMA CallerTold ==
  ASSUME TypeOK, NEW n \in Node, NEW i, NEW at \in {"renegotiate", "failed"},
         call' = [call EXCEPT ![n] = [t \in Tag |->
           IF CACaller(n, t, i) THEN [@[t] EXCEPT !.at = at] ELSE @[t]]]
  PROVE  ClientsLeave
  <1>1. \A t \in Tag : /\ call[n][t] \in Call
                       /\ [call[n][t] EXCEPT !.at = at] \in Call
                       /\ [call[n][t] EXCEPT !.at = at].at = at
    <2>1. \A t \in Tag : call[n][t] \in Call
      BY DEF TypeOK
    <2>2. \A c \in Call : [c EXCEPT !.at = at] \in Call /\ [c EXCEPT !.at = at].at = at
      BY DEF Call
    <2> QED BY <2>1, <2>2
  <1> DEFINE told == [t \in Tag |-> IF CACaller(n, t, i) THEN [call[n][t] EXCEPT !.at = at]
                                    ELSE call[n][t]]
  <1>2. call' = [call EXCEPT ![n] = told]
    OBVIOUS
  <1>3. told \in [Tag -> Call]
    <2> HIDE DEF Call
    <2> QED BY <1>1
  <1>4. \A t \in Tag : told[t] = call[n][t] \/ told[t].at = at
    BY <1>1
  <1> HIDE DEF told, Call
  <1>5. CallType'
    BY <1>2, <1>3 DEF TypeOK, CallType
  <1>6. \A k \in Node : call'[k] = IF k = n THEN told ELSE call[k]
    BY <1>2 DEF TypeOK
  <1> QED BY <1>4, <1>5, <1>6 DEF ClientsLeave

\* Closing a channel, and telling its owners.
LEMMA ChannelClosed ==
  ASSUME TypeOK, NEW i, Closed(i), OwnersTold(i)
  PROVE  CaType' /\ ClientsLeave
  <1>1. CaType'
    <2> HIDE DEF CAChannel
    <2>1. ASSUME NEW n \in Node
          PROVE  [ca[n] EXCEPT ![i] = IF CAIs(n, i, {"open"}) THEN None ELSE @]
                    \in [Id -> CAChannel \cup {None}]
      <3> DEFINE e == IF CAIs(n, i, {"open"}) THEN None ELSE ca[n][i]
      <3>1. ca[n] \in [Id -> CAChannel \cup {None}]
        BY DEF TypeOK
      <3>2. i \in Id => e \in CAChannel \cup {None}
        BY <3>1
      <3> HIDE DEF e
      <3>3. [ca[n] EXCEPT ![i] = e] \in [Id -> CAChannel \cup {None}]
        BY <3>1, <3>2
      <3> QED BY <3>3 DEF e
    <2> QED BY <2>1 DEF Closed, CaType
  <1>2. \A n \in Node, t \in Tag : call[n][t] \in Call
    BY DEF TypeOK
  <1>3. \A c \in Call : /\ Deleted(i, 0, c) \in Call
                        /\ \A t \in Tag : Deleted(i, t, c) = Deleted(i, 0, c)
                        /\ Deleted(i, 0, c) = c \/ Deleted(i, 0, c).at = "idle"
    BY DEF Deleted, Call
  <1> HIDE DEF Call
  <1>4. CallType'
    BY <1>2, <1>3 DEF OwnersTold, CallType
  <1>5. \A n \in Node, t \in Tag : call'[n][t] = Deleted(i, 0, call[n][t])
    BY <1>2, <1>3 DEF OwnersTold
  <1> QED BY <1>1, <1>2, <1>3, <1>4, <1>5 DEF ClientsLeave

\* The peer is told of a removal.
LEMMA RemovalTold ==
  ASSUME TypeOK, NEW n \in Node, NEW t \in Tag, NEW req \in Nat,
         NEW type \in {"INVALIDATE", "CLIENT_DISCONNECTED"}, TellRemoval(n, type, t, req)
  PROVE  NetType' /\ IpcType'
  <1>1. [type |-> type, tag |-> t, id |-> 0, req |-> req] \in Notification
    BY DEF Notification
  <1>2. [tag |-> t, req |-> req] \in Removal
    BY DEF Removal
  <1>3. net[Other(n)] \in Seq(Notification) /\ Other(n) \in Node
    BY NumbersAndNodes DEF TypeOK
  <1> HIDE DEF Notification, Removal
  <1> QED BY <1>1, <1>2, <1>3 DEF TypeOK, TellRemoval, NetType, IpcType

\* The map keeps the number of a channel that was closed.
LEMMA ChannelInvalidated ==
  ASSUME TypeOK, NEW n \in Node, NEW i, invalidateChannelInfo(n, i)
  PROVE  map' \in [Node -> [Id -> ChannelInfo \cup {None}]] /\ MapGrows
  <1>1. [tag |-> None] \in ChannelInfo /\ [tag |-> None] # None
    BY NoneIsNoInfo DEF ChannelInfo
  <1> HIDE DEF ChannelInfo
  <1>2. map' \in [Node -> [Id -> ChannelInfo \cup {None}]]
    BY <1>1 DEF TypeOK, invalidateChannelInfo
  <1>3. \A k \in Node, j \in Id :
          \/ map'[k][j] = map[k][j]
          \/ map[k][j] # None /\ map'[k][j] = [tag |-> None]
    <2> SUFFICES ASSUME NEW k \in Node, NEW j \in Id
                 PROVE  \/ map'[k][j] = map[k][j]
                        \/ map[k][j] # None /\ map'[k][j] = [tag |-> None]
      OBVIOUS
    <2>1. CASE k = n /\ j = i
      BY <2>1 DEF TypeOK, invalidateChannelInfo
    <2>2. CASE ~(k = n /\ j = i)
      BY <2>2 DEF TypeOK, invalidateChannelInfo
    <2> QED BY <2>1, <2>2
  <1> QED BY <1>1, <1>2, <1>3 DEF MapGrows

-----------------------------------------------------------------------------
(* The inductive invariant. *)

\* What the variables that a step leaves alone, or only removes from, need.
RestType ==
  /\ proc \in [Node -> SUBSET Processor]
  /\ answers \in [Node -> SUBSET Answer]
  /\ free \in [Node -> Nat]
  /\ map \in [Node -> [Id -> ChannelInfo \cup {None}]]
  /\ reqs \in [Node -> [Tag -> Nat]]
  /\ faults \in Nat
  /\ scenario \in Scenario

\* The type invariant in the parts the proofs speak of.
LEMMA TypeParts == TypeOK <=> CallType /\ CaType /\ NetType /\ IpcType /\ RestType
  BY DEF TypeOK, CallType, CaType, NetType, IpcType, RestType

\* The same after a step.
LEMMA TypePartsNext ==
  ASSUME CallType', CaType', NetType', IpcType', RestType'
  PROVE  TypeOK'
  BY DEF TypeOK, CallType, CaType, NetType, IpcType, RestType

\* Initially nobody has called.
LEMMA InitNegotiation == Init => NegotiationInv
  <1> SUFFICES ASSUME Init PROVE NegotiationInv
    OBVIOUS
  <1>1. TypeOK
    <2>1. CallType
      BY DEF Init, CallType, Call
    <2>2. CaType
      <3>1. [by |-> None, st |-> "open"] \in CAChannel
        BY DEF CAChannel
      <3> HIDE DEF CAChannel
      <3> QED BY <3>1 DEF Init, CaType
    <2>3. NetType /\ IpcType
      <3> HIDE DEF Notification
      <3> QED BY DEF Init, NetType, IpcType
    <2>4. RestType
      <3> HIDE DEF Processor, Answer, ChannelInfo
      <3> QED BY BoundsAreNat DEF Init, RestType
    <2> QED BY <2>1, <2>2, <2>3, <2>4, TypeParts
  <1>2. ProcessorsInv /\ AnswersInv
    BY DEF Init, ProcessorsInv, AnswersInv
  <1>3. UpdateInv /\ KnownToNegotiator
    BY DEF Init, UpdateInv, KnownToNegotiator, Has
  <1> QED BY <1>1, <1>2, <1>3 DEF NegotiationInv

\* The handlers of the negotiators keep the invariant.
LEMMA NegotiatorSteps ==
  ASSUME NegotiationInv, NEW n \in Node, NegotiatorStep(n)
  PROVE  NegotiationInv'
  <1>1. TypeOK /\ ProcessorsInv
    BY DEF NegotiationInv
  <1>2. CASE onRemoteRequest(n)
    <2>1. PICK p \in Processor : \E old : proc' = [proc EXCEPT ![n] = (@ \ {old}) \cup {p}]
      BY <1>1, <1>2, RemoteRequestHandled
    <2>2. proc' \in [Node -> SUBSET Processor]
      <3> HIDE DEF Processor
      <3> QED BY <1>1, <2>1 DEF TypeOK
    <2>3. NetType' /\ UNCHANGED <<call, ipc, answers, free, map, ca, reqs, bounds>>
      BY <1>1, <1>2, RemoteRequestHandled DEF NetType
    <2>4. TypeOK'
      BY <1>1, <2>2, <2>3 DEF TypeOK, NetType, bounds
    <2> QED BY <1>2, <2>4, RemoteRequestKeeps DEF NegotiationInv
  <1>3. CASE onRemoteConfirmation(n)
    <2>1. /\ UNCHANGED <<call, ipc, ca, reqs, bounds>>
          /\ proc' \in [Node -> SUBSET Processor]
          /\ net' \in [Node -> Seq(Notification)]
          /\ map' \in [Node -> [Id -> ChannelInfo \cup {None}]]
          /\ free' \in [Node -> Nat]
      BY <1>1, <1>3, ConfirmationHandled
    <2>2. answers' \in [Node -> SUBSET Answer]
      <3>1. CASE UNCHANGED answers
        BY <1>1, <3>1 DEF TypeOK
      <3>2. CASE \E p \in proc[n] :
                   /\ answers' = [answers EXCEPT ![n] = @ \cup
                                    {[tag |-> p.tag, req |-> p.req, id |-> p.id]}]
        <4>1. PICK p \in proc[n] : answers' = [answers EXCEPT ![n] = @ \cup
                                    {[tag |-> p.tag, req |-> p.req, id |-> p.id]}]
          BY <3>2
        <4>2. p.tag \in Tag /\ p.req \in Nat /\ p.id \in Nat
          BY <1>1 DEF TypeOK, Processor, ProcessorsInv
        <4>3. [tag |-> p.tag, req |-> p.req, id |-> p.id] \in Answer
          BY <4>2 DEF Answer
        <4> HIDE DEF Answer
        <4> QED BY <1>1, <4>1, <4>3 DEF TypeOK
      <3> QED BY <1>1, <1>3, <3>1, <3>2, ConfirmationHandled
    <2>3. TypeOK'
      BY <1>1, <2>1, <2>2 DEF TypeOK, bounds
    <2> QED BY <1>3, <2>3, ConfirmationKeeps DEF NegotiationInv
  <1>4. CASE onRemoteRemoval(n)
    <2>1. /\ net[n] \in Seq(Notification) /\ net[n] # <<>>
          /\ net' = [net EXCEPT ![n] = Tail(@)]
      BY <1>1, <1>4 DEF onRemoteRemoval, Receives, Rest, TypeOK
    <2>2. NetType'
      <3> HIDE DEF Notification
      <3>1. Tail(net[n]) \in Seq(Notification)
        BY <2>1
      <3> QED BY <1>1, <2>1, <3>1 DEF TypeOK, NetType
    <2>3. /\ proc' = [proc EXCEPT ![n] = {p \in @ : ~OfRemote(p, Head(net[n]))}]
          /\ UNCHANGED <<call, ipc, answers, free, map, ca, reqs, bounds>>
      BY <1>4 DEF onRemoteRemoval
    <2>4. /\ proc' \in [Node -> SUBSET Processor]
          /\ \A k \in Node : proc'[k] \subseteq proc[k]
      BY <1>1, <2>3 DEF TypeOK
    <2>5. TypeOK'
      BY <1>1, <2>2, <2>3, <2>4 DEF TypeOK, NetType, bounds
    <2>6. Aside
      BY <2>3, <2>4 DEF Aside, MapGrows
    <2> QED BY <2>5, <2>6, AsideKeeps DEF NegotiationInv
  <1>5. CASE RemoveLocal(n)
    <2>1. /\ proc' = [proc EXCEPT ![n] = {p \in @ : ~OfLocal(p, ipc[n])}]
          /\ ipc' = [ipc EXCEPT ![n] = None]
          /\ UNCHANGED <<call, net, answers, free, map, ca, reqs, bounds>>
      BY <1>5 DEF RemoveLocal
    <2>2. /\ proc' \in [Node -> SUBSET Processor]
          /\ \A k \in Node : proc'[k] \subseteq proc[k]
      BY <1>1, <2>1 DEF TypeOK
    <2>3. TypeOK'
      BY <1>1, <2>1, <2>2 DEF TypeOK, bounds
    <2>4. Aside
      BY <2>1, <2>2 DEF Aside, MapGrows
    <2> QED BY <2>3, <2>4, AsideKeeps DEF NegotiationInv
  <1> QED BY <1>2, <1>3, <1>4, <1>5 DEF NegotiatorStep

\* The delivery of an answer to the client that waits for it keeps it.
LEMMA Answered ==
  ASSUME NegotiationInv, NEW n \in Node, getAnswer(n)
  PROVE  NegotiationInv'
  <1>1. /\ UNCHANGED <<proc, ipc, net, free, map, ca, reqs, bounds>>
        /\ call' \in [Node -> [Tag -> Call]]
        /\ answers' \in [Node -> SUBSET Answer]
    BY AnswerKeeps DEF getAnswer
  <1>2. TypeOK'
    BY <1>1 DEF NegotiationInv, TypeOK, bounds
  <1> QED BY <1>2, AnswerKeeps DEF NegotiationInv

\* A step of the clients and the agents that only leads aside.
LEMMA SetAside ==
  ASSUME NegotiationInv, ClientsLeave, CaType', NetType', IpcType', MapGrows,
         map' \in [Node -> [Id -> ChannelInfo \cup {None}]],
         UNCHANGED <<proc, answers, free, reqs, scenario>>, faults' \in Nat
  PROVE  NegotiationInv'
  <1>1. TypeOK'
    BY DEF NegotiationInv, TypeOK, ClientsLeave, CallType, CaType, NetType, IpcType
  <1>2. Aside
    BY DEF Aside, ClientsLeave
  <1> QED BY <1>1, <1>2, AsideKeeps DEF NegotiationInv

\* What is under way in the negotiators stays as it is.
LEMMA AgentsQuiet ==
  ASSUME NegotiationInv, ClientsLeave, CaType', UNCHANGED <<negotiators, reqs, scenario>>,
         faults' \in Nat
  PROVE  NegotiationInv'
  <1>1. UNCHANGED <<proc, ipc, net, answers, free, map, reqs, scenario>>
    BY DEF negotiators
  <1>2. NetType' /\ IpcType' /\ MapGrows /\ map' \in [Node -> [Id -> ChannelInfo \cup {None}]]
    BY <1>1 DEF NegotiationInv, TypeOK, NetType, IpcType, MapGrows
  <1> QED BY <1>1, <1>2, SetAside

\* A fault counts itself and nothing else.
LEMMA FaultsCounted ==
  ASSUME NegotiationInv, Fault
  PROVE  faults' \in Nat /\ UNCHANGED scenario
  BY DEF NegotiationInv, TypeOK, Fault

\* Where no client moves, none enters the update.
LEMMA CallStays ==
  ASSUME NegotiationInv, UNCHANGED call
  PROVE  ClientsLeave
  BY DEF NegotiationInv, TypeOK, ClientsLeave, CallType

\* What the Connectivity Agents do with a number keeps the invariant.
LEMMA AgentSteps ==
  ASSUME NegotiationInv, NEW i \in Id,
         CAStep(i) \/ \E n \in Node : CAFails(n, i)
  PROVE  NegotiationInv'
  <1>1. TypeOK /\ faults \in Nat
    BY DEF NegotiationInv, TypeOK
  <1>2. CASE CAOpens(i)
    <2>1. \A n \in Node : [ca[n] EXCEPT ![i].st = "opened"] \in [Id -> CAChannel \cup {None}]
      <3> SUFFICES ASSUME NEW n \in Node
                   PROVE  [ca[n] EXCEPT ![i].st = "opened"] \in [Id -> CAChannel \cup {None}]
        OBVIOUS
      <3>1. ca[n] \in [Id -> CAChannel \cup {None}] /\ ca[n][i] \in CAChannel
        BY <1>1, <1>2 DEF TypeOK, CAOpens, CAIs
      <3>2. [ca[n][i] EXCEPT !.st = "opened"] \in CAChannel
        BY <3>1 DEF CAChannel
      <3> HIDE DEF CAChannel
      <3> QED BY <3>1, <3>2
    <2>2. CaType'
      <3> HIDE DEF CAChannel
      <3> QED BY <1>2, <2>1 DEF CAOpens, CaType
    <2> QED BY <1>1, <1>2, <2>2, CallStays, AgentsQuiet DEF CAOpens, bounds
  <1>3. ASSUME NEW n \in Node, CARefuses(n, i) PROVE NegotiationInv'
    <2>1. CaType' /\ ClientsLeave
      BY <1>1, <1>3, CAChanged, CallerTold DEF CARefuses
    <2> QED BY <1>1, <1>3, <2>1, AgentsQuiet DEF CARefuses, bounds
  <1>4. ASSUME NEW n \in Node, CAForgotten(n, i) PROVE NegotiationInv'
    <2>1. [ca[n][i] EXCEPT !.st = "open"] \in CAChannel
      <3>1. ca[n][i] \in CAChannel
        BY <1>1, <1>4 DEF TypeOK, CAForgotten, CAIs
      <3> QED BY <3>1 DEF CAChannel
    <2>2. CaType'
      BY <1>1, <1>4, <2>1, CAChanged DEF CAForgotten
    <2> QED BY <1>1, <1>4, <2>2, CallStays, AgentsQuiet DEF CAForgotten, bounds
  <1>5. ASSUME NEW n \in Node, CAFails(n, i) PROVE NegotiationInv'
    <2>1. CaType' /\ ClientsLeave
      BY <1>1, <1>5, CAChanged, CallerTold DEF CAFails
    <2> QED BY <1>1, <1>5, <2>1, FaultsCounted, AgentsQuiet DEF CAFails
  <1> QED BY <1>2, <1>3, <1>4, <1>5 DEF CAStep

\* The three calls that send a request.
LEMMA RequestSteps ==
  ASSUME NegotiationInv, NEW n \in Node, NEW t \in Tag,
         \/ allocateChannel(n, t)
         \/ negotiateAgain(n, t)
         \/ updateMapWithCID(n, t)
  PROVE  NegotiationInv'
  <1>1. TypeOK /\ ProcessorsInv /\ call[n][t].id \in Nat
    BY DEF NegotiationInv, TypeOK, Call
  <1>2. ASSUME NEW type \in RequestType, NEW id \in Nat, NEW at \in {"negotiate", "update"},
               onLocalRequest(n, type, t, id), Goes(n, t, at, id),
               at = "update" => type = "CA_ALLOCATE",
               CaType', UNCHANGED bounds
        PROVE  NegotiationInv'
    <2>1. PICK p \in Processor : Replaced(n, p)
      BY <1>1, <1>2, RequestMade
    <2>2. proc' \in [Node -> SUBSET Processor]
      <3> HIDE DEF Processor
      <3> QED BY <1>1, <2>1 DEF TypeOK, Replaced
    <2>3. /\ NetType' /\ free' \in [Node -> Nat]
          /\ reqs' = [reqs EXCEPT ![n][t] = @ + 1]
          /\ UNCHANGED <<ipc, answers, map>>
      BY <1>1, <1>2, RequestMade DEF NetType
    <2>4. reqs' \in [Node -> [Tag -> Nat]]
      BY <1>1, <2>3 DEF TypeOK
    <2>5. CallType'
      BY <1>1, <1>2, ClientGoes
    <2>6. TypeOK'
      BY <1>1, <1>2, <2>2, <2>3, <2>4, <2>5
      DEF TypeOK, CallType, CaType, NetType, bounds
    <2> QED BY <1>2, <2>6, RequestKeeps DEF NegotiationInv
  <1>3. CaType
    BY <1>1 DEF TypeOK, CaType
  <1>4. CASE allocateChannel(n, t)
    <2>1. CaType'
      BY <1>3, <1>4 DEF allocateChannel, CaType
    <2> QED BY <1>2, <1>4, <2>1 DEF allocateChannel, RequestType
  <1>5. CASE negotiateAgain(n, t)
    <2>1. CaType'
      BY <1>3, <1>5 DEF negotiateAgain, CaType
    <2> QED BY <1>1, <1>2, <1>5, <2>1 DEF negotiateAgain, RequestType
  <1>6. CASE updateMapWithCID(n, t)
    <2>1. [by |-> t, st |-> "open"] \in CAChannel
      BY DEF CAChannel
    <2>2. CaType'
      BY <1>1, <1>6, <2>1, CAChanged DEF updateMapWithCID
    <2> QED BY <1>1, <1>2, <1>6, <2>2 DEF updateMapWithCID, RequestType
  <1> QED BY <1>4, <1>5, <1>6

\* The steps of a client that sends no request keep it.
LEMMA ClientSteps ==
  ASSUME NegotiationInv, NEW n \in Node, NEW t \in Tag,
         \/ caAllocate(n, t)
         \/ responseTimeout(n, t)
         \/ OnConnectionLost(n, t)
         \/ deallocateChannel(n, t)
  PROVE  NegotiationInv'
  <1>1. /\ TypeOK /\ call[n][t].id \in Nat /\ reqs[n][t] \in Nat /\ faults \in Nat
        /\ NetType /\ IpcType /\ CaType
        /\ map \in [Node -> [Id -> ChannelInfo \cup {None}]]
    BY DEF NegotiationInv, TypeOK, Call, NetType, IpcType, CaType
  <1>2. CASE caAllocate(n, t)
    <2> DEFINE i == call[n][t].id
    <2>1. [by |-> t, st |-> "asked"] \in CAChannel
      BY DEF CAChannel
    <2>2. UNCHANGED <<negotiators, reqs, bounds>>
      BY <1>2 DEF caAllocate
    <2>3. \/ /\ CAChange(n, i, [by |-> t, st |-> "asked"])
             /\ Goes(n, t, "caWait", i)
          \/ Goes(n, t, "renegotiate", i) /\ UNCHANGED ca
          \/ Goes(n, t, "failed", 0) /\ UNCHANGED ca
      BY <1>2 DEF caAllocate
    <2>4. i \in Nat
      BY <1>1
    <2> HIDE DEF i
    <2>5. CaType'
      BY <1>1, <2>1, <2>3, CAChanged DEF CaType
    <2>6. ClientsLeave
      BY <1>1, <2>3, <2>4, ClientGoes
    <2> QED BY <1>1, <2>2, <2>5, <2>6, AgentsQuiet DEF bounds
  <1>3. CASE responseTimeout(n, t)
    <2>1. NetType' /\ IpcType'
      BY <1>1, <1>3, RemovalTold DEF responseTimeout
    <2>2. ClientsLeave
      BY <1>1, <1>3, ClientGoes DEF responseTimeout
    <2>3. UNCHANGED <<proc, answers, free, map, ca, reqs>> /\ Fault
      BY <1>3 DEF responseTimeout
    <2>4. CaType' /\ MapGrows
      BY <1>1, <2>3 DEF CaType, MapGrows
    <2> QED BY <1>1, <2>1, <2>2, <2>3, <2>4, FaultsCounted, SetAside
  <1>4. CASE OnConnectionLost(n, t)
    <2>1. NetType' /\ IpcType'
      BY <1>1, <1>4, RemovalTold DEF OnConnectionLost
    <2>2. UNCHANGED <<proc, answers, free, map, reqs>> /\ Fault /\ MapGrows
      BY <1>4 DEF OnConnectionLost, MapGrows
    <2>3. ClientsLeave
      <3> DEFINE left == [u \in Tag |-> IF App[u] = App[t] THEN [at |-> "idle", id |-> 0]
                                        ELSE call[n][u]]
      <3>1. call' = [call EXCEPT ![n] = left]
        BY <1>4 DEF OnConnectionLost
      <3>2. [at |-> "idle", id |-> 0] \in Call
        BY DEF Call
      <3>3. left \in [Tag -> Call]
        <4> HIDE DEF Call
        <4> QED BY <1>1, <3>2 DEF TypeOK
      <3>4. \A u \in Tag : left[u] = call[n][u] \/ left[u].at = "idle"
        OBVIOUS
      <3> HIDE DEF left, Call
      <3>5. CallType'
        BY <1>1, <3>1, <3>3 DEF TypeOK, CallType
      <3>6. \A k \in Node : call'[k] = IF k = n THEN left ELSE call[k]
        BY <1>1, <3>1 DEF TypeOK
      <3> QED BY <3>4, <3>5, <3>6 DEF ClientsLeave
    <2>4. CaType'
      <3> DEFINE gone == [i \in Id |->
                    IF ca[n][i] # None /\ ca[n][i].by \in {u \in Tag : App[u] = App[t]}
                    THEN [ca[n][i] EXCEPT !.by = None] ELSE ca[n][i]]
      <3>1. ca' = [ca EXCEPT ![n] = gone]
        BY <1>4 DEF OnConnectionLost
      <3>2. \A e \in CAChannel : [e EXCEPT !.by = None] \in CAChannel
        BY DEF CAChannel
      <3>3. gone \in [Id -> CAChannel \cup {None}]
        <4> HIDE DEF CAChannel
        <4> QED BY <1>1, <3>2 DEF CaType
      <3> HIDE DEF gone, CAChannel
      <3> QED BY <1>1, <3>1, <3>3 DEF CaType
    <2> QED BY <1>1, <2>1, <2>2, <2>3, <2>4, FaultsCounted, SetAside
  <1>5. CASE deallocateChannel(n, t)
    <2>1. /\ Closed(call[n][t].id) /\ OwnersTold(call[n][t].id)
          /\ invalidateChannelInfo(n, call[n][t].id)
          /\ UNCHANGED <<proc, ipc, net, answers, free, reqs, bounds>>
      BY <1>5 DEF deallocateChannel
    <2>2. /\ CaType' /\ ClientsLeave /\ MapGrows
          /\ map' \in [Node -> [Id -> ChannelInfo \cup {None}]]
      BY <1>1, <2>1, ChannelClosed, ChannelInvalidated
    <2>3. NetType' /\ IpcType' /\ UNCHANGED <<faults, scenario>>
      BY <1>1, <2>1 DEF NetType, IpcType, bounds
    <2> QED BY <1>1, <2>1, <2>2, <2>3, SetAside
  <1> QED BY <1>2, <1>3, <1>4, <1>5

\* The removal of an unused channel keeps it: its owners are told first.
LEMMA WatchdogStep ==
  ASSUME NegotiationInv, NEW n \in Node, checkChannels(n)
  PROVE  NegotiationInv'
  <1>1. /\ TypeOK /\ faults \in Nat /\ NetType /\ IpcType
    BY DEF NegotiationInv, TypeOK, NetType, IpcType
  <1>2. PICK i \in StartId + 1 .. free[n] - 1 :
          /\ Closed(i) /\ OwnersTold(i) /\ invalidateChannelInfo(n, i)
          /\ UNCHANGED <<proc, ipc, net, answers, free, reqs, bounds>>
    BY DEF checkChannels
  <1>3. /\ CaType' /\ ClientsLeave /\ MapGrows
        /\ map' \in [Node -> [Id -> ChannelInfo \cup {None}]]
    BY <1>1, <1>2, ChannelClosed, ChannelInvalidated
  <1>4. NetType' /\ IpcType' /\ UNCHANGED <<faults, scenario>>
    BY <1>1, <1>2 DEF NetType, IpcType, bounds
  <1> QED BY <1>1, <1>2, <1>3, <1>4, SetAside

-----------------------------------------------------------------------------
(* The theorems. *)

\* Every step keeps the invariant.
LEMMA StepKeepsNegotiation == NegotiationInv /\ [Next]_vars => NegotiationInv'
  <1> SUFFICES ASSUME NegotiationInv, [Next]_vars PROVE NegotiationInv'
    OBVIOUS
  <1>1. CASE \E n \in Node : NegotiatorStep(n)
    BY <1>1, NegotiatorSteps
  <1>2. CASE \E n \in Node : getAnswer(n)
    BY <1>2, Answered
  <1>3. CASE \E n \in Node : checkChannels(n)
    BY <1>3, WatchdogStep
  <1>4. CASE \E n \in Node : \E t \in Tag :
               \/ ClientStep(n, t) \/ allocateChannel(n, t) \/ deallocateChannel(n, t)
               \/ responseTimeout(n, t) \/ OnConnectionLost(n, t)
    BY <1>4, ClientSteps, RequestSteps DEF ClientStep
  <1>5. CASE \E i \in Id : CAStep(i) \/ \E n \in Node : CAFails(n, i)
    BY <1>5, AgentSteps
  <1>6. CASE UNCHANGED vars
    <2>1. UNCHANGED <<call, proc, ipc, net, answers, free, map, ca, reqs, faults, scenario>>
      BY <1>6 DEF vars, negotiators, bounds
    <2>2. TypeOK'
      BY <2>1 DEF NegotiationInv, TypeOK
    <2>3. Aside
      BY <2>1 DEF Aside, MapGrows
    <2> QED BY <2>2, <2>3, AsideKeeps DEF NegotiationInv
  <1> QED BY <1>1, <1>2, <1>3, <1>4, <1>5, <1>6 DEF Next

\* The inductive invariant holds in every reachable state.
THEOREM NegotiationCorrect == Spec => []NegotiationInv
  <1>1. Init => NegotiationInv
    BY InitNegotiation
  <1>2. NegotiationInv /\ [Next]_vars => NegotiationInv'
    BY StepKeepsNegotiation
  <1> QED BY <1>1, <1>2, PTL DEF Spec

\* The clients, processors, queues and maps of both devices keep their types,
\* for any tags, processes, numbers of requests and faults.
THEOREM TypeCorrect == Spec => []TypeOK
  <1>1. NegotiationInv => TypeOK
    BY DEF NegotiationInv
  <1> QED BY NegotiationCorrect, <1>1, PTL

\* While a tag has its channel, the negotiator's map has the number, so that
\* checkChannels can close it: addChannelInfo (CNegotiator) comes before the
\* answer that waitForResponse accepts, whatever timed out before.
THEOREM OwnedIsKnown == Spec => []KnownToNegotiator
  <1>1. NegotiationInv => KnownToNegotiator
    BY DEF NegotiationInv
  <1> QED BY NegotiationCorrect, <1>1, PTL

-----------------------------------------------------------------------------
(* A channel has one owner on a device. *)

\* The channel a client owns is open in its Connectivity Agent, in its name.
OwnerInv ==
  \A n \in Node, t \in Tag, i \in Id :
    Has(n, t, i) => ca[n][i] = [by |-> t, st |-> "open"]

\* Who owns a channel after a step gets it open, or owned it and nothing
\* happened to it.
OwnersServed ==
  \A n \in Node, t \in Tag, i \in Id :
    call'[n][t] = [at |-> "open", id |-> i] =>
      \/ ca'[n][i] = [by |-> t, st |-> "open"]
      \/ Has(n, t, i) /\ ca'[n][i] = ca[n][i]

\* Owners whose entries stay keep what is known of them.
LEMMA ServedOwnersKeep ==
  ASSUME OwnerInv, OwnersServed
  PROVE  OwnerInv'
  BY DEF OwnerInv, OwnersServed, Has

\* The owner's entry is open: a step that changes another entry is none of it.
LEMMA EntryChanged ==
  ASSUME TypeOK, OwnerInv, ClientsLeave, NEW n \in Node, NEW i,
         i \in Id => ca[n][i] = None \/ CAIs(n, i, {"asked", "opened"}),
         NEW e, CAChange(n, i, e)
  PROVE  OwnerInv'
  <1> SUFFICES ASSUME NEW k \in Node, NEW t \in Tag, NEW j \in Id,
                      call'[k][t] = [at |-> "open", id |-> j]
               PROVE  Has(k, t, j) /\ ca'[k][j] = ca[k][j]
    BY ServedOwnersKeep DEF OwnersServed
  <1>1. Has(k, t, j)
    BY DEF ClientsLeave, Has
  <1>2. ca[k][j] = [by |-> t, st |-> "open"]
    BY <1>1 DEF OwnerInv
  <1>3. [by |-> t, st |-> "open"] # None
    BY NoneIsNoInfo DEF CAChannel
  <1>4. ~(k = n /\ j = i)
    BY <1>2, <1>3 DEF CAIs
  <1>5. ca'[k][j] = ca[k][j]
    BY <1>4 DEF CAChange, TypeOK
  <1> QED BY <1>1, <1>5

\* The agents change no entry of an owner, or tell the owner.
LEMMA AgentKeepsOwners ==
  ASSUME NegotiationInv, OwnerInv, NEW i \in Id,
         CAStep(i) \/ \E n \in Node : CAFails(n, i)
  PROVE  OwnerInv'
  <1>1. TypeOK
    BY DEF NegotiationInv
  <1>2. CASE CAOpens(i)
    <2> SUFFICES ASSUME NEW k \in Node, NEW t \in Tag, NEW j \in Id, Has(k, t, j)
                 PROVE  ca'[k][j] = ca[k][j]
      BY <1>2, ServedOwnersKeep DEF OwnersServed, Has, CAOpens
    <2>1. ca[k][j].st = "open"
      <3>1. ca[k][j] = [by |-> t, st |-> "open"]
        BY DEF OwnerInv
      <3> QED BY <3>1
    <2>2. j # i
      BY <1>2, <2>1 DEF CAOpens, CAIs
    <2>3. ca' = [n \in Node |-> [ca[n] EXCEPT ![i].st = "opened"]]
      BY <1>2 DEF CAOpens
    <2> QED BY <1>1, <2>2, <2>3 DEF TypeOK
  <1>3. ASSUME NEW n \in Node, CARefuses(n, i) PROVE OwnerInv'
    <2>1. ClientsLeave
      BY <1>1, <1>3, CallerTold DEF CARefuses
    <2> QED BY <1>1, <1>3, <2>1, EntryChanged DEF CARefuses, CAIs
  <1>4. ASSUME NEW n \in Node, CAForgotten(n, i) PROVE OwnerInv'
    <2>1. ClientsLeave
      BY <1>4, CallStays DEF CAForgotten
    <2> QED BY <1>1, <1>4, <2>1, EntryChanged DEF CAForgotten, CAIs
  <1>5. ASSUME NEW n \in Node, CAFails(n, i) PROVE OwnerInv'
    <2>1. ClientsLeave
      BY <1>1, <1>5, CallerTold DEF CAFails
    <2> QED BY <1>1, <1>5, <2>1, EntryChanged DEF CAFails
  <1> QED BY <1>2, <1>3, <1>4, <1>5 DEF CAStep

\* Both ends of a channel that is closed lose it.
LEMMA ClosingKeepsOwners ==
  ASSUME TypeOK, OwnerInv, NEW i, Closed(i), OwnersTold(i)
  PROVE  OwnerInv'
  <1> SUFFICES ASSUME NEW k \in Node, NEW t \in Tag, NEW j \in Id,
                      call'[k][t] = [at |-> "open", id |-> j]
               PROVE  Has(k, t, j) /\ ca'[k][j] = ca[k][j]
    BY ServedOwnersKeep DEF OwnersServed
  <1>1. call'[k][t] = Deleted(i, t, call[k][t])
    BY DEF OwnersTold
  <1>2. Has(k, t, j) /\ j # i
    BY <1>1 DEF Deleted, Has
  <1>3. ca' = [n \in Node |-> [ca[n] EXCEPT ![i] = IF CAIs(n, i, {"open"}) THEN None ELSE @]]
    BY DEF Closed
  <1>4. ca'[k][j] = ca[k][j]
    BY <1>2, <1>3 DEF TypeOK
  <1> QED BY <1>2, <1>4

\* A client changes only the entry it asked for.
LEMMA ClientKeepsOwners ==
  ASSUME NegotiationInv, OwnerInv, NEW n \in Node, NEW t \in Tag,
         \/ ClientStep(n, t)
         \/ allocateChannel(n, t)
         \/ deallocateChannel(n, t)
         \/ responseTimeout(n, t)
         \/ OnConnectionLost(n, t)
  PROVE  OwnerInv'
  <1>1. TypeOK /\ call[n][t].id \in Nat
    BY DEF NegotiationInv, TypeOK, Call
  <1>2. ASSUME NEW at \in {"idle", "renegotiate", "caAllocate", "caWait", "failed",
                           "negotiate", "update"},
               NEW id, Goes(n, t, at, id), UNCHANGED ca
        PROVE  OwnerInv'
    <2>1. \A k \in Node, u \in Tag :
            call'[k][u] = IF k = n /\ u = t THEN [at |-> at, id |-> id] ELSE call[k][u]
      BY <1>1, <1>2 DEF TypeOK, Goes
    <2> QED BY <1>2, <2>1, ServedOwnersKeep DEF OwnersServed, Has
  <1>3. CASE allocateChannel(n, t) \/ negotiateAgain(n, t) \/ responseTimeout(n, t)
    BY <1>2, <1>3 DEF allocateChannel, negotiateAgain, responseTimeout
  <1>4. CASE caAllocate(n, t)
    <2>1. CASE Goes(n, t, "renegotiate", call[n][t].id) /\ UNCHANGED ca
      BY <1>2, <2>1
    <2>2. CASE Goes(n, t, "failed", 0) /\ UNCHANGED ca
      BY <1>2, <2>2
    <2>3. CASE /\ ca[n][call[n][t].id] = None
               /\ CAChange(n, call[n][t].id, [by |-> t, st |-> "asked"])
               /\ Goes(n, t, "caWait", call[n][t].id)
      <3>1. ClientsLeave
        BY <1>1, <2>3, ClientGoes
      <3> QED BY <1>1, <2>3, <3>1, EntryChanged
    <2> QED BY <1>4, <2>1, <2>2, <2>3 DEF caAllocate
  <1>5. CASE updateMapWithCID(n, t)
    <2> DEFINE i == call[n][t].id
    <2>1. /\ ca[n][i] = [by |-> t, st |-> "opened"]
          /\ CAChange(n, i, [by |-> t, st |-> "open"])
          /\ Goes(n, t, "update", i)
      BY <1>5 DEF updateMapWithCID
    <2> HIDE DEF i
    <2> SUFFICES ASSUME NEW k \in Node, NEW u \in Tag, NEW j \in Id,
                        call'[k][u] = [at |-> "open", id |-> j]
                 PROVE  Has(k, u, j) /\ ca'[k][j] = ca[k][j]
      BY ServedOwnersKeep DEF OwnersServed
    <2>2. Has(k, u, j)
      BY <1>1, <2>1 DEF Goes, TypeOK, Has
    <2>3. ca[k][j].st = "open"
      <3>1. ca[k][j] = [by |-> u, st |-> "open"]
        BY <2>2 DEF OwnerInv
      <3> QED BY <3>1
    <2>4. ca'[k][j] = ca[k][j]
      BY <1>1, <2>1, <2>3 DEF CAChange, TypeOK
    <2> QED BY <2>2, <2>4
  <1>6. CASE deallocateChannel(n, t)
    BY <1>1, <1>6, ClosingKeepsOwners DEF deallocateChannel
  <1>7. CASE OnConnectionLost(n, t)
    <2> SUFFICES ASSUME NEW k \in Node, NEW u \in Tag, NEW j \in Id,
                        call'[k][u] = [at |-> "open", id |-> j]
                 PROVE  Has(k, u, j) /\ ca'[k][j] = ca[k][j]
      BY ServedOwnersKeep DEF OwnersServed
    <2>1. /\ call' = [call EXCEPT ![n] = [v \in Tag |->
                IF App[v] = App[t] THEN [at |-> "idle", id |-> 0] ELSE @[v]]]
          /\ ca' = [ca EXCEPT ![n] = [i \in Id |->
                IF @[i] # None /\ @[i].by \in {v \in Tag : App[v] = App[t]}
                THEN [@[i] EXCEPT !.by = None] ELSE @[i]]]
      BY <1>7 DEF OnConnectionLost
    <2>2. Has(k, u, j) /\ (k = n => App[u] # App[t])
      BY <1>1, <2>1 DEF TypeOK, Has
    <2>3. ca[k][j].by = u
      <3>1. ca[k][j] = [by |-> u, st |-> "open"]
        BY <2>2 DEF OwnerInv
      <3> QED BY <3>1
    <2>4. ca'[k][j] = ca[k][j]
      BY <1>1, <2>1, <2>2, <2>3 DEF TypeOK
    <2> QED BY <2>2, <2>4
  <1> QED BY <1>3, <1>4, <1>5, <1>6, <1>7 DEF ClientStep

\* An answer makes its client an owner when the agent has opened the channel.
LEMMA AnswerKeepsOwners ==
  ASSUME NegotiationInv, OwnerInv, NEW n \in Node, getAnswer(n)
  PROVE  OwnerInv'
  <1>1. TypeOK
    BY DEF NegotiationInv
  <1>2. PICK r \in answers[n] :
          LET c == call[n][r.tag]
              expected == c.at \in Waiting /\ reqs[n][r.tag] = r.req
          IN \/ /\ expected /\ c.at = "negotiate"
                /\ Goes(n, r.tag, "caAllocate", r.id)
             \/ /\ expected /\ c.at = "update"
                /\ Goes(n, r.tag, IF ca[n][c.id] = [by |-> r.tag, st |-> "open"]
                                  THEN "open" ELSE "idle", c.id)
             \/ ~expected /\ UNCHANGED call
    BY DEF getAnswer
  <1>3. UNCHANGED ca
    BY DEF getAnswer
  <1>4. \/ Goes(n, r.tag, "caAllocate", r.id)
        \/ Goes(n, r.tag, IF ca[n][call[n][r.tag].id] = [by |-> r.tag, st |-> "open"]
                          THEN "open" ELSE "idle", call[n][r.tag].id)
        \/ UNCHANGED call
    BY <1>2
  <1> SUFFICES ASSUME NEW k \in Node, NEW u \in Tag, NEW j \in Id,
                      call'[k][u] = [at |-> "open", id |-> j]
               PROVE  \/ ca'[k][j] = [by |-> u, st |-> "open"]
                      \/ Has(k, u, j) /\ ca'[k][j] = ca[k][j]
    BY ServedOwnersKeep DEF OwnersServed
  <1>5. CASE ~(k = n /\ u = r.tag) \/ UNCHANGED call
    BY <1>1, <1>3, <1>4, <1>5 DEF Goes, Has, TypeOK
  <1>6. CASE k = n /\ u = r.tag /\ Goes(n, r.tag, "caAllocate", r.id)
    BY <1>1, <1>6 DEF Goes, TypeOK
  <1>7. CASE /\ k = n /\ u = r.tag
             /\ Goes(n, r.tag, IF ca[n][call[n][r.tag].id] = [by |-> r.tag, st |-> "open"]
                          THEN "open" ELSE "idle", call[n][r.tag].id)
    BY <1>1, <1>3, <1>7 DEF Goes, TypeOK
  <1> QED BY <1>4, <1>5, <1>6, <1>7

\* On a device two tags never own the channel of one number, although the
\* agent has one table for all the applications and the negotiators give the
\* same number out again: the half of NoCrossedChannels that is about one device.
OneOwner ==
  \A n \in Node, t, u \in Tag, i \in Id : Has(n, t, i) /\ Has(n, u, i) => t = u

\* No two tags of a device ever own the channel of one number, for any tags and
\* faults: the tube takes the channel only while its agent has it open in the
\* caller's name, and what is closed is taken from its owners (onChannelDeleted).
THEOREM OneOwnerOnADevice == Spec => []OneOwner
  <1>1. Init => OwnerInv
    BY DEF Init, OwnerInv, Has
  <1>2. NegotiationInv /\ OwnerInv /\ [Next]_vars => OwnerInv'
    <2> SUFFICES ASSUME NegotiationInv, OwnerInv, [Next]_vars PROVE OwnerInv'
      OBVIOUS
    <2>1. CASE \E n \in Node : NegotiatorStep(n)
      <3>1. UNCHANGED <<call, ca>>
        BY <2>1 DEF NegotiatorStep, onRemoteRequest, onRemoteConfirmation,
                    onRemoteRemoval, RemoveLocal
      <3> QED BY <3>1 DEF OwnerInv, Has
    <2>2. CASE \E n \in Node : getAnswer(n)
      BY <2>2, AnswerKeepsOwners
    <2>3. CASE \E n \in Node : checkChannels(n)
      BY <2>3, ClosingKeepsOwners DEF checkChannels, NegotiationInv
    <2>4. CASE \E n \in Node : \E t \in Tag :
                 \/ ClientStep(n, t) \/ allocateChannel(n, t) \/ deallocateChannel(n, t)
                 \/ responseTimeout(n, t) \/ OnConnectionLost(n, t)
      BY <2>4, ClientKeepsOwners
    <2>5. CASE \E i \in Id : CAStep(i) \/ \E n \in Node : CAFails(n, i)
      BY <2>5, AgentKeepsOwners
    <2>6. CASE UNCHANGED vars
      BY <2>6 DEF vars, OwnerInv, Has
    <2> QED BY <2>1, <2>2, <2>3, <2>4, <2>5, <2>6 DEF Next
  <1>3. OwnerInv => OneOwner
    <2> SUFFICES ASSUME OwnerInv, NEW n \in Node, NEW t \in Tag, NEW u \in Tag, NEW i \in Id,
                        Has(n, t, i), Has(n, u, i)
                 PROVE  t = u
      BY DEF OneOwner
    <2>1. [by |-> t, st |-> "open"] = [by |-> u, st |-> "open"]
      BY DEF OwnerInv
    <2>2. [by |-> t, st |-> "open"].by = [by |-> u, st |-> "open"].by
      BY <2>1
    <2> QED BY <2>2
  <1> QED BY NegotiationCorrect, <1>1, <1>2, <1>3, PTL DEF Spec

-----------------------------------------------------------------------------
(* Both ends ask for one number (SameNumber): the sessions of the clients. *)

\* The notifications of the first exchange, and a processor that has had the
\* client's request.
Negotiation == {"ALLOCATE", "CHECK_MAP"}
Reached(p) == p.reqType = "UNKNOWN"

\* The removal under way is of the client of t.
Leaves(n, t) ==
  /\ ipc[n] # None
  /\ IF ipc[n].req # 0 THEN t = ipc[n].tag ELSE App[t] = App[ipc[n].tag]

\* A processor that a request has reached is of the client's latest request, in
\* the exchange the client waits in, or about to be removed.
ReachedInv ==
  \A n \in Node : \A p \in proc[n] :
    /\ Reached(p) =>
         /\ p.req = reqs[n][p.tag]
         /\ \/ call[n][p.tag].at = "negotiate" /\ p.ntfType \in Negotiation
            \/ call[n][p.tag].at = "update" /\ p.ntfType \notin Negotiation
            \/ ipc[n] # None /\ OfLocal(p, ipc[n])
    /\ ~Reached(p) => p.got

\* The client that a removal is of does not wait any more.
LeavesInv ==
  \A n \in Node, t \in Tag :
    /\ Leaves(n, t) => call[n][t].at \in {"idle", "failed"}
    /\ call[n][t].at \in Waiting => reqs[n][t] > 0

\* A tag has one processor that a request has reached, and one that expects
\* the peer's number; none while an answer to the request is under way.
UniqueInv ==
  \A n \in Node : \A p \in proc[n] :
    /\ \A q \in proc[n] : p.tag = q.tag =>
         /\ Reached(p) /\ Reached(q) => p = q
         /\ p.ntfType = "ALLOCATE" /\ q.ntfType = "ALLOCATE" => p = q
    /\ \A r \in answers[n] : r.tag = p.tag /\ r.req = reqs[n][r.tag] => ~Reached(p)

SessionInv == ReachedInv /\ LeavesInv /\ UniqueInv

-----------------------------------------------------------------------------
\* Who leaves is who the removal is of.
LEMMA LocalLeaves ==
  ASSUME NEW n, NEW p, ipc[n] # None, OfLocal(p, ipc[n])
  PROVE  Leaves(n, p.tag)
  BY DEF OfLocal, Leaves

\* A processor a request has reached stays in its exchange.
LEMMA ReachedWaits ==
  ASSUME SessionInv, NEW n \in Node, NEW p \in proc[n], Reached(p), p.tag \in Tag
  PROVE  /\ p.req = reqs[n][p.tag]
         /\ call[n][p.tag].at \in {"negotiate", "update", "idle", "failed"}
         /\ call[n][p.tag].at = "negotiate" => p.ntfType \in Negotiation
         /\ call[n][p.tag].at = "update" => p.ntfType \notin Negotiation
  <1>1. \/ call[n][p.tag].at = "negotiate" /\ p.ntfType \in Negotiation
        \/ call[n][p.tag].at = "update" /\ p.ntfType \notin Negotiation
        \/ ipc[n] # None /\ OfLocal(p, ipc[n])
    BY DEF SessionInv, ReachedInv
  <1>2. ipc[n] # None /\ OfLocal(p, ipc[n]) => call[n][p.tag].at \in {"idle", "failed"}
    BY LocalLeaves DEF SessionInv, LeavesInv
  <1> QED BY <1>1, <1>2 DEF SessionInv, ReachedInv

\* When no removal is under way, a client that does not wait has no processor.
LEMMA NotWaitingNotReached ==
  ASSUME SessionInv, NEW n \in Node, ipc[n] = None, NEW p \in proc[n],
         call[n][p.tag].at \notin Waiting
  PROVE  ~Reached(p)
  BY DEF SessionInv, ReachedInv, Waiting

\* Clients move on that neither wait nor have left, and ask for no new number.
MovesOn ==
  \A k \in Node, u \in Tag :
    \/ call'[k][u] = call[k][u]
    \/ /\ call[k][u].at \notin {"negotiate", "update", "idle", "failed"}
       /\ call'[k][u].at \notin Waiting
       /\ Asks(k, u)' => Asks(k, u) /\ call'[k][u].id = call[k][u].id

\* Sessions survive a step that removes processors and answers and asks for nothing new.
LEMMA MovesOnKeeps ==
  ASSUME SessionInv, TypeOK, ProcessorsInv, MovesOn, UNCHANGED <<ipc, reqs>>,
         \A k \in Node : proc'[k] \subseteq proc[k] /\ answers'[k] \subseteq answers[k]
  PROVE  SessionInv'
  <1>1. ReachedInv'
    <2> SUFFICES ASSUME NEW k \in Node, NEW p \in proc'[k]
                 PROVE  /\ Reached(p) =>
                             /\ p.req = reqs[k][p.tag]
                             /\ \/ call'[k][p.tag].at = "negotiate" /\ p.ntfType \in Negotiation
                                \/ call'[k][p.tag].at = "update" /\ p.ntfType \notin Negotiation
                                \/ ipc[k] # None /\ OfLocal(p, ipc[k])
                        /\ ~Reached(p) => p.got
      BY DEF ReachedInv, Reached, OfLocal
    <2>1. p \in proc[k] /\ p.tag \in Tag
      BY DEF ProcessorsInv
    <2> QED BY <2>1 DEF SessionInv, ReachedInv, MovesOn
  <1>2. LeavesInv'
    <2> SUFFICES ASSUME NEW k \in Node, NEW u \in Tag
                 PROVE  /\ Leaves(k, u) => call'[k][u].at \in {"idle", "failed"}
                        /\ call'[k][u].at \in Waiting => reqs[k][u] > 0
      BY DEF LeavesInv, Leaves
    <2> QED BY DEF SessionInv, LeavesInv, MovesOn, Waiting
  <1>3. UniqueInv'
    <2> SUFFICES ASSUME NEW k \in Node, NEW p \in proc'[k]
                 PROVE  /\ \A q \in proc'[k] : p.tag = q.tag =>
                             /\ Reached(p) /\ Reached(q) => p = q
                             /\ p.ntfType = "ALLOCATE" /\ q.ntfType = "ALLOCATE" => p = q
                        /\ \A r \in answers'[k] :
                             r.tag = p.tag /\ r.req = reqs[k][r.tag] => ~Reached(p)
      BY DEF UniqueInv, Reached
    <2> QED BY DEF SessionInv, UniqueInv
  <1> QED BY <1>1, <1>2, <1>3 DEF SessionInv

\* RemoveLocal: what waited for its removal is gone.
LEMMA RemoveLocalKeeps ==
  ASSUME SessionInv, TypeOK, ProcessorsInv, NEW n \in Node, RemoveLocal(n)
  PROVE  SessionInv'
  <1>1. /\ proc' = [proc EXCEPT ![n] = {p \in @ : ~OfLocal(p, ipc[n])}]
        /\ ipc' = [ipc EXCEPT ![n] = None]
        /\ UNCHANGED <<call, answers, reqs>>
    BY DEF RemoveLocal
  <1>2. /\ \A k \in Node : proc'[k] \subseteq proc[k]
        /\ \A p \in proc'[n] : ~OfLocal(p, ipc[n])
        /\ \A k \in Node : ipc'[k] = IF k = n THEN None ELSE ipc[k]
    BY <1>1 DEF TypeOK
  <1>3. ReachedInv'
    <2> SUFFICES ASSUME NEW k \in Node, NEW p \in proc'[k]
                 PROVE  /\ Reached(p) =>
                             /\ p.req = reqs[k][p.tag]
                             /\ \/ call[k][p.tag].at = "negotiate" /\ p.ntfType \in Negotiation
                                \/ call[k][p.tag].at = "update" /\ p.ntfType \notin Negotiation
                                \/ ipc'[k] # None /\ OfLocal(p, ipc'[k])
                        /\ ~Reached(p) => p.got
      BY <1>1 DEF ReachedInv, Reached, OfLocal
    <2> QED BY <1>2 DEF SessionInv, ReachedInv
  <1>4. LeavesInv'
    <2> SUFFICES ASSUME NEW k \in Node, NEW u \in Tag
                 PROVE  /\ Leaves(k, u)' => call[k][u].at \in {"idle", "failed"}
                        /\ call[k][u].at \in Waiting => reqs[k][u] > 0
      BY <1>1 DEF LeavesInv
    <2>1. Leaves(k, u)' => Leaves(k, u)
      BY <1>2 DEF Leaves
    <2> QED BY <2>1 DEF SessionInv, LeavesInv
  <1>5. UniqueInv'
    BY <1>1, <1>2 DEF SessionInv, UniqueInv, Reached
  <1> QED BY <1>3, <1>4, <1>5 DEF SessionInv

\* A removal begins: the client that it is of waits no more.
LEMMA RemovalKeeps ==
  ASSUME SessionInv, TypeOK, ProcessorsInv, NEW n \in Node, NEW t \in Tag,
         responseTimeout(n, t) \/ OnConnectionLost(n, t)
  PROVE  SessionInv'
  <1> DEFINE req == IF responseTimeout(n, t) THEN reqs[n][t] ELSE 0
             rem == [tag |-> t, req |-> req]
  <1>1. /\ ipc[n] = None /\ UNCHANGED <<proc, answers, reqs>>
        /\ ipc' = [ipc EXCEPT ![n] = rem]
    BY DEF responseTimeout, OnConnectionLost, TellRemoval
  <1>2. \A k \in Node : ipc'[k] = IF k = n THEN rem ELSE ipc[k]
    BY <1>1 DEF TypeOK
  <1>3. rem # None /\ rem.tag = t /\ rem.req = req
    <2>1. req \in Nat
      BY DEF TypeOK
    <2>2. rem \in Removal
      BY <2>1 DEF Removal
    <2> QED BY <2>2, NoneIsNoRemoval
  <1>4. /\ \A k \in Node, u \in Tag :
             call'[k][u] = call[k][u] \/ (k = n /\ Leaves(n, u)')
        /\ \A u \in Tag : Leaves(n, u)' => call'[n][u].at \in {"idle", "failed"}
    <2>1. CASE responseTimeout(n, t)
      <3>1. reqs[n][t] > 0 /\ Goes(n, t, "failed", 0)
        BY <2>1 DEF responseTimeout, SessionInv, LeavesInv
      <3>2. \A u \in Tag : Leaves(n, u)' <=> u = t
        BY <1>2, <1>3, <2>1, <3>1 DEF Leaves, TypeOK
      <3> QED BY <3>1, <3>2 DEF Goes, TypeOK
    <2>2. CASE ~responseTimeout(n, t) /\ OnConnectionLost(n, t)
      <3>1. \A u \in Tag : Leaves(n, u)' <=> App[u] = App[t]
        BY <1>2, <1>3, <2>2 DEF Leaves
      <3>2. call' = [call EXCEPT ![n] = [u \in Tag |->
              IF App[u] = App[t] THEN [at |-> "idle", id |-> 0] ELSE @[u]]]
        BY <2>2 DEF OnConnectionLost
      <3> QED BY <3>1, <3>2 DEF TypeOK
    <2> QED BY <2>1, <2>2
  <1>6. ReachedInv'
    <2> SUFFICES ASSUME NEW k \in Node, NEW p \in proc[k]
                 PROVE  /\ Reached(p) =>
                             /\ p.req = reqs[k][p.tag]
                             /\ \/ call'[k][p.tag].at = "negotiate" /\ p.ntfType \in Negotiation
                                \/ call'[k][p.tag].at = "update" /\ p.ntfType \notin Negotiation
                                \/ ipc'[k] # None /\ OfLocal(p, ipc'[k])
                        /\ ~Reached(p) => p.got
      BY <1>1 DEF ReachedInv, Reached, OfLocal
    <2>1. p.tag \in Tag
      BY DEF ProcessorsInv
    <2>2. Reached(p) => p.req = reqs[k][p.tag] /\ p.req # 0
      BY <2>1 DEF SessionInv, ReachedInv, ProcessorsInv, Reached
    <2>3. k = n /\ Reached(p) /\ Leaves(n, p.tag)' => OfLocal(p, ipc'[k])
      BY <1>2, <1>3, <2>1, <2>2 DEF OfLocal, Leaves
    <2>4. k = n => ipc'[k] # None
      BY <1>2, <1>3
    <2> HIDE DEF rem, req
    <2> QED BY <1>1, <1>2, <1>4, <2>1, <2>3, <2>4 DEF SessionInv, ReachedInv
  <1>7. LeavesInv'
    <2> SUFFICES ASSUME NEW k \in Node, NEW u \in Tag
                 PROVE  /\ Leaves(k, u)' => call'[k][u].at \in {"idle", "failed"}
                        /\ call'[k][u].at \in Waiting => reqs[k][u] > 0
      BY <1>1 DEF LeavesInv
    <2>1. k # n => (Leaves(k, u)' <=> Leaves(k, u))
      BY <1>2 DEF Leaves
    <2> HIDE DEF rem, req
    <2> QED BY <1>4, <2>1 DEF SessionInv, LeavesInv, Waiting
  <1>8. UniqueInv'
    BY <1>1 DEF SessionInv, UniqueInv, Reached
  <1> QED BY <1>6, <1>7, <1>8 DEF SessionInv

\* The client that takes its answer has no processor left.
LEMMA AnswerTaken ==
  ASSUME SessionInv, TypeOK, ProcessorsInv, NEW n \in Node, getAnswer(n)
  PROVE  SessionInv'
  <1>1. /\ UNCHANGED <<proc, ipc, reqs>>
        /\ \A k \in Node : answers'[k] \subseteq answers[k]
    BY DEF getAnswer, TypeOK
  <1>2. PICK r \in answers[n] :
          \/ UNCHANGED call
          \/ /\ call[n][r.tag].at \in Waiting /\ reqs[n][r.tag] = r.req
             /\ \E at \in {"caAllocate", "open", "idle"}, id \in Nat : Goes(n, r.tag, at, id)
    <2>1. \A r \in answers[n] : r.id \in Nat /\ r.tag \in Tag /\ call[n][r.tag].id \in Nat
      BY DEF TypeOK, Answer, Call
    <2> QED BY <2>1 DEF getAnswer
  <1>3. r.tag \in Tag
    BY DEF TypeOK, Answer
  <1>4. CASE UNCHANGED call
    BY <1>1, <1>4, MovesOnKeeps DEF MovesOn
  <1>5. ASSUME call[n][r.tag].at \in Waiting, reqs[n][r.tag] = r.req,
               NEW at \in {"caAllocate", "open", "idle"}, NEW id \in Nat, Goes(n, r.tag, at, id)
        PROVE  SessionInv'
    <2>1. \A k \in Node, u \in Tag :
            call'[k][u] = IF k = n /\ u = r.tag THEN [at |-> at, id |-> id] ELSE call[k][u]
      BY <1>3, <1>5 DEF Goes, TypeOK
    <2>2. \A p \in proc[n] : p.tag = r.tag => ~Reached(p)
      BY <1>5 DEF SessionInv, UniqueInv
    <2>3. ReachedInv'
      <3> SUFFICES ASSUME NEW k \in Node, NEW p \in proc[k]
                   PROVE  /\ Reached(p) =>
                               /\ p.req = reqs[k][p.tag]
                               /\ \/ call'[k][p.tag].at = "negotiate" /\ p.ntfType \in Negotiation
                                  \/ call'[k][p.tag].at = "update" /\ p.ntfType \notin Negotiation
                                  \/ ipc[k] # None /\ OfLocal(p, ipc[k])
                          /\ ~Reached(p) => p.got
        BY <1>1 DEF ReachedInv, Reached, OfLocal
      <3>1. p.tag \in Tag
        BY DEF ProcessorsInv
      <3> QED BY <2>1, <2>2, <3>1 DEF SessionInv, ReachedInv
    <2>4. LeavesInv'
      <3> SUFFICES ASSUME NEW k \in Node, NEW u \in Tag
                   PROVE  /\ Leaves(k, u) => call'[k][u].at \in {"idle", "failed"}
                          /\ call'[k][u].at \in Waiting => reqs[k][u] > 0
        BY <1>1 DEF LeavesInv, Leaves
      <3> QED BY <1>5, <2>1 DEF SessionInv, LeavesInv, Waiting
    <2>5. UniqueInv'
      BY <1>1 DEF SessionInv, UniqueInv, Reached
    <2> QED BY <2>3, <2>4, <2>5 DEF SessionInv
  <1> QED BY <1>2, <1>4, <1>5

-----------------------------------------------------------------------------
(* The handlers that change processors, in detail. *)

\* The number the negotiator gives the processor a request reaches.
Number(n, type, id, old) ==
  IF type = "ALLOCATE"
  THEN IF n = Master THEN updateFreeChannel(n, id) ELSE old.id
  ELSE id

\* onLocalRequest: processor p takes the place of old, which waited for it.
RequestReached(n, type, t, id, old, p) ==
  /\ \/ old \in proc[n] /\ old.tag = t
     \/ /\ ~old.got
        /\ \A q \in proc[n] : q.tag = t /\ type = "ALLOCATE" => q.reqType # type
  /\ old.reqType = type /\ old.ntfType = type
  /\ p.tag = t /\ p.reqType = "UNKNOWN" /\ p.req = reqs[n][t] + 1
  /\ p.id = Number(n, type, id, old) /\ p.got = old.got
  /\ p.ntfType = IF old.got THEN Second(type) ELSE type
  /\ proc' = [proc EXCEPT ![n] = (@ \ {old}) \cup {p}]
  /\ net' = [net EXCEPT ![Other(n)] =
               @ \o (IF old.got THEN <<Ntf(type, p), Ntf(Second(type), p)>>
                     ELSE <<Ntf(type, p)>>)]
  /\ ipc[n] = None
  /\ n = Master /\ type = "ALLOCATE" =>
       free' = [free EXCEPT ![n] = updateFreeChannel(n, id)]
  /\ ~(n = Master /\ type = "ALLOCATE") => UNCHANGED free

\* onLocalRequest leaves one processor in place of another, or of none.
LEMMA RequestReaches ==
  ASSUME TypeOK, ProcessorsInv, NEW n \in Node, NEW type \in RequestType, NEW t \in Tag,
         NEW id \in Nat, onLocalRequest(n, type, t, id)
  PROVE  \E old \in Processor, p \in Processor : RequestReached(n, type, t, id, old, p)
  <1> DEFINE generates == type = "ALLOCATE" /\ n = Master
             next == updateFreeChannel(n, id)
             made(old) == [old EXCEPT !.reqType = "UNKNOWN", !.tag = t, !.req = reqs[n][t] + 1,
                         !.id = IF generates THEN next
                                ELSE IF type = "ALLOCATE" THEN @ ELSE id,
                         !.ntfType = IF old.got THEN Second(type) ELSE @]
  <1>1. PICK old \in obtainProcessorForRequest(n, type, t, id) :
          /\ proc' = [proc EXCEPT ![n] = (@ \ {old}) \cup {made(old)}]
          /\ net' = [net EXCEPT ![Other(n)] =
                       @ \o (IF old.got THEN <<Ntf(type, made(old)), Ntf(Second(type), made(old))>>
                             ELSE <<Ntf(type, made(old))>>)]
    BY DEF onLocalRequest
  <1>2. /\ ipc[n] = None
        /\ free' = [free EXCEPT ![n] = IF generates THEN next ELSE @]
    BY DEF onLocalRequest
  <1>3. old \in Processor /\ old.reqType = type /\ old.ntfType = type
    BY <1>1, FoundForRequest
  <1>4. \/ old \in proc[n] /\ old.tag = t
        \/ /\ ~old.got
           /\ \A q \in proc[n] : q.tag = t /\ type = "ALLOCATE" => q.reqType # type
    BY <1>1 DEF obtainProcessorForRequest, createProcessorForType, Finds
  <1>5. next \in Nat /\ reqs[n][t] + 1 \in Nat
    BY DEF updateFreeChannel, TypeOK
  <1>6. Second(type) \in NotificationType
    BY SecondType
  <1> HIDE DEF next
  <1>7. made(old) \in Processor
    <2>1. (IF generates THEN next ELSE IF type = "ALLOCATE" THEN old.id ELSE id) \in Nat
      BY <1>3, <1>5 DEF Processor
    <2>2. (IF old.got THEN Second(type) ELSE old.ntfType) \in NotificationType
      BY <1>3, <1>6 DEF Processor
    <2>3. \A i \in Nat, r \in Nat, k \in NotificationType :
            [old EXCEPT !.reqType = "UNKNOWN", !.tag = t, !.req = r, !.id = i,
                        !.ntfType = k] \in Processor
      BY <1>3 DEF Processor
    <2> HIDE DEF generates, Processor
    <2> QED BY <1>5, <2>1, <2>2, <2>3
  <1>8. /\ made(old).tag = t /\ made(old).reqType = "UNKNOWN"
        /\ made(old).req = reqs[n][t] + 1 /\ made(old).got = old.got
        /\ made(old).id = Number(n, type, id, old)
        /\ made(old).ntfType = IF old.got THEN Second(type) ELSE type
    BY <1>3 DEF Processor, Number, next
  <1>9. /\ generates => free' = [free EXCEPT ![n] = next]
        /\ ~generates => UNCHANGED free
    BY <1>2 DEF TypeOK
  <1> HIDE DEF made
  <1> HIDE DEF Processor, Number
  <1> QED BY <1>1, <1>2, <1>3, <1>4, <1>7, <1>8, <1>9 DEF next, RequestReached

\* onRemoteRequest: processor p takes the place of old, which expected m, and
\* answers when a request had reached that one.
RemoteReached(n, m, old, p) ==
  /\ \/ old \in proc[n] /\ old.tag = getComplementingTag(m.tag)
     \/ /\ ~Reached(old)
        /\ \A q \in proc[n] : q.tag = getComplementingTag(m.tag) /\ m.type = "ALLOCATE"
                                => q.ntfType # m.type
  /\ old.ntfType = m.type
  /\ p.tag = getComplementingTag(m.tag) /\ p.reqType = old.reqType
  /\ p.req = old.req /\ p.got = TRUE
  /\ m.type = "ALLOCATE" => p.id = IF n # Master THEN m.id ELSE old.id
  /\ p.ntfType = IF Reached(old) THEN Second(m.type) ELSE m.type
  /\ proc' = [proc EXCEPT ![n] = (@ \ {old}) \cup {p}]
  /\ net' = IF ~Reached(old) THEN Rest(n)
            ELSE [Rest(n) EXCEPT ![Other(n)] = Append(@, Ntf(Second(m.type), p))]

\* onRemoteRequest does the same with the head of the queue.
LEMMA RemoteRequestReaches ==
  ASSUME TypeOK, ProcessorsInv, NEW n \in Node, onRemoteRequest(n)
  PROVE  /\ Head(net[n]) \in Notification /\ Head(net[n]).type \in RequestType
         /\ net[n] # <<>>
         /\ UNCHANGED <<call, ipc, answers, free, map, ca, reqs, bounds>>
         /\ \E old \in Processor, p \in Processor : RemoteReached(n, Head(net[n]), old, p)
  <1> DEFINE m == Head(net[n])
             takesId == m.type = "ALLOCATE" /\ n # Master
             first(old) == old.reqType # "UNKNOWN"
             made(old) == [old EXCEPT !.got = TRUE, !.rreq = m.req,
                      !.id = IF takesId \/ (m.type = "CA_ALLOCATE" /\ first(old))
                             THEN m.id ELSE @,
                      !.tag = IF first(old) THEN getComplementingTag(m.tag) ELSE @,
                      !.ntfType = IF first(old) THEN @ ELSE Second(m.type)]
  <1>1. PICK old \in obtainProcessorForNotification(n, m) :
          /\ proc' = [proc EXCEPT ![n] = (@ \ {old}) \cup {made(old)}]
          /\ net' = IF first(old) THEN Rest(n)
                    ELSE [Rest(n) EXCEPT ![Other(n)] =
                            Append(@, Ntf(Second(m.type), made(old)))]
    BY DEF onRemoteRequest
  <1>2. UNCHANGED <<call, ipc, answers, free, map, ca, reqs, bounds>>
    BY DEF onRemoteRequest
  <1>3. net[n] \in Seq(Notification) /\ net[n] # <<>> /\ m.type \in RequestType
    BY DEF onRemoteRequest, Receives, TypeOK
  <1>4. m \in Notification
    <2> HIDE DEF Notification
    <2> QED BY <1>3
  <1>5. /\ m.req \in Nat /\ m.id \in Nat /\ getComplementingTag(m.tag) \in Tag
        /\ Second(m.type) \in NotificationType
    <2>1. m.req \in Nat /\ m.id \in Nat /\ m.tag \in Tag
      BY <1>4 DEF Notification
    <2> HIDE DEF m
    <2> QED BY <1>3, <2>1, ComplementIsTag, SecondType
  <1> HIDE DEF m
  <1>6. /\ \/ old \in proc[n] /\ old.tag = getComplementingTag(m.tag)
           \/ /\ ~Reached(old)
              /\ \A q \in proc[n] : q.tag = getComplementingTag(m.tag) /\ m.type = "ALLOCATE"
                                      => q.ntfType # m.type
        /\ old \in Processor /\ old.ntfType = m.type
    <2>1. CASE old \in proc[n] /\ old.ntfType = m.type /\ old.tag = getComplementingTag(m.tag)
      BY <2>1 DEF TypeOK
    <2>2. CASE /\ old = createProcessorForType(m.type)
               /\ \A q \in proc[n] : q.tag = getComplementingTag(m.tag) /\ m.type = "ALLOCATE"
                                       => q.ntfType # m.type
      BY <1>3, <2>2, NewProcessor DEF Reached, RequestType
    <2>3. \/ old \in proc[n] /\ old.ntfType = m.type /\ old.tag = getComplementingTag(m.tag)
          \/ /\ old = createProcessorForType(m.type)
             /\ \A q \in proc[n] : q.tag = getComplementingTag(m.tag) /\ m.type = "ALLOCATE"
                                     => q.ntfType # m.type
      BY <1>1 DEF obtainProcessorForNotification, Finds
    <2> QED BY <2>1, <2>2, <2>3
  <1>7. made(old) \in Processor
    BY <1>5, <1>6 DEF Processor
  <1>8. /\ made(old).tag = getComplementingTag(m.tag)
        /\ made(old).reqType = old.reqType /\ made(old).req = old.req
        /\ made(old).got = TRUE
        /\ m.type = "ALLOCATE" => made(old).id = IF n # Master THEN m.id ELSE old.id
        /\ made(old).ntfType = IF Reached(old) THEN Second(m.type) ELSE m.type
    BY <1>5, <1>6 DEF Processor, Reached
  <1>9. first(old) <=> ~Reached(old)
    BY DEF Reached
  <1> HIDE DEF made, first, Processor, Notification
  <1> QED BY <1>1, <1>2, <1>3, <1>4, <1>6, <1>7, <1>8, <1>9 DEF m, RemoteReached

\* onRemoteConfirmation: nothing is found, or p, which a request has reached,
\* goes, and the client is sent its number, the peer's too.
Confirms(n, m, p) ==
  /\ Reached(p) /\ p.ntfType = m.type
  /\ p.tag = getComplementingTag(m.tag) /\ p.id = m.id
  /\ proc' = [proc EXCEPT ![n] = @ \ {p}]
  /\ answers' = [answers EXCEPT ![n] = @ \cup
                   {[tag |-> p.tag, req |-> p.req, id |-> p.id]}]

\* onRemoteConfirmation takes away the processor that waited for it, if there is one.
LEMMA ConfirmationFinds ==
  ASSUME TypeOK, ProcessorsInv, NEW n \in Node, onRemoteConfirmation(n)
  PROVE  /\ Head(net[n]) \in Notification
         /\ Head(net[n]).type \in {"CHECK_MAP", "MAP_ADD_CID"}
         /\ net[n] # <<>> /\ net' = Rest(n)
         /\ UNCHANGED <<call, ipc, ca, reqs, bounds>>
         /\ \A k \in Node : free'[k] \in Nat /\ free'[k] >= free[k]
         /\ \/ UNCHANGED <<proc, answers>>
            \/ \E p \in proc[n] : Confirms(n, Head(net[n]), p)
  <1> DEFINE m == Head(net[n])
  <1>1. /\ net[n] \in Seq(Notification) /\ net[n] # <<>>
        /\ m.type \in {"CHECK_MAP", "MAP_ADD_CID"} /\ net' = Rest(n)
        /\ UNCHANGED <<call, ipc, ca, reqs, bounds>>
    BY DEF onRemoteConfirmation, Receives, TypeOK
  <1>2. m \in Notification
    <2> HIDE DEF Notification
    <2> QED BY <1>1
  <1>3. \/ UNCHANGED <<proc, answers, free, map>>
        \/ \E p \in obtainProcessorForNotification(n, m) :
             /\ proc' = [proc EXCEPT ![n] = @ \ {p}]
             /\ answers' = [answers EXCEPT ![n] = @ \cup
                              {[tag |-> p.tag, req |-> p.req, id |-> p.id]}]
             /\ UNCHANGED free \/ addChannelInfo(n, p.id, p.tag)
    BY DEF onRemoteConfirmation
  <1> HIDE DEF m
  <1>4. CASE UNCHANGED <<proc, answers, free, map>>
    <2>1. \A k \in Node : free'[k] \in Nat /\ free'[k] >= free[k]
      BY <1>4 DEF TypeOK
    <2> QED BY <1>1, <1>2, <1>4, <2>1 DEF m
  <1>5. ASSUME NEW p \in obtainProcessorForNotification(n, m),
               proc' = [proc EXCEPT ![n] = @ \ {p}],
               answers' = [answers EXCEPT ![n] = @ \cup
                              {[tag |-> p.tag, req |-> p.req, id |-> p.id]}],
               UNCHANGED free \/ addChannelInfo(n, p.id, p.tag)
        PROVE  /\ p \in proc[n] /\ Reached(p) /\ p.ntfType = m.type
               /\ p.tag = getComplementingTag(m.tag) /\ p.id = m.id
               /\ \A k \in Node : free'[k] \in Nat /\ free'[k] >= free[k]
    <2>1. /\ p \in proc[n] /\ p.ntfType = m.type
          /\ p.tag = getComplementingTag(m.tag) /\ p.id = m.id
      BY <1>1, <1>5 DEF obtainProcessorForNotification, Finds, RequestType
    <2>2. p.id \in Nat /\ Reached(p)
      <3>1. p \in Processor /\ (p.reqType # "UNKNOWN" => p.reqType = p.ntfType)
        BY <2>1 DEF TypeOK, ProcessorsInv
      <3> QED BY <1>1, <2>1, <3>1 DEF Processor, RequestType, Reached
    <2>3. \A k \in Node : free'[k] \in Nat /\ free'[k] >= free[k]
      <3>1. \A k \in Node : free[k] \in Nat
        BY DEF TypeOK
      <3>2. CASE UNCHANGED free
        BY <3>1, <3>2
      <3>3. CASE addChannelInfo(n, p.id, p.tag)
        <4>1. \A k \in Node : free'[k] = IF k = n THEN updateFreeChannel(n, p.id) ELSE free[k]
          BY <3>3 DEF addChannelInfo, TypeOK
        <4> QED BY <2>2, <3>1, <4>1 DEF updateFreeChannel
      <3> QED BY <1>5, <3>2, <3>3
    <2> QED BY <2>1, <2>2, <2>3
  <1>6. CASE \E p \in obtainProcessorForNotification(n, m) :
             /\ proc' = [proc EXCEPT ![n] = @ \ {p}]
             /\ answers' = [answers EXCEPT ![n] = @ \cup
                              {[tag |-> p.tag, req |-> p.req, id |-> p.id]}]
             /\ UNCHANGED free \/ addChannelInfo(n, p.id, p.tag)
    BY <1>1, <1>2, <1>5, <1>6 DEF m, Confirms
  <1> QED BY <1>3, <1>4, <1>6

\* A request is the one thing under way for its client.
LEMMA RequestKeepsSession ==
  ASSUME SessionInv, TypeOK, ProcessorsInv, AnswersInv, NEW n \in Node,
         NEW type \in RequestType, NEW t \in Tag, NEW id \in Nat,
         call[n][t].at \notin Waiting, onLocalRequest(n, type, t, id),
         Goes(n, t, IF type = "ALLOCATE" THEN "negotiate" ELSE "update", id)
  PROVE  SessionInv'
  <1>0. PICK old \in Processor, p \in Processor : RequestReached(n, type, t, id, old, p)
    BY RequestReaches
  <1>1. /\ \/ old \in proc[n] /\ old.tag = t
           \/ /\ ~old.got
              /\ \A q \in proc[n] : q.tag = t /\ type = "ALLOCATE" => q.reqType # type
        /\ old.reqType = type /\ old.ntfType = type
        /\ p.tag = t /\ p.reqType = "UNKNOWN" /\ p.req = reqs[n][t] + 1
        /\ p.ntfType = IF old.got THEN Second(type) ELSE type
        /\ proc' = [proc EXCEPT ![n] = (@ \ {old}) \cup {p}]
        /\ ipc[n] = None
    BY <1>0 DEF RequestReached
  <1>2. /\ reqs' = [reqs EXCEPT ![n][t] = @ + 1] /\ UNCHANGED <<ipc, answers>>
    BY DEF onLocalRequest
  <1> DEFINE to == IF type = "ALLOCATE" THEN "negotiate" ELSE "update"
  <1>3. /\ \A k \in Node, u \in Tag :
             /\ reqs[k][u] \in Nat
             /\ reqs'[k][u] = reqs[k][u] + (IF k = n /\ u = t THEN 1 ELSE 0)
             /\ call'[k][u] = IF k = n /\ u = t THEN [at |-> to, id |-> id] ELSE call[k][u]
        /\ \A k \in Node : proc'[k] = IF k = n THEN (proc[n] \ {old}) \cup {p} ELSE proc[k]
    BY <1>1, <1>2 DEF Goes, TypeOK
  <1>4. \A q \in proc[n] : q.tag = t => ~Reached(q)
    BY <1>1, NotWaitingNotReached
  <1>5. p.ntfType \in Negotiation <=> type = "ALLOCATE"
    BY <1>1, SecondType DEF Negotiation, RequestType
  <1>6. \A k \in Node : \A q \in proc[k] : q.tag \in Tag
    BY DEF ProcessorsInv
  <1>7. ReachedInv'
    <2> SUFFICES ASSUME NEW k \in Node, NEW q \in proc'[k]
                 PROVE  /\ Reached(q) =>
                             /\ q.req = reqs'[k][q.tag]
                             /\ \/ call'[k][q.tag].at = "negotiate" /\ q.ntfType \in Negotiation
                                \/ call'[k][q.tag].at = "update" /\ q.ntfType \notin Negotiation
                                \/ ipc[k] # None /\ OfLocal(q, ipc[k])
                        /\ ~Reached(q) => q.got
      BY <1>2 DEF ReachedInv, Reached, OfLocal
    <2>1. CASE k = n /\ q = p
      BY <1>1, <1>3, <1>5, <2>1 DEF Reached
    <2>2. CASE q \in proc[k]
      <3>1. Reached(q) => ~(k = n /\ q.tag = t)
        BY <1>4, <2>2
      <3> QED BY <1>3, <1>6, <2>2, <3>1 DEF SessionInv, ReachedInv
    <2> QED BY <1>3, <2>1, <2>2
  <1>8. LeavesInv'
    <2> SUFFICES ASSUME NEW k \in Node, NEW u \in Tag
                 PROVE  /\ Leaves(k, u) => call'[k][u].at \in {"idle", "failed"}
                        /\ call'[k][u].at \in Waiting => reqs'[k][u] > 0
      BY <1>2 DEF LeavesInv, Leaves
    <2>1. k = n => ~Leaves(k, u)
      BY <1>1 DEF Leaves
    <2> QED BY <1>3, <2>1 DEF SessionInv, LeavesInv
  <1>9. UniqueInv'
    <2>1. \A q \in proc[n] \ {old} : q.tag = t => ~(p.ntfType = "ALLOCATE" /\ q.ntfType = "ALLOCATE")
      <3> SUFFICES ASSUME NEW q \in proc[n], q # old, q.tag = t, p.ntfType = "ALLOCATE",
                          q.ntfType = "ALLOCATE"
                   PROVE  FALSE
        OBVIOUS
      <3>1. type = "ALLOCATE"
        BY <1>5 DEF Negotiation
      <3>2. q.reqType = "ALLOCATE"
        BY <1>4 DEF ProcessorsInv, Reached
      <3>3. old \in proc[n] /\ old.tag = t
        BY <1>1, <3>1, <3>2
      <3> QED BY <1>1, <3>1, <3>3 DEF SessionInv, UniqueInv
    <2>2. \A k \in Node : \A r \in answers[k] : r.tag \in Tag /\ r.req \in Nat /\ r.req <= reqs[k][r.tag]
      BY DEF AnswersInv, TypeOK, Answer
    <2>3. \A r \in answers[n] : r.tag = t => r.req # reqs'[n][t]
      BY <1>3, <2>2
    <2> SUFFICES ASSUME NEW k \in Node, NEW q \in proc'[k]
                 PROVE  /\ \A s \in proc'[k] : q.tag = s.tag =>
                             /\ Reached(q) /\ Reached(s) => q = s
                             /\ q.ntfType = "ALLOCATE" /\ s.ntfType = "ALLOCATE" => q = s
                        /\ \A r \in answers[k] :
                             r.tag = q.tag /\ r.req = reqs'[k][r.tag] => ~Reached(q)
      BY <1>2 DEF UniqueInv, Reached
    <2>4. CASE k # n
      BY <1>3, <2>2, <2>4 DEF SessionInv, UniqueInv
    <2>5. CASE k = n
      <3>1. \A s \in proc'[k] : q.tag = s.tag =>
                             /\ Reached(q) /\ Reached(s) => q = s
                             /\ q.ntfType = "ALLOCATE" /\ s.ntfType = "ALLOCATE" => q = s
        BY <1>1, <1>3, <1>4, <2>1, <2>5 DEF SessionInv, UniqueInv
      <3>2. \A r \in answers[k] : r.tag = q.tag /\ r.req = reqs'[k][r.tag] => ~Reached(q)
        BY <1>1, <1>3, <1>4, <2>2, <2>3, <2>5 DEF SessionInv, UniqueInv
      <3> QED BY <3>1, <3>2
    <2> QED BY <2>4, <2>5
  <1> QED BY <1>7, <1>8, <1>9 DEF SessionInv

\* The peer's request changes one processor, and no session.
LEMMA RemoteRequestKeepsSession ==
  ASSUME SessionInv, TypeOK, ProcessorsInv, NEW n \in Node, onRemoteRequest(n)
  PROVE  SessionInv'
  <1> DEFINE m == Head(net[n])
  <1>1. m.type \in RequestType /\ UNCHANGED <<call, ipc, answers, reqs>>
    BY RemoteRequestReaches
  <1>2. PICK old \in Processor, p \in Processor : RemoteReached(n, m, old, p)
    BY RemoteRequestReaches
  <1> HIDE DEF m
  <1>3. /\ \/ old \in proc[n] /\ old.tag = p.tag
           \/ /\ ~Reached(old)
              /\ \A q \in proc[n] : q.tag = p.tag /\ m.type = "ALLOCATE" => q.ntfType # m.type
        /\ old.ntfType = m.type /\ p.reqType = old.reqType /\ p.req = old.req /\ p.got
        /\ p.ntfType = IF Reached(old) THEN Second(m.type) ELSE m.type
        /\ \A k \in Node : proc'[k] = IF k = n THEN (proc[n] \ {old}) \cup {p} ELSE proc[k]
    BY <1>2 DEF RemoteReached, TypeOK
  <1>4. /\ Reached(p) <=> Reached(old)
        /\ Reached(p) => p.ntfType # "ALLOCATE" /\ old \in proc[n] /\ p.tag = old.tag
        /\ Reached(p) => (p.ntfType \in Negotiation <=> old.ntfType \in Negotiation)
        /\ ~Reached(p) => p.ntfType = old.ntfType
    BY <1>1, <1>3, SecondType DEF Reached, Negotiation, RequestType
  <1>5. ReachedInv'
    <2> SUFFICES ASSUME NEW k \in Node, NEW q \in proc'[k]
                 PROVE  /\ Reached(q) =>
                             /\ q.req = reqs[k][q.tag]
                             /\ \/ call[k][q.tag].at = "negotiate" /\ q.ntfType \in Negotiation
                                \/ call[k][q.tag].at = "update" /\ q.ntfType \notin Negotiation
                                \/ ipc[k] # None /\ OfLocal(q, ipc[k])
                        /\ ~Reached(q) => q.got
      BY <1>1 DEF ReachedInv, Reached, OfLocal
    <2>1. CASE q \in proc[k]
      BY <2>1 DEF SessionInv, ReachedInv
    <2>2. CASE k = n /\ q = p
      <3>1. CASE Reached(p)
        <4>1. OfLocal(old, ipc[n]) => OfLocal(p, ipc[n])
          BY <1>3, <1>4, <3>1 DEF OfLocal
        <4> QED BY <1>3, <1>4, <2>2, <3>1, <4>1 DEF SessionInv, ReachedInv
      <3> QED BY <1>3, <2>2, <3>1
    <2> QED BY <1>3, <2>1, <2>2
  <1>6. LeavesInv'
    BY <1>1 DEF SessionInv, LeavesInv, Leaves
  <1>7. UniqueInv'
    <2>1. \A q \in proc[n] : q # old /\ q.tag = p.tag =>
            /\ ~(Reached(q) /\ Reached(p))
            /\ ~(q.ntfType = "ALLOCATE" /\ p.ntfType = "ALLOCATE")
      BY <1>3, <1>4 DEF SessionInv, UniqueInv
    <2>2. \A r \in answers[n] : r.tag = p.tag /\ r.req = reqs[n][r.tag] => ~Reached(p)
      BY <1>4 DEF SessionInv, UniqueInv
    <2> SUFFICES ASSUME NEW k \in Node, NEW q \in proc'[k]
                 PROVE  /\ \A s \in proc'[k] : q.tag = s.tag =>
                             /\ Reached(q) /\ Reached(s) => q = s
                             /\ q.ntfType = "ALLOCATE" /\ s.ntfType = "ALLOCATE" => q = s
                        /\ \A r \in answers[k] :
                             r.tag = q.tag /\ r.req = reqs[k][r.tag] => ~Reached(q)
      BY <1>1 DEF UniqueInv, Reached
    <2> QED BY <1>3, <2>1, <2>2 DEF SessionInv, UniqueInv
  <1> QED BY <1>5, <1>6, <1>7 DEF SessionInv

\* The answered processor is gone.
LEMMA ConfirmationKeepsSession ==
  ASSUME SessionInv, TypeOK, ProcessorsInv, NEW n \in Node, onRemoteConfirmation(n)
  PROVE  SessionInv'
  <1>1. UNCHANGED <<call, ipc, reqs>>
    BY ConfirmationFinds
  <1>2. \/ UNCHANGED <<proc, answers>>
        \/ \E p \in proc[n] : Confirms(n, Head(net[n]), p)
    BY ConfirmationFinds
  <1>3. CASE UNCHANGED <<proc, answers>>
    BY <1>1, <1>3, MovesOnKeeps DEF MovesOn
  <1>4. ASSUME NEW p \in proc[n], Confirms(n, Head(net[n]), p)
        PROVE  SessionInv'
    <2>1. /\ \A k \in Node : proc'[k] = IF k = n THEN proc[n] \ {p} ELSE proc[k]
          /\ \A k \in Node : \A r \in answers'[k] :
               r \in answers[k] \/ (k = n /\ r.tag = p.tag)
      BY <1>4 DEF Confirms, TypeOK
    <2>2. Reached(p)
      BY <1>4 DEF Confirms
    <2>3. ReachedInv'
      BY <1>1, <2>1 DEF SessionInv, ReachedInv, Reached, OfLocal
    <2>4. LeavesInv'
      BY <1>1 DEF SessionInv, LeavesInv, Leaves
    <2>5. UniqueInv'
      <3> SUFFICES ASSUME NEW k \in Node, NEW q \in proc'[k]
                   PROVE  /\ \A s \in proc'[k] : q.tag = s.tag =>
                               /\ Reached(q) /\ Reached(s) => q = s
                               /\ q.ntfType = "ALLOCATE" /\ s.ntfType = "ALLOCATE" => q = s
                          /\ \A r \in answers'[k] :
                               r.tag = q.tag /\ r.req = reqs[k][r.tag] => ~Reached(q)
        BY <1>1 DEF UniqueInv, Reached
      <3>1. q \in proc[k] /\ (k = n => q # p)
        BY <2>1
      <3>2. k = n /\ q.tag = p.tag => ~Reached(q)
        BY <2>2, <3>1 DEF SessionInv, UniqueInv
      <3> QED BY <2>1, <3>1, <3>2 DEF SessionInv, UniqueInv
    <2> QED BY <2>3, <2>4, <2>5 DEF SessionInv
  <1> QED BY <1>2, <1>3, <1>4

-----------------------------------------------------------------------------
(* The kinds of steps. *)

\* Nothing new is under way between the negotiators and their clients.
QuietStep ==
  /\ MovesOn /\ UNCHANGED <<ipc, reqs, free>>
  /\ \A k \in Node :
       /\ proc'[k] \subseteq proc[k] /\ answers'[k] \subseteq answers[k]
       /\ net'[k] = net[k] \/ (net[k] # <<>> /\ net'[k] = Tail(net[k]))

\* A client's request, at the start or with the channel open.
RequestStep(n, type, t, id) ==
  /\ call[n][t].at \notin Waiting /\ onLocalRequest(n, type, t, id)
  /\ Goes(n, t, IF type = "ALLOCATE" THEN "negotiate" ELSE "update", id)
  /\ type = "CA_ALLOCATE" => call[n][t] = [at |-> "caWait", id |-> id]

Removes(n, t) == responseTimeout(n, t) \/ OnConnectionLost(n, t)

\* A refusal or a failure moves on the thread that waits for the channel.
LEMMA ToldMovesOn ==
  ASSUME TypeOK, NEW n \in Node, NEW i, NEW at \in {"renegotiate", "failed"},
         call' = [call EXCEPT ![n] = [t \in Tag |->
           IF CACaller(n, t, i) THEN [@[t] EXCEPT !.at = at] ELSE @[t]]]
  PROVE  MovesOn
  <1> SUFFICES ASSUME NEW k \in Node, NEW u \in Tag
               PROVE  \/ call'[k][u] = call[k][u]
                      \/ /\ call[k][u].at \notin {"negotiate", "update", "idle", "failed"}
                         /\ call'[k][u].at = at
    BY DEF MovesOn, Waiting, Asks
  <1>1. call[k][u] \in Call
    BY DEF TypeOK
  <1>2. call'[k][u] = IF k = n /\ CACaller(n, u, i) THEN [call[k][u] EXCEPT !.at = at] ELSE call[k][u]
    BY DEF TypeOK
  <1>3. [call[k][u] EXCEPT !.at = at].at = at
    BY <1>1 DEF Call
  <1> QED BY <1>2, <1>3 DEF CACaller

\* The owner of a channel that was closed moves on.
LEMMA OwnersMoveOn ==
  ASSUME NEW i, OwnersTold(i)
  PROVE  MovesOn
  BY DEF OwnersTold, Deleted, MovesOn, Waiting, Asks

\* The Connectivity Agents only send clients on.
LEMMA AgentStepIsQuiet ==
  ASSUME TypeOK, NEW i \in Id, CAStep(i) \/ \E n \in Node : CAFails(n, i)
  PROVE  QuietStep
  <1>1. UNCHANGED <<negotiators, reqs>>
    BY DEF CAStep, CAOpens, CARefuses, CAForgotten, CAFails
  <1>2. MovesOn
    <2>1. CASE UNCHANGED call
      BY <2>1 DEF MovesOn
    <2>2. CASE \E n \in Node : CARefuses(n, i) \/ CAFails(n, i)
      BY <2>2, ToldMovesOn DEF CARefuses, CAFails
    <2> QED BY <2>1, <2>2 DEF CAStep, CAOpens, CAForgotten
  <1> QED BY <1>1, <1>2 DEF QuietStep, negotiators

\* A client that turns to its agent sends no request.
LEMMA ClientStepIsQuiet ==
  ASSUME TypeOK, NEW n \in Node, NEW t \in Tag, caAllocate(n, t) \/ deallocateChannel(n, t)
  PROVE  QuietStep
  <1>1. UNCHANGED <<proc, ipc, net, answers, free, reqs>>
    BY DEF caAllocate, deallocateChannel, negotiators
  <1>2. MovesOn
    <2>1. CASE caAllocate(n, t)
      <3>1. /\ call[n][t].at = "caAllocate"
            /\ \E at \in {"caWait", "renegotiate", "failed"}, id \in Nat :
                 Goes(n, t, at, id) /\ (at = "caWait" => id = call[n][t].id)
        BY <2>1 DEF caAllocate, Call, TypeOK
      <3>2. PICK at \in {"caWait", "renegotiate", "failed"}, id \in Nat :
                 Goes(n, t, at, id) /\ (at = "caWait" => id = call[n][t].id)
        BY <3>1
      <3>3. \A k \in Node, u \in Tag :
              call'[k][u] = IF k = n /\ u = t THEN [at |-> at, id |-> id] ELSE call[k][u]
        BY <3>2 DEF Goes, TypeOK
      <3> QED BY <3>1, <3>2, <3>3 DEF MovesOn, Waiting, Asks
    <2>2. CASE deallocateChannel(n, t)
      BY <2>2, OwnersMoveOn DEF deallocateChannel
    <2> QED BY <2>1, <2>2
  <1> QED BY <1>1, <1>2 DEF QuietStep

\* A removal the peer asked for, or of an unused channel, asks for nothing new.
LEMMA RemovalsAreQuiet ==
  ASSUME TypeOK, NEW n \in Node, onRemoteRemoval(n) \/ checkChannels(n)
  PROVE  QuietStep
  <1>1. CASE onRemoteRemoval(n)
    <2>1. /\ proc' = [proc EXCEPT ![n] = {p \in @ : ~OfRemote(p, Head(net[n]))}]
          /\ net' = Rest(n) /\ net[n] # <<>>
          /\ UNCHANGED <<call, ipc, answers, free, reqs>>
      BY <1>1 DEF onRemoteRemoval, Receives
    <2>2. \A k \in Node : /\ proc'[k] \subseteq proc[k]
                          /\ net'[k] = IF k = n THEN Tail(net[n]) ELSE net[k]
      BY <2>1 DEF TypeOK, Rest
    <2> QED BY <2>1, <2>2 DEF QuietStep, MovesOn
  <1>2. CASE checkChannels(n)
    BY <1>2, OwnersMoveOn DEF checkChannels, QuietStep
  <1> QED BY <1>1, <1>2

\* The three steps by which a client sends a request.
LEMMA ClientRequests ==
  ASSUME TypeOK, NEW n \in Node, NEW t \in Tag,
         allocateChannel(n, t) \/ negotiateAgain(n, t) \/ updateMapWithCID(n, t)
  PROVE  \E type \in RequestType, id \in Nat : RequestStep(n, type, t, id)
  <1>1. call[n][t] \in Call /\ call[n][t].id \in Nat
    BY DEF TypeOK, Call
  <1>2. CASE allocateChannel(n, t)
    <2>1. RequestStep(n, "ALLOCATE", t, 0)
      BY <1>2 DEF allocateChannel, RequestStep, Waiting
    <2> QED BY <2>1 DEF RequestType
  <1>3. CASE negotiateAgain(n, t)
    <2>1. RequestStep(n, "ALLOCATE", t, call[n][t].id)
      BY <1>3 DEF negotiateAgain, RequestStep, Waiting
    <2> QED BY <1>1, <2>1 DEF RequestType
  <1>4. CASE updateMapWithCID(n, t)
    <2>1. call[n][t] = [at |-> "caWait", id |-> call[n][t].id]
      BY <1>1, <1>4 DEF updateMapWithCID, Call
    <2>2. RequestStep(n, "CA_ALLOCATE", t, call[n][t].id)
      BY <1>4, <2>1 DEF updateMapWithCID, RequestStep, Waiting
    <2> QED BY <1>1, <2>2 DEF RequestType
  <1> QED BY <1>2, <1>3, <1>4

\* Every step is one of these.
LEMMA StepKinds ==
  ASSUME TypeOK, [Next]_vars
  PROVE  \/ QuietStep
         \/ \E n \in Node : onRemoteRequest(n) \/ onRemoteConfirmation(n)
         \/ \E n \in Node : RemoveLocal(n) \/ getAnswer(n)
         \/ \E n \in Node, t \in Tag : Removes(n, t)
         \/ \E n \in Node, t \in Tag, type \in RequestType, id \in Nat :
              RequestStep(n, type, t, id)
  <1>1. CASE UNCHANGED vars
    BY <1>1 DEF vars, negotiators, QuietStep, MovesOn
  <1>2. CASE \E n \in Node : NegotiatorStep(n) \/ getAnswer(n) \/ checkChannels(n)
    BY <1>2, RemovalsAreQuiet DEF NegotiatorStep
  <1>3. CASE \E n \in Node : \E t \in Tag :
               \/ ClientStep(n, t) \/ allocateChannel(n, t) \/ deallocateChannel(n, t)
               \/ responseTimeout(n, t) \/ OnConnectionLost(n, t)
    BY <1>3, ClientRequests, ClientStepIsQuiet DEF ClientStep, Removes
  <1>4. CASE \E i \in Id : CAStep(i) \/ \E n \in Node : CAFails(n, i)
    BY <1>4, AgentStepIsQuiet
  <1> QED BY <1>1, <1>2, <1>3, <1>4 DEF Next

\* Every step keeps the sessions.
LEMMA StepKeepsSession ==
  ASSUME SessionInv, NegotiationInv, [Next]_vars
  PROVE  SessionInv'
  <1>1. TypeOK /\ ProcessorsInv /\ AnswersInv
    BY DEF NegotiationInv
  <1>2. CASE QuietStep
    BY <1>1, <1>2, MovesOnKeeps DEF QuietStep
  <1>3. CASE \E n \in Node : onRemoteRequest(n) \/ onRemoteConfirmation(n)
    BY <1>1, <1>3, RemoteRequestKeepsSession, ConfirmationKeepsSession
  <1>4. CASE \E n \in Node : RemoveLocal(n) \/ getAnswer(n)
    BY <1>1, <1>4, RemoveLocalKeeps, AnswerTaken
  <1>5. CASE \E n \in Node, t \in Tag : Removes(n, t)
    BY <1>1, <1>5, RemovalKeeps DEF Removes
  <1>6. CASE \E n \in Node, t \in Tag, type \in RequestType, id \in Nat :
               RequestStep(n, type, t, id)
    BY <1>1, <1>6, RequestKeepsSession DEF RequestStep
  <1> QED BY <1>1, <1>2, <1>3, <1>4, <1>5, <1>6, StepKinds

-----------------------------------------------------------------------------
(* The numbers of the first exchange. *)

\* A number under way to n, of a tag of the other device.
Sent(n, t, types, k) ==
  \E i \in DOMAIN net[n] :
    net[n][i].tag = t /\ net[n][i].type \in types /\ net[n][i].id = k

\* The number that the client of t is answered, or asks its agent for.
Held(n, t, k) ==
  \/ /\ call[n][t].at = "negotiate"
     /\ \E r \in answers[n] : r.tag = t /\ r.req = reqs[n][t] /\ r.id = k
  \/ Asks(n, t) /\ call[n][t].id = k

Bargains(p, t) == p.tag = t /\ p.ntfType \in Negotiation
Offers(t, m) == m.tag = t /\ m.type \in Negotiation

\* The numbers the master has chosen for its tag t, those the slave has of it,
\* and those the slave has confirmed.
Chosen(t, k) ==
  \/ \E p \in proc[Master] : Bargains(p, t) /\ Reached(p) /\ p.id = k
  \/ Held(Master, t, k)

Offered(t, k) ==
  \/ Sent(Slave, t, Negotiation, k)
  \/ \E p \in proc[Slave] : Bargains(p, getComplementingTag(t)) /\ p.got /\ p.id = k
  \/ Held(Slave, getComplementingTag(t), k)

Confirmed(t, k) ==
  Sent(Master, getComplementingTag(t), {"CHECK_MAP"}, k) \/ Held(Master, t, k)

\* Offers reach the slave in the order of their numbers.
InOrder(q, t) ==
  \A j \in DOMAIN q : \A i \in DOMAIN q :
    i < j /\ Offers(t, q[i]) /\ Offers(t, q[j]) => q[i].id <= q[j].id

\* The offer a processor of the slave has taken came before those in the queue.
TakenFirst(t) ==
  \A p \in proc[Slave] : \A j \in DOMAIN net[Slave] :
    Bargains(p, getComplementingTag(t)) /\ p.got /\ Offers(t, net[Slave][j])
      => p.id <= net[Slave][j].id

\* What was confirmed is not above what is offered, and that not above what the
\* master has chosen: its numbers only grow.
Bounded(t) ==
  \A k, l \in Nat :
    /\ Offered(t, k) \/ Chosen(t, k) \/ Confirmed(t, k) => k <= free[Master]
    /\ Offered(t, k) /\ Chosen(t, l) => k <= l
    /\ Confirmed(t, k) /\ (Offered(t, l) \/ Chosen(t, l)) => k <= l

NumberInv == \A t \in Tag : Bounded(t) /\ InOrder(net[Slave], t) /\ TakenFirst(t)

-----------------------------------------------------------------------------
\* Each end of a tag is the other's other end.
LEMMA ComplementTwice ==
  /\ \A t \in Tag : getComplementingTag(t) \in Tag /\ getComplementingTag(getComplementingTag(t)) = t
  /\ \A t, u \in Tag : getComplementingTag(t) = getComplementingTag(u) => t = u
  <1>1. \A a \in Name, s \in Side :
          /\ getComplementingTag(<<a, s>>) = <<a, IF s = "SERVER" THEN "CLIENT" ELSE "SERVER">>
          /\ (IF s = "SERVER" THEN "CLIENT" ELSE "SERVER") \in Side
    BY DEF getComplementingTag, Side
  <1>2. \A t \in Tag : getComplementingTag(t) \in Tag /\ getComplementingTag(getComplementingTag(t)) = t
    <2> SUFFICES ASSUME NEW t \in Tag
                 PROVE getComplementingTag(t) \in Tag /\ getComplementingTag(getComplementingTag(t)) = t
      OBVIOUS
    <2>1. PICK a \in Name, s \in Side : t = <<a, s>>
      BY DEF Tag
    <2>2. PICK o \in Side : o = IF s = "SERVER" THEN "CLIENT" ELSE "SERVER"
      BY <1>1
    <2>3. getComplementingTag(t) = <<a, o>> /\ getComplementingTag(<<a, o>>) = <<a, s>>
      BY <1>1, <2>1, <2>2 DEF Side
    <2>4. <<a, o>> \in Tag
      BY DEF Tag
    <2> QED BY <2>1, <2>3, <2>4
  <1> QED BY <1>2

\* The numbers are natural.
LEMMA NumbersNatural ==
  ASSUME TypeOK
  PROVE  /\ \A n \in Node : \A i \in DOMAIN net[n] : net[n][i] \in Notification /\ net[n][i].id \in Nat
         /\ \A n \in Node : \A p \in proc[n] : p.id \in Nat
         /\ \A n \in Node : \A r \in answers[n] : r.id \in Nat /\ r.tag \in Tag
         /\ \A n \in Node, t \in Tag : call[n][t].id \in Nat
         /\ \A n \in Node : free[n] \in Nat
  <1>1. \A n \in Node : \A i \in DOMAIN net[n] : net[n][i] \in Notification
    <2> HIDE DEF Notification
    <2> QED BY DEF TypeOK
  <1>2. \A m \in Notification : m.id \in Nat
    BY DEF Notification
  <1> QED BY <1>1, <1>2 DEF TypeOK, Processor, Answer, Call

\* The elements of a queue that was read, or has a message more.
LEMMA QueueElements ==
  ASSUME NEW q \in Seq(Notification), NEW m \in Notification
  PROVE  /\ q # <<>> => /\ 1 \in DOMAIN q /\ Head(q) = q[1]
                        /\ \A i \in DOMAIN Tail(q) : i \in Nat /\ i >= 1 /\ i + 1 \in DOMAIN q
                                                     /\ Tail(q)[i] = q[i + 1]
         /\ \A i \in DOMAIN Append(q, m) :
              \/ i \in DOMAIN q /\ Append(q, m)[i] = q[i] /\ i < Len(q) + 1
              \/ i = Len(q) + 1 /\ Append(q, m)[i] = m
         /\ \A i \in DOMAIN q : i \in Nat
         /\ Len(q) \in Nat
  <1> HIDE DEF Notification
  <1> QED OBVIOUS

\* Two messages sent by one handler are appended one after the other.
LEMMA TwoMessages ==
  ASSUME NEW q \in Seq(Notification), NEW a \in Notification, NEW b \in Notification
  PROVE  q \o <<a>> = Append(q, a) /\ q \o <<a, b>> = Append(Append(q, a), b)
         /\ Append(q, a) \in Seq(Notification)
  <1> HIDE DEF Notification
  <1> QED OBVIOUS

\* The order of the offers survives a message read, or one that is not below.
LEMMA OrderKept ==
  ASSUME NEW q \in Seq(Notification), NEW t, InOrder(q, t)
  PROVE  /\ q # <<>> => InOrder(Tail(q), t)
         /\ \A m \in Notification :
              (Offers(t, m) => \A i \in DOMAIN q : Offers(t, q[i]) => q[i].id <= m.id)
                => InOrder(Append(q, m), t)
  <1>1. ASSUME q # <<>>
        PROVE  InOrder(Tail(q), t)
    <2> SUFFICES ASSUME NEW j \in DOMAIN Tail(q), NEW i \in DOMAIN Tail(q), i < j,
                        Offers(t, Tail(q)[i]), Offers(t, Tail(q)[j])
                 PROVE  Tail(q)[i].id <= Tail(q)[j].id
      BY DEF InOrder
    <2>1. \A k \in DOMAIN Tail(q) : k \in Nat /\ k + 1 \in DOMAIN q /\ Tail(q)[k] = q[k + 1]
      BY <1>1, QueueElements
    <2>2. i + 1 < j + 1
      BY <2>1
    <2> QED BY <2>1, <2>2 DEF InOrder
  <1>2. ASSUME NEW m \in Notification,
               Offers(t, m) => \A i \in DOMAIN q : Offers(t, q[i]) => q[i].id <= m.id
        PROVE  InOrder(Append(q, m), t)
    <2> SUFFICES ASSUME NEW j \in DOMAIN Append(q, m), NEW i \in DOMAIN Append(q, m), i < j,
                        Offers(t, Append(q, m)[i]), Offers(t, Append(q, m)[j])
                 PROVE  Append(q, m)[i].id <= Append(q, m)[j].id
      BY DEF InOrder
    <2>1. \A k \in DOMAIN Append(q, m) :
            \/ k \in DOMAIN q /\ Append(q, m)[k] = q[k] /\ k < Len(q) + 1
            \/ k = Len(q) + 1 /\ Append(q, m)[k] = m
      BY QueueElements
    <2>2. CASE j \in DOMAIN q /\ Append(q, m)[j] = q[j] /\ j < Len(q) + 1
      <3>1. i # Len(q) + 1
        BY <2>2, QueueElements
      <3> QED BY <2>1, <2>2, <3>1 DEF InOrder
    <2>3. CASE j = Len(q) + 1 /\ Append(q, m)[j] = m
      <3>1. i \in DOMAIN q /\ Append(q, m)[i] = q[i]
        BY <2>1, <2>3, QueueElements
      <3> QED BY <1>2, <2>3, <3>1
    <2> QED BY <2>1, <2>2, <2>3
  <1> QED BY <1>1, <1>2

\* The client whose processor still bargains holds no number.
LEMMA BargainsNotHeld ==
  ASSUME SessionInv, NEW n \in Node, NEW p \in proc[n], p.tag \in Tag, Reached(p),
         p.ntfType \in Negotiation, NEW k
  PROVE  ~Held(n, p.tag, k)
  <1>1. call[n][p.tag].at \in {"negotiate", "idle", "failed"}
    BY ReachedWaits
  <1>2. \A r \in answers[n] : r.tag = p.tag => r.req # reqs[n][p.tag]
    BY DEF SessionInv, UniqueInv
  <1> QED BY <1>1, <1>2 DEF Held, Asks

\* What a step keeps that only forgets numbers.
LEMMA ForgetsNumbers ==
  ASSUME NumberInv, TypeOK, free'[Master] \in Nat, free'[Master] >= free[Master],
         NEW t \in Tag,
         \A k \in Nat :
           /\ Offered(t, k)' => Offered(t, k)
           /\ Chosen(t, k)' => Chosen(t, k)
           /\ Confirmed(t, k)' => Confirmed(t, k)
  PROVE  Bounded(t)'
  <1>1. Bounded(t) /\ free[Master] \in Nat
    BY DEF NumberInv, TypeOK, Node
  <1> SUFFICES ASSUME NEW k \in Nat, NEW l \in Nat
               PROVE  /\ Offered(t, k)' \/ Chosen(t, k)' \/ Confirmed(t, k)' => k <= free'[Master]
                      /\ Offered(t, k)' /\ Chosen(t, l)' => k <= l
                      /\ Confirmed(t, k)' /\ (Offered(t, l)' \/ Chosen(t, l)') => k <= l
    BY DEF Bounded
  <1>2. /\ Offered(t, k) \/ Chosen(t, k) \/ Confirmed(t, k) => k <= free[Master]
        /\ Offered(t, k) /\ Chosen(t, l) => k <= l
        /\ Confirmed(t, k) /\ (Offered(t, l) \/ Chosen(t, l)) => k <= l
    BY <1>1 DEF Bounded
  <1>3. k <= free[Master] => k <= free'[Master]
    BY <1>1
  <1>4. /\ Offered(t, k)' => Offered(t, k)
        /\ Chosen(t, k)' => Chosen(t, k)
        /\ Confirmed(t, k)' => Confirmed(t, k)
        /\ Offered(t, l)' => Offered(t, l)
        /\ Chosen(t, l)' => Chosen(t, l)
    OBVIOUS
  <1> QED BY <1>2, <1>3, <1>4

\* The queues of a step that sends no offer and no confirmation of one.
SendsNoNumber ==
  \A n \in Node :
    \/ net'[n] = net[n]
    \/ net[n] # <<>> /\ net'[n] = Tail(net[n])
    \/ \E m \in Notification : m.type \notin Negotiation /\ net'[n] = Append(net[n], m)
    \/ \E l, m \in Notification : /\ l.type \notin Negotiation /\ m.type \notin Negotiation
                                 /\ net'[n] = Append(Append(net[n], l), m)

\* A step that sends no number leaves the numbers and their order in the queues alone.
LEMMA NoNumberSent ==
  ASSUME TypeOK, SendsNoNumber, NEW n \in Node
  PROVE  /\ \A t, k : \A types \in SUBSET Negotiation :
              Sent(n, t, types, k)' => Sent(n, t, types, k)
         /\ \A i \in DOMAIN net'[n] : net'[n][i].type \in Negotiation =>
              \E j \in DOMAIN net[n] : net[n][j] = net'[n][i]
         /\ \A t : InOrder(net[n], t) => InOrder(net'[n], t)
  <1>1. net[n] \in Seq(Notification)
    BY DEF TypeOK
  <1>2. \A i \in DOMAIN net'[n] : net'[n][i].type \in Negotiation =>
              \E j \in DOMAIN net[n] : net[n][j] = net'[n][i]
    <2>1. CASE net'[n] = net[n]
      BY <2>1
    <2>2. CASE net[n] # <<>> /\ net'[n] = Tail(net[n])
      <3>1. \A i \in DOMAIN Tail(net[n]) : i + 1 \in DOMAIN net[n] /\ Tail(net[n])[i] = net[n][i + 1]
        BY <1>1, <2>2, QueueElements
      <3> QED BY <2>2, <3>1
    <2>3. ASSUME NEW m \in Notification, m.type \notin Negotiation, net'[n] = Append(net[n], m)
          PROVE  \A i \in DOMAIN net'[n] : net'[n][i].type \in Negotiation =>
                   \E j \in DOMAIN net[n] : net[n][j] = net'[n][i]
      <3>1. \A i \in DOMAIN Append(net[n], m) :
              \/ i \in DOMAIN net[n] /\ Append(net[n], m)[i] = net[n][i]
              \/ Append(net[n], m)[i] = m
        BY <1>1, QueueElements
      <3> QED BY <2>3, <3>1
    <2>4. ASSUME NEW l \in Notification, NEW m \in Notification, l.type \notin Negotiation,
                 m.type \notin Negotiation, net'[n] = Append(Append(net[n], l), m)
          PROVE  \A i \in DOMAIN net'[n] : net'[n][i].type \in Negotiation =>
                   \E j \in DOMAIN net[n] : net[n][j] = net'[n][i]
      <3> DEFINE q == Append(net[n], l)
      <3>1. q \in Seq(Notification)
        BY <1>1, QueueTypes
      <3>2. \A i \in DOMAIN q : (i \in DOMAIN net[n] /\ q[i] = net[n][i]) \/ q[i] = l
        BY <1>1, QueueElements
      <3> HIDE DEF q
      <3>3. \A i \in DOMAIN Append(q, m) :
              (i \in DOMAIN q /\ Append(q, m)[i] = q[i]) \/ Append(q, m)[i] = m
        BY <3>1, QueueElements
      <3> QED BY <2>4, <3>2, <3>3 DEF q
    <2> QED BY <2>1, <2>2, <2>3, <2>4 DEF SendsNoNumber
  <1>3. \A t, k : \A types \in SUBSET Negotiation : Sent(n, t, types, k)' => Sent(n, t, types, k)
    BY <1>2 DEF Sent
  <1>4. ASSUME NEW t, InOrder(net[n], t)
        PROVE  InOrder(net'[n], t)
    <2>1. CASE net'[n] = net[n]
      BY <1>4, <2>1
    <2>2. CASE net[n] # <<>> /\ net'[n] = Tail(net[n])
      BY <1>1, <1>4, <2>2, OrderKept
    <2>3. ASSUME NEW m \in Notification, m.type \notin Negotiation, net'[n] = Append(net[n], m)
          PROVE  InOrder(net'[n], t)
      BY <1>1, <1>4, <2>3, OrderKept DEF Offers
    <2>4. ASSUME NEW l \in Notification, NEW m \in Notification, l.type \notin Negotiation,
                 m.type \notin Negotiation, net'[n] = Append(Append(net[n], l), m)
          PROVE  InOrder(net'[n], t)
      <3>1. Append(net[n], l) \in Seq(Notification) /\ InOrder(Append(net[n], l), t)
        BY <1>1, <1>4, <2>4, OrderKept, QueueTypes DEF Offers
      <3> DEFINE q == Append(net[n], l)
      <3> HIDE DEF q
      <3>2. q \in Seq(Notification) /\ InOrder(q, t)
        BY <3>1 DEF q
      <3>3. InOrder(Append(q, m), t)
        BY <2>4, <3>2, OrderKept DEF Offers
      <3> QED BY <2>4, <3>3 DEF q
    <2> QED BY <2>1, <2>2, <2>3, <2>4 DEF SendsNoNumber
  <1> QED BY <1>2, <1>3, <1>4

\* A step that only forgets numbers.
LEMMA ForgettingKeeps ==
  ASSUME NumberInv, TypeOK, free'[Master] \in Nat, free'[Master] >= free[Master], SendsNoNumber,
         \A n \in Node : \A p \in proc'[n] : p \in proc[n] \/ p.ntfType \notin Negotiation,
         \A n \in Node, t \in Tag, k \in Nat :
           Held(n, t, k)' =>
             \/ Held(n, t, k)
             \/ n = Master /\ Confirmed(t, k) /\ Chosen(t, k)
             \/ n = Slave /\ Offered(getComplementingTag(t), k)
  PROVE  NumberInv'
  <1>1. Master \in Node /\ Slave \in Node /\ Master # Slave
    BY NodesDiffer DEF Node
  <1> SUFFICES ASSUME NEW t \in Tag
               PROVE  Bounded(t)' /\ InOrder(net[Slave], t)' /\ TakenFirst(t)'
    BY DEF NumberInv
  <1>2. /\ getComplementingTag(t) \in Tag
        /\ getComplementingTag(getComplementingTag(t)) = t
    BY ComplementTwice
  <1>3. InOrder(net[Slave], t)'
    BY <1>1, NoNumberSent DEF NumberInv, InOrder, Offers
  <1>4. TakenFirst(t)'
    BY <1>1, NoNumberSent DEF NumberInv, TakenFirst, Bargains, Offers
  <1>5. ASSUME NEW k \in Nat
        PROVE  /\ Offered(t, k)' => Offered(t, k)
               /\ Chosen(t, k)' => Chosen(t, k)
               /\ Confirmed(t, k)' => Confirmed(t, k)
    <2>1. /\ Sent(Slave, t, Negotiation, k)' => Sent(Slave, t, Negotiation, k)
          /\ Sent(Master, getComplementingTag(t), {"CHECK_MAP"}, k)'
                => Sent(Master, getComplementingTag(t), {"CHECK_MAP"}, k)
      BY <1>1, NoNumberSent DEF Negotiation
    <2>2. Held(Slave, getComplementingTag(t), k)' => Offered(t, k)
      BY <1>1, <1>2 DEF Offered
    <2>3. Held(Master, t, k)' => Confirmed(t, k) /\ Chosen(t, k)
      BY <1>1 DEF Confirmed, Chosen
    <2> QED BY <1>1, <2>1, <2>2, <2>3 DEF Offered, Chosen, Confirmed, Bargains, Reached
  <1>6. Bounded(t)'
    BY <1>5, ForgetsNumbers
  <1> QED BY <1>3, <1>4, <1>6

\* Clients that move on, and answers that go, hold no new number.
LEMMA HeldStays ==
  ASSUME MovesOn, UNCHANGED reqs, \A k \in Node : answers'[k] \subseteq answers[k],
         NEW n \in Node, NEW t \in Tag, NEW k, Held(n, t, k)'
  PROVE  Held(n, t, k)
  BY DEF MovesOn, Held, Asks, Waiting

\* A quiet step keeps the numbers.
LEMMA QuietNumbers ==
  ASSUME NumberInv, TypeOK, QuietStep
  PROVE  NumberInv'
  <1>1. /\ SendsNoNumber
        /\ \A n \in Node : \A p \in proc'[n] : p \in proc[n] \/ p.ntfType \notin Negotiation
        /\ \A n \in Node, t \in Tag, k \in Nat : Held(n, t, k)' => Held(n, t, k)
    BY HeldStays DEF QuietStep, SendsNoNumber
  <1>2. free'[Master] \in Nat /\ free'[Master] >= free[Master]
    BY DEF QuietStep, TypeOK, Node
  <1> QED BY <1>1, <1>2, ForgettingKeeps

\* The negotiator's local removal and the delivery of an answer keep them.
LEMMA LocalNumbers ==
  ASSUME NumberInv, TypeOK, NEW n \in Node, RemoveLocal(n) \/ getAnswer(n)
  PROVE  NumberInv'
  <1>0. UNCHANGED <<free, net, reqs>>
    BY DEF RemoveLocal, getAnswer
  <1>1. free'[Master] \in Nat /\ free'[Master] >= free[Master] /\ UNCHANGED <<net, reqs>>
    BY <1>0 DEF TypeOK, Node
  <1>2. SendsNoNumber
    BY <1>1 DEF SendsNoNumber
  <1>3. \A k \in Node : \A p \in proc'[k] : p \in proc[k] \/ p.ntfType \notin Negotiation
    BY DEF RemoveLocal, getAnswer, TypeOK
  <1>4. ASSUME NEW k \in Node, NEW t \in Tag, NEW i \in Nat, Held(k, t, i)'
        PROVE  Held(k, t, i)
    <2>1. CASE RemoveLocal(n)
      BY <1>4, <2>1 DEF RemoveLocal, Held, Asks
    <2>2. CASE getAnswer(n)
      <3>1. PICK r \in answers[n] :
              /\ answers' = [answers EXCEPT ![n] = @ \ {r}]
              /\ \/ /\ call[n][r.tag].at = "negotiate" /\ reqs[n][r.tag] = r.req
                    /\ Goes(n, r.tag, "caAllocate", r.id)
                 \/ \E at \in {"open", "idle"}, id \in Nat : Goes(n, r.tag, at, id)
                 \/ UNCHANGED call
        <4>1. \A q \in answers[n] : call[n][q.tag].id \in Nat
          BY NumbersNatural
        <4> QED BY <2>2, <4>1 DEF getAnswer
      <3>2. \A j \in Node : answers'[j] \subseteq answers[j]
        BY <3>1 DEF TypeOK
      <3>3. r.tag \in Tag
        BY NumbersNatural
      <3>4. CASE UNCHANGED call
        BY <1>1, <1>4, <3>2, <3>4 DEF Held, Asks
      <3>5. ASSUME NEW at \in {"open", "idle"}, NEW id \in Nat, Goes(n, r.tag, at, id)
            PROVE  Held(k, t, i)
        <4>1. call'[k][t] = IF k = n /\ t = r.tag THEN [at |-> at, id |-> id] ELSE call[k][t]
          BY <3>3, <3>5 DEF Goes, TypeOK
        <4> QED BY <1>1, <1>4, <3>2, <4>1 DEF Held, Asks
      <3>6. CASE /\ call[n][r.tag].at = "negotiate" /\ reqs[n][r.tag] = r.req
                 /\ Goes(n, r.tag, "caAllocate", r.id)
        <4>1. call'[k][t] = IF k = n /\ t = r.tag THEN [at |-> "caAllocate", id |-> r.id]
                            ELSE call[k][t]
          BY <3>3, <3>6 DEF Goes, TypeOK
        <4> QED BY <1>1, <1>4, <3>2, <3>6, <4>1 DEF Held, Asks
      <3> QED BY <3>1, <3>4, <3>5, <3>6
    <2> QED BY <2>1, <2>2
  <1> QED BY <1>1, <1>2, <1>3, <1>4, ForgettingKeeps

\* A request that timed out or lost its client keeps them: the peer is only told.
LEMMA RemovalNumbers ==
  ASSUME NumberInv, TypeOK, NEW n \in Node, NEW t \in Tag, Removes(n, t)
  PROVE  NumberInv'
  <1>1. UNCHANGED <<proc, answers, free, reqs>>
    BY DEF Removes, responseTimeout, OnConnectionLost
  <1>2. SendsNoNumber
    <2>1. PICK type \in {"INVALIDATE", "CLIENT_DISCONNECTED"}, req \in Nat :
            TellRemoval(n, type, t, req)
      BY DEF Removes, responseTimeout, OnConnectionLost, TypeOK
    <2>2. PICK m \in Notification : /\ m.type \notin Negotiation
                                   /\ net' = [net EXCEPT ![Other(n)] = Append(@, m)]
      <3>1. [type |-> type, tag |-> t, id |-> 0, req |-> req] \in Notification
        BY DEF Notification
      <3> QED BY <2>1, <3>1 DEF TellRemoval, Negotiation
    <2> QED BY <2>2, NumbersAndNodes DEF SendsNoNumber, TypeOK
  <1>3. free'[Master] \in Nat /\ free'[Master] >= free[Master]
    BY <1>1 DEF TypeOK, Node
  <1>4. ASSUME NEW k \in Node, NEW u \in Tag, NEW i \in Nat, Held(k, u, i)'
        PROVE  Held(k, u, i)
    <2>1. call'[k][u] = call[k][u] \/ call'[k][u].at \in {"idle", "failed"}
      <3>1. CASE responseTimeout(n, t)
        BY <3>1 DEF responseTimeout, Goes, TypeOK
      <3>2. CASE OnConnectionLost(n, t)
        <4>1. call' = [call EXCEPT ![n] = [v \in Tag |->
                IF App[v] = App[t] THEN [at |-> "idle", id |-> 0] ELSE @[v]]]
          BY <3>2 DEF OnConnectionLost
        <4> QED BY <4>1 DEF TypeOK
      <3> QED BY <3>1, <3>2 DEF Removes
    <2> QED BY <1>1, <1>4, <2>1 DEF Held, Asks
  <1> QED BY <1>1, <1>2, <1>3, <1>4, ForgettingKeeps

\* An answer tells the client the number its processor had.
LEMMA ConfirmationNumbers ==
  ASSUME NumberInv, TypeOK, ProcessorsInv, SessionInv, NEW n \in Node, onRemoteConfirmation(n)
  PROVE  NumberInv'
  <1> DEFINE m == Head(net[n])
  <1>1. /\ m \in Notification /\ m.type \in {"CHECK_MAP", "MAP_ADD_CID"}
        /\ net[n] # <<>> /\ net' = Rest(n)
        /\ UNCHANGED <<call, ipc, ca, reqs, bounds>>
        /\ \A k \in Node : free'[k] \in Nat /\ free'[k] >= free[k]
    BY ConfirmationFinds
  <1>2. SendsNoNumber
    BY <1>1 DEF SendsNoNumber, Rest, TypeOK
  <1>3. /\ m = net[n][1] /\ 1 \in DOMAIN net[n]
    BY <1>1, QueueElements DEF TypeOK
  <1> HIDE DEF m
  <1>4. CASE UNCHANGED <<proc, answers>>
    <2>1. \A k \in Node, t \in Tag, i \in Nat : Held(k, t, i)' => Held(k, t, i)
      BY <1>1, <1>4 DEF Held, Asks
    <2> QED BY <1>1, <1>2, <1>4, <2>1, ForgettingKeeps DEF Node
  <1>5. ASSUME NEW p \in proc[n], Confirms(n, m, p)
        PROVE  NumberInv'
    <2>1. /\ Reached(p) /\ p.ntfType = m.type
          /\ p.tag = getComplementingTag(m.tag) /\ p.id = m.id
      BY <1>5 DEF Confirms
    <2>2. \A k \in Node : proc'[k] \subseteq proc[k]
      BY <1>5 DEF Confirms, TypeOK
    <2>3. \A k \in Node : \A r \in answers'[k] :
            r \in answers[k] \/ (k = n /\ r.tag = p.tag /\ r.req = p.req /\ r.id = p.id)
      BY <1>5 DEF Confirms, TypeOK
    <2>4. m.tag \in Tag /\ p.tag \in Tag /\ getComplementingTag(p.tag) = m.tag
      BY <1>1, <2>1, ComplementTwice DEF Notification
    <2>5. ASSUME NEW k \in Node, NEW t \in Tag, NEW i \in Nat, Held(k, t, i)'
          PROVE  \/ Held(k, t, i)
                 \/ k = Master /\ Confirmed(t, i) /\ Chosen(t, i)
                 \/ k = Slave /\ Offered(getComplementingTag(t), i)
      <3>1. \/ Held(k, t, i)
            \/ k = n /\ t = p.tag /\ i = p.id /\ call[n][t].at = "negotiate"
        BY <1>1, <2>3, <2>5 DEF Held, Asks
      <3>2. ASSUME k = n, t = p.tag, i = p.id, call[n][t].at = "negotiate"
            PROVE  \/ k = Master /\ Confirmed(t, i) /\ Chosen(t, i)
                   \/ k = Slave /\ Offered(getComplementingTag(t), i)
        <4>1. p.ntfType \in Negotiation /\ m.type = "CHECK_MAP"
          <5>1. p.ntfType \in Negotiation
            BY <2>1, <2>4, <3>2, ReachedWaits
          <5> QED BY <1>1, <2>1, <5>1 DEF Negotiation
        <4>2. Sent(n, m.tag, {"CHECK_MAP"}, i) /\ Sent(n, m.tag, Negotiation, i)
          BY <1>3, <2>1, <3>2, <4>1 DEF Sent, Negotiation
        <4>3. CASE n = Master
          BY <2>1, <2>4, <3>2, <4>1, <4>2, <4>3 DEF Confirmed, Chosen, Bargains
        <4>4. CASE n = Slave
          BY <2>4, <3>2, <4>2, <4>4 DEF Offered
        <4> QED BY <3>2, <4>3, <4>4 DEF Node
      <3> QED BY <3>1, <3>2
    <2> QED BY <1>1, <1>2, <2>2, <2>5, ForgettingKeeps DEF Node
  <1> QED BY <1>4, <1>5, ConfirmationFinds DEF m

\* What a device sends with a request: the notification, and its confirmation
\* when the peer's came first.
LEMMA RequestSent ==
  ASSUME TypeOK, NEW n \in Node, NEW type \in RequestType, NEW t \in Tag, NEW id \in Nat,
         NEW old \in Processor, NEW p \in Processor, RequestReached(n, type, t, id, old, p)
  PROVE  LET to == Other(n)
             first == Ntf(type, p)
             second == Ntf(Second(type), p)
         IN /\ \A k \in Node : k # to => net'[k] = net[k]
            /\ first \in Notification /\ second \in Notification
            /\ first.tag = t /\ first.id = p.id /\ first.type = type
            /\ second.tag = t /\ second.id = p.id /\ second.type = Second(type)
            /\ ~old.got => net'[to] = Append(net[to], first)
            /\ old.got => net'[to] = Append(Append(net[to], first), second)
  <1> DEFINE to == Other(n)
             first == Ntf(type, p)
             second == Ntf(Second(type), p)
  <1>1. /\ p.tag = t
        /\ net' = [net EXCEPT ![to] =
               @ \o (IF old.got THEN <<first, second>> ELSE <<first>>)]
    BY DEF RequestReached
  <1>2. /\ first = [type |-> type, tag |-> t, id |-> p.id, req |-> p.req]
        /\ second = [type |-> Second(type), tag |-> t, id |-> p.id, req |-> p.req]
    BY <1>1 DEF Ntf
  <1>3. p.id \in Nat /\ p.req \in Nat
    BY DEF Processor
  <1>4. type \in NotificationType /\ Second(type) \in NotificationType
    BY SecondType DEF RequestType, NotificationType
  <1> HIDE DEF first, second
  <1>5. first \in Notification /\ second \in Notification
    BY <1>2, <1>3, <1>4 DEF Notification
  <1>6. /\ to \in Node /\ net[to] \in Seq(Notification)
        /\ \A k \in Node : k # to => net'[k] = net[k]
        /\ net'[to] = net[to] \o (IF old.got THEN <<first, second>> ELSE <<first>>)
    BY <1>1, NumbersAndNodes DEF TypeOK
  <1>7. /\ ~old.got => net'[to] = Append(net[to], first)
        /\ old.got => net'[to] = Append(Append(net[to], first), second)
    BY <1>5, <1>6, TwoMessages
  <1>8. /\ first.tag = t /\ first.id = p.id /\ first.type = type
        /\ second.tag = t /\ second.id = p.id /\ second.type = Second(type)
    BY <1>2
  <1> HIDE DEF to
  <1> QED BY <1>5, <1>6, <1>7, <1>8 DEF first, second, to

\* The second exchange is about a number that its client has.
LEMMA UpdateNumbers ==
  ASSUME NumberInv, TypeOK, ProcessorsInv, NEW n \in Node, NEW t \in Tag, NEW id \in Nat,
         RequestStep(n, "CA_ALLOCATE", t, id)
  PROVE  NumberInv'
  <1>1. "CA_ALLOCATE" \in RequestType /\ onLocalRequest(n, "CA_ALLOCATE", t, id)
    BY DEF RequestType, RequestStep
  <1>2. PICK old \in Processor, p \in Processor :
          RequestReached(n, "CA_ALLOCATE", t, id, old, p)
    BY <1>1, RequestReaches
  <1>3. /\ p.ntfType \notin Negotiation /\ UNCHANGED free
        /\ \A k \in Node : \A q \in proc'[k] : q \in proc[k] \/ q = p
    BY <1>1, <1>2, SecondType DEF RequestReached, Negotiation, TypeOK
  <1>4. /\ \A k \in Node : k # Other(n) => net'[k] = net[k]
        /\ \E l, m \in Notification :
             /\ l.type \notin Negotiation /\ m.type \notin Negotiation
             /\ \/ net'[Other(n)] = Append(net[Other(n)], m)
                \/ net'[Other(n)] = Append(Append(net[Other(n)], l), m)
    BY <1>1, <1>2, RequestSent, SecondType DEF Negotiation
  <1>5. SendsNoNumber
    BY <1>4 DEF SendsNoNumber
  <1>6. free'[Master] \in Nat /\ free'[Master] >= free[Master]
    BY <1>3 DEF TypeOK, Node
  <1>7. ASSUME NEW k \in Node, NEW u \in Tag, NEW i \in Nat, Held(k, u, i)'
        PROVE  Held(k, u, i)
    <2>1. /\ call[n][t] = [at |-> "caWait", id |-> id]
          /\ Goes(n, t, "update", id)
      BY DEF RequestStep
    <2>2. /\ reqs' = [reqs EXCEPT ![n][t] = @ + 1] /\ UNCHANGED answers
      BY <1>1 DEF onLocalRequest
    <2>3. CASE k = n /\ u = t
      <3>1. call'[n][t] = [at |-> "update", id |-> id]
        BY <2>1 DEF Goes, TypeOK
      <3> QED BY <1>7, <2>1, <2>3, <3>1 DEF Held, Asks
    <2>4. CASE ~(k = n /\ u = t)
      <3>1. call'[k][u] = call[k][u] /\ reqs'[k][u] = reqs[k][u]
        BY <2>1, <2>2, <2>4 DEF Goes, TypeOK
      <3> QED BY <1>7, <2>2, <3>1 DEF Held, Asks
    <2> QED BY <2>3, <2>4
  <1> QED BY <1>3, <1>5, <1>6, <1>7, ForgettingKeeps

\* A client that starts to negotiate holds no number.
LEMMA StartsWithout ==
  ASSUME TypeOK, AnswersInv, NEW n \in Node, NEW t \in Tag, NEW id \in Nat,
         RequestStep(n, "ALLOCATE", t, id)
  PROVE  /\ \A k \in Nat : ~Held(n, t, k)'
         /\ \A k \in Node, u \in Tag, i \in Nat : Held(k, u, i)' => Held(k, u, i)
  <1>1. /\ Goes(n, t, "negotiate", id)
        /\ reqs' = [reqs EXCEPT ![n][t] = @ + 1] /\ UNCHANGED answers
    BY DEF RequestStep, onLocalRequest
  <1>2. /\ call'[n][t] = [at |-> "negotiate", id |-> id]
        /\ reqs[n][t] \in Nat /\ reqs'[n][t] = reqs[n][t] + 1
        /\ \A k \in Node, u \in Tag : ~(k = n /\ u = t) =>
             call'[k][u] = call[k][u] /\ reqs'[k][u] = reqs[k][u]
    BY <1>1 DEF Goes, TypeOK
  <1>3. \A r \in answers[n] : r.req \in Nat /\ r.req <= reqs[n][r.tag]
    BY DEF AnswersInv, TypeOK, Answer
  <1>4. \A r \in answers'[n] : r.tag = t => r.req # reqs'[n][t]
    BY <1>1, <1>2, <1>3
  <1>5. \A k \in Nat : ~Held(n, t, k)'
    BY <1>2, <1>4 DEF Held, Asks
  <1> QED BY <1>1, <1>2, <1>5 DEF Held, Asks

\* The number of a processor that has had a peer's offer is on offer, and those
\* that come after it are not below.
LEMMA FirstOfferTaken ==
  ASSUME SessionInv, NumberInv, TypeOK, ProcessorsInv, NEW old \in proc[Slave],
         old.tag \in Tag, old.ntfType = "ALLOCATE", old.got
  PROVE  LET t == getComplementingTag(old.tag)
         IN /\ Offered(t, old.id)
            /\ \A k : Sent(Slave, t, Negotiation, k) => old.id <= k
            /\ \A q \in proc[Slave] :
                 q.tag = old.tag /\ q.ntfType = "ALLOCATE" => q = old
            /\ \A q \in proc[Slave] : q.ntfType = "CHECK_MAP" => Reached(q)
  <1> DEFINE t == getComplementingTag(old.tag)
  <1>1. t \in Tag /\ getComplementingTag(t) = old.tag /\ Slave \in Node
    BY ComplementTwice DEF Node
  <1>2. Bargains(old, getComplementingTag(t))
    BY <1>1 DEF Bargains, Negotiation
  <1>3. Offered(t, old.id)
    BY <1>2 DEF Offered
  <1>4. \A k : Sent(Slave, t, Negotiation, k) => old.id <= k
    BY <1>1, <1>2 DEF NumberInv, TakenFirst, Sent, Offers
  <1>5. \A q \in proc[Slave] : q.tag = old.tag /\ q.ntfType = "ALLOCATE" => q = old
    BY <1>1 DEF SessionInv, UniqueInv
  <1>6. \A q \in proc[Slave] : q.ntfType = "CHECK_MAP" => Reached(q)
    <2> SUFFICES ASSUME NEW q \in proc[Slave], q.ntfType = "CHECK_MAP"
                 PROVE  Reached(q)
      OBVIOUS
    <2>1. q \in Processor /\ (q.reqType # "UNKNOWN" => q.reqType = q.ntfType)
      BY <1>1 DEF TypeOK, ProcessorsInv
    <2> QED BY <2>1 DEF Processor, RequestType, Reached
  <1> QED BY <1>3, <1>4, <1>5, <1>6

\* More is confirmed that is not above what is on offer.
LEMMA MoreConfirmed ==
  ASSUME NEW s \in Tag, Bounded(s), UNCHANGED free, NEW more,
         \A k \in Nat : /\ Chosen(s, k)' => Chosen(s, k)
                        /\ Offered(s, k)' => Offered(s, k)
                        /\ Confirmed(s, k)' => Confirmed(s, k) \/ k \in more,
         \A i \in more, l \in Nat :
           i <= free[Master] /\ (Offered(s, l)' \/ Chosen(s, l)' => i <= l)
  PROVE  Bounded(s)'
  <1> SUFFICES ASSUME NEW k \in Nat, NEW l \in Nat
               PROVE  /\ Offered(s, k)' \/ Chosen(s, k)' \/ Confirmed(s, k)' => k <= free[Master]
                      /\ Offered(s, k)' /\ Chosen(s, l)' => k <= l
                      /\ Confirmed(s, k)' /\ (Offered(s, l)' \/ Chosen(s, l)') => k <= l
    BY DEF Bounded
  <1>1. /\ Offered(s, k) \/ Chosen(s, k) \/ Confirmed(s, k) => k <= free[Master]
        /\ Offered(s, k) /\ Chosen(s, l) => k <= l
        /\ Confirmed(s, k) /\ (Offered(s, l) \/ Chosen(s, l)) => k <= l
    BY DEF Bounded
  <1>2. /\ Chosen(s, k)' => Chosen(s, k)
        /\ Offered(s, k)' => Offered(s, k)
        /\ Confirmed(s, k)' => Confirmed(s, k) \/ k \in more
        /\ Chosen(s, l)' => Chosen(s, l)
        /\ Offered(s, l)' => Offered(s, l)
    OBVIOUS
  <1>3. Offered(s, k)' \/ Chosen(s, k)' => k <= free[Master]
    BY <1>1, <1>2
  <1>4. Offered(s, k)' /\ Chosen(s, l)' => k <= l
    BY <1>1, <1>2
  <1>5. ASSUME Confirmed(s, k)'
        PROVE  k <= free[Master] /\ (Offered(s, l)' \/ Chosen(s, l)' => k <= l)
    <2>1. CASE Confirmed(s, k)
      BY <1>1, <1>2, <2>1
    <2>2. CASE k \in more
      BY <2>2
    <2> QED BY <1>2, <1>5, <2>1, <2>2
  <1> QED BY <1>3, <1>4, <1>5

\* The slave's client negotiates: what its negotiator has been offered it
\* confirms.
LEMMA SlaveStarts ==
  ASSUME SessionInv, NumberInv, TypeOK, ProcessorsInv, AnswersInv,
         NEW u \in Tag, NEW id \in Nat, RequestStep(Slave, "ALLOCATE", u, id)
  PROVE  NumberInv'
  <1> DEFINE t == getComplementingTag(u)
  <1>1. Slave \in Node /\ Master \in Node /\ Slave # Master /\ "ALLOCATE" \in RequestType
    BY NodesDiffer DEF Node, RequestType
  <1>2. t \in Tag /\ getComplementingTag(t) = u
    BY ComplementTwice
  <1>3. onLocalRequest(Slave, "ALLOCATE", u, id) /\ call[Slave][u].at \notin Waiting
    BY DEF RequestStep
  <1>4. PICK old \in Processor, p \in Processor :
          RequestReached(Slave, "ALLOCATE", u, id, old, p)
    BY <1>1, <1>3, RequestReaches
  <1>5. /\ old.got => old \in proc[Slave] /\ old.tag = u
        /\ old.ntfType = "ALLOCATE"
        /\ p.tag = u /\ p.id = old.id /\ p.got = old.got
        /\ UNCHANGED free /\ ipc[Slave] = None
        /\ \A q \in proc'[Slave] : q = p \/ (q \in proc[Slave] /\ q # old)
        /\ proc'[Master] = proc[Master]
    BY <1>1, <1>4 DEF RequestReached, Number, TypeOK
  <1>6. /\ net'[Slave] = net[Slave]
        /\ \A i \in DOMAIN net'[Master] :
             \/ i \in DOMAIN net[Master] /\ net'[Master][i] = net[Master][i]
             \/ net'[Master][i].type = "ALLOCATE"
             \/ old.got /\ net'[Master][i].tag = u /\ net'[Master][i].id = old.id
    <2> DEFINE first == Ntf("ALLOCATE", p)
               second == Ntf(Second("ALLOCATE"), p)
    <2>1. /\ net'[Slave] = net[Slave]
          /\ first \in Notification /\ second \in Notification /\ first.type = "ALLOCATE"
          /\ second.tag = u /\ second.id = old.id
          /\ ~old.got => net'[Master] = Append(net[Master], first)
          /\ old.got => net'[Master] = Append(Append(net[Master], first), second)
      BY <1>1, <1>4, <1>5, RequestSent DEF Other
    <2>2. net[Master] \in Seq(Notification)
      BY <1>1 DEF TypeOK
    <2> HIDE DEF first, second
    <2> DEFINE q == Append(net[Master], first)
    <2>3. /\ q \in Seq(Notification)
          /\ \A i \in DOMAIN q : (i \in DOMAIN net[Master] /\ q[i] = net[Master][i]) \/ q[i] = first
      BY <2>1, <2>2, QueueElements, QueueTypes
    <2> HIDE DEF q
    <2>4. \A i \in DOMAIN Append(q, second) :
            (i \in DOMAIN q /\ Append(q, second)[i] = q[i]) \/ Append(q, second)[i] = second
      BY <2>1, <2>3, QueueElements
    <2>5. /\ ~old.got => net'[Master] = q
          /\ old.got => net'[Master] = Append(q, second)
      BY <2>1 DEF q
    <2> QED BY <2>1, <2>3, <2>4, <2>5
  <1>7. /\ \A k \in Nat : ~Held(Slave, u, k)'
        /\ \A k \in Node, s \in Tag, i \in Nat : Held(k, s, i)' => Held(k, s, i)
    BY <1>1, StartsWithout
  <1>8. old.got =>
          /\ Offered(t, old.id)
          /\ \A k : Sent(Slave, t, Negotiation, k) => old.id <= k
          /\ \A q \in proc[Slave] : q.tag = u => q.ntfType \notin Negotiation \/ q = old
    <2> SUFFICES ASSUME old.got
                 PROVE  /\ Offered(t, old.id)
                        /\ \A k : Sent(Slave, t, Negotiation, k) => old.id <= k
                        /\ \A q \in proc[Slave] :
                             q.tag = u => q.ntfType \notin Negotiation \/ q = old
      OBVIOUS
    <2>1. /\ Offered(t, old.id)
          /\ \A k : Sent(Slave, t, Negotiation, k) => old.id <= k
          /\ \A q \in proc[Slave] : q.tag = u /\ q.ntfType = "ALLOCATE" => q = old
          /\ \A q \in proc[Slave] : q.ntfType = "CHECK_MAP" => Reached(q)
      BY <1>5, FirstOfferTaken
    <2>2. \A q \in proc[Slave] : q.tag = u => ~Reached(q)
      BY <1>1, <1>3, <1>5, NotWaitingNotReached
    <2> QED BY <2>1, <2>2 DEF Negotiation
  <1> SUFFICES ASSUME NEW s \in Tag
               PROVE  Bounded(s)' /\ InOrder(net[Slave], s)' /\ TakenFirst(s)'
    BY DEF NumberInv
  <1> HIDE DEF t
  <1>9. getComplementingTag(s) = u => s = t
    BY <1>2, ComplementTwice
  <1>10. InOrder(net[Slave], s)'
    BY <1>6 DEF NumberInv, InOrder, Offers
  <1>11. TakenFirst(s)'
    <2> SUFFICES ASSUME NEW q \in proc'[Slave], NEW j \in DOMAIN net[Slave],
                        Bargains(q, getComplementingTag(s)), q.got, Offers(s, net[Slave][j])
                 PROVE  q.id <= net[Slave][j].id
      BY <1>6 DEF TakenFirst, Bargains, Offers
    <2>1. CASE q \in proc[Slave]
      BY <2>1 DEF NumberInv, TakenFirst
    <2>2. CASE q = p
      <3>1. s = t
        BY <1>5, <1>9, <2>2 DEF Bargains
      <3>2. Sent(Slave, t, Negotiation, net[Slave][j].id)
        BY <3>1 DEF Sent, Offers
      <3> QED BY <1>5, <1>8, <2>2, <3>2
    <2> QED BY <1>5, <2>1, <2>2
  <1>12. ASSUME NEW k \in Nat
         PROVE  /\ Chosen(s, k)' => Chosen(s, k)
                /\ Offered(s, k)' => Offered(s, k)
                /\ Confirmed(s, k)' => Confirmed(s, k) \/ (s = t /\ old.got /\ k = old.id)
    <2>1. Chosen(s, k)' => Chosen(s, k)
      BY <1>1, <1>5, <1>7 DEF Chosen, Bargains, Reached
    <2>2. Offered(s, k)' => Offered(s, k)
      <3>1. Sent(Slave, s, Negotiation, k)' => Sent(Slave, s, Negotiation, k)
        BY <1>6 DEF Sent
      <3>2. Held(Slave, getComplementingTag(s), k)' => Held(Slave, getComplementingTag(s), k)
        BY <1>1, <1>7, ComplementTwice
      <3>3. ASSUME NEW q \in proc'[Slave], Bargains(q, getComplementingTag(s)), q.got, q.id = k
            PROVE  Offered(s, k)
        <4>1. CASE q \in proc[Slave]
          BY <3>3, <4>1 DEF Offered
        <4>2. CASE q = p
          <5>1. s = t
            BY <1>5, <1>9, <3>3, <4>2 DEF Bargains
          <5> QED BY <1>5, <1>8, <3>3, <4>2, <5>1
        <4> QED BY <1>5, <4>1, <4>2
      <3> QED BY <3>1, <3>2, <3>3 DEF Offered, Bargains
    <2>3. Confirmed(s, k)' => Confirmed(s, k) \/ (s = t /\ old.got /\ k = old.id)
      <3>1. Sent(Master, getComplementingTag(s), {"CHECK_MAP"}, k)' =>
              \/ Sent(Master, getComplementingTag(s), {"CHECK_MAP"}, k)
              \/ getComplementingTag(s) = u /\ old.got /\ k = old.id
        BY <1>6 DEF Sent
      <3> QED BY <1>1, <1>7, <1>9, <3>1 DEF Confirmed
    <2> QED BY <2>1, <2>2, <2>3
  <1>13. ASSUME NEW l \in Nat, s = t, old.got
         PROVE  /\ old.id <= free[Master]
                /\ Offered(s, l)' \/ Chosen(s, l)' => old.id <= l
    <2>1. Bounded(t) /\ old.id \in Nat
      BY <1>2 DEF NumberInv, Processor
    <2>2. old.id <= free[Master] /\ (Chosen(t, l) => old.id <= l)
      BY <1>8, <1>13, <2>1 DEF Bounded
    <2>3. Sent(Slave, t, Negotiation, l)' => old.id <= l
      <3>1. Sent(Slave, t, Negotiation, l)' => Sent(Slave, t, Negotiation, l)
        BY <1>6 DEF Sent
      <3> QED BY <1>8, <1>13, <3>1
    <2>4. \A q \in proc'[Slave] : Bargains(q, u) => q.id = old.id
      BY <1>5, <1>8, <1>13 DEF Bargains
    <2>5. Offered(t, l)' => old.id <= l
      BY <1>2, <1>7, <2>1, <2>3, <2>4 DEF Offered, Bargains
    <2> QED BY <1>12, <1>13, <2>2, <2>5
  <1>14. Bounded(s)'
    <2> DEFINE more == IF s = t /\ old.got THEN {old.id} ELSE {}
    <2>1. /\ \A k \in Nat : Confirmed(s, k)' => Confirmed(s, k) \/ k \in more
          /\ \A i \in more, l \in Nat :
               i <= free[Master] /\ (Offered(s, l)' \/ Chosen(s, l)' => i <= l)
      BY <1>12, <1>13
    <2>2. Bounded(s) /\ UNCHANGED free
      BY <1>5 DEF NumberInv
    <2> HIDE DEF more
    <2> QED BY <1>12, <2>1, <2>2, MoreConfirmed
  <1> QED BY <1>10, <1>11, <1>14

\* The master's client negotiates: the number it is given is above all others.
LEMMA MasterStarts ==
  ASSUME SessionInv, NumberInv, TypeOK, ProcessorsInv, AnswersInv,
         NEW t \in Tag, NEW id \in Nat, RequestStep(Master, "ALLOCATE", t, id)
  PROVE  NumberInv'
  <1> DEFINE next == updateFreeChannel(Master, id)
  <1>1. Slave \in Node /\ Master \in Node /\ Slave # Master /\ "ALLOCATE" \in RequestType
    BY NodesDiffer DEF Node, RequestType
  <1>2. onLocalRequest(Master, "ALLOCATE", t, id) /\ call[Master][t].at \notin Waiting
    BY DEF RequestStep
  <1>3. PICK old \in Processor, p \in Processor :
          RequestReached(Master, "ALLOCATE", t, id, old, p)
    BY <1>1, <1>2, RequestReaches
  <1>4. /\ p.tag = t /\ p.id = next
        /\ free'[Master] = next /\ ipc[Master] = None
        /\ \A q \in proc'[Master] : q = p \/ q \in proc[Master]
        /\ proc'[Slave] = proc[Slave]
    BY <1>1, <1>3 DEF RequestReached, Number, TypeOK
  <1>5. next \in Nat /\ free[Master] \in Nat /\ free[Master] <= next
    BY <1>1 DEF updateFreeChannel, TypeOK
  <1> HIDE DEF next
  <1> DEFINE first == Ntf("ALLOCATE", p)
             second == Ntf(Second("ALLOCATE"), p)
             q1 == Append(net[Slave], first)
  <1>6. /\ net'[Master] = net[Master]
        /\ first \in Notification /\ second \in Notification
        /\ first.tag = t /\ first.id = next /\ second.tag = t /\ second.id = next
        /\ ~old.got => net'[Slave] = q1
        /\ old.got => net'[Slave] = Append(q1, second)
    <2>1. Other(Master) = Slave
      BY DEF Other
    <2>2. /\ net'[Master] = net[Master]
          /\ first \in Notification /\ second \in Notification
          /\ first.tag = t /\ first.id = p.id /\ second.tag = t /\ second.id = p.id
          /\ ~old.got => net'[Slave] = q1
          /\ old.got => net'[Slave] = Append(q1, second)
      BY <1>1, <1>3, <2>1, RequestSent
    <2> QED BY <1>4, <2>2
  <1> HIDE DEF first, second
  <1>7. net[Slave] \in Seq(Notification)
    BY <1>1 DEF TypeOK
  <1>8. /\ q1 \in Seq(Notification)
        /\ \A i \in DOMAIN q1 : (i \in DOMAIN net[Slave] /\ q1[i] = net[Slave][i]) \/ q1[i] = first
    BY <1>6, <1>7, QueueElements, QueueTypes
  <1> HIDE DEF q1
  <1>9. \A i \in DOMAIN net'[Slave] :
          \/ \E j \in DOMAIN net[Slave] : net'[Slave][i] = net[Slave][j]
          \/ net'[Slave][i].tag = t /\ net'[Slave][i].id = next
    <2>1. \A i \in DOMAIN Append(q1, second) :
            (i \in DOMAIN q1 /\ Append(q1, second)[i] = q1[i]) \/ Append(q1, second)[i] = second
      BY <1>6, <1>8, QueueElements
    <2> QED BY <1>6, <1>8, <2>1
  <1>10. /\ \A k \in Nat : ~Held(Master, t, k)'
         /\ \A k \in Node, s \in Tag, i \in Nat : Held(k, s, i)' => Held(k, s, i)
    BY <1>1, StartsWithout
  <1> SUFFICES ASSUME NEW s \in Tag
               PROVE  Bounded(s)' /\ InOrder(net[Slave], s)' /\ TakenFirst(s)'
    BY DEF NumberInv
  <1>11. getComplementingTag(s) \in Tag
    BY ComplementTwice
  <1>12. \A k \in Nat : Offered(s, k) \/ Chosen(s, k) \/ Confirmed(s, k) => k <= free[Master]
    BY <1>5 DEF NumberInv, Bounded
  <1>13. ASSUME NEW k \in Nat
         PROVE  /\ Chosen(s, k)' => (s # t /\ Chosen(s, k)) \/ (s = t /\ k = next)
                /\ Offered(s, k)' => Offered(s, k) \/ (s = t /\ k = next)
                /\ Confirmed(s, k)' => Confirmed(s, k)
    <2>1. \A q \in proc[Master] : q.tag = t => ~Reached(q)
      BY <1>1, <1>2, <1>4, NotWaitingNotReached
    <2>2. Chosen(s, k)' => (s # t /\ Chosen(s, k)) \/ (s = t /\ k = next)
      BY <1>1, <1>4, <1>10, <2>1 DEF Chosen, Bargains, Reached
    <2>3. Sent(Slave, s, Negotiation, k)' =>
            Sent(Slave, s, Negotiation, k) \/ (s = t /\ k = next)
      BY <1>9 DEF Sent
    <2>4. Offered(s, k)' => Offered(s, k) \/ (s = t /\ k = next)
      BY <1>1, <1>4, <1>10, <1>11, <2>3 DEF Offered, Bargains
    <2>5. Sent(Master, getComplementingTag(s), {"CHECK_MAP"}, k)' =>
            Sent(Master, getComplementingTag(s), {"CHECK_MAP"}, k)
      BY <1>6 DEF Sent
    <2>6. Confirmed(s, k)' => Confirmed(s, k)
      BY <1>1, <1>10, <2>5 DEF Confirmed
    <2> QED BY <2>2, <2>4, <2>6
  <1>14. Bounded(s)'
    <2>1. Bounded(s)
      BY DEF NumberInv
    <2> SUFFICES ASSUME NEW k \in Nat, NEW l \in Nat
                 PROVE  /\ Offered(s, k)' \/ Chosen(s, k)' \/ Confirmed(s, k)' => k <= next
                        /\ Offered(s, k)' /\ Chosen(s, l)' => k <= l
                        /\ Confirmed(s, k)' /\ (Offered(s, l)' \/ Chosen(s, l)') => k <= l
      BY <1>4 DEF Bounded
    <2>2. /\ Offered(s, k) \/ Chosen(s, k) \/ Confirmed(s, k) => k <= free[Master]
          /\ Offered(s, k) /\ Chosen(s, l) => k <= l
          /\ Confirmed(s, k) /\ (Offered(s, l) \/ Chosen(s, l)) => k <= l
      BY <2>1 DEF Bounded
    <2>3. Offered(s, k) \/ Chosen(s, k) \/ Confirmed(s, k) => k <= next
      BY <1>5, <2>2
    <2>4. /\ Chosen(s, k)' => (s # t /\ Chosen(s, k)) \/ (s = t /\ k = next)
          /\ Offered(s, k)' => Offered(s, k) \/ (s = t /\ k = next)
          /\ Confirmed(s, k)' => Confirmed(s, k)
          /\ Chosen(s, l)' => (s # t /\ Chosen(s, l)) \/ (s = t /\ l = next)
          /\ Offered(s, l)' => Offered(s, l) \/ (s = t /\ l = next)
      BY <1>13
    <2>5. k = next => k <= next
      BY <1>5
    <2>6. Offered(s, k)' \/ Chosen(s, k)' \/ Confirmed(s, k)' => k <= next
      BY <2>3, <2>4, <2>5
    <2>7. Offered(s, k)' /\ Chosen(s, l)' => k <= l
      BY <2>2, <2>4, <2>6
    <2>8. Confirmed(s, k)' /\ (Offered(s, l)' \/ Chosen(s, l)') => k <= l
      BY <2>2, <2>4, <2>6
    <2> QED BY <2>6, <2>7, <2>8
  <1>15. \A i \in DOMAIN net[Slave] : Offers(s, net[Slave][i]) => net[Slave][i].id <= next
    <2> SUFFICES ASSUME NEW i \in DOMAIN net[Slave], Offers(s, net[Slave][i])
                 PROVE  net[Slave][i].id <= next
      OBVIOUS
    <2>1. net[Slave][i].id \in Nat
      BY <1>1, NumbersNatural
    <2>2. Offered(s, net[Slave][i].id)
      BY DEF Offered, Sent, Offers
    <2> QED BY <1>5, <1>12, <2>1, <2>2
  <1>16. InOrder(net[Slave], s)'
    <2>1. InOrder(net[Slave], s)
      BY DEF NumberInv
    <2>2. InOrder(q1, s)
      BY <1>6, <1>7, <1>15, <2>1, OrderKept DEF q1
    <2>3. \A i \in DOMAIN q1 : Offers(s, q1[i]) => q1[i].id <= next
      BY <1>5, <1>6, <1>8, <1>15
    <2>4. InOrder(Append(q1, second), s)
      BY <1>6, <1>8, <2>2, <2>3, OrderKept
    <2>5. InOrder(net'[Slave], s)
      BY <1>6, <2>2, <2>4
    <2> QED BY <2>5 DEF InOrder, Offers
  <1>17. TakenFirst(s)'
    <2> SUFFICES ASSUME NEW q \in proc[Slave], NEW j \in DOMAIN net'[Slave],
                        Bargains(q, getComplementingTag(s)), q.got, Offers(s, net'[Slave][j])
                 PROVE  q.id <= net'[Slave][j].id
      BY <1>4 DEF TakenFirst, Bargains, Offers
    <2>1. q.id \in Nat /\ Offered(s, q.id)
      BY <1>1, NumbersNatural DEF Offered
    <2>2. q.id <= next
      BY <1>5, <1>12, <2>1
    <2>3. ASSUME NEW i \in DOMAIN net[Slave], net'[Slave][j] = net[Slave][i]
          PROVE  q.id <= net'[Slave][j].id
      BY <2>3 DEF NumberInv, TakenFirst
    <2> QED BY <1>9, <2>2, <2>3
  <1> QED BY <1>14, <1>16, <1>17

\* What a peer's request makes the negotiator send: the confirmation, when the
\* client's own request has come.
LEMMA RemoteAnswered ==
  ASSUME TypeOK, NEW n \in Node, net[n] # <<>>, NEW m \in Notification, m.type \in RequestType,
         NEW old \in Processor, NEW p \in Processor, RemoteReached(n, m, old, p)
  PROVE  /\ net'[n] = Tail(net[n])
         /\ ~Reached(old) => net'[Other(n)] = net[Other(n)]
         /\ Reached(old) => net'[Other(n)] = Append(net[Other(n)], Ntf(Second(m.type), p))
         /\ Ntf(Second(m.type), p) \in Notification
         /\ Ntf(Second(m.type), p).type = Second(m.type)
         /\ Ntf(Second(m.type), p).tag = getComplementingTag(m.tag)
         /\ Ntf(Second(m.type), p).id = p.id
  <1> DEFINE second == Ntf(Second(m.type), p)
  <1>1. /\ p.tag = getComplementingTag(m.tag)
        /\ net' = IF ~Reached(old) THEN Rest(n)
                  ELSE [Rest(n) EXCEPT ![Other(n)] = Append(@, second)]
    BY DEF RemoteReached
  <1>2. Other(n) \in Node /\ Other(n) # n
    BY NumbersAndNodes
  <1>3. /\ net'[n] = Tail(net[n])
        /\ ~Reached(old) => net'[Other(n)] = net[Other(n)]
        /\ Reached(old) => net'[Other(n)] = Append(net[Other(n)], second)
    <2> HIDE DEF second
    <2>1. Rest(n) = [k \in Node |-> IF k = n THEN Tail(net[n]) ELSE net[k]]
      BY DEF Rest, TypeOK
    <2>2. CASE Reached(old)
      BY <1>1, <1>2, <2>1, <2>2
    <2>3. CASE ~Reached(old)
      BY <1>1, <1>2, <2>1, <2>3
    <2> QED BY <2>2, <2>3
  <1>4. second = [type |-> Second(m.type), tag |-> p.tag, id |-> p.id, req |-> p.req]
    BY DEF Ntf
  <1>5. p.id \in Nat /\ p.req \in Nat /\ p.tag \in Tag /\ Second(m.type) \in NotificationType
    <2>1. m.tag \in Tag
      BY DEF Notification
    <2> QED BY <1>1, <2>1, ComplementIsTag, SecondType DEF Processor
  <1> HIDE DEF second
  <1>6. second \in Notification
    BY <1>4, <1>5 DEF Notification
  <1>7. second.type = Second(m.type) /\ second.tag = p.tag /\ second.id = p.id
    BY <1>4
  <1> QED BY <1>1, <1>3, <1>6, <1>7 DEF second

\* The second exchange agrees on no number.
LEMMA RemoteUpdateNumbers ==
  ASSUME NumberInv, TypeOK, ProcessorsInv, NEW n \in Node, onRemoteRequest(n),
         Head(net[n]).type = "CA_ALLOCATE"
  PROVE  NumberInv'
  <1> DEFINE m == Head(net[n])
  <1>1. /\ m \in Notification /\ m.type \in RequestType /\ net[n] # <<>>
        /\ UNCHANGED <<call, answers, free, reqs>>
    BY RemoteRequestReaches
  <1>2. PICK old \in Processor, p \in Processor : RemoteReached(n, m, old, p)
    BY RemoteRequestReaches
  <1>3. m.type = "CA_ALLOCATE"
    OBVIOUS
  <1> HIDE DEF m
  <1>4. /\ p.ntfType \notin Negotiation /\ Second(m.type) \notin Negotiation
        /\ \A k \in Node : \A q \in proc'[k] : q \in proc[k] \/ q = p
    BY <1>1, <1>2, <1>3, SecondType DEF RemoteReached, Negotiation, TypeOK
  <1>5. /\ net'[n] = Tail(net[n])
        /\ \/ net'[Other(n)] = net[Other(n)]
           \/ \E l \in Notification : /\ l.type \notin Negotiation
                                      /\ net'[Other(n)] = Append(net[Other(n)], l)
    BY <1>1, <1>2, <1>4, RemoteAnswered
  <1>6. SendsNoNumber
    BY <1>1, <1>5 DEF SendsNoNumber, Other, Node
  <1>7. free'[Master] \in Nat /\ free'[Master] >= free[Master]
    BY <1>1 DEF TypeOK, Node
  <1>8. \A k \in Node, t \in Tag, i \in Nat : Held(k, t, i)' => Held(k, t, i)
    BY <1>1 DEF Held, Asks
  <1> QED BY <1>4, <1>6, <1>7, <1>8, ForgettingKeeps

\* The message at the head of the slave's queue is the lowest offer for its tag.
LEMMA LowestOffer ==
  ASSUME NumberInv, TypeOK, net[Slave] # <<>>, Head(net[Slave]).type \in Negotiation,
         Head(net[Slave]).tag \in Tag
  PROVE  /\ Sent(Slave, Head(net[Slave]).tag, Negotiation, Head(net[Slave]).id)
         /\ \A i \in DOMAIN Tail(net[Slave]) :
              /\ \E j \in DOMAIN net[Slave] : Tail(net[Slave])[i] = net[Slave][j]
              /\ Offers(Head(net[Slave]).tag, Tail(net[Slave])[i])
                   => Head(net[Slave]).id <= Tail(net[Slave])[i].id
  <1>1. net[Slave] \in Seq(Notification)
    BY DEF TypeOK, Node
  <1>2. /\ 1 \in DOMAIN net[Slave] /\ Head(net[Slave]) = net[Slave][1]
        /\ \A i \in DOMAIN Tail(net[Slave]) :
             i \in Nat /\ i >= 1 /\ i + 1 \in DOMAIN net[Slave] /\ Tail(net[Slave])[i] = net[Slave][i + 1]
    BY <1>1, QueueElements
  <1>3. Sent(Slave, Head(net[Slave]).tag, Negotiation, Head(net[Slave]).id)
    BY <1>2 DEF Sent
  <1>4. InOrder(net[Slave], Head(net[Slave]).tag)
    BY DEF NumberInv
  <1>5. ASSUME NEW i \in DOMAIN Tail(net[Slave]),
               Offers(Head(net[Slave]).tag, Tail(net[Slave])[i])
        PROVE  Head(net[Slave]).id <= Tail(net[Slave])[i].id
    <2>1. 1 < i + 1 /\ i + 1 \in DOMAIN net[Slave] /\ Tail(net[Slave])[i] = net[Slave][i + 1]
      BY <1>2
    <2>2. Offers(Head(net[Slave]).tag, net[Slave][1])
      BY <1>2 DEF Offers
    <2> QED BY <1>2, <1>4, <1>5, <2>1, <2>2 DEF InOrder
  <1> QED BY <1>2, <1>3, <1>5

\* The slave takes the master's offer, and confirms it when its client waits.
LEMMA SlaveTakesOffer ==
  ASSUME SessionInv, NumberInv, TypeOK, ProcessorsInv, onRemoteRequest(Slave),
         Head(net[Slave]).type = "ALLOCATE"
  PROVE  NumberInv'
  <1> DEFINE m == Head(net[Slave])
             t == m.tag
             u == getComplementingTag(t)
  <1>1. Slave \in Node /\ Master \in Node /\ Slave # Master /\ Other(Slave) = Master
    BY NodesDiffer DEF Node, Other
  <1>2. /\ m \in Notification /\ m.type = "ALLOCATE" /\ m.type \in RequestType
        /\ net[Slave] # <<>> /\ UNCHANGED <<call, ipc, answers, free, reqs>>
    BY <1>1, RemoteRequestReaches
  <1>3. PICK old \in Processor, p \in Processor : RemoteReached(Slave, m, old, p)
    BY <1>1, RemoteRequestReaches
  <1>4. /\ t \in Tag /\ m.id \in Nat /\ u \in Tag /\ getComplementingTag(u) = t
    BY <1>2, ComplementTwice DEF Notification
  <1>5. /\ Sent(Slave, t, Negotiation, m.id)
        /\ \A i \in DOMAIN Tail(net[Slave]) :
             /\ \E j \in DOMAIN net[Slave] : Tail(net[Slave])[i] = net[Slave][j]
             /\ Offers(t, Tail(net[Slave])[i]) => m.id <= Tail(net[Slave])[i].id
    BY <1>2, <1>4, LowestOffer DEF Negotiation
  <1>6. /\ net'[Slave] = Tail(net[Slave])
        /\ \A i \in DOMAIN net'[Master] :
             \/ i \in DOMAIN net[Master] /\ net'[Master][i] = net[Master][i]
             \/ Reached(old) /\ net'[Master][i].tag = u /\ net'[Master][i].id = p.id
    <2> DEFINE second == Ntf(Second(m.type), p)
    <2>1. /\ net'[Slave] = Tail(net[Slave])
          /\ ~Reached(old) => net'[Master] = net[Master]
          /\ Reached(old) => net'[Master] = Append(net[Master], second)
          /\ second \in Notification /\ second.tag = u /\ second.id = p.id
      BY <1>1, <1>2, <1>3, RemoteAnswered
    <2>2. net[Master] \in Seq(Notification)
      BY <1>1 DEF TypeOK
    <2> HIDE DEF second, m
    <2>3. \A i \in DOMAIN Append(net[Master], second) :
            \/ i \in DOMAIN net[Master] /\ Append(net[Master], second)[i] = net[Master][i]
            \/ Append(net[Master], second)[i] = second
      BY <2>1, <2>2, QueueElements
    <2> QED BY <2>1, <2>3
  <1> HIDE DEF m
  <1>7. /\ p.tag = u /\ p.id = m.id /\ p.got
        /\ proc'[Master] = proc[Master]
        /\ \A q \in proc'[Slave] : q = p \/ (q \in proc[Slave] /\ q # old)
        /\ Reached(old) => old \in proc[Slave] /\ old.tag = u /\ old.ntfType = "ALLOCATE"
    BY <1>1, <1>2, <1>3 DEF RemoteReached, TypeOK
  <1>8. Reached(old) =>
          /\ \A q \in proc[Slave] : q.tag = u => q.ntfType \notin Negotiation \/ q = old
          /\ \A k : ~Held(Slave, u, k)
    <2> SUFFICES ASSUME Reached(old)
                 PROVE  /\ \A q \in proc[Slave] : q.tag = u => q.ntfType \notin Negotiation \/ q = old
                        /\ \A k : ~Held(Slave, u, k)
      OBVIOUS
    <2>1. \A k : ~Held(Slave, u, k)
      BY <1>1, <1>4, <1>7, BargainsNotHeld DEF Negotiation
    <2>2. \A q \in proc[Slave] : q.ntfType = "CHECK_MAP" => Reached(q)
      <3> SUFFICES ASSUME NEW q \in proc[Slave], q.ntfType = "CHECK_MAP"
                   PROVE  Reached(q)
        OBVIOUS
      <3>1. q \in Processor /\ (q.reqType # "UNKNOWN" => q.reqType = q.ntfType)
        BY <1>1 DEF TypeOK, ProcessorsInv
      <3> QED BY <3>1 DEF Processor, RequestType, Reached
    <2>3. \A q \in proc[Slave] : q.tag = u =>
            /\ Reached(q) => q = old
            /\ q.ntfType = "ALLOCATE" => q = old
      BY <1>1, <1>7 DEF SessionInv, UniqueInv
    <2> QED BY <2>1, <2>2, <2>3 DEF Negotiation
  <1> SUFFICES ASSUME NEW s \in Tag
               PROVE  Bounded(s)' /\ InOrder(net[Slave], s)' /\ TakenFirst(s)'
    BY DEF NumberInv
  <1>9. getComplementingTag(s) = u => s = t
    BY <1>4, ComplementTwice
  <1>10. \A k \in Node, r \in Tag, i \in Nat : Held(k, r, i)' <=> Held(k, r, i)
    BY <1>2 DEF Held, Asks
  <1> HIDE DEF t, u
  <1>11. InOrder(net[Slave], s)'
    <2>1. InOrder(Tail(net[Slave]), s)
      BY <1>1, <1>2, OrderKept DEF NumberInv, TypeOK
    <2>2. InOrder(net'[Slave], s)
      BY <1>6, <2>1
    <2> QED BY <2>2 DEF InOrder, Offers
  <1>12. TakenFirst(s)'
    <2> SUFFICES ASSUME NEW q \in proc'[Slave], NEW j \in DOMAIN net'[Slave],
                        Bargains(q, getComplementingTag(s)), q.got, Offers(s, net'[Slave][j])
                 PROVE  q.id <= net'[Slave][j].id
      BY DEF TakenFirst, Bargains, Offers
    <2>1. CASE q \in proc[Slave]
      <3>1. PICK i \in DOMAIN net[Slave] : net'[Slave][j] = net[Slave][i]
        BY <1>5, <1>6
      <3> QED BY <2>1, <3>1 DEF NumberInv, TakenFirst
    <2>2. CASE q = p
      <3>1. s = t
        BY <1>7, <1>9, <2>2 DEF Bargains
      <3> QED BY <1>5, <1>6, <1>7, <2>2, <3>1
    <2> QED BY <1>7, <2>1, <2>2
  <1>13. \A k : Sent(Slave, s, Negotiation, k)' => Sent(Slave, s, Negotiation, k)
    BY <1>5, <1>6 DEF Sent
  <1>14. ASSUME NEW k \in Nat
         PROVE  /\ Chosen(s, k)' => Chosen(s, k)
                /\ Offered(s, k)' => Offered(s, k)
                /\ Confirmed(s, k)' => Confirmed(s, k) \/ (s = t /\ Reached(old) /\ k = m.id)
    <2>1. Chosen(s, k)' => Chosen(s, k)
      BY <1>1, <1>7, <1>10 DEF Chosen, Bargains, Reached
    <2>2. ASSUME NEW q \in proc'[Slave], Bargains(q, getComplementingTag(s)), q.got, q.id = k
          PROVE  Offered(s, k)
      <3>1. CASE q \in proc[Slave]
        BY <2>2, <3>1 DEF Offered
      <3>2. CASE q = p
        <4>1. s = t
          BY <1>7, <1>9, <2>2, <3>2 DEF Bargains
        <4> QED BY <1>5, <1>7, <2>2, <3>2, <4>1 DEF Offered
      <3> QED BY <1>7, <3>1, <3>2
    <2>3. Held(Slave, getComplementingTag(s), k)' => Held(Slave, getComplementingTag(s), k)
      BY <1>1, <1>10, ComplementTwice
    <2>4. Offered(s, k)' => Offered(s, k)
      BY <1>13, <2>2, <2>3 DEF Offered, Bargains
    <2>5. Sent(Master, getComplementingTag(s), {"CHECK_MAP"}, k)' =>
            \/ Sent(Master, getComplementingTag(s), {"CHECK_MAP"}, k)
            \/ getComplementingTag(s) = u /\ Reached(old) /\ k = m.id
      BY <1>6, <1>7 DEF Sent
    <2>6. Confirmed(s, k)' => Confirmed(s, k) \/ (s = t /\ Reached(old) /\ k = m.id)
      BY <1>1, <1>9, <1>10, <2>5 DEF Confirmed
    <2> QED BY <2>1, <2>4, <2>6
  <1>15. ASSUME NEW l \in Nat, s = t, Reached(old)
         PROVE  /\ m.id <= free[Master]
                /\ Offered(s, l)' \/ Chosen(s, l)' => m.id <= l
    <2>1. Bounded(t) /\ Offered(t, m.id)
      BY <1>4, <1>5 DEF NumberInv, Offered
    <2>2. m.id <= free[Master] /\ (Chosen(t, l) => m.id <= l)
      BY <1>4, <2>1 DEF Bounded
    <2>3. Sent(Slave, s, Negotiation, l)' => m.id <= l
      BY <1>5, <1>6, <1>15 DEF Sent, Offers
    <2>4. getComplementingTag(s) = u /\ u \in Tag
      BY <1>4, <1>15 DEF u
    <2>5. \A q \in proc'[Slave] : Bargains(q, getComplementingTag(s)) => q.id = m.id
      BY <1>7, <1>8, <1>15, <2>4 DEF Bargains
    <2>6. ~Held(Slave, getComplementingTag(s), l)'
      BY <1>1, <1>8, <1>10, <1>15, <2>4, ComplementTwice
    <2>7. Offered(s, l)' => m.id <= l
      BY <2>3, <2>5, <2>6 DEF Offered, Bargains
    <2> QED BY <1>14, <1>15, <2>2, <2>7
  <1>16. Bounded(s)'
    <2> DEFINE more == IF s = t /\ Reached(old) THEN {m.id} ELSE {}
    <2>1. /\ \A k \in Nat : Confirmed(s, k)' => Confirmed(s, k) \/ k \in more
          /\ \A i \in more, l \in Nat :
               i <= free[Master] /\ (Offered(s, l)' \/ Chosen(s, l)' => i <= l)
      BY <1>14, <1>15
    <2>2. Bounded(s) /\ UNCHANGED free
      BY <1>2 DEF NumberInv
    <2> HIDE DEF more
    <2> QED BY <1>14, <2>1, <2>2, MoreConfirmed
  <1> QED BY <1>11, <1>12, <1>16

\* The master answers the slave's request with the number it has chosen, when
\* its own client waits.
LEMMA MasterTakesOffer ==
  ASSUME SessionInv, NumberInv, TypeOK, ProcessorsInv, onRemoteRequest(Master),
         Head(net[Master]).type = "ALLOCATE"
  PROVE  NumberInv'
  <1>1. Slave \in Node /\ Master \in Node /\ Slave # Master /\ Other(Master) = Slave
    BY NodesDiffer DEF Node, Other
  <1>2. PICK m \in Notification : m = Head(net[Master])
    BY <1>1, RemoteRequestReaches
  <1>3. /\ m.type = "ALLOCATE" /\ m.type \in RequestType
        /\ net[Master] # <<>> /\ UNCHANGED <<call, ipc, answers, free, reqs>>
    BY <1>1, <1>2, RemoteRequestReaches
  <1>4. PICK old \in Processor, p \in Processor : RemoteReached(Master, m, old, p)
    BY <1>1, <1>2, RemoteRequestReaches
  <1>5. PICK t \in Tag : t = getComplementingTag(m.tag)
    <2>1. m.tag \in Tag
      BY DEF Notification
    <2> QED BY <2>1, ComplementTwice
  <1>6. /\ net'[Master] = Tail(net[Master])
        /\ \/ net'[Slave] = net[Slave]
           \/ \E l \in Notification : /\ Reached(old) /\ l.tag = t /\ l.id = p.id
                                      /\ net'[Slave] = Append(net[Slave], l)
    BY <1>1, <1>3, <1>4, <1>5, RemoteAnswered
  <1>7. /\ p.tag = t /\ p.id = old.id /\ (Reached(p) <=> Reached(old))
        /\ proc'[Slave] = proc[Slave]
        /\ \A q \in proc'[Master] : q = p \/ q \in proc[Master]
        /\ Reached(old) => old \in proc[Master] /\ Bargains(old, t)
    BY <1>1, <1>3, <1>4, <1>5 DEF RemoteReached, TypeOK, Reached, Bargains, Negotiation
  <1>8. \A k \in Node, r \in Tag, i \in Nat : Held(k, r, i)' <=> Held(k, r, i)
    BY <1>3 DEF Held, Asks
  <1>9. /\ \A i \in DOMAIN Tail(net[Master]) :
             \E j \in DOMAIN net[Master] : Tail(net[Master])[i] = net[Master][j]
        /\ net[Slave] \in Seq(Notification) /\ old.id \in Nat
    <2>1. net[Master] \in Seq(Notification) /\ net[Slave] \in Seq(Notification)
      BY <1>1 DEF TypeOK
    <2> QED BY <1>3, <2>1, QueueElements DEF Processor
  <1>10. \A i \in DOMAIN net'[Slave] :
           \/ \E j \in DOMAIN net[Slave] : net'[Slave][i] = net[Slave][j]
           \/ Reached(old) /\ net'[Slave][i].tag = t /\ net'[Slave][i].id = old.id
    <2>1. CASE net'[Slave] = net[Slave]
      BY <2>1
    <2>2. ASSUME NEW l \in Notification, Reached(old), l.tag = t, l.id = p.id,
                 net'[Slave] = Append(net[Slave], l)
          PROVE  \A i \in DOMAIN net'[Slave] :
                   \/ \E j \in DOMAIN net[Slave] : net'[Slave][i] = net[Slave][j]
                   \/ Reached(old) /\ net'[Slave][i].tag = t /\ net'[Slave][i].id = old.id
      <3>1. \A i \in DOMAIN Append(net[Slave], l) :
              \/ i \in DOMAIN net[Slave] /\ Append(net[Slave], l)[i] = net[Slave][i]
              \/ Append(net[Slave], l)[i] = l
        BY <1>9, QueueElements
      <3> QED BY <1>7, <2>2, <3>1
    <2> QED BY <1>6, <2>1, <2>2
  <1>11. Reached(old) =>
           /\ Chosen(t, old.id)
           /\ \A l : Chosen(t, l) => l = old.id
    <2> SUFFICES ASSUME Reached(old)
                 PROVE  Chosen(t, old.id) /\ \A l : Chosen(t, l) => l = old.id
      OBVIOUS
    <2>1. old \in proc[Master] /\ Bargains(old, t) /\ old.tag = t
      BY <1>7 DEF Bargains
    <2>2. \A q \in proc[Master] : q.tag = t /\ Reached(q) => q = old
      BY <1>1, <2>1 DEF SessionInv, UniqueInv
    <2>3. \A l : ~Held(Master, t, l)
      BY <1>1, <2>1, BargainsNotHeld DEF Bargains
    <2> QED BY <2>1, <2>2, <2>3 DEF Chosen, Bargains
  <1> SUFFICES ASSUME NEW s \in Tag
               PROVE  Bounded(s)' /\ InOrder(net[Slave], s)' /\ TakenFirst(s)'
    BY DEF NumberInv
  <1>12. getComplementingTag(s) \in Tag /\ Bounded(s)
    BY ComplementTwice DEF NumberInv
  <1>13. ASSUME NEW k \in Nat
         PROVE  /\ Chosen(s, k)' => Chosen(s, k)
                /\ Offered(s, k)' => Offered(s, k) \/ (s = t /\ Reached(old) /\ k = old.id)
                /\ Confirmed(s, k)' => Confirmed(s, k)
    <2>1. ASSUME NEW q \in proc'[Master], Bargains(q, s), Reached(q), q.id = k
          PROVE  Chosen(s, k)
      <3>1. CASE q \in proc[Master]
        BY <2>1, <3>1 DEF Chosen
      <3>2. CASE q = p
        <4>1. s = t /\ Reached(old) /\ k = old.id
          BY <1>7, <2>1, <3>2 DEF Bargains
        <4> QED BY <1>11, <4>1
      <3> QED BY <1>7, <3>1, <3>2
    <2>2. Chosen(s, k)' => Chosen(s, k)
      BY <1>1, <1>8, <2>1 DEF Chosen, Bargains, Reached
    <2>3. Sent(Slave, s, Negotiation, k)' =>
            Sent(Slave, s, Negotiation, k) \/ (s = t /\ Reached(old) /\ k = old.id)
      BY <1>10 DEF Sent
    <2>4. Offered(s, k)' => Offered(s, k) \/ (s = t /\ Reached(old) /\ k = old.id)
      BY <1>1, <1>7, <1>8, <1>12, <2>3 DEF Offered, Bargains
    <2>5. Sent(Master, getComplementingTag(s), {"CHECK_MAP"}, k)' =>
            Sent(Master, getComplementingTag(s), {"CHECK_MAP"}, k)
      BY <1>6, <1>9 DEF Sent
    <2>6. Confirmed(s, k)' => Confirmed(s, k)
      BY <1>1, <1>8, <2>5 DEF Confirmed
    <2> QED BY <2>2, <2>4, <2>6
  <1>14. Bounded(s)'
    <2> SUFFICES ASSUME NEW k \in Nat, NEW l \in Nat
                 PROVE  /\ Offered(s, k)' \/ Chosen(s, k)' \/ Confirmed(s, k)' => k <= free[Master]
                        /\ Offered(s, k)' /\ Chosen(s, l)' => k <= l
                        /\ Confirmed(s, k)' /\ (Offered(s, l)' \/ Chosen(s, l)') => k <= l
      BY <1>3 DEF Bounded
    <2>1. /\ Offered(s, k) \/ Chosen(s, k) \/ Confirmed(s, k) => k <= free[Master]
          /\ Offered(s, k) /\ Chosen(s, l) => k <= l
          /\ Confirmed(s, k) /\ (Offered(s, l) \/ Chosen(s, l)) => k <= l
      BY <1>12 DEF Bounded
    <2>2. /\ Chosen(s, k)' => Chosen(s, k)
          /\ Chosen(s, l)' => Chosen(s, l)
          /\ Offered(s, k)' => Offered(s, k) \/ (s = t /\ Reached(old) /\ k = old.id)
          /\ Offered(s, l)' => Offered(s, l) \/ (s = t /\ Reached(old) /\ l = old.id)
          /\ Confirmed(s, k)' => Confirmed(s, k)
      BY <1>13
    <2>3. Offered(s, k)' => Offered(s, k) \/ (Chosen(s, k) /\ \A i : Chosen(s, i) => i = k)
      BY <1>11, <2>2
    <2>4. Offered(s, l)' => Offered(s, l) \/ Chosen(s, l)
      BY <1>11, <2>2
    <2>5. Offered(s, k)' /\ Chosen(s, l)' => k <= l
      <3>1. CASE Offered(s, k)
        BY <2>1, <2>2, <3>1
      <3>2. CASE \A i : Chosen(s, i) => i = k
        BY <2>2, <3>2
      <3> QED BY <2>3, <3>1, <3>2
    <2>6. Offered(s, k)' \/ Chosen(s, k)' \/ Confirmed(s, k)' => k <= free[Master]
      BY <2>1, <2>2, <2>3
    <2>7. Confirmed(s, k)' /\ (Offered(s, l)' \/ Chosen(s, l)') => k <= l
      BY <2>1, <2>2, <2>4
    <2> QED BY <2>5, <2>6, <2>7
  <1>15. ASSUME Reached(old), s = t
         PROVE  \A k \in Nat : Offered(s, k) => k <= old.id
    BY <1>9, <1>11, <1>12, <1>15 DEF Bounded
  <1>16. InOrder(net[Slave], s)'
    <2>1. InOrder(net[Slave], s)
      BY DEF NumberInv
    <2>2. ASSUME NEW l \in Notification, Reached(old), l.tag = t, l.id = p.id,
                 net'[Slave] = Append(net[Slave], l)
          PROVE  InOrder(net'[Slave], s)
      <3>1. ASSUME Offers(s, l), NEW i \in DOMAIN net[Slave], Offers(s, net[Slave][i])
            PROVE  net[Slave][i].id <= l.id
        <4>1. Offered(s, net[Slave][i].id) /\ net[Slave][i].id \in Nat
          BY <1>1, <3>1, NumbersNatural DEF Offered, Sent, Offers
        <4> QED BY <1>7, <1>15, <2>2, <3>1, <4>1 DEF Offers
      <3>2. Offers(s, l) => \A i \in DOMAIN net[Slave] :
              Offers(s, net[Slave][i]) => net[Slave][i].id <= l.id
        BY <3>1
      <3> QED BY <1>9, <2>1, <2>2, <3>2, OrderKept
    <2>3. InOrder(net'[Slave], s)
      BY <1>6, <2>1, <2>2
    <2> QED BY <2>3 DEF InOrder, Offers
  <1>17. TakenFirst(s)'
    <2> SUFFICES ASSUME NEW q \in proc[Slave], NEW j \in DOMAIN net'[Slave],
                        Bargains(q, getComplementingTag(s)), q.got, Offers(s, net'[Slave][j])
                 PROVE  q.id <= net'[Slave][j].id
      BY <1>7 DEF TakenFirst, Bargains, Offers
    <2>1. ASSUME NEW i \in DOMAIN net[Slave], net'[Slave][j] = net[Slave][i]
          PROVE  q.id <= net'[Slave][j].id
      BY <2>1 DEF NumberInv, TakenFirst
    <2>2. ASSUME Reached(old), net'[Slave][j].tag = t, net'[Slave][j].id = old.id
          PROVE  q.id <= net'[Slave][j].id
      <3>1. Offered(s, q.id) /\ q.id \in Nat
        BY <1>1, NumbersNatural DEF Offered
      <3> QED BY <1>15, <2>2, <3>1 DEF Offers
    <2> QED BY <1>10, <2>1, <2>2
  <1> QED BY <1>14, <1>16, <1>17

-----------------------------------------------------------------------------
(* The theorem. *)

\* Initially there is neither session nor number.
LEMMA InitNumbers == Init => SessionInv /\ NumberInv
  <1> SUFFICES ASSUME Init
               PROVE  SessionInv /\ NumberInv
    OBVIOUS
  <1>1. /\ \A n \in Node : /\ proc[n] = {} /\ answers[n] = {} /\ ipc[n] = None
                           /\ net[n] = <<>> /\ \A t \in Tag : call[n][t].at = "idle"
        /\ Master \in Node /\ Slave \in Node
    BY DEF Init, Node
  <1>2. SessionInv
    BY <1>1 DEF SessionInv, ReachedInv, LeavesInv, UniqueInv, Leaves, Waiting
  <1>3. \A n \in Node, t \in Tag : \A types, k : ~Sent(n, t, types, k) /\ ~Held(n, t, k)
    BY <1>1 DEF Sent, Held, Asks
  <1>4. ASSUME NEW t \in Tag
        PROVE  Bounded(t) /\ InOrder(net[Slave], t) /\ TakenFirst(t)
    <2>1. getComplementingTag(t) \in Tag
      BY ComplementTwice
    <2>2. \A k : ~Offered(t, k) /\ ~Chosen(t, k) /\ ~Confirmed(t, k)
      BY <1>1, <1>3, <2>1 DEF Offered, Chosen, Confirmed
    <2> QED BY <1>1, <2>2 DEF Bounded, InOrder, TakenFirst
  <1> QED BY <1>2, <1>4 DEF NumberInv

\* Every step keeps the numbers.
LEMMA StepKeepsNumbers ==
  ASSUME SessionInv, NumberInv, NegotiationInv, [Next]_vars
  PROVE  NumberInv'
  <1>1. TypeOK /\ ProcessorsInv /\ AnswersInv
    BY DEF NegotiationInv
  <1>2. CASE QuietStep
    BY <1>1, <1>2, QuietNumbers
  <1>3. ASSUME NEW n \in Node, onRemoteRequest(n)
        PROVE  NumberInv'
    <2>1. Head(net[n]).type = "ALLOCATE" \/ Head(net[n]).type = "CA_ALLOCATE"
      BY <1>3 DEF onRemoteRequest, Receives, RequestType
    <2>2. n = Master \/ n = Slave
      BY DEF Node
    <2>3. CASE Head(net[n]).type = "CA_ALLOCATE"
      BY <1>1, <1>3, <2>3, RemoteUpdateNumbers
    <2>4. CASE Head(net[n]).type = "ALLOCATE"
      BY <1>1, <1>3, <2>2, <2>4, SlaveTakesOffer, MasterTakesOffer
    <2> QED BY <2>1, <2>3, <2>4
  <1>4. CASE \E n \in Node : onRemoteConfirmation(n)
    BY <1>1, <1>4, ConfirmationNumbers
  <1>5. CASE \E n \in Node : RemoveLocal(n) \/ getAnswer(n)
    BY <1>1, <1>5, LocalNumbers
  <1>6. CASE \E n \in Node, t \in Tag : Removes(n, t)
    BY <1>1, <1>6, RemovalNumbers
  <1>7. ASSUME NEW n \in Node, NEW t \in Tag, NEW type \in RequestType, NEW id \in Nat,
               RequestStep(n, type, t, id)
        PROVE  NumberInv'
    <2>1. CASE type = "CA_ALLOCATE"
      BY <1>1, <1>7, <2>1, UpdateNumbers
    <2>2. CASE type = "ALLOCATE"
      BY <1>1, <1>7, <2>2, SlaveStarts, MasterStarts DEF Node
    <2> QED BY <2>1, <2>2 DEF RequestType
  <1> QED BY <1>1, <1>2, <1>3, <1>4, <1>5, <1>6, <1>7, StepKinds

\* The sessions of the clients and the numbers they bargain for, for any tags,
\* processes, numbers of requests and faults.
THEOREM NumbersAgreed == Spec => [](SessionInv /\ NumberInv)
  <1>1. Init => SessionInv /\ NumberInv
    BY InitNumbers
  <1>2. SessionInv /\ NumberInv /\ NegotiationInv /\ [Next]_vars => (SessionInv /\ NumberInv)'
    BY StepKeepsSession, StepKeepsNumbers
  <1> QED BY NegotiationCorrect, <1>1, <1>2, PTL DEF Spec

\* Two ends that ask their agents at the same time ask for the same number,
\* whatever was lost, repeated or given up before.
THEOREM BothAskForOneNumber == Spec => []SameNumber
  <1>1. TypeOK /\ NumberInv => SameNumber
    <2> SUFFICES ASSUME TypeOK, NumberInv, NEW t \in Tag,
                        Asks(Master, t), Asks(Slave, getComplementingTag(t))
                 PROVE  call[Master][t].id = call[Slave][getComplementingTag(t)].id
      BY DEF SameNumber
    <2> DEFINE y == call[Master][t].id
               x == call[Slave][getComplementingTag(t)].id
    <2>1. x \in Nat /\ y \in Nat
      BY ComplementTwice, NumbersNatural DEF Node
    <2>2. Held(Master, t, y) /\ Held(Slave, getComplementingTag(t), x)
      BY DEF Held
    <2>3. Confirmed(t, y) /\ Chosen(t, y) /\ Offered(t, x)
      BY <2>2 DEF Confirmed, Chosen, Offered
    <2> HIDE DEF x, y
    <2>4. x <= y /\ y <= x
      BY <2>1, <2>3 DEF NumberInv, Bounded
    <2>5. x = y
      BY <2>1, <2>4
    <2> QED BY <2>5 DEF x, y
  <1>2. NegotiationInv => TypeOK
    BY DEF NegotiationInv
  <1> QED BY NegotiationCorrect, NumbersAgreed, <1>1, <1>2, PTL

=============================================================================
