---------------------- MODULE ChannelAllocationProofs ----------------------
(***************************************************************************)
(* Safety of ChannelAllocation for any set of channels and clients, any    *)
(* service queue size and any number of client requests: the types, and    *)
(* that the two maps and L0 agree on which channels exist.  Both hold of   *)
(* the agents of ClientProxy too: a client process only ever moves them in *)
(* the ways of AgentsMove, and every lemma about a step is stated for it.  *)
(***************************************************************************)
EXTENDS ClientProxy, TLAPS

\* The peer of a device is a device.
LEMMA OtherType ==
  ASSUME NEW n \in Node PROVE Other(n) \in Node
  <1>1. \E m \in Node : m # n BY NodeAssumption
  <1>2. QED BY <1>1 DEF Other

\* A message built from the protocol's operations and codes is a message.
LEMMA MsgType ==
  ASSUME NEW op \in Op, NEW ch \in Channel, NEW err \in Error
  PROVE Msg(op, ch, err) \in Message
  BY DEF Msg, Message

\* sendRequest appends at most one message to one queue.
LEMMA SendType ==
  ASSUME NEW n \in Node, NEW q \in [Node -> Seq(Message)], NEW m \in Message
  PROVE sendRequest(n, q, m) \in [Node -> Seq(Message)]
  BY OtherType DEF sendRequest

\* sendIpcNotification appends at most one notification, to a known client.
LEMMA NotifyType ==
  ASSUME ntf \in [Node -> [Client -> Seq(Message)]],
         NEW n \in Node, NEW dir, NEW m \in Message
  PROVE sendIpcNotification(n, dir, m) \in [Node -> [Client -> Seq(Message)]]
  BY DEF sendIpcNotification

\* The head of a nonempty service queue is a message; the rest is a queue.
LEMMA ReceiveType ==
  ASSUME TypeOK, NEW n \in Node, net[n] # <<>>
  PROVE /\ Head(net[n]) \in Message
        /\ Popped(n) \in [Node -> Seq(Message)]
  <1>1. net[n] \in Seq(Message) BY DEF TypeOK
  <1>2. Head(net[n]) \in Message /\ Tail(net[n]) \in Seq(Message) BY <1>1
  <1>3. QED BY <1>2 DEF Popped, TypeOK

\* "Not in the map" is told apart from every entry.
LEMMA NoneIsNoEntry == None \notin Entry
  BY DEF None, Entry

\* What beginAllocateChannel returns is well typed.
LEMMA BeginType ==
  ASSUME TypeOK, NEW n \in Node, NEW ch \in Channel,
         NEW client_side \in BOOLEAN, NEW dirId \in Dir
  PROVE LET r == beginAllocateChannel(n, ch, client_side, dirId)
        IN /\ r.err \in {"ok", "busy", "inprogress", "deferred"}
           /\ r.req \in Entry \cup {None}
           /\ r.reg \in Entry \cup {None}
           /\ r.dir \in Dir
  <1> DEFINE info == requested[n][ch]
             dir == OpenDir(info, client_side, dirId)
  <1>1. info \in Entry \cup {None} /\ registry[n][ch] \in Entry \cup {None}
    BY DEF TypeOK
  <1>2. info.dir \in Dir /\ dir \in Dir
    BY <1>1 DEF Entry, None, Dir, OpenDir
  <1>3. [state |-> IF client_side THEN "client" ELSE "agent", dir |-> dirId] \in Entry
    BY DEF Entry
  <1>4. info # None => [state |-> info.state, dir |-> dir] \in Entry
    BY <1>1, <1>2 DEF Entry
  <1>5. QED BY <1>1, <1>2, <1>3, <1>4 DEF beginAllocateChannel, Opens

\* Types survive a client request or a handler that applies beginAllocateChannel.
LEMMA ApplyType ==
  ASSUME TypeOK, NEW n \in Node, NEW ch \in Channel,
         NEW client_side \in BOOLEAN, NEW dirId \in Dir,
         Apply(n, ch, beginAllocateChannel(n, ch, client_side, dirId))
  PROVE /\ requested' \in [Node -> [Channel -> Entry \cup {None}]]
        /\ registry' \in [Node -> [Channel -> Entry \cup {None}]]
        /\ opened' \in [Node -> SUBSET Channel]
  <1> DEFINE r == beginAllocateChannel(n, ch, client_side, dirId)
  <1>1. r.req \in Entry \cup {None} /\ r.reg \in Entry \cup {None} BY BeginType
  <1>2. Apply(n, ch, r) OBVIOUS
  <1> HIDE DEF r
  <1>3. QED BY <1>1, <1>2 DEF Apply, TypeOK

\* Closing a channel keeps the set of open channels a set of channels.
LEMMA CloseType ==
  ASSUME TypeOK, NEW n \in Node, NEW ch, CloseChannel(n, ch)
  PROVE opened' \in [Node -> SUBSET Channel]
  <1>1. opened[n] \ {ch} \in SUBSET Channel /\ opened[n] \in SUBSET Channel
    BY DEF TypeOK
  <1>2. CASE opened' = [opened EXCEPT ![n] = opened[n] \ {ch}]
    BY <1>1, <1>2 DEF TypeOK
  <1>3. CASE opened' = [opened EXCEPT ![n] = opened[n]]
    BY <1>1, <1>3 DEF TypeOK
  <1>4. QED BY <1>2, <1>3 DEF CloseChannel

-----------------------------------------------------------------------------
\* What a step of the proxy model or of the model with arbitrary clients does
\* to the agents, the channel between them and the notifications: a step of
\* the receiving or of the timeout thread, the handler of a client's request,
\* or the delivery of a notification.  The two models differ in the clients.
Request(n, d, ch) ==
  \/ processClientAllocateRequest(n, d, ch)
  \/ processClientDeallocateByWD(n, d, ch)

Delivery(n, d) ==
  /\ ntf[n][d] # <<>>
  /\ ntf' = [ntf EXCEPT ![n][d] = Tail(@)]
  /\ UNCHANGED <<agentVars, net>>

AgentsMove ==
  \/ \E n \in Node : ServiceStep(n) \/ TimeoutStep(n)
  \/ \E n \in Node, ch \in Channel : processClientDeallocateRequest(n, ch)
  \/ \E n \in Node, d \in Client : Delivery(n, d) \/ \E ch \in Channel : Request(n, d, ch)
  \/ UNCHANGED <<agentVars, net, ntf>>

\* Agents that move keep the types.
LEMMA MoveType ==
  ASSUME TypeOK, AgentsMove, calls' \in [Node -> Nat]
  PROVE TypeOK'
<1>1. CASE UNCHANGED <<agentVars, net, ntf>>
  BY <1>1 DEF TypeOK, agentVars
<1>2. ASSUME NEW n \in Node, NEW d \in Client, NEW ch \in Channel,
             processClientAllocateRequest(n, d, ch)
      PROVE TypeOK'
  <2>2. d \in Dir /\ TRUE \in BOOLEAN BY DEF Dir
  <2>3. Apply(n, ch, beginAllocateChannel(n, ch, TRUE, d))
    BY <1>2 DEF processClientAllocateRequest
  <2>4. net' \in [Node -> Seq(Message)]
    <3>1. Msg("alloc", ch, "ok") \in Message BY MsgType DEF Op, Error
    <3>2. net \in [Node -> Seq(Message)] BY DEF TypeOK
    <3>3. sendRequest(n, net, Msg("alloc", ch, "ok")) \in [Node -> Seq(Message)]
      BY <3>1, <3>2, SendType
    <3>4. QED BY <1>2, <3>2, <3>3 DEF processClientAllocateRequest
  <2>5. /\ requested' \in [Node -> [Channel -> Entry \cup {None}]]
        /\ registry' \in [Node -> [Channel -> Entry \cup {None}]]
        /\ opened' \in [Node -> SUBSET Channel]
    BY <2>2, <2>3, ApplyType
  <2>6. UNCHANGED <<timers, expiring, handling, ntf>>
    BY <1>2 DEF processClientAllocateRequest
  <2>7. QED BY <2>4, <2>5, <2>6 DEF TypeOK
<1>3. ASSUME NEW n \in Node, NEW ch \in Channel, NEW dir \in Dir,
             BeginDeallocate(n, ch, dir)
      PROVE TypeOK'
  <2>1. Msg("dealloc", ch, "ok") \in Message BY MsgType DEF Op, Error
  <2>2. net \in [Node -> Seq(Message)] BY DEF TypeOK
  <2>3. net' \in [Node -> Seq(Message)]
    BY <1>3, <2>1, <2>2, SendType DEF BeginDeallocate
  <2>4. [state |-> "client", dir |-> dir] \in Entry BY DEF Entry
  <2>5. registry' \in [Node -> [Channel -> Entry \cup {None}]]
    BY <1>3, <2>4 DEF BeginDeallocate, TypeOK
  <2>6. timers' \in [Node -> Seq({"alloc", "dealloc"} \X Channel)]
    BY <1>3 DEF BeginDeallocate, TypeOK
  <2>7. QED BY <1>3, <2>3, <2>5, <2>6 DEF BeginDeallocate, TypeOK
<1>4. ASSUME NEW n \in Node, NEW ch \in Channel, processClientDeallocateRequest(n, ch)
      PROVE TypeOK'
  <2>1. registry[n][ch] # None => registry[n][ch].dir \in Dir
    BY DEF TypeOK, Entry
  <2>2. QED BY <1>1, <1>3, <1>4, <2>1 DEF processClientDeallocateRequest
<1>5. ASSUME NEW n \in Node, NEW d \in Client, NEW ch \in Channel,
             processClientDeallocateByWD(n, d, ch)
      PROVE TypeOK'
  BY <1>1, <1>3, <1>5 DEF processClientDeallocateByWD, Dir
<1>6. ASSUME NEW n \in Node, NEW d \in Client, Delivery(n, d)
      PROVE TypeOK'
  <2>1. ntf[n][d] \in Seq(Message) /\ ntf[n][d] # <<>>
    BY <1>6 DEF Delivery, TypeOK
  <2>2. Tail(ntf[n][d]) \in Seq(Message) BY <2>1
  <2>3. ntf' \in [Node -> [Client -> Seq(Message)]]
    BY <1>6, <2>2 DEF Delivery, TypeOK
  <2>4. QED BY <1>6, <2>3 DEF Delivery, TypeOK, agentVars
<1>7. ASSUME NEW n \in Node, processServiceAllocateRequest(n)
      PROVE TypeOK'
  <2> DEFINE ch == Head(net[n]).ch
             r == beginAllocateChannel(n, ch, FALSE, NoDir)
             resp == Msg("alloc_resp", ch, r.err)
  <2>1. net[n] # <<>> BY <1>7 DEF processServiceAllocateRequest, Receives
  <2>2. ch \in Channel BY <2>1, ReceiveType DEF Message
  <2>3. NoDir \in Dir /\ FALSE \in BOOLEAN BY DEF Dir
  <2>4. r.err \in {"ok", "busy", "inprogress", "deferred"}
    BY <2>2, <2>3, BeginType
  <2>5. resp \in Message BY <2>2, <2>4, MsgType DEF Op, Error
  <2>6. Apply(n, ch, r) BY <1>7 DEF processServiceAllocateRequest
  <2>7. /\ requested' \in [Node -> [Channel -> Entry \cup {None}]]
        /\ registry' \in [Node -> [Channel -> Entry \cup {None}]]
        /\ opened' \in [Node -> SUBSET Channel]
    BY <2>2, <2>3, <2>6, ApplyType
  <2>8. /\ net' = IF r.err = "deferred" THEN Popped(n)
                  ELSE sendRequest(n, Popped(n), resp)
        /\ timers' = IF r.err = "deferred"
                     THEN [timers EXCEPT ![n] = Append(@, <<"alloc", ch>>)] ELSE timers
        /\ ntf' = IF r.err \in {"ok", "deferred"}
                  THEN ntf ELSE sendIpcNotification(n, r.dir, resp)
        /\ UNCHANGED <<expiring, handling, calls>>
    BY <1>7 DEF processServiceAllocateRequest
  <2> HIDE DEF resp, r
  <2>9. net' \in [Node -> Seq(Message)]
    BY <2>1, <2>5, <2>8, ReceiveType, SendType
  <2>10. ntf \in [Node -> [Client -> Seq(Message)]] BY DEF TypeOK
  <2>11. ntf' \in [Node -> [Client -> Seq(Message)]]
    BY <2>5, <2>8, <2>10, NotifyType
  <2>12. timers' \in [Node -> Seq({"alloc", "dealloc"} \X Channel)]
    <3> HIDE DEF ch
    <3>1. QED BY <2>2, <2>8 DEF TypeOK
  <2>13. QED BY <2>7, <2>8, <2>9, <2>11, <2>12 DEF TypeOK
<1>8. ASSUME NEW n \in Node, processServiceAllocateResponse(n)
      PROVE TypeOK'
  <2> DEFINE m == Head(net[n])
             info == registry[n][m.ch]
             err == IF m.err = "ok" /\ info = None THEN "notfound" ELSE m.err
             step == IF err = "ok" /\ info.state = "agent" THEN "forward" ELSE "finish"
             dirId == IF err = "ok" THEN info.dir ELSE NoDir
  <2>1. net[n] # <<>> BY <1>8 DEF processServiceAllocateResponse, Receives
  <2>2. m \in Message BY <2>1, ReceiveType
  <2>3. m.ch \in Channel /\ m.err \in Error BY <2>2 DEF Message
  <2>4. info \in Entry \cup {None} BY <2>3 DEF TypeOK
  <2>5. dirId \in Dir BY <2>4 DEF Entry, Dir
  <2>6. err \in Error BY <2>3 DEF Error
  <2>7. [m EXCEPT !.err = err] \in Message BY <2>2, <2>6 DEF Message
  <2>8. Todo(step, [m EXCEPT !.err = err], dirId) \in Work
    BY <2>5, <2>7 DEF Work, Todo
  <2>9. registry' = IF err = "ok"
                    THEN [registry EXCEPT ![n][m.ch].state = "operational"] ELSE registry
    BY <1>8 DEF processServiceAllocateResponse
  <2>10. registry' \in [Node -> [Channel -> Entry \cup {None}]]
    <3>1. err = "ok" => [info EXCEPT !.state = "operational"] \in Entry
      BY <2>4 DEF Entry
    <3>2. QED BY <2>3, <2>9, <3>1 DEF TypeOK
  <2>11. handling' = [handling EXCEPT ![n] = Todo(step, [m EXCEPT !.err = err], dirId)]
    BY <1>8 DEF processServiceAllocateResponse
  <2>12. handling' \in [Node -> Work \cup {Idle}]
    BY <2>8, <2>11 DEF TypeOK
  <2>13. net' \in [Node -> Seq(Message)]
    BY <1>8, <2>1, ReceiveType DEF processServiceAllocateResponse
  <2>14. QED
    BY <1>8, <2>10, <2>12, <2>13 DEF processServiceAllocateResponse, TypeOK
<1>9. ASSUME NEW n \in Node, handling[n].step \in {"forward", "finish", "reply", "erase"}
      PROVE /\ handling[n] \in Work
            /\ handling[n].msg \in Message
            /\ handling[n].msg.ch \in Channel
  <2>1. handling[n] \in Work BY <1>9 DEF TypeOK, Idle
  <2>2. QED BY <2>1 DEF Work, Message
<1>9a. ASSUME NEW n \in Node, forwardAllocateResponse(n)
       PROVE TypeOK'
  <2> DEFINE h == handling[n]
             err == IF CanSend(n) THEN "ok" ELSE "nobuf"
  <2>1. h \in Work /\ h.msg \in Message BY <1>9, <1>9a DEF forwardAllocateResponse
  <2>2. net \in [Node -> Seq(Message)] BY DEF TypeOK
  <2>3. net' \in [Node -> Seq(Message)]
    BY <1>9a, <2>1, <2>2, SendType DEF forwardAllocateResponse
  <2>4. [h.msg EXCEPT !.err = err] \in Message BY <2>1 DEF Message, Error
  <2>5. [h EXCEPT !.step = "finish", !.msg.err = err] \in Work
    BY <2>1, <2>4 DEF Work
  <2>6. handling' = [handling EXCEPT ![n] = [h EXCEPT !.step = "finish", !.msg.err = err]]
    BY <1>9a DEF forwardAllocateResponse, TypeOK
  <2> HIDE DEF h, err
  <2>7. handling' \in [Node -> Work \cup {Idle}]
    BY <2>5, <2>6 DEF TypeOK
  <2>8. QED BY <1>9a, <2>3, <2>7 DEF forwardAllocateResponse, TypeOK
<1>9b. ASSUME NEW n \in Node, notifyAllocated(n)
       PROVE TypeOK'
  <2>1. handling[n].msg \in Message BY <1>9, <1>9b DEF notifyAllocated
  <2>2. ntf \in [Node -> [Client -> Seq(Message)]] BY DEF TypeOK
  <2>3. ntf' \in [Node -> [Client -> Seq(Message)]]
    BY <1>9b, <2>1, <2>2, NotifyType DEF notifyAllocated
  <2>4. QED BY <1>9b, <2>3 DEF notifyAllocated, TypeOK
<1>9c. ASSUME NEW n \in Node, failAllocateChannel(n)
       PROVE TypeOK'
  <2> DEFINE m == handling[n].msg
  <2>2. m \in Message /\ m.ch \in Channel BY <1>9, <1>9c DEF failAllocateChannel
  <2>3. ntf \in [Node -> [Client -> Seq(Message)]] BY DEF TypeOK
  <2>4. \E dir : ntf' = sendIpcNotification(n, dir, m)
    BY <1>9c DEF failAllocateChannel
  <2>5. ntf' \in [Node -> [Client -> Seq(Message)]]
    BY <2>2, <2>3, <2>4, NotifyType
  <2>6. /\ requested' = [requested EXCEPT ![n][m.ch] = None]
        /\ registry' = [registry EXCEPT ![n][m.ch] = None]
        /\ opened' = [opened EXCEPT ![n] =
                        IF registry[n][m.ch] # None THEN @ \ {m.ch} ELSE @]
        /\ handling' = [handling EXCEPT ![n] = Idle]
        /\ UNCHANGED <<net, timers, expiring, calls>>
    BY <1>9c DEF failAllocateChannel
  <2> HIDE DEF m
  <2>7. QED BY <2>2, <2>5, <2>6 DEF TypeOK
<1>10. ASSUME NEW n \in Node, processServiceDeallocateRequest(n)
       PROVE TypeOK'
  <2> DEFINE ch == Head(net[n]).ch
             m == Msg("dealloc_resp", ch, deallocateResult(n, ch))
  <2>1. net[n] # <<>> BY <1>10 DEF processServiceDeallocateRequest, Receives
  <2>2. ch \in Channel BY <2>1, ReceiveType DEF Message
  <2>3. deallocateResult(n, ch) \in {"ok", "notfound"} BY DEF deallocateResult
  <2>4. m \in Message BY <2>2, <2>3, MsgType DEF Op, Error
  <2>5. Todo("reply", m, NoDir) \in Work BY <2>4 DEF Work, Dir, Todo
  <2>6. net' \in [Node -> Seq(Message)]
    BY <1>10, <2>1, ReceiveType DEF processServiceDeallocateRequest
  <2>7. handling' \in [Node -> Work \cup {Idle}]
    BY <1>10, <2>5 DEF processServiceDeallocateRequest, TypeOK
  <2>8. opened' \in [Node -> SUBSET Channel]
    BY <1>10, CloseType DEF processServiceDeallocateRequest
  <2>9. QED
    BY <1>10, <2>6, <2>7, <2>8 DEF processServiceDeallocateRequest, TypeOK
<1>10a. ASSUME NEW n \in Node, replyDeallocate(n)
        PROVE TypeOK'
  <2> DEFINE m == handling[n].msg
  <2>1. m \in Message BY <1>9, <1>10a DEF replyDeallocate
  <2>2. net \in [Node -> Seq(Message)] BY DEF TypeOK
  <2>3. net' \in [Node -> Seq(Message)]
    BY <1>10a, <2>1, <2>2, SendType DEF replyDeallocate
  <2>4. [m EXCEPT !.op = "dealloc_ntf"] \in Message BY <2>1 DEF Message, Op
  <2>5. Todo("erase", [m EXCEPT !.op = "dealloc_ntf"], NoDir) \in Work
    BY <2>4 DEF Work, Dir, Todo
  <2>6. handling' \in [Node -> Work \cup {Idle}]
    BY <1>10a, <2>5 DEF replyDeallocate, TypeOK
  <2>7. QED BY <1>10a, <2>3, <2>6 DEF replyDeallocate, TypeOK
<1>11. ASSUME NEW n \in Node, processServiceDeallocateResponse(n)
       PROVE TypeOK'
  <2> DEFINE m == Head(net[n])
  <2>1. net[n] # <<>> BY <1>11 DEF processServiceDeallocateResponse, Receives
  <2>2. m \in Message /\ Popped(n) \in [Node -> Seq(Message)] BY <2>1, ReceiveType
  <2>3. Todo("erase", m, NoDir) \in Work
    BY <2>2 DEF Work, Dir, Todo
  <2>4. handling' \in [Node -> Work \cup {Idle}]
    BY <1>11, <2>3 DEF processServiceDeallocateResponse, TypeOK
  <2>5. opened' \in [Node -> SUBSET Channel]
    <3>1. opened' = opened \/ CloseChannel(n, m.ch)
      BY <1>11 DEF processServiceDeallocateResponse
    <3>2. CASE opened' = opened BY <3>2 DEF TypeOK
    <3>3. CASE CloseChannel(n, m.ch) BY <3>3, CloseType
    <3>4. QED BY <3>1, <3>2, <3>3
  <2>6. QED
    BY <1>11, <2>2, <2>4, <2>5 DEF processServiceDeallocateResponse, TypeOK
<1>12. ASSUME NEW n \in Node, eraseDeallocated(n)
       PROVE TypeOK'
  <2> DEFINE m == handling[n].msg
  <2>2. m \in Message /\ m.ch \in Channel BY <1>9, <1>12 DEF eraseDeallocated
  <2>3. ntf \in [Node -> [Client -> Seq(Message)]] BY DEF TypeOK
  <2>4. ntf' = ntf \/ \E dir : ntf' = sendIpcNotification(n, dir, m)
    BY <1>12 DEF eraseDeallocated
  <2>5. ntf' \in [Node -> [Client -> Seq(Message)]]
    BY <2>2, <2>3, <2>4, NotifyType
  <2>6. /\ registry' = [registry EXCEPT ![n][m.ch] = None]
        /\ handling' = [handling EXCEPT ![n] = Idle]
        /\ UNCHANGED <<requested, opened, net, timers, expiring, calls>>
    BY <1>12 DEF eraseDeallocated
  <2> HIDE DEF m
  <2>7. QED BY <2>2, <2>5, <2>6 DEF TypeOK
<1>13. ASSUME NEW n \in Node, timers[n] # <<>>
       PROVE /\ Head(timers[n])[2] \in Channel
             /\ [timers EXCEPT ![n] = Tail(@)]
                  \in [Node -> Seq({"alloc", "dealloc"} \X Channel)]
  <2>1. timers[n] \in Seq({"alloc", "dealloc"} \X Channel) BY DEF TypeOK
  <2>2. /\ Head(timers[n]) \in {"alloc", "dealloc"} \X Channel
        /\ Tail(timers[n]) \in Seq({"alloc", "dealloc"} \X Channel)
    BY <1>13, <2>1
  <2>3. QED BY <2>2 DEF TypeOK
<1>14. ASSUME NEW n \in Node, TimeoutAllocateCheck(n)
       PROVE TypeOK'
  <2>1. timers[n] # <<>> BY <1>14 DEF TimeoutAllocateCheck, Fires
  <2>2. expiring' \in [Node -> SUBSET Expiry]
    BY <1>13, <1>14, <2>1 DEF TimeoutAllocateCheck, TypeOK, Expiry
  <2>3. QED BY <1>13, <1>14, <2>1, <2>2 DEF TimeoutAllocateCheck, TypeOK
<1>15. ASSUME NEW n \in Node, TimeoutAllocateErase(n)
       PROVE TypeOK'
  <2>1. PICK ch \in Channel :
          /\ requested' = [requested EXCEPT ![n][ch] = None]
          /\ expiring' = [expiring EXCEPT ![n] = {<<"send", ch>>}]
    BY <1>15 DEF TimeoutAllocateErase
  <2>2. expiring' \in [Node -> SUBSET Expiry] BY <2>1 DEF TypeOK, Expiry
  <2>3. requested' \in [Node -> [Channel -> Entry \cup {None}]]
    BY <2>1 DEF TypeOK
  <2>4. QED BY <1>15, <2>2, <2>3 DEF TimeoutAllocateErase, TypeOK
<1>15a. ASSUME NEW n \in Node, TimeoutAllocateSend(n)
        PROVE TypeOK'
  <2>1. PICK ch \in Channel : net' = sendRequest(n, net, Msg("alloc_resp", ch, "timeout"))
    BY <1>15a DEF TimeoutAllocateSend
  <2>2. Msg("alloc_resp", ch, "timeout") \in Message BY MsgType DEF Op, Error
  <2>3. net \in [Node -> Seq(Message)] BY DEF TypeOK
  <2>4. net' \in [Node -> Seq(Message)] BY <2>1, <2>2, <2>3, SendType
  <2>5. expiring' \in [Node -> SUBSET Expiry] BY <1>15a DEF TimeoutAllocateSend, TypeOK
  <2>6. QED BY <1>15a, <2>4, <2>5 DEF TimeoutAllocateSend, TypeOK
<1>16. ASSUME NEW n \in Node, TimeoutDeallocate(n)
       PROVE TypeOK'
  <2> DEFINE ch == Head(timers[n])[2]
  <2>1. timers[n] # <<>> BY <1>16 DEF TimeoutDeallocate, Fires
  <2>2. Msg("dealloc_resp", ch, "timeout") \in Message
    BY <1>13, <2>1, MsgType DEF Op, Error
  <2>3. ntf \in [Node -> [Client -> Seq(Message)]] BY DEF TypeOK
  <2>4. \/ ntf' = ntf
        \/ \E dir : ntf' = sendIpcNotification(n, dir, Msg("dealloc_resp", ch, "timeout"))
    BY <1>16 DEF TimeoutDeallocate
  <2>5. ntf' \in [Node -> [Client -> Seq(Message)]]
    BY <2>2, <2>3, <2>4, NotifyType
  <2>6. QED BY <1>13, <1>16, <2>1, <2>5 DEF TimeoutDeallocate, TypeOK
<1>17. QED
  BY <1>1, <1>2, <1>4, <1>5, <1>6, <1>7, <1>8, <1>9a, <1>9b, <1>9c,
     <1>10, <1>10a, <1>11, <1>12, <1>14, <1>15, <1>15a, <1>16
  DEF AgentsMove, Request, ServiceStep, TimeoutStep

\* A step of the model with arbitrary clients moves the agents; it counts calls.
LEMMA NextMoves ==
  ASSUME TypeOK, [Next]_vars
  PROVE AgentsMove /\ calls' \in [Node -> Nat]
<1> USE DEF TypeOK
<1>1. CASE UNCHANGED vars
  BY <1>1 DEF AgentsMove, vars
<1>2. ASSUME NEW n \in Node, ServiceStep(n) \/ TimeoutStep(n)
      PROVE AgentsMove /\ UNCHANGED calls
  <2>1. AgentsMove BY <1>2 DEF AgentsMove
  <2>2. ServiceStep(n) => UNCHANGED calls
    <3>1. processServiceAllocateRequest(n) => UNCHANGED calls
      BY DEF processServiceAllocateRequest
    <3>2. processServiceAllocateResponse(n) => UNCHANGED calls
      BY DEF processServiceAllocateResponse
    <3>3. forwardAllocateResponse(n) \/ notifyAllocated(n) \/ failAllocateChannel(n)
          => UNCHANGED calls
      BY DEF forwardAllocateResponse, notifyAllocated, failAllocateChannel
    <3>4. processServiceDeallocateRequest(n) \/ replyDeallocate(n) => UNCHANGED calls
      BY DEF processServiceDeallocateRequest, replyDeallocate
    <3>5. processServiceDeallocateResponse(n) \/ eraseDeallocated(n) => UNCHANGED calls
      BY DEF processServiceDeallocateResponse, eraseDeallocated
    <3>6. QED BY <3>1, <3>2, <3>3, <3>4, <3>5 DEF ServiceStep
  <2>3. TimeoutStep(n) => UNCHANGED calls
    <3>1. TimeoutAllocateCheck(n) => UNCHANGED calls
      BY DEF TimeoutAllocateCheck
    <3>2. TimeoutAllocateErase(n) \/ TimeoutAllocateSend(n) => UNCHANGED calls
      BY DEF TimeoutAllocateErase, TimeoutAllocateSend
    <3>3. TimeoutDeallocate(n) => UNCHANGED calls
      BY DEF TimeoutDeallocate
    <3>4. QED BY <3>1, <3>2, <3>3 DEF TimeoutStep
  <2>4. QED BY <1>2, <2>1, <2>2, <2>3
<1>3. ASSUME NEW n \in Node, NEW d \in Client, ClientReceive(n, d)
      PROVE AgentsMove /\ UNCHANGED calls
  <2>1. Delivery(n, d) BY <1>3 DEF ClientReceive, Delivery
  <2>2. QED BY <1>3, <2>1 DEF ClientReceive, AgentsMove
<1>4. ASSUME NEW n \in Node, NEW d \in Client, NEW ch \in Channel,
             ClientAllocate(n, d, ch) \/ ClientDeallocateByWD(n, d, ch)
      PROVE AgentsMove /\ calls' \in [Node -> Nat]
  <2>1. Request(n, d, ch) BY <1>4 DEF ClientAllocate, ClientDeallocateByWD, Request
  <2>2. ClientCalls(n) BY <1>4 DEF ClientAllocate, ClientDeallocateByWD
  <2>3. QED BY <2>1, <2>2 DEF AgentsMove, ClientCalls
<1>5. ASSUME NEW n \in Node, NEW ch \in Channel, ClientDeallocate(n, ch)
      PROVE AgentsMove /\ calls' \in [Node -> Nat]
  BY <1>5 DEF ClientDeallocate, ClientCalls, AgentsMove
<1>6. QED BY <1>1, <1>2, <1>3, <1>4, <1>5 DEF Next, ClientStep

\* Every reachable state is well typed.
THEOREM TypeCorrect == Spec => []TypeOK
<1>1. Init => TypeOK
  BY DEF Init, TypeOK, Idle
<1>2. TypeOK /\ [Next]_vars => TypeOK'
  BY NextMoves, MoveType
<1>3. QED BY <1>1, <1>2, PTL DEF Spec

-----------------------------------------------------------------------------
(* While the receiving thread is between the critical sections of a          *)
(* deallocation the channel is registered and closed.  This is what makes    *)
(* RegisteredIffOpen inductive: the erasing step forgets a channel that L0   *)
(* does not have any more, and no client can reopen it before.               *)
ErasingIsClosed ==
  \A n \in Node, ch \in Channel :
    Erasing(n, ch) => registry[n][ch] # None /\ ch \notin opened[n]

IInv ==
  /\ TypeOK
  /\ NotRequestedAndRegistered
  /\ RegisteredIffOpen
  /\ ErasingIsClosed

\* What beginAllocateChannel does to one channel, seen from the three sets
\* it may be in: it registers only what is not registered, opening it and
\* dropping the request, and touches nothing that is registered.
LEMMA BeginEffect ==
  ASSUME IInv, NEW n \in Node, NEW ch \in Channel,
         NEW client_side \in BOOLEAN, NEW dirId \in Dir
  PROVE LET r == beginAllocateChannel(n, ch, client_side, dirId)
        IN /\ r.reg = None \/ r.req = None
           /\ registry[n][ch] # None => r.reg = registry[n][ch]
  BY DEF beginAllocateChannel, Opens, IInv, NotRequestedAndRegistered

\* Applying beginAllocateChannel keeps the invariant.
LEMMA ApplyInv ==
  ASSUME IInv, NEW n \in Node, NEW ch \in Channel,
         NEW client_side \in BOOLEAN, NEW dirId \in Dir,
         Apply(n, ch, beginAllocateChannel(n, ch, client_side, dirId)),
         UNCHANGED handling
  PROVE NotRequestedAndRegistered' /\ RegisteredIffOpen' /\ ErasingIsClosed'
  <1> DEFINE r == beginAllocateChannel(n, ch, client_side, dirId)
  <1>1. /\ r.reg = None \/ r.req = None
        /\ registry[n][ch] # None => r.reg = registry[n][ch]
    BY BeginEffect
  <1>2. Apply(n, ch, r) OBVIOUS
  <1> HIDE DEF r
  <1> USE DEF IInv, TypeOK
  <1>3. NotRequestedAndRegistered'
    BY <1>1, <1>2 DEF Apply, NotRequestedAndRegistered
  <1>4. RegisteredIffOpen'
    BY <1>1, <1>2 DEF Apply, RegisteredIffOpen, Erasing
  <1>5. ErasingIsClosed'
    <2> SUFFICES ASSUME NEW k \in Node, NEW c \in Channel, Erasing(k, c)'
                 PROVE registry'[k][c] # None /\ c \notin opened'[k]
      BY DEF ErasingIsClosed
    <2>1. registry[k][c] # None /\ c \notin opened[k]
      BY DEF ErasingIsClosed, Erasing
    <2>2. CASE k = n /\ c = ch
      <3>1. r.reg = registry[n][ch] BY <1>1, <2>1, <2>2
      <3>2. registry'[n][ch] = registry[n][ch] /\ opened'[n] = opened[n]
        BY <1>2, <3>1 DEF Apply
      <3>3. QED BY <2>1, <2>2, <3>2
    <2>3. CASE k # n \/ c # ch
      BY <1>2, <2>1, <2>3 DEF Apply
    <2>4. QED BY <2>2, <2>3
  <1>6. QED BY <1>3, <1>4, <1>5

\* Agents that move preserve the inductive invariant.
LEMMA InvPreserved ==
  ASSUME IInv, AgentsMove
  PROVE NotRequestedAndRegistered' /\ RegisteredIffOpen' /\ ErasingIsClosed'
  <1> DEFINE Goal == NotRequestedAndRegistered' /\ RegisteredIffOpen' /\ ErasingIsClosed'
  <1> USE DEF NotRequestedAndRegistered, RegisteredIffOpen, ErasingIsClosed, Erasing
  <1>t. TypeOK BY DEF IInv
  <1>1. CASE UNCHANGED <<requested, registry, opened, handling>>
    BY <1>1 DEF IInv
  <1>2. ASSUME NEW n \in Node, NEW d \in Client, NEW ch \in Channel,
               processClientAllocateRequest(n, d, ch)
        PROVE Goal
    BY <1>2, ApplyInv DEF processClientAllocateRequest, Dir
  <1>3. ASSUME NEW n \in Node, NEW ch \in Channel, NEW dir,
               registry[n][ch] # None, BeginDeallocate(n, ch, dir)
        PROVE Goal
    <2>1. [state |-> "client", dir |-> dir] # None BY DEF None
    <2>2. QED BY <1>3, <1>t, <2>1 DEF BeginDeallocate, IInv, TypeOK
  <1>4. ASSUME NEW n \in Node, NEW ch \in Channel, processClientDeallocateRequest(n, ch)
        PROVE Goal
    BY <1>1, <1>3, <1>4 DEF processClientDeallocateRequest, agentVars
  <1>5. ASSUME NEW n \in Node, NEW d \in Client, NEW ch \in Channel,
               processClientDeallocateByWD(n, d, ch)
        PROVE Goal
    BY <1>1, <1>3, <1>5 DEF processClientDeallocateByWD, agentVars
  <1>6. ASSUME NEW n \in Node, NEW d \in Client, Delivery(n, d)
        PROVE Goal
    BY <1>1, <1>6 DEF Delivery, agentVars
  <1>7. ASSUME NEW n \in Node, processServiceAllocateRequest(n)
        PROVE Goal
    <2> DEFINE ch == Head(net[n]).ch
    <2>1. net[n] # <<>> BY <1>7 DEF processServiceAllocateRequest, Receives
    <2>2. ch \in Channel BY <1>t, <2>1, ReceiveType DEF Message
    <2>3. Apply(n, ch, beginAllocateChannel(n, ch, FALSE, NoDir)) /\ UNCHANGED handling
      BY <1>7 DEF processServiceAllocateRequest
    <2> HIDE DEF ch
    <2>4. QED BY <2>2, <2>3, ApplyInv DEF Dir
  <1>8. ASSUME NEW n \in Node, processServiceAllocateResponse(n)
        PROVE Goal
    <2> DEFINE m == Head(net[n])
               err == IF m.err = "ok" /\ registry[n][m.ch] = None THEN "notfound" ELSE m.err
    <2>1. net[n] # <<>> /\ handling[n] = Idle
      BY <1>8 DEF processServiceAllocateResponse, Receives
    <2>2. m.ch \in Channel BY <1>t, <2>1, ReceiveType DEF Message
    <2>3. registry' = IF err = "ok" THEN [registry EXCEPT ![n][m.ch].state = "operational"]
                      ELSE registry
      BY <1>8 DEF processServiceAllocateResponse
    <2>4. /\ handling'[n].step \in {"forward", "finish"}
          /\ \A k \in Node : k # n => handling'[k] = handling[k]
          /\ UNCHANGED <<requested, opened>>
      BY <1>8, <1>t DEF processServiceAllocateResponse, TypeOK, Todo
    <2>5. [registry[n][m.ch] EXCEPT !.state = "operational"] # None
      BY <1>t, <2>2 DEF TypeOK, Entry, None
    <2>6. err = "ok" => registry[n][m.ch] # None OBVIOUS
    <2> HIDE DEF m, err
    <2>7. \A k \in Node, c \in Channel : registry'[k][c] = None <=> registry[k][c] = None
      BY <1>t, <2>2, <2>3, <2>5, <2>6 DEF TypeOK
    <2>8. \A k \in Node, c \in Channel : Erasing(k, c)' <=> Erasing(k, c)
      BY <2>1, <2>4 DEF Idle
    <2>9. QED BY <2>4, <2>7, <2>8 DEF IInv
  <1>9. ASSUME NEW n \in Node, forwardAllocateResponse(n) \/ notifyAllocated(n)
        PROVE Goal
    <2>1. /\ handling[n].step \in {"forward", "finish"}
          /\ handling'[n].step \in {"finish", "idle"}
          /\ \A k \in Node : k # n => handling'[k] = handling[k]
          /\ UNCHANGED <<requested, registry, opened>>
      <3>1. CASE forwardAllocateResponse(n)
        <4>1. handling[n] \in Work
          BY <1>t, <3>1 DEF forwardAllocateResponse, TypeOK, Idle
        <4>2. QED BY <1>t, <3>1, <4>1 DEF forwardAllocateResponse, TypeOK, Work
      <3>2. CASE notifyAllocated(n)
        BY <1>t, <3>2 DEF notifyAllocated, TypeOK, Idle
      <3>3. QED BY <1>9, <3>1, <3>2
    <2>2. \A k \in Node, c \in Channel : Erasing(k, c)' <=> Erasing(k, c)
      BY <2>1
    <2>3. QED BY <2>1, <2>2 DEF IInv
  <1>9a. ASSUME NEW n \in Node, failAllocateChannel(n)
         PROVE Goal
    <2> DEFINE ch == handling[n].msg.ch
    <2>1. handling[n] \in Work BY <1>9a, <1>t DEF failAllocateChannel, TypeOK, Idle
    <2>2. ch \in Channel BY <2>1 DEF Work, Message
    <2>3. /\ handling[n].step = "finish"
          /\ requested' = [requested EXCEPT ![n][ch] = None]
          /\ registry' = [registry EXCEPT ![n][ch] = None]
          /\ opened' = [opened EXCEPT ![n] =
                          IF registry[n][ch] # None THEN @ \ {ch} ELSE @]
          /\ handling' = [handling EXCEPT ![n] = Idle]
      BY <1>9a DEF failAllocateChannel
    <2> HIDE DEF ch
    <2>4. \A k \in Node, c \in Channel :
            /\ k # n \/ c # ch =>
                 /\ registry'[k][c] = registry[k][c]
                 /\ requested'[k][c] = requested[k][c]
                 /\ c \in opened'[k] <=> c \in opened[k]
            /\ k = n /\ c = ch =>
                 /\ registry'[k][c] = None
                 /\ requested'[k][c] = None
                 /\ c \notin opened'[k]
      <3>1. ch \in opened[n] => registry[n][ch] # None BY <2>2 DEF IInv
      <3>2. opened[n] \in SUBSET Channel BY <1>t DEF TypeOK
      <3>3. CASE registry[n][ch] # None BY <1>t, <2>2, <2>3, <3>3 DEF TypeOK
      <3>4. CASE registry[n][ch] = None
        <4>1. ch \notin opened[n] BY <3>1, <3>4
        <4>2. opened' = opened BY <1>t, <2>3, <3>4 DEF TypeOK
        <4>3. QED BY <1>t, <2>2, <2>3, <4>1, <4>2 DEF TypeOK
      <3>5. QED BY <3>3, <3>4
    <2>5. /\ \A c \in Channel : ~Erasing(n, c)
          /\ \A c \in Channel : ~Erasing(n, c)'
      BY <1>t, <2>3 DEF TypeOK, Idle
    <2>6. \A k \in Node, c \in Channel : k # n => (Erasing(k, c)' <=> Erasing(k, c))
      BY <1>t, <2>3 DEF TypeOK
    <2> HIDE DEF Erasing
    <2>7. QED BY <2>4, <2>5, <2>6 DEF IInv
  <1>10. ASSUME NEW n \in Node, NEW ch \in Channel, NEW todo,
                handling[n] = Idle, UNCHANGED <<requested, registry>>,
                CloseChannel(n, ch),
                handling' = [handling EXCEPT ![n] = todo],
                deallocateResult(n, ch) = "ok"
                  => /\ todo.step \in {"reply", "erase"}
                     /\ todo.msg.ch = ch /\ todo.msg.err = "ok",
                deallocateResult(n, ch) # "ok"
                  => todo.step = "idle" \/ (todo.step = "reply" /\ todo.msg.err # "ok")
         PROVE Goal
    <2>1. CASE deallocateResult(n, ch) = "ok"
      <3>1. registry[n][ch] # None /\ ch \in opened[n]
        BY <2>1 DEF deallocateResult
      <3>2. opened' = [opened EXCEPT ![n] = @ \ {ch}]
        BY <1>10, <3>1 DEF CloseChannel
      <3>3. /\ handling'[n] = todo
            /\ \A k \in Node : k # n => handling'[k] = handling[k]
        BY <1>10, <1>t DEF TypeOK
      <3>4. \A c \in Channel : ~Erasing(n, c) BY <1>10 DEF Idle
      <3>5. \A c \in Channel : Erasing(n, c)' <=> c = ch BY <1>10, <2>1, <3>3
      <3>6. \A k \in Node, c \in Channel : k # n => (Erasing(k, c)' <=> Erasing(k, c))
        BY <3>3
      <3> HIDE DEF Erasing
      <3>7. QED BY <1>10, <1>t, <3>1, <3>2, <3>4, <3>5, <3>6 DEF IInv, TypeOK
    <2>2. CASE deallocateResult(n, ch) # "ok"
      <3>1. \A c \in Channel : ~Erasing(n, c) BY <1>10 DEF Idle
      <3>2. ch \notin opened[n] BY <2>2, <1>t DEF deallocateResult, IInv
      <3>3. opened' = opened BY <1>10, <1>t, <3>2 DEF CloseChannel, TypeOK
      <3>4. /\ handling'[n] = todo
            /\ \A k \in Node : k # n => handling'[k] = handling[k]
        BY <1>10, <1>t DEF TypeOK
      <3>5. \A k \in Node, c \in Channel : Erasing(k, c)' <=> Erasing(k, c)
        BY <1>10, <2>2, <3>1, <3>4
      <3> HIDE DEF Erasing
      <3>6. QED BY <1>10, <3>3, <3>5 DEF IInv
    <2>3. QED BY <2>1, <2>2
  <1>11. ASSUME NEW n \in Node, processServiceDeallocateRequest(n)
         PROVE Goal
    <2> DEFINE ch == Head(net[n]).ch
               todo == Todo("reply", Msg("dealloc_resp", ch, deallocateResult(n, ch)), NoDir)
    <2>1. net[n] # <<>> /\ handling[n] = Idle
      BY <1>11 DEF processServiceDeallocateRequest, Receives
    <2>2. ch \in Channel BY <1>t, <2>1, ReceiveType DEF Message
    <2>3. /\ todo.step = "reply" /\ todo.msg.ch = ch
          /\ todo.msg.err = deallocateResult(n, ch)
      BY DEF Msg, Todo
    <2>4. /\ UNCHANGED <<requested, registry>>
          /\ CloseChannel(n, ch)
          /\ handling' = [handling EXCEPT ![n] = todo]
      BY <1>11 DEF processServiceDeallocateRequest
    <2> HIDE DEF ch, todo
    <2>5. QED BY <1>10, <2>1, <2>2, <2>3, <2>4
  <1>11a. ASSUME NEW n \in Node, replyDeallocate(n)
          PROVE Goal
    <2> DEFINE m == handling[n].msg
    <2>1. handling[n].step = "reply" /\ UNCHANGED <<requested, registry, opened>>
      BY <1>11a DEF replyDeallocate
    <2>2. handling[n] \in Work BY <1>t, <2>1 DEF TypeOK, Idle
    <2>3. m \in Message BY <2>2 DEF Work
    <2>4. /\ handling'[n] = IF m.err = "ok"
                            THEN Todo("erase", [m EXCEPT !.op = "dealloc_ntf"], NoDir)
                            ELSE Idle
          /\ \A k \in Node : k # n => handling'[k] = handling[k]
      BY <1>11a, <1>t DEF replyDeallocate, TypeOK
    <2>5. /\ [m EXCEPT !.op = "dealloc_ntf"].ch = m.ch
          /\ [m EXCEPT !.op = "dealloc_ntf"].err = m.err
      BY <2>3 DEF Message
    <2>6. \A c \in Channel : Erasing(n, c)' <=> Erasing(n, c)
      BY <2>1, <2>4, <2>5 DEF Todo, Idle
    <2>7. \A k \in Node, c \in Channel : Erasing(k, c)' <=> Erasing(k, c)
      BY <2>4, <2>6
    <2> HIDE DEF Erasing
    <2>8. QED BY <2>1, <2>7 DEF IInv
  <1>12. ASSUME NEW n \in Node, processServiceDeallocateResponse(n)
         PROVE Goal
    <2> DEFINE m == Head(net[n])
               todo == IF deallocateResult(n, m.ch) = "ok" THEN Todo("erase", m, NoDir)
                       ELSE Idle
    <2>1. net[n] # <<>> /\ handling[n] = Idle
      BY <1>12 DEF processServiceDeallocateResponse, Receives
    <2>2. m.ch \in Channel BY <1>t, <2>1, ReceiveType DEF Message
    <2>3. UNCHANGED <<requested, registry>>
      BY <1>12 DEF processServiceDeallocateResponse
    <2>4. CASE UNCHANGED <<opened, handling>> BY <1>1, <2>3, <2>4
    <2>5. CASE /\ m.err = "ok"
               /\ CloseChannel(n, m.ch)
               /\ handling' = [handling EXCEPT ![n] = todo]
      <3>1. /\ deallocateResult(n, m.ch) = "ok"
                 => todo.step = "erase" /\ todo.msg.ch = m.ch /\ todo.msg.err = "ok"
            /\ deallocateResult(n, m.ch) # "ok" => todo.step = "idle"
        BY <2>5 DEF Todo, Idle
      <3> HIDE DEF m, todo
      <3>2. QED BY <1>10, <2>1, <2>2, <2>3, <2>5, <3>1
    <2>6. QED BY <1>12, <2>4, <2>5 DEF processServiceDeallocateResponse
  <1>13. ASSUME NEW n \in Node, eraseDeallocated(n)
         PROVE Goal
    <2> DEFINE ch == handling[n].msg.ch
    <2>1. handling[n] \in Work BY <1>13, <1>t DEF eraseDeallocated, TypeOK, Idle
    <2>2. ch \in Channel BY <2>1 DEF Work, Message
    <2>3. /\ handling[n].step = "erase"
          /\ registry' = [registry EXCEPT ![n][ch] = None]
          /\ handling' = [handling EXCEPT ![n] = Idle]
          /\ UNCHANGED <<requested, opened>>
      BY <1>13 DEF eraseDeallocated
    <2>4. ch \notin opened[n] BY <2>2, <2>3 DEF IInv
    <2> HIDE DEF ch
    <2>5. \A c \in Channel : c # ch => ~Erasing(n, c)
      BY <2>3 DEF ch
    <2>6. QED BY <1>t, <2>2, <2>3, <2>4, <2>5 DEF IInv, TypeOK, Idle
  <1>14. ASSUME NEW n \in Node, TimeoutAllocateErase(n)
         PROVE Goal
    <2>1. PICK ch \in Channel : requested' = [requested EXCEPT ![n][ch] = None]
      BY <1>14 DEF TimeoutAllocateErase
    <2>2. QED BY <1>14, <1>t, <2>1 DEF TimeoutAllocateErase, IInv, TypeOK
  <1>15. ASSUME NEW n \in Node,
                TimeoutAllocateCheck(n) \/ TimeoutAllocateSend(n) \/ TimeoutDeallocate(n)
         PROVE Goal
    BY <1>1, <1>15 DEF TimeoutAllocateCheck, TimeoutAllocateSend, TimeoutDeallocate
  <1>16. CASE UNCHANGED <<agentVars, net, ntf>>
    BY <1>1, <1>16 DEF agentVars
  <1>17. QED
    BY <1>2, <1>4, <1>5, <1>6, <1>7, <1>8, <1>9, <1>9a, <1>11, <1>11a,
       <1>12, <1>13, <1>14, <1>15, <1>16
    DEF AgentsMove, Request, ServiceStep, TimeoutStep

\* The invariant holds in every reachable state.
LEMMA Invariance == Spec => []IInv
<1>1. Init => NotRequestedAndRegistered /\ RegisteredIffOpen /\ ErasingIsClosed
  BY DEF Init, NotRequestedAndRegistered, RegisteredIffOpen, ErasingIsClosed,
         Erasing, Idle
<1>2. TypeOK /\ (NotRequestedAndRegistered /\ RegisteredIffOpen /\ ErasingIsClosed)
      /\ [Next]_vars
      => (NotRequestedAndRegistered /\ RegisteredIffOpen /\ ErasingIsClosed)'
  BY NextMoves, InvPreserved DEF IInv
<1>3. QED BY <1>1, <1>2, TypeCorrect, PTL DEF Spec, IInv

\* The critical sections of the IPC, receiving and timeout threads never let a
\* channel be requested and registered at once.
THEOREM NeverRequestedAndRegistered == Spec => []NotRequestedAndRegistered
  BY Invariance, PTL DEF IInv

\* The registry and L0 agree on which channels exist, whatever the clients
\* ask and whenever the timeouts fire.
THEOREM RegistryMatchesL0 == Spec => []RegisteredIffOpen
  BY Invariance, PTL DEF IInv

-----------------------------------------------------------------------------
(* The client processes.  Their requests and the deliveries to them move the *)
(* agents as those of arbitrary clients do, so that what holds of the agents *)
(* holds with them too.                                                      *)

\* Types of both halves.  ProxyTypeOK alone is not inductive: a notification
\* puts its code into the client's maps.
AllTypesOK == TypeOK /\ ProxyTypeOK

\* A step that leaves the agents alone is a move of the agents.
LEMMA IdleMoves == ASSUME UNCHANGED vars PROVE AgentsMove
  BY DEF vars, AgentsMove

\* Every step of a client process moves the agents, and counts its calls.
LEMMA CallMoves ==
  ASSUME TypeOK, NEW n \in Node, NEW d \in Client, NEW ch \in Channel,
         CallStep(n, d, ch) \/ ReturnStep(n, d, ch) \/ FailStep(n, d, ch)
  PROVE AgentsMove /\ calls' \in [Node -> Nat]
<1>t. calls \in [Node -> Nat] BY DEF TypeOK
<1>1. CASE allocateChannel(n, d, ch)
  BY <1>1, <1>t DEF allocateChannel, ClientCalls, AgentsMove
<1>2. CASE \/ deallocateChannel(n, d, ch) \/ deallocateChannelForcibly(n, d, ch)
           \/ allocateReturns(n, d, ch) \/ takeResult(n, d, ch)
           \/ restoreChannel(n, d, ch) \/ deallocateReturns(n, d, ch)
  BY <1>2, <1>t, IdleMoves DEF deallocateChannel, deallocateChannelForcibly, allocateReturns,
     takeResult, restoreChannel, deallocateReturns, vars
<1>3. CASE requestAllocate(n, d, ch) \/ requestAllocateFails(n, d, ch)
  BY <1>3, <1>t DEF requestAllocate, requestAllocateFails, Request, AgentsMove
<1>4. CASE requestDeallocate(n, d, ch) \/ requestDeallocateFails(n, d, ch)
  BY <1>4, <1>t DEF requestDeallocate, requestDeallocateFails, AgentsMove
<1>5. CASE requestDeallocateByWD(n, d, ch)
  BY <1>5, <1>t DEF requestDeallocateByWD, Request, AgentsMove
<1>6. QED BY <1>1, <1>2, <1>3, <1>4, <1>5 DEF CallStep, ReturnStep, FailStep

\* The IPC thread of a client takes one notification.
LEMMA DeliverMoves ==
  ASSUME NEW n \in Node, NEW d \in Client, DeliverStep(n, d)
  PROVE Delivery(n, d) /\ UNCHANGED calls
  BY DEF DeliverStep, receiveAllocateChannelResponse, receiveDeallocateResponse,
         channelDeletedNotification, Delivers, Delivered, Delivery

\* A step of the whole moves the agents.
LEMMA ProxyMoves ==
  ASSUME TypeOK, [ProxyNext]_allVars
  PROVE AgentsMove /\ calls' \in [Node -> Nat]
<1>t. calls \in [Node -> Nat] BY DEF TypeOK
<1>1. CASE UNCHANGED allVars
  BY <1>1, <1>t, IdleMoves DEF allVars, vars
<1>2. ASSUME NEW n \in Node, AgentStep(n) PROVE AgentsMove /\ calls' \in [Node -> Nat]
  <2>1. ServiceStep(n) BY <1>2 DEF AgentStep
  <2>2. [Next]_vars BY <2>1 DEF Next
  <2>3. QED BY <2>2, NextMoves
<1>3. ASSUME NEW n \in Node, NEW d \in Client, DeliverStep(n, d)
      PROVE AgentsMove /\ calls' \in [Node -> Nat]
  BY <1>3, <1>t, DeliverMoves DEF AgentsMove
<1>4. QED BY <1>1, <1>2, <1>3, CallMoves DEF ProxyNext

\* A call of the library keeps the types of the client's maps.
LEMMA CallTypes ==
  ASSUME TypeOK, ProxyTypeOK, NEW n \in Node, NEW d \in Client, NEW ch \in Channel,
         CallStep(n, d, ch) \/ ReturnStep(n, d, ch) \/ FailStep(n, d, ch)
  PROVE ProxyTypeOK'
<1> USE DEF ProxyTypeOK
<1>c. channels[n][d] \ {ch} \in SUBSET Channel /\ channels[n][d] \cup {ch} \in SUBSET Channel
  OBVIOUS
<1>o. onDealloc[n][d] \ {ch} \in SUBSET Channel /\ onDealloc[n][d] \cup {ch} \in SUBSET Channel
  OBVIOUS
<1>p. \A label \in PC : Goto(n, d, ch, label) => pc' \in [Node -> [Client -> [Channel -> PC]]]
  BY DEF Goto
<1>b. /\ RequestFails => failed' \in 0..MaxFailed
      /\ forced < MaxForced => forced + 1 \in 0..MaxForced
  BY BoundsAssumption DEF RequestFails
<1>1. CASE allocateChannel(n, d, ch)
  BY <1>1, <1>p DEF allocateChannel, PC
<1>2. CASE deallocateChannel(n, d, ch)
  <2>1. channels' \in [Node -> [Client -> SUBSET Channel]] BY <1>2, <1>c DEF deallocateChannel
  <2>2. onDealloc' \in [Node -> [Client -> SUBSET Channel]] BY <1>2, <1>o DEF deallocateChannel
  <2>3. QED BY <1>2, <1>p, <2>1, <2>2 DEF deallocateChannel, PC
<1>3. CASE deallocateChannelForcibly(n, d, ch)
  <2>1. onDealloc' \in [Node -> [Client -> SUBSET Channel]]
    BY <1>3, <1>o DEF deallocateChannelForcibly
  <2>2. QED BY <1>3, <1>p, <1>b, <2>1 DEF deallocateChannelForcibly, PC
<1>4. CASE allocateReturns(n, d, ch)
  BY <1>4, <1>p DEF allocateReturns, PC
<1>5. CASE takeResult(n, d, ch)
  BY <1>5, <1>p DEF takeResult, PC
<1>6. CASE restoreChannel(n, d, ch)
  <2>1. channels' \in [Node -> [Client -> SUBSET Channel]] BY <1>6, <1>c DEF restoreChannel
  <2>2. QED BY <1>6, <1>p, <2>1 DEF restoreChannel, PC
<1>7. CASE deallocateReturns(n, d, ch)
  <2>1. onDealloc' \in [Node -> [Client -> SUBSET Channel]] BY <1>7, <1>o DEF deallocateReturns
  <2>2. QED BY <1>7, <1>p, <2>1 DEF deallocateReturns, PC
<1>8. CASE requestAllocate(n, d, ch)
  <2>1. \/ Goto(n, d, ch, "allocating") /\ UNCHANGED request
        \/ Goto(n, d, ch, "idle") /\ request' = [request EXCEPT ![n][d][ch] = "absent"]
    BY <1>8 DEF requestAllocate
  <2>2. pc' \in [Node -> [Client -> [Channel -> PC]]] BY <2>1, <1>p DEF PC
  <2>3. request' \in [Node -> [Client -> [Channel -> Error \cup {"absent", "pending"}]]]
    <3>1. CASE request' = [request EXCEPT ![n][d][ch] = "absent"] BY <3>1
    <3>2. CASE request' = request BY <3>2
    <3>3. QED BY <2>1, <3>1, <3>2
  <2>4. QED BY <1>8, <2>2, <2>3 DEF requestAllocate
<1>9. CASE requestAllocateFails(n, d, ch)
  BY <1>9, <1>p, <1>b DEF requestAllocateFails, PC
<1>10. CASE requestDeallocate(n, d, ch)
  BY <1>10, <1>p DEF requestDeallocate, PC
<1>11. CASE requestDeallocateFails(n, d, ch)
  BY <1>11, <1>p, <1>b DEF requestDeallocateFails, PC
<1>12. CASE requestDeallocateByWD(n, d, ch)
  BY <1>12, <1>p DEF requestDeallocateByWD, PC
<1>13. QED
  BY <1>1, <1>2, <1>3, <1>4, <1>5, <1>6, <1>7, <1>8, <1>9, <1>10, <1>11, <1>12
  DEF CallStep, ReturnStep, FailStep

\* A notification keeps them too: it names a channel and carries a code.
LEMMA DeliverTypes ==
  ASSUME TypeOK, ProxyTypeOK, NEW n \in Node, NEW d \in Client, DeliverStep(n, d)
  PROVE ProxyTypeOK'
<1> USE DEF ProxyTypeOK
<1>1. ntf[n][d] \in Seq(Message) /\ ntf[n][d] # <<>>
  BY DeliverMoves DEF TypeOK, Delivery
<1> DEFINE m == Head(ntf[n][d])
<1>m. m \in Message BY <1>1
<1>2. m.ch \in Channel /\ m.err \in Error
  BY <1>m DEF Message
<1>3. CASE receiveAllocateChannelResponse(n, d)
  <2>a. \/ /\ request' = [request EXCEPT ![n][d][m.ch] = m.err]
           /\ channels' = [channels EXCEPT ![n][d] =
                             IF m.err = "ok" THEN @ \cup {m.ch} ELSE @]
        \/ UNCHANGED <<request, channels>>
    BY <1>3 DEF receiveAllocateChannelResponse
  <2>b. channels[n][d] \cup {m.ch} \in SUBSET Channel BY <1>2
  <2> HIDE DEF m
  <2>1. request' \in [Node -> [Client -> [Channel -> Error \cup {"absent", "pending"}]]]
    <3>1. CASE request' = [request EXCEPT ![n][d][m.ch] = m.err] BY <1>2, <3>1
    <3>2. CASE request' = request BY <3>2
    <3>3. QED BY <2>a, <3>1, <3>2
  <2>2. channels' \in [Node -> [Client -> SUBSET Channel]]
    <3>1. CASE channels' = [channels EXCEPT ![n][d] = @ \cup {m.ch}]
      BY <2>b, <3>1
    <3>2. CASE channels' = [channels EXCEPT ![n][d] = @]
      BY <3>2
    <3>3. QED BY <2>a, <3>1, <3>2
  <2>3. QED BY <1>3, <2>1, <2>2 DEF receiveAllocateChannelResponse
<1>4. CASE receiveDeallocateResponse(n, d)
  BY <1>2, <1>4 DEF receiveDeallocateResponse
<1>5. CASE channelDeletedNotification(n, d)
  <2>1. channels' \in [Node -> [Client -> SUBSET Channel]]
    BY <1>2, <1>5 DEF channelDeletedNotification
  <2>2. result' \in [Node -> [Client -> [Channel -> Error \cup {"absent", "empty"}]]]
    BY <1>2, <1>5 DEF channelDeletedNotification
  <2>3. QED BY <1>5, <2>1, <2>2 DEF channelDeletedNotification
<1>6. QED BY <1>3, <1>4, <1>5 DEF DeliverStep

\* A step of the whole keeps all the types.
LEMMA ProxyTypes ==
  ASSUME AllTypesOK, [ProxyNext]_allVars
  PROVE AllTypesOK'
<1> USE DEF AllTypesOK
<1>1. TypeOK' BY ProxyMoves, MoveType
<1>2. CASE UNCHANGED proxyVars
  <2>1. /\ channels' = channels /\ request' = request /\ onDealloc' = onDealloc
        /\ result' = result /\ pc' = pc /\ forced' = forced /\ failed' = failed
    BY <1>2 DEF proxyVars
  <2>2. ProxyTypeOK BY DEF AllTypesOK
  <2>3. ProxyTypeOK' BY <2>1, <2>2 DEF ProxyTypeOK
  <2>4. QED BY <1>1, <2>3
<1>3. QED BY <1>1, <1>2, CallTypes, DeliverTypes DEF ProxyNext, AgentStep, allVars

\* The maps of the client library keep their types, whatever the agents
\* announce and however the calls of a client's threads interleave.
THEOREM ProxyTypeCorrect == ProxySpec => []ProxyTypeOK
<1>1. ProxyInit => AllTypesOK
  BY BoundsAssumption DEF ProxyInit, Init, Idle, AllTypesOK, TypeOK, ProxyTypeOK, PC
<1>2. AllTypesOK /\ [ProxyNext]_allVars => AllTypesOK'
  BY ProxyTypes
<1>3. AllTypesOK => ProxyTypeOK BY DEF AllTypesOK
<1>4. QED BY <1>1, <1>2, <1>3, PTL DEF ProxySpec

\* The agents' maps and L0 agree with client processes, failed requests and
\* forced deallocations as they do with arbitrary clients.
THEOREM AgentsAgreeWithClients == ProxySpec => [](NotRequestedAndRegistered /\ RegisteredIffOpen)
<1>1. ProxyInit => IInv
  BY DEF ProxyInit, Init, IInv, TypeOK, NotRequestedAndRegistered, RegisteredIffOpen,
         ErasingIsClosed, Erasing, Idle
<1>2. IInv /\ [ProxyNext]_allVars => IInv'
  <2> SUFFICES ASSUME IInv, [ProxyNext]_allVars PROVE IInv'
    OBVIOUS
  <2>1. AgentsMove /\ calls' \in [Node -> Nat] BY ProxyMoves DEF IInv
  <2>2. QED BY <2>1, MoveType, InvPreserved DEF IInv
<1>3. IInv => NotRequestedAndRegistered /\ RegisteredIffOpen BY DEF IInv
<1>4. QED BY <1>1, <1>2, <1>3, PTL DEF ProxySpec

=============================================================================
