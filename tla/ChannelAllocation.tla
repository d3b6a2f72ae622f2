------------------------- MODULE ChannelAllocation -------------------------
(***************************************************************************)
(* The channel allocation protocol of two Connectivity Agents, one per     *)
(* device (class L1InterfaceStub).  Every agent serves local client        *)
(* processes over IPC and talks to its peer over the service channel, a    *)
(* reliable FIFO (module FrameTransfer models what is underneath).  Three  *)
(* threads of an agent share its maps: the IPC thread runs the Client...   *)
(* actions, the frame receiving thread the Service... actions and the      *)
(* thread of the TimeoutManager the Timeout... actions.  A handler that    *)
(* releases the mutexes halfway is split there.                            *)
(***************************************************************************)
EXTENDS Naturals, Sequences

CONSTANTS Node,       \* the two devices
          Channel,    \* channel numbers, CA_SERVICE_CHANNEL excluded
          Client,     \* IPC directions of an agent
          NoDir,      \* DirectionID -1: no client known
          QueueSize,  \* buffers of the service channel's CSourceAgent
          MaxCalls    \* bound: client requests per device

ASSUME NodeAssumption == \E a, b \in Node : a # b /\ Node = {a, b}
ASSUME NoDirAssumption == NoDir \notin Client
ASSUME SizeAssumption == QueueSize \in Nat /\ MaxCalls \in Nat

VARIABLES
  requested,  \* mRequestedMap of every agent
  registry,   \* mL1ChannelRegistry of every agent
  opened,     \* channels whose L0 source and target exist (CChannelAllocator)
  net,        \* net[n]: service messages on their way to n
  timers,     \* RequestTimeouts in the order they will fire; none is removed
  expiring,   \* timeout thread between its two critical sections
  handling,   \* receiving thread between its critical sections
  ntf,        \* asynchronous IPC notifications on their way to every client
  calls       \* client requests made so far

agentVars == <<requested, registry, opened, timers, expiring, handling>>
vars == <<agentVars, net, ntf, calls>>

-----------------------------------------------------------------------------
Dir == Client \cup {NoDir}

\* An entry of either map: tChannelState and mClientDir; None is "not in the map".
Entry == [state : {"client", "agent", "operational"}, dir : Dir]
None == [state |-> "none", dir |-> NoDir]

Error == {"ok", "deferred", "busy", "inprogress", "notfound", "nobuf", "timeout"}
Op == {"alloc", "alloc_resp", "dealloc", "dealloc_resp", "dealloc_ntf"}
Message == [op : Op, ch : Channel, err : Error]
Msg(op, ch, err) == [op |-> op, ch |-> ch, err |-> err]

\* What the receiving thread still has to do for the message it handles, and
\* the timeout thread for the request that expired.
Work == [step : {"forward", "finish", "reply", "erase"}, msg : Message, dir : Dir]
Idle == [step |-> "idle"]
Todo(step, msg, dir) == [step |-> step, msg |-> msg, dir |-> dir]
Expiry == {"erase", "send"} \X Channel

Other(n) == CHOOSE m \in Node : m # n

-----------------------------------------------------------------------------
(***************************************************************************)
(* sendRequest: the message takes a free buffer of the service channel's   *)
(* source agent, or ERROR_NO_FREE_BUFFERS_LEFT.                            *)
(***************************************************************************)
CanSend(n) == Len(net[Other(n)]) < QueueSize

sendRequest(n, q, m) ==
  IF CanSend(n) THEN [q EXCEPT ![Other(n)] = Append(@, m)] ELSE q

\* asyncRequest to one client; direction -1 reaches nobody.
sendIpcNotification(n, dir, m) ==
  IF dir \in Client THEN [ntf EXCEPT ![n][dir] = Append(@, m)] ELSE ntf

(***************************************************************************)
(* beginAllocateChannel with allocateChannelLocally, under both mutexes:   *)
(* its result code, the entries it leaves in the two maps and dirId.       *)
(***************************************************************************)
Opens(info, client_side) == info # None /\ (client_side => info.state = "agent")

OpenDir(info, client_side, dirId) == IF client_side THEN dirId ELSE info.dir

beginAllocateChannel(n, ch, client_side, dirId) ==
  LET info == requested[n][ch]
      dir == OpenDir(info, client_side, dirId)
      Result(err, req, reg, d) == [err |-> err, req |-> req, reg |-> reg, dir |-> d]
  IN CASE registry[n][ch] # None -> Result("busy", info, registry[n][ch], dirId)
       [] registry[n][ch] = None /\ info = None ->
            Result(IF client_side THEN "ok" ELSE "deferred",
                   [state |-> IF client_side THEN "client" ELSE "agent", dir |-> dirId],
                   None, dirId)
       [] registry[n][ch] = None /\ Opens(info, client_side) ->
            IF ch \notin opened[n]
            THEN Result("ok", None, [state |-> info.state, dir |-> dir], dir)
            ELSE Result("busy", None, None, dir)
       [] OTHER -> Result("inprogress", info, None, dirId)

\* Mutant: the request is not erased when the channel is opened.
Apply_KeepRequest(n, ch, r) ==
  /\ requested' = [requested EXCEPT ![n][ch] = IF r.req # None THEN r.req ELSE @]
  /\ registry' = [registry EXCEPT ![n][ch] = r.reg]
  /\ opened' = [opened EXCEPT ![n] = IF registry[n][ch] # r.reg THEN @ \cup {ch} ELSE @]

Apply(n, ch, r) ==
  /\ requested' = [requested EXCEPT ![n][ch] = r.req]
  /\ registry' = [registry EXCEPT ![n][ch] = r.reg]
  /\ opened' = [opened EXCEPT ![n] = IF registry[n][ch] # r.reg THEN @ \cup {ch} ELSE @]

-----------------------------------------------------------------------------
Init ==
  /\ requested = [n \in Node |-> [ch \in Channel |-> None]]
  /\ registry = [n \in Node |-> [ch \in Channel |-> None]]
  /\ opened = [n \in Node |-> {}]
  /\ net = [n \in Node |-> <<>>]
  /\ timers = [n \in Node |-> <<>>]
  /\ expiring = [n \in Node |-> {}]
  /\ handling = [n \in Node |-> Idle]
  /\ ntf = [n \in Node |-> [d \in Client |-> <<>>]]
  /\ calls = [n \in Node |-> 0]

-----------------------------------------------------------------------------
(* IPC thread. *)

\* The code the client reads from the synchronous answer; "ok" is an empty
\* answer: the result follows as a notification.
allocateAnswer(n, d, ch) ==
  LET r == beginAllocateChannel(n, ch, TRUE, d)
  IN IF r.err = "ok" /\ ~CanSend(n) THEN "nobuf" ELSE r.err

processClientAllocateRequest(n, d, ch) ==
  LET r == beginAllocateChannel(n, ch, TRUE, d)
  IN /\ Apply(n, ch, r)
     /\ net' = IF r.err = "ok" THEN sendRequest(n, net, Msg("alloc", ch, "ok")) ELSE net
     /\ UNCHANGED <<timers, expiring, handling, ntf>>

\* Mutants: the entry's state is reset, or the entry erased at once.
BeginDeallocate_Reset(n, ch, dir) ==
  /\ registry' = [registry EXCEPT ![n][ch] = [state |-> "undefined", dir |-> dir]]
  /\ net' = sendRequest(n, net, Msg("dealloc", ch, "ok"))
  /\ timers' = [timers EXCEPT ![n] = Append(@, <<"dealloc", ch>>)]
  /\ UNCHANGED <<requested, opened, expiring, handling, ntf>>

BeginDeallocate_Erase(n, ch, dir) ==
  /\ registry' = [registry EXCEPT ![n][ch] = None]
  /\ opened' = [opened EXCEPT ![n] = @ \ {ch}]
  /\ net' = sendRequest(n, net, Msg("dealloc", ch, "ok"))
  /\ timers' = [timers EXCEPT ![n] = Append(@, <<"dealloc", ch>>)]
  /\ UNCHANGED <<requested, expiring, handling, ntf>>

\* Both deallocation requests: the entry stays, marked as in transition.
BeginDeallocate(n, ch, dir) ==
  /\ registry' = [registry EXCEPT ![n][ch] = [state |-> "client", dir |-> dir]]
  /\ net' = sendRequest(n, net, Msg("dealloc", ch, "ok"))
  /\ timers' = [timers EXCEPT ![n] = Append(@, <<"dealloc", ch>>)]
  /\ UNCHANGED <<requested, opened, expiring, handling, ntf>>

processClientDeallocateRequest(n, ch) ==
  \/ /\ registry[n][ch] # None
     /\ BeginDeallocate(n, ch, registry[n][ch].dir)
  \/ /\ registry[n][ch] = None
     /\ UNCHANGED <<agentVars, net, ntf>>

processClientDeallocateByWD(n, d, ch) ==
  \/ /\ registry[n][ch] # None
     /\ BeginDeallocate(n, ch, d)
  \/ /\ registry[n][ch] = None
     /\ UNCHANGED <<agentVars, net, ntf>>

-----------------------------------------------------------------------------
(* Receiving thread: receiveData on the service channel. *)

Receives(n, op) ==
  /\ handling[n] = Idle
  /\ net[n] # <<>>
  /\ Head(net[n]).op = op

Popped(n) == [net EXCEPT ![n] = Tail(@)]

\* An "alloc" message is only ever sent with code "ok".
processServiceAllocateRequest(n) ==
  /\ Receives(n, "alloc")
  /\ LET ch == Head(net[n]).ch
         r == beginAllocateChannel(n, ch, FALSE, NoDir)
         resp == Msg("alloc_resp", ch, r.err)
     IN /\ Apply(n, ch, r)
        /\ net' = IF r.err = "deferred" THEN Popped(n) ELSE sendRequest(n, Popped(n), resp)
        /\ timers' = IF r.err = "deferred"
                     THEN [timers EXCEPT ![n] = Append(@, <<"alloc", ch>>)] ELSE timers
        /\ ntf' = IF r.err \in {"ok", "deferred"}
                  THEN ntf ELSE sendIpcNotification(n, r.dir, resp)
  /\ UNCHANGED <<expiring, handling, calls>>

\* endAllocateChannel, under mRegistryMutex.
processServiceAllocateResponse(n) ==
  /\ Receives(n, "alloc_resp")
  /\ LET m == Head(net[n])
         info == registry[n][m.ch]
         err == IF m.err = "ok" /\ info = None THEN "notfound" ELSE m.err
         step == IF err = "ok" /\ info.state = "agent" THEN "forward" ELSE "finish"
         dirId == IF err = "ok" THEN info.dir ELSE NoDir
     IN /\ registry' = IF err = "ok"
                       THEN [registry EXCEPT ![n][m.ch].state = "operational"]
                       ELSE registry
        /\ handling' = [handling EXCEPT ![n] = Todo(step, [m EXCEPT !.err = err], dirId)]
  /\ net' = Popped(n)
  /\ UNCHANGED <<requested, opened, timers, expiring, ntf, calls>>

\* The side that opened first tells the other one, after the mutex is released.
forwardAllocateResponse(n) ==
  /\ handling[n].step = "forward"
  /\ net' = sendRequest(n, net, handling[n].msg)
  /\ handling' = [handling EXCEPT ![n].step = "finish",
                                  ![n].msg.err = IF CanSend(n) THEN "ok" ELSE "nobuf"]
  /\ UNCHANGED <<requested, registry, opened, timers, expiring, ntf, calls>>

AllocationFailed(n) == handling[n].msg.err # "ok" \/ handling[n].dir = NoDir

notifyAllocated(n) ==
  /\ handling[n].step = "finish" /\ ~AllocationFailed(n)
  /\ ntf' = sendIpcNotification(n, handling[n].dir, handling[n].msg)
  /\ handling' = [handling EXCEPT ![n] = Idle]
  /\ UNCHANGED <<requested, registry, opened, timers, expiring, net, calls>>

failAllocateChannel(n) ==
  /\ handling[n].step = "finish" /\ AllocationFailed(n)
  /\ LET m == handling[n].msg
         req == requested[n][m.ch]
         reg == registry[n][m.ch]
         dirId == IF reg # None THEN reg.dir
                  ELSE IF req # None THEN req.dir ELSE handling[n].dir
     IN /\ requested' = [requested EXCEPT ![n][m.ch] = None]
        /\ registry' = [registry EXCEPT ![n][m.ch] = None]
        /\ opened' = [opened EXCEPT ![n] = IF reg # None THEN @ \ {m.ch} ELSE @]
        /\ ntf' = sendIpcNotification(n, dirId, m)
  /\ handling' = [handling EXCEPT ![n] = Idle]
  /\ UNCHANGED <<net, timers, expiring, calls>>

\* deallocateChannel: closes the channel in L0 and leaves the registry alone.
deallocateResult(n, ch) ==
  IF registry[n][ch] # None /\ ch \in opened[n] THEN "ok" ELSE "notfound"

\* Mutant: the channel is reported closed and left open in L0.
CloseChannel_Leak(n, ch) == UNCHANGED opened

CloseChannel(n, ch) ==
  opened' = [opened EXCEPT ![n] = IF registry[n][ch] # None THEN @ \ {ch} ELSE @]

processServiceDeallocateRequest(n) ==
  /\ Receives(n, "dealloc")
  /\ LET ch == Head(net[n]).ch
     IN /\ CloseChannel(n, ch)
        /\ handling' = [handling EXCEPT ![n] =
             Todo("reply", Msg("dealloc_resp", ch, deallocateResult(n, ch)), NoDir)]
  /\ net' = Popped(n)
  /\ UNCHANGED <<requested, registry, timers, expiring, ntf, calls>>

replyDeallocate(n) ==
  /\ handling[n].step = "reply"
  /\ LET m == handling[n].msg
     IN /\ net' = sendRequest(n, net, m)
        /\ handling' = [handling EXCEPT ![n] =
             IF m.err = "ok" THEN Todo("erase", [m EXCEPT !.op = "dealloc_ntf"], NoDir)
             ELSE Idle]
  /\ UNCHANGED <<requested, registry, opened, timers, expiring, ntf, calls>>

processServiceDeallocateResponse(n) ==
  /\ Receives(n, "dealloc_resp")
  /\ LET m == Head(net[n])
     IN \/ /\ m.err = "ok"
           /\ CloseChannel(n, m.ch)
           /\ handling' = [handling EXCEPT ![n] =
                IF deallocateResult(n, m.ch) = "ok" THEN Todo("erase", m, NoDir) ELSE Idle]
        \/ /\ m.err # "ok"
           /\ UNCHANGED <<opened, handling>>
  /\ net' = Popped(n)
  /\ UNCHANGED <<requested, registry, timers, expiring, ntf, calls>>

\* Mutant: the registry keeps the channel that L0 has closed.
eraseDeallocated_Keep(n) ==
  /\ handling[n].step = "erase"
  /\ LET m == handling[n].msg
     IN ntf' = IF registry[n][m.ch] # None
               THEN sendIpcNotification(n, registry[n][m.ch].dir, m) ELSE ntf
  /\ handling' = [handling EXCEPT ![n] = Idle]
  /\ UNCHANGED <<requested, registry, opened, net, timers, expiring, calls>>

\* The second critical section of both deallocation handlers.
eraseDeallocated(n) ==
  /\ handling[n].step = "erase"
  /\ LET m == handling[n].msg
         info == registry[n][m.ch]
     IN /\ registry' = [registry EXCEPT ![n][m.ch] = None]
        /\ ntf' = IF info # None THEN sendIpcNotification(n, info.dir, m) ELSE ntf
  /\ handling' = [handling EXCEPT ![n] = Idle]
  /\ UNCHANGED <<requested, opened, net, timers, expiring, calls>>

-----------------------------------------------------------------------------
(* Timeout thread: RequestTimeout::onTimeout. *)

Fires(n, op) ==
  /\ expiring[n] = {}
  /\ timers[n] # <<>>
  /\ Head(timers[n])[1] = op

\* Three critical sections: mRegistryMutex, mRequestedMapMutex, the queue.
TimeoutAllocateCheck(n) ==
  /\ Fires(n, "alloc")
  /\ LET ch == Head(timers[n])[2]
     IN expiring' = [expiring EXCEPT ![n] =
                       IF registry[n][ch] = None THEN {<<"erase", ch>>} ELSE {}]
  /\ timers' = [timers EXCEPT ![n] = Tail(@)]
  /\ UNCHANGED <<requested, registry, opened, handling, net, ntf, calls>>

TimeoutAllocateErase(n) ==
  /\ \E ch \in Channel :
       /\ <<"erase", ch>> \in expiring[n]
       /\ requested' = [requested EXCEPT ![n][ch] = None]
       /\ expiring' = [expiring EXCEPT ![n] = {<<"send", ch>>}]
  /\ UNCHANGED <<registry, opened, timers, handling, net, ntf, calls>>

TimeoutAllocateSend(n) ==
  /\ \E ch \in Channel :
       /\ <<"send", ch>> \in expiring[n]
       /\ net' = sendRequest(n, net, Msg("alloc_resp", ch, "timeout"))
  /\ expiring' = [expiring EXCEPT ![n] = {}]
  /\ UNCHANGED <<requested, registry, opened, timers, handling, ntf, calls>>

TimeoutDeallocate(n) ==
  /\ Fires(n, "dealloc")
  /\ LET ch == Head(timers[n])[2]
         info == registry[n][ch]
     IN ntf' = IF info # None
               THEN sendIpcNotification(n, info.dir, Msg("dealloc_resp", ch, "timeout"))
               ELSE ntf
  /\ timers' = [timers EXCEPT ![n] = Tail(@)]
  /\ UNCHANGED <<requested, registry, opened, expiring, handling, net, calls>>

-----------------------------------------------------------------------------
(* Clients that may call anything at any time; ClientReceive is the        *)
(* asynchronous delivery of a notification to the client process.          *)

ClientCalls(n) ==
  /\ calls[n] < MaxCalls
  /\ calls' = [calls EXCEPT ![n] = @ + 1]

ClientAllocate(n, d, ch) == ClientCalls(n) /\ processClientAllocateRequest(n, d, ch)
ClientDeallocate(n, ch) == ClientCalls(n) /\ processClientDeallocateRequest(n, ch)
ClientDeallocateByWD(n, d, ch) == ClientCalls(n) /\ processClientDeallocateByWD(n, d, ch)

ClientReceive(n, d) ==
  /\ ntf[n][d] # <<>>
  /\ ntf' = [ntf EXCEPT ![n][d] = Tail(@)]
  /\ UNCHANGED <<agentVars, net, calls>>

ServiceStep(n) ==
  \/ processServiceAllocateRequest(n)
  \/ processServiceAllocateResponse(n)
  \/ forwardAllocateResponse(n)
  \/ notifyAllocated(n)
  \/ failAllocateChannel(n)
  \/ processServiceDeallocateRequest(n)
  \/ replyDeallocate(n)
  \/ processServiceDeallocateResponse(n)
  \/ eraseDeallocated(n)

TimeoutStep(n) ==
  \/ TimeoutAllocateCheck(n)
  \/ TimeoutAllocateErase(n)
  \/ TimeoutAllocateSend(n)
  \/ TimeoutDeallocate(n)

ClientStep(n) ==
  \/ \E d \in Client, ch \in Channel :
       \/ ClientAllocate(n, d, ch)
       \/ ClientDeallocateByWD(n, d, ch)
  \/ \E ch \in Channel : ClientDeallocate(n, ch)
  \/ \E d \in Client : ClientReceive(n, d)

Next == \E n \in Node : ServiceStep(n) \/ TimeoutStep(n) \/ ClientStep(n)

Spec == Init /\ [][Next]_vars

-----------------------------------------------------------------------------
(* Properties. *)

\* The maps, the messages and the threads' continuations keep their types.
TypeOK ==
  /\ requested \in [Node -> [Channel -> Entry \cup {None}]]
  /\ registry \in [Node -> [Channel -> Entry \cup {None}]]
  /\ opened \in [Node -> SUBSET Channel]
  /\ net \in [Node -> Seq(Message)]
  /\ timers \in [Node -> Seq({"alloc", "dealloc"} \X Channel)]
  /\ expiring \in [Node -> SUBSET Expiry]
  /\ handling \in [Node -> Work \cup {Idle}]
  /\ ntf \in [Node -> [Client -> Seq(Message)]]
  /\ calls \in [Node -> Nat]

\* A channel is never requested and registered at once: the three threads
\* never leave an entry in mRequestedMap that beginAllocateChannel would
\* open a second time (the assertion in allocateChannelLocally).
NotRequestedAndRegistered ==
  \A n \in Node, ch \in Channel : requested[n][ch] = None \/ registry[n][ch] = None

\* The receiving thread has closed ch in L0 and not yet erased it.
Erasing(n, ch) ==
  /\ handling[n].step = "erase" \/ (handling[n].step = "reply" /\ handling[n].msg.err = "ok")
  /\ handling[n].msg.ch = ch

\* The registry and L0 agree on which channels exist: a registered channel
\* without source and target agents (sendData would use the deleted one) is
\* seen only between the critical sections of a deallocation handler, and no
\* channel stays open in L0 that the registry has forgotten.
RegisteredIffOpen ==
  \A n \in Node, ch \in Channel :
    /\ ch \in opened[n] => registry[n][ch] # None
    /\ registry[n][ch] # None => ch \in opened[n] \/ Erasing(n, ch)

\* No message is in flight and no handler is halfway.
Quiet == \A n \in Node : net[n] = <<>> /\ handling[n] = Idle /\ expiring[n] = {}

=============================================================================
