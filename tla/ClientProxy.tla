---------------------------- MODULE ClientProxy ----------------------------
(***************************************************************************)
(* The client processes of two Connectivity Agents, each with the library  *)
(* class CConnectivityAgentProxy: its blocking calls allocateChannel,      *)
(* deallocateChannel and deallocateChannelForcibly, the IPC thread that    *)
(* delivers notifications and wakes the callers, and, underneath, the      *)
(* protocol of ChannelAllocation.  A client has one thread per channel.    *)
(***************************************************************************)
EXTENDS ChannelAllocation

CONSTANTS App,       \* clients that allocate and deallocate channels
          Watchdog,  \* the negotiator's client, which only deallocates forcibly
          MaxForced, \* bound: forced deallocations
          MaxFailed  \* bound: failed IPC requests

ASSUME AppAssumption == App \cap Watchdog = {} /\ App \cup Watchdog = Client
ASSUME BoundsAssumption == MaxForced \in Nat /\ MaxFailed \in Nat

VARIABLES
  channels,   \* mChannelRegistry of every client
  request,    \* mAllocateRequestMap: "absent", "pending" or mResult
  onDealloc,  \* mChannelOnDeallocSet
  result,     \* mDeallocateRequestResultMap: "absent", "empty" or a code
  pc,         \* where the client's thread for a channel is
  forced,     \* forced deallocations so far
  failed      \* IPC requests that failed so far

proxyVars == <<channels, request, onDealloc, result, pc, forced, failed>>
allVars == <<vars, proxyVars>>

PC == {"idle", "asking", "allocating", "closing", "deallocating", "restoring",
       "clearing", "forcing"}

At(n, d, ch, label) == pc[n][d][ch] = label
Goto(n, d, ch, label) == pc' = [pc EXCEPT ![n][d][ch] = label]

ProxyInit ==
  /\ Init
  /\ channels = [n \in Node |-> [d \in Client |-> {}]]
  /\ request = [n \in Node |-> [d \in Client |-> [ch \in Channel |-> "absent"]]]
  /\ onDealloc = [n \in Node |-> [d \in Client |-> {}]]
  /\ result = [n \in Node |-> [d \in Client |-> [ch \in Channel |-> "absent"]]]
  /\ pc = [n \in Node |-> [d \in Client |-> [ch \in Channel |-> "idle"]]]
  /\ forced = 0
  /\ failed = 0

\* CIpc::request reports an error to an application: its request did not reach
\* the agent, or the agent has handled it and the answer is late or lost.
\* A behaviour has failed requests or forced deallocations, not both: a bound.
NobodyForced == forced = 0
RequestFails == failed < MaxFailed /\ NobodyForced /\ failed' = failed + 1

-----------------------------------------------------------------------------
(* allocateChannel: the request is in the map before it is sent. *)

allocateChannel(n, d, ch) ==
  /\ At(n, d, ch, "idle") /\ d \in App
  /\ ch \notin channels[n][d]
  /\ ClientCalls(n)
  /\ request' = [request EXCEPT ![n][d][ch] = "pending"]
  /\ Goto(n, d, ch, "asking")
  /\ UNCHANGED <<agentVars, net, ntf, channels, onDealloc, result, forced, failed>>

\* The synchronous IPC request; an error in the answer ends the call.
requestAllocate(n, d, ch) ==
  /\ At(n, d, ch, "asking")
  /\ processClientAllocateRequest(n, d, ch)
  /\ IF allocateAnswer(n, d, ch) = "ok"
     THEN Goto(n, d, ch, "allocating") /\ UNCHANGED request
     ELSE Goto(n, d, ch, "idle") /\ request' = [request EXCEPT ![n][d][ch] = "absent"]
  /\ UNCHANGED <<calls, channels, onDealloc, result, forced, failed>>

requestAllocateFails(n, d, ch) ==
  /\ At(n, d, ch, "asking")
  /\ RequestFails
  /\ \/ processClientAllocateRequest(n, d, ch)
     \/ UNCHANGED <<agentVars, net, ntf>>
  /\ request' = [request EXCEPT ![n][d][ch] = "absent"]
  /\ Goto(n, d, ch, "idle")
  /\ UNCHANGED <<calls, channels, onDealloc, result, forced>>

allocateReturns(n, d, ch) ==
  /\ At(n, d, ch, "allocating")
  /\ request[n][d][ch] # "pending"
  /\ request' = [request EXCEPT ![n][d][ch] = "absent"]
  /\ Goto(n, d, ch, "idle")
  /\ UNCHANGED <<vars, channels, onDealloc, result, forced, failed>>

-----------------------------------------------------------------------------
(* deallocateChannel: the channel leaves the registry before the request is *)
(* sent, and comes back when the agent reports an error.                    *)

deallocateChannel(n, d, ch) ==
  /\ At(n, d, ch, "idle")
  /\ ch \in channels[n][d]
  /\ channels' = [channels EXCEPT ![n][d] = @ \ {ch}]
  /\ onDealloc' = [onDealloc EXCEPT ![n][d] = @ \cup {ch}]
  /\ Goto(n, d, ch, "closing")
  /\ UNCHANGED <<vars, request, result, forced, failed>>

requestDeallocate(n, d, ch) ==
  /\ At(n, d, ch, "closing") /\ d \in App
  /\ processClientDeallocateRequest(n, ch)
  /\ Goto(n, d, ch, "deallocating")
  /\ UNCHANGED <<calls, channels, request, onDealloc, result, forced, failed>>

requestDeallocateFails(n, d, ch) ==
  /\ At(n, d, ch, "closing")
  /\ RequestFails
  /\ \/ processClientDeallocateRequest(n, ch)
     \/ UNCHANGED <<agentVars, net, ntf>>
  /\ Goto(n, d, ch, "restoring")
  /\ UNCHANGED <<calls, channels, request, onDealloc, result, forced>>

takeResult(n, d, ch) ==
  /\ At(n, d, ch, "deallocating")
  /\ result[n][d][ch] # "absent"
  /\ result' = [result EXCEPT ![n][d][ch] = "absent"]
  /\ Goto(n, d, ch, IF d \in App /\ result[n][d][ch] \notin {"ok", "empty"}
                    THEN "restoring" ELSE "clearing")
  /\ UNCHANGED <<vars, channels, request, onDealloc, forced, failed>>

restoreChannel(n, d, ch) ==
  /\ At(n, d, ch, "restoring")
  /\ channels' = [channels EXCEPT ![n][d] = @ \cup {ch}]
  /\ Goto(n, d, ch, "clearing")
  /\ UNCHANGED <<vars, request, onDealloc, result, forced, failed>>

deallocateReturns(n, d, ch) ==
  /\ At(n, d, ch, "clearing")
  /\ onDealloc' = [onDealloc EXCEPT ![n][d] = @ \ {ch}]
  /\ Goto(n, d, ch, "idle")
  /\ UNCHANGED <<vars, channels, request, result, forced, failed>>

\* The watchdog finds the application that uses a channel unresponsive.
deallocateChannelForcibly(n, d, ch) ==
  /\ At(n, d, ch, "idle") /\ d \in Watchdog
  /\ forced < MaxForced /\ failed = 0
  /\ forced' = forced + 1
  /\ onDealloc' = [onDealloc EXCEPT ![n][d] = @ \cup {ch}]
  /\ Goto(n, d, ch, "forcing")
  /\ UNCHANGED <<vars, channels, request, result, failed>>

requestDeallocateByWD(n, d, ch) ==
  /\ At(n, d, ch, "forcing")
  /\ processClientDeallocateByWD(n, d, ch)
  /\ Goto(n, d, ch, IF registry[n][ch] = None THEN "clearing" ELSE "deallocating")
  /\ UNCHANGED <<calls, channels, request, onDealloc, result, forced, failed>>

-----------------------------------------------------------------------------
(* OnAsyncRequest, in the IPC thread of the client. *)

Delivers(n, d, op) == ntf[n][d] # <<>> /\ Head(ntf[n][d]).op = op
Delivered(n, d) == ntf' = [ntf EXCEPT ![n][d] = Tail(@)]

receiveAllocateChannelResponse(n, d) ==
  /\ Delivers(n, d, "alloc_resp")
  /\ LET m == Head(ntf[n][d])
     IN \/ /\ request[n][d][m.ch] # "absent"
           /\ request' = [request EXCEPT ![n][d][m.ch] = m.err]
           /\ channels' = [channels EXCEPT ![n][d] =
                             IF m.err = "ok" THEN @ \cup {m.ch} ELSE @]
        \/ /\ request[n][d][m.ch] = "absent"
           /\ UNCHANGED <<request, channels>>
  /\ Delivered(n, d)
  /\ UNCHANGED <<agentVars, net, calls, onDealloc, result, pc, forced, failed>>

\* Mutant: the operation of the accessor is taken for its code.
receiveDeallocateResponse_Op(n, d) ==
  /\ Delivers(n, d, "dealloc_resp")
  /\ LET m == Head(ntf[n][d])
     IN result' = [result EXCEPT ![n][d][m.ch] = m.op]
  /\ Delivered(n, d)
  /\ UNCHANGED <<agentVars, net, calls, channels, request, onDealloc, pc, forced, failed>>

receiveDeallocateResponse(n, d) ==
  /\ Delivers(n, d, "dealloc_resp")
  /\ LET m == Head(ntf[n][d])
     IN result' = [result EXCEPT ![n][d][m.ch] = m.err]
  /\ Delivered(n, d)
  /\ UNCHANGED <<agentVars, net, calls, channels, request, onDealloc, pc, forced, failed>>

\* Mutants: the caller is never told; a channel that is not being deallocated
\* stays; the result is stored whether or not a call is in progress.
channelDeletedNotification_Silent(n, d) ==
  /\ Delivers(n, d, "dealloc_ntf")
  /\ LET ch == Head(ntf[n][d]).ch
     IN channels' = [channels EXCEPT ![n][d] = @ \ {ch}]
  /\ Delivered(n, d)
  /\ UNCHANGED <<agentVars, net, calls, request, onDealloc, result, pc, forced, failed>>

channelDeletedNotification_Stay(n, d) ==
  /\ Delivers(n, d, "dealloc_ntf")
  /\ LET ch == Head(ntf[n][d]).ch
     IN result' = [result EXCEPT ![n][d][ch] =
             IF ch \notin channels[n][d] /\ ch \in onDealloc[n][d] THEN "empty" ELSE @]
  /\ Delivered(n, d)
  /\ UNCHANGED <<agentVars, net, calls, channels, request, onDealloc, pc, forced, failed>>

channelDeletedNotification_Always(n, d) ==
  /\ Delivers(n, d, "dealloc_ntf")
  /\ LET ch == Head(ntf[n][d]).ch
     IN /\ channels' = [channels EXCEPT ![n][d] = @ \ {ch}]
        /\ result' = [result EXCEPT ![n][d][ch] = "empty"]
  /\ Delivered(n, d)
  /\ UNCHANGED <<agentVars, net, calls, request, onDealloc, pc, forced, failed>>

channelDeletedNotification(n, d) ==
  /\ Delivers(n, d, "dealloc_ntf")
  /\ LET ch == Head(ntf[n][d]).ch
     IN /\ channels' = [channels EXCEPT ![n][d] = @ \ {ch}]
        /\ result' = [result EXCEPT ![n][d][ch] =
             IF ch \notin channels[n][d] /\ ch \in onDealloc[n][d] THEN "empty" ELSE @]
  /\ Delivered(n, d)
  /\ UNCHANGED <<agentVars, net, calls, request, onDealloc, pc, forced, failed>>

-----------------------------------------------------------------------------
CallStep(n, d, ch) ==
  \/ allocateChannel(n, d, ch)
  \/ deallocateChannel(n, d, ch)
  \/ deallocateChannelForcibly(n, d, ch)

ReturnStep(n, d, ch) ==
  \/ requestAllocate(n, d, ch)
  \/ allocateReturns(n, d, ch)
  \/ requestDeallocate(n, d, ch)
  \/ requestDeallocateByWD(n, d, ch)
  \/ takeResult(n, d, ch)
  \/ restoreChannel(n, d, ch)
  \/ deallocateReturns(n, d, ch)

FailStep(n, d, ch) ==
  \/ requestAllocateFails(n, d, ch)
  \/ requestDeallocateFails(n, d, ch)

DeliverStep(n, d) ==
  \/ receiveAllocateChannelResponse(n, d)
  \/ receiveDeallocateResponse(n, d)
  \/ channelDeletedNotification(n, d)

AgentStep(n) == ServiceStep(n) /\ UNCHANGED proxyVars

\* The agents answer each other within the 250 s of a RequestTimeout: none fires.
ProxyNext ==
  \E n \in Node :
    \/ AgentStep(n)
    \/ \E d \in Client :
         \/ DeliverStep(n, d)
         \/ \E ch \in Channel :
              CallStep(n, d, ch) \/ ReturnStep(n, d, ch) \/ FailStep(n, d, ch)

Progress(n) ==
  \/ AgentStep(n)
  \/ \E d \in Client : DeliverStep(n, d) \/ \E ch \in Channel : ReturnStep(n, d, ch)

\* Threads run and notifications arrive; nobody has to call anything. The calls
\* are bounded and each leads to finitely many steps, so that fairness for the
\* whole is fairness for each of them.
Scheduling == WF_allVars(\E n \in Node : Progress(n))

ProxySpec == ProxyInit /\ [][ProxyNext]_allVars /\ Scheduling

-----------------------------------------------------------------------------
(* Properties. *)

\* The client's maps keep their types.
ProxyTypeOK ==
  /\ channels \in [Node -> [Client -> SUBSET Channel]]
  /\ request \in [Node -> [Client -> [Channel -> Error \cup {"absent", "pending"}]]]
  /\ onDealloc \in [Node -> [Client -> SUBSET Channel]]
  /\ result \in [Node -> [Client -> [Channel -> Error \cup {"absent", "empty"}]]]
  /\ pc \in [Node -> [Client -> [Channel -> PC]]]
  /\ failed \in 0..MaxFailed /\ forced \in 0..MaxForced

\* A client whose request failed forgets a channel its agent goes on opening or
\* closing, and may ask for it again before its previous life is over.
NoRequestFailed == failed = 0

\* The watchdog takes a channel away while its client may be opening it or
\* closing it: what that client then finds is the run proxy_watchdog_hang.
Undisturbed == NoRequestFailed /\ NobodyForced

\* When nothing is in flight the two agents agree on every channel: it is
\* operational on both sides or on none, no transition is left over, and a
\* client's pending request is known to the peer (whose timer will end it).
QuietAgreement ==
  Quiet /\ NoRequestFailed => \A n \in Node, ch \in Channel :
    /\ registry[n][ch].state \in {"none", "operational"}
    /\ registry[n][ch].state = registry[Other(n)][ch].state
    /\ requested[n][ch].state = "client" <=> requested[Other(n)][ch].state = "agent"

\* endAllocateChannel finds the channel it ends: a positive response never
\* arrives for a channel the agent has meanwhile removed.
EndAllocateFindsChannel ==
  Undisturbed =>
    \A n \in Node : ~(handling[n].step = "finish" /\ handling[n].msg.err = "notfound")

\* An operational channel disappears only through a deallocation one of the
\* sides asked for, never through a late error response to an allocation, as
\* long as at most one IPC request failed: after two, an answer that finds no
\* channel may end the next life of the channel.
OperationalEndsByDeallocation ==
  [][failed <= 1 => \A n \in Node, ch \in Channel :
       registry[n][ch].state = "operational" /\ registry'[n][ch] = None
         => Erasing(n, ch)]_allVars

\* When nothing is in flight and no call is in progress, a client has a channel
\* exactly when its agent has it operational on behalf of this client; nor does
\* a positive response ever arrive for a channel the agent has removed.
ClientMatchesAgent ==
  /\ EndAllocateFindsChannel
  /\ Quiet /\ Undisturbed => \A n \in Node, d \in Client, ch \in Channel :
    ntf[n][d] = <<>> /\ At(n, d, ch, "idle") =>
      (ch \in channels[n][d] <=>
         registry[n][ch] = [state |-> "operational", dir |-> d])

\* A result is left for a caller that waits for it, never for a later call,
\* unless the IPC request of that caller failed.
ResultHasCaller ==
  \A n \in Node, d \in Client, ch \in Channel :
    NoRequestFailed /\ result[n][d][ch] # "absent" =>
      pc[n][d][ch] \in {"closing", "forcing", "deallocating"}

\* When deallocateChannel is about to report success, the agent has removed
\* the channel: the answer was not one left over from an earlier call. A failed
\* request is the exception: its answer, when it comes, stays in the map.
SuccessMeansClosed ==
  \A n \in Node, d \in App, ch \in Channel :
    Undisturbed /\ At(n, d, ch, "clearing") /\ ch \notin channels[n][d] =>
      registry[n][ch].dir # d

\* A deallocation result reaches the call it answers: none is left over for a
\* later call, and none is taken that answers an earlier one.
ResultIsForItsCaller == ResultHasCaller /\ SuccessMeansClosed

\* Every deallocateChannel returns: the agent answers the request or announces
\* that the peer closed the channel first, as long as no IPC request failed.
DeallocateEnds ==
  \A n \in Node, d \in Client, ch \in Channel :
    At(n, d, ch, "deallocating") ~> At(n, d, ch, "idle") \/ ~NoRequestFailed

\* The same as long as, moreover, the watchdog does not interfere.
UndisturbedDeallocateEnds ==
  \A n \in Node, d \in App, ch \in Channel :
    At(n, d, ch, "deallocating") ~> At(n, d, ch, "idle") \/ ~Undisturbed

=============================================================================
