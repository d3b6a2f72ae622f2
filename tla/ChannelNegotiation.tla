------------------------- MODULE ChannelNegotiation -------------------------
(***************************************************************************)
(* How two Channel Supervisors agree on the number of a channel.           *)
(*                                                                         *)
(* An application on each device calls allocateChannel(tag); the tags of   *)
(* the two ends complement each other.  The negotiator processes exchange  *)
(* ALLOCATE and CHECK_MAP (the master's number wins), both applications    *)
(* ask the Connectivity Agent for that number, and the negotiators confirm *)
(* with CA_ALLOCATE and MAP_ADD_CID that both have it.  Each wait of a     *)
(* client is bounded: the negotiators then have to forget the request, the *)
(* peer's too, although its messages may be under way.                     *)
(*                                                                         *)
(* A client's request is named by its tag and a number, as in the code by  *)
(* the connection and a number.  The Connectivity Agent (in detail: module *)
(* ChannelAllocation) is what its callers see of it.                       *)
(***************************************************************************)
EXTENDS Integers, Sequences, FiniteSets

CONSTANTS
  Master, Slave, \* the devices, named for the role they are given (setRole)
  Name,          \* what the two ends of a channel have in common
  Uses,          \* Uses[n]: the tags the applications on n call with
  App,           \* App[t]: the process that calls with tag t
  StartId,       \* CHANNEL_ID_START_NUMBER
  MaxId,         \* bound: the highest number there is
  Scenario,      \* bounds: requests[a], the requests to a negotiator for name a's tags,
                 \* faults, how much may time out, fail or die, and taken, the
                 \* numbers already open in the two Connectivity Agents
  None

Node == {Master, Slave}
Id == StartId..MaxId
Side == {"SERVER", "CLIENT"}
Tag == Name \X Side

ASSUME NodesDiffer == Master # Slave
ASSUME BoundsAreNat == StartId \in Nat \ {0} /\ MaxId \in Nat
ASSUME ScenarioType ==
  Scenario \subseteq [requests : [Name -> Nat], faults : Nat, taken : SUBSET Id]
ASSUME TagsAreUsed == Uses \in [Node -> SUBSET Tag]
ASSUME NoneIsNoTag == None \notin Tag

VARIABLES
  call,     \* call[n][t]: where t's thread is in allocateChannel, or the channel it owns
  proc,     \* proc[n]: mProcessors
  ipc,      \* ipc[n]: the removal the negotiator's IPC thread has still to do
  net,      \* net[n]: notifications under way to n (send queue and service channel)
  answers,  \* answers[n]: responses on their way to the clients of n
  free,     \* free[n]: m_FreeChannelId
  map,      \* map[n][i]: m_channelMap: a ChannelInfo or None
  ca,       \* ca[n][i]: channel i in n's Connectivity Agent, or None
  reqs,     \* reqs[n][t]: mMessageId, of the requests for t alone
  faults,   \* how many timeouts, failed allocations and lost clients there were
  scenario  \* the bounds of this behaviour

negotiators == <<proc, ipc, net, answers, free, map>>
bounds == <<faults, scenario>>
vars == <<call, negotiators, ca, reqs, bounds>>

Other(n) == IF n = Master THEN Slave ELSE Master
getComplementingTag(t) == <<t[1], IF t[2] = "SERVER" THEN "CLIENT" ELSE "SERVER">>

\* waitForResponse, and where the answer to it leads.
Waiting == {"negotiate", "update"}
Call == [at : {"idle", "renegotiate", "caAllocate", "caWait", "open", "failed"} \cup Waiting,
         id : Nat]

RequestType == {"ALLOCATE", "CA_ALLOCATE"}
NotificationType == {"ALLOCATE", "CHECK_MAP", "CA_ALLOCATE", "MAP_ADD_CID"}

\* "UNKNOWN": the processor waits for no (further) request of the client.
Processor == [reqType : RequestType \cup {"UNKNOWN"}, ntfType : NotificationType,
              tag : Tag \cup {None}, id : Nat, got : BOOLEAN, req : Nat, rreq : Nat]
Notification == [type : NotificationType \cup {"CLIENT_DISCONNECTED", "INVALIDATE"},
                 tag : Tag, id : Nat, req : Nat]
Removal == [tag : Tag, req : Nat]      \* req = 0: all of the client's
\* The tag of a channel that was freed is "", here None.
ChannelInfo == [tag : Tag \cup {None}]
Answer == [tag : Tag, req : Nat, id : Nat]
CAChannel == [by : Tag \cup {None}, st : {"asked", "opened", "open"}]
ASSUME NoneIsNoInfo == None \notin ChannelInfo \cup CAChannel
ASSUME NoneIsNoRemoval == None \notin Removal

createProcessorForType(type) ==
  [reqType |-> type, ntfType |-> type, tag |-> None, id |-> 0,
   got |-> FALSE, req |-> 0, rreq |-> 0]

Init ==
  /\ scenario \in Scenario
  /\ call = [n \in Node |-> [t \in Tag |-> [at |-> "idle", id |-> 0]]]
  /\ proc = [n \in Node |-> {}]
  /\ ipc = [n \in Node |-> None]
  /\ net = [n \in Node |-> <<>>]
  /\ answers = [n \in Node |-> {}]
  /\ free = [n \in Node |-> StartId]
  /\ map = [n \in Node |-> [i \in Id |-> None]]
  /\ ca = [n \in Node |-> [i \in Id |->
             IF i \in scenario.taken THEN [by |-> None, st |-> "open"] ELSE None]]
  /\ reqs = [n \in Node |-> [t \in Tag |-> 0]]
  /\ faults = 0

-----------------------------------------------------------------------------
(* Processors: the handlers run with mProcessorsMutex held. *)

\* The processors that a request or a notification finds, or a new one.
\* Slip: the tag is not compared.
Finds_AnyTag(n, p, type, tag, id) == type # "ALLOCATE" => p.id = id

\* Slip: the number is compared before it is agreed on.
Finds_ById(n, p, type, tag, id) == p.tag = tag /\ p.id = id

Finds(n, p, type, tag, id) ==
  /\ p.tag = tag
  /\ type # "ALLOCATE" => p.id = id

obtainProcessorForRequest(n, type, t, id) ==
  LET found == {p \in proc[n] : p.reqType = type /\ Finds(n, p, type, t, id)}
  IN IF found # {} THEN found ELSE {createProcessorForType(type)}

\* No processor is created for the second phase of the two exchanges.
obtainProcessorForNotification(n, m) ==
  LET found == {p \in proc[n] : /\ p.ntfType = m.type
                                /\ Finds(n, p, m.type, getComplementingTag(m.tag), m.id)}
  IN IF found # {} THEN found
     ELSE IF m.type \in RequestType THEN {createProcessorForType(m.type)} ELSE {}

\* Slip: the request is left out.
Ntf_NoRequest(type, p) == [type |-> type, tag |-> p.tag, id |-> p.id, req |-> None]

Ntf(type, p) == [type |-> type, tag |-> p.tag, id |-> p.id, req |-> p.req]
\* Slip: the allocation is announced twice instead of confirmed.
Second_Repeats(type) == IF type = "ALLOCATE" THEN "CHECK_MAP" ELSE "CA_ALLOCATE"

Second(type) == IF type = "ALLOCATE" THEN "CHECK_MAP" ELSE "MAP_ADD_CID"

updateFreeChannel(n, id) == IF id >= free[n] THEN id + 1 ELSE free[n]

(***************************************************************************)
(* onLocalRequest of AllocationProcessor and of                            *)
(* ConAgentAllocationDoneProcessor: the peer is told, and told a second    *)
(* time when its own notification came first.                              *)
(***************************************************************************)
onLocalRequest(n, type, t, id) ==
  /\ ipc[n] = None
  /\ reqs[n][t] < scenario.requests[t[1]]
  /\ reqs' = [reqs EXCEPT ![n][t] = @ + 1]
  /\ LET generates == type = "ALLOCATE" /\ n = Master
         next == updateFreeChannel(n, id)
     IN /\ generates => next \in Id
        /\ free' = [free EXCEPT ![n] = IF generates THEN next ELSE @]
        /\ \E old \in obtainProcessorForRequest(n, type, t, id) :
             LET p == [old EXCEPT !.reqType = "UNKNOWN", !.tag = t, !.req = reqs[n][t] + 1,
                         !.id = IF generates THEN next
                                ELSE IF type = "ALLOCATE" THEN @ ELSE id,
                         !.ntfType = IF old.got THEN Second(type) ELSE @]
                 sent == IF old.got THEN <<Ntf(type, p), Ntf(Second(type), p)>>
                         ELSE <<Ntf(type, p)>>
             IN /\ proc' = [proc EXCEPT ![n] = (@ \ {old}) \cup {p}]
                /\ net' = [net EXCEPT ![Other(n)] = @ \o sent]
  /\ UNCHANGED <<ipc, answers, map>>

Receives(n, types) == net[n] # <<>> /\ Head(net[n]).type \in types
Rest(n) == [net EXCEPT ![n] = Tail(@)]

\* onRemoteNotification, ALLOCATE or CA_ALLOCATE: the slave, and the second
\* exchange, take the peer's number.
onRemoteRequest(n) ==
  /\ Receives(n, RequestType)
  /\ LET m == Head(net[n])
         takesId == (m.type = "ALLOCATE" /\ n # Master)
     IN \E old \in obtainProcessorForNotification(n, m) :
          LET first == old.reqType # "UNKNOWN"
              p == [old EXCEPT !.got = TRUE, !.rreq = m.req,
                      !.id = IF takesId \/ (m.type = "CA_ALLOCATE" /\ first) THEN m.id ELSE @,
                      !.tag = IF first THEN getComplementingTag(m.tag) ELSE @,
                      !.ntfType = IF first THEN @ ELSE Second(m.type)]
          IN /\ proc' = [proc EXCEPT ![n] = (@ \ {old}) \cup {p}]
             /\ net' = IF first THEN Rest(n)
                       ELSE [Rest(n) EXCEPT ![Other(n)] = Append(@, Ntf(Second(m.type), p))]
  /\ UNCHANGED <<call, ipc, answers, free, map, ca, reqs, bounds>>

\* addChannelInfo: insert leaves an entry that is there already.
\* Slip: the number is marked as used, but not entered.
addChannelInfo_FreeOnly(n, id, t) ==
  map' = map /\ free' = [free EXCEPT ![n] = updateFreeChannel(n, id)]

addChannelInfo(n, id, t) ==
  /\ map' = [map EXCEPT ![n][id] = IF @ = None THEN [tag |-> t] ELSE @]
  /\ free' = [free EXCEPT ![n] = updateFreeChannel(n, id)]

\* onRemoteNotification, CHECK_MAP or MAP_ADD_CID: the client is answered.
onRemoteConfirmation(n) ==
  /\ Receives(n, {"CHECK_MAP", "MAP_ADD_CID"})
  /\ LET m == Head(net[n])
         found == obtainProcessorForNotification(n, m)
     IN \/ /\ found = {}
           /\ UNCHANGED <<proc, answers, free, map>>
        \/ \E p \in found :
             /\ proc' = [proc EXCEPT ![n] = @ \ {p}]
             /\ answers' = [answers EXCEPT ![n] = @ \cup
                              {[tag |-> p.tag, req |-> p.req, id |-> p.id]}]
             /\ \/ m.type = "CHECK_MAP" /\ UNCHANGED <<free, map>>
                \/ m.type = "MAP_ADD_CID" /\ addChannelInfo(n, p.id, p.tag)
  /\ net' = Rest(n)
  /\ UNCHANGED <<call, ipc, ca, reqs, bounds>>

\* processRemoteClientDisconnected, invalidateRemoteTimedOutRequest.
OfRemote(p, m) ==
  /\ p.rreq # 0
  /\ LET remote == getComplementingTag(p.tag)
     IN \/ m.type = "INVALIDATE" /\ remote = m.tag /\ p.rreq = m.req
        \/ m.type = "CLIENT_DISCONNECTED" /\ App[remote] = App[m.tag]

onRemoteRemoval(n) ==
  /\ Receives(n, {"INVALIDATE", "CLIENT_DISCONNECTED"})
  /\ proc' = [proc EXCEPT ![n] = {p \in @ : ~OfRemote(p, Head(net[n]))}]
  /\ net' = Rest(n)
  /\ UNCHANGED <<call, ipc, answers, free, map, ca, reqs, bounds>>

\* The IPC thread tells the peer first, and then removes its own processors.
\* Slip: a timed-out request stays.
OfLocal_DisconnectedOnly(p, r) == p.req # 0 /\ r.req = 0 /\ App[p.tag] = App[r.tag]

OfLocal(p, r) ==
  /\ p.req # 0
  /\ IF r.req # 0 THEN p.tag = r.tag /\ p.req = r.req ELSE App[p.tag] = App[r.tag]

TellRemoval(n, type, t, req) ==
  /\ ipc[n] = None
  /\ ipc' = [ipc EXCEPT ![n] = [tag |-> t, req |-> req]]
  /\ net' = [net EXCEPT ![Other(n)] =
               Append(@, [type |-> type, tag |-> t, id |-> 0, req |-> req])]

RemoveLocal(n) ==
  /\ ipc[n] # None
  /\ proc' = [proc EXCEPT ![n] = {p \in @ : ~OfLocal(p, ipc[n])}]
  /\ ipc' = [ipc EXCEPT ![n] = None]
  /\ UNCHANGED <<call, net, answers, free, map, ca, reqs, bounds>>

-----------------------------------------------------------------------------
(* The Connectivity Agents, as their clients see them. *)

Fault == faults < scenario.faults /\ faults' = faults + 1 /\ UNCHANGED scenario

CAChange(n, i, e) == ca' = [ca EXCEPT ![n][i] = e]
CAIs(n, i, states) == ca[n][i] # None /\ ca[n][i].st \in states

\* The thread that waits in ::allocateChannel for channel i.
CACaller(n, t, i) == call[n][t] = [at |-> "caWait", id |-> i] /\ ca[n][i].by = t

\* Both devices have asked for the number, whatever for: it is opened.
CAOpens(i) ==
  /\ \A n \in Node : CAIs(n, i, {"asked"})
  /\ ca' = [n \in Node |-> [ca[n] EXCEPT ![i].st = "opened"]]
  /\ UNCHANGED <<call, negotiators, reqs, bounds>>

\* The peer has the channel open already: its busy answer is passed on.
CARefuses(n, i) ==
  /\ CAIs(n, i, {"asked"}) /\ CAIs(Other(n), i, {"opened", "open"})
  /\ CAChange(n, i, None)
  /\ call' = [call EXCEPT ![n] = [t \in Tag |->
       IF CACaller(n, t, i) THEN [@[t] EXCEPT !.at = "renegotiate"] ELSE @[t]]]
  /\ UNCHANGED <<negotiators, reqs, bounds>>

\* A request times out, or a message is lost, at one of the two agents.
CAFails(n, i) ==
  /\ CAIs(n, i, {"asked", "opened"})
  /\ CAChange(n, i, None)
  /\ call' = [call EXCEPT ![n] = [t \in Tag |->
       IF CACaller(n, t, i) THEN [@[t] EXCEPT !.at = "failed"] ELSE @[t]]]
  /\ Fault
  /\ UNCHANGED <<negotiators, reqs>>

\* An answer to a process that is gone.
CAForgotten(n, i) ==
  /\ CAIs(n, i, {"opened"}) /\ ca[n][i].by = None
  /\ CAChange(n, i, [ca[n][i] EXCEPT !.st = "open"])
  /\ UNCHANGED <<call, negotiators, reqs, bounds>>

\* Closing closes both ends; the other end's owner gets onChannelDeleted.
Closed(i) == ca' = [n \in Node |-> [ca[n] EXCEPT ![i] = IF CAIs(n, i, {"open"}) THEN None ELSE @]]
Deleted(i, t, c) == IF c.at = "open" /\ c.id = i THEN [at |-> "idle", id |-> 0] ELSE c
OwnersTold(i) == call' = [n \in Node |-> [t \in Tag |-> Deleted(i, t, call[n][t])]]

-----------------------------------------------------------------------------
(* The clients: allocateChannel and deallocateChannel of the tube. *)

Goes(n, t, at, id) == call' = [call EXCEPT ![n][t] = [at |-> at, id |-> id]]

allocateChannel(n, t) ==
  /\ t \in Uses[n] /\ call[n][t].at \in {"idle", "failed"}
  /\ onLocalRequest(n, "ALLOCATE", t, 0)
  /\ Goes(n, t, "negotiate", 0)
  /\ UNCHANGED <<ca, bounds>>

\* "trying a higher number"
negotiateAgain(n, t) ==
  /\ call[n][t].at = "renegotiate"
  /\ onLocalRequest(n, "ALLOCATE", t, call[n][t].id)
  /\ Goes(n, t, "negotiate", call[n][t].id)
  /\ UNCHANGED <<ca, bounds>>

\* OnAsyncRequest and waitForResponse; a late answer finds nobody.  What was
\* deleted meanwhile is reported as soon as allocateChannel returns.
getAnswer(n) ==
  \E r \in answers[n] :
    /\ answers' = [answers EXCEPT ![n] = @ \ {r}]
    /\ LET c == call[n][r.tag]
           expected == c.at \in Waiting /\ reqs[n][r.tag] = r.req
       IN \/ /\ expected /\ c.at = "negotiate"
             /\ Goes(n, r.tag, "caAllocate", r.id)
          \/ /\ expected /\ c.at = "update"
             /\ Goes(n, r.tag, IF ca[n][c.id] = [by |-> r.tag, st |-> "open"]
                               THEN "open" ELSE "idle", c.id)
          \/ ~expected /\ UNCHANGED call
    /\ UNCHANGED <<proc, ipc, net, free, map, ca, reqs, bounds>>

\* A number that the process itself has asked for is reported as busy.
caAllocate(n, t) ==
  /\ call[n][t].at = "caAllocate"
  /\ LET i == call[n][t].id
         busy == \/ CAIs(n, i, {"opened", "open"})
                 \/ CAIs(n, i, {"asked"}) /\ ca[n][i].by # None /\ App[ca[n][i].by] = App[t]
     IN \/ /\ ca[n][i] = None
           /\ CAChange(n, i, [by |-> t, st |-> "asked"])
           /\ Goes(n, t, "caWait", i)
        \/ /\ busy
           /\ Goes(n, t, "renegotiate", i) /\ UNCHANGED ca
        \/ /\ ca[n][i] # None /\ ~busy
           /\ Goes(n, t, "failed", 0) /\ UNCHANGED ca
  /\ UNCHANGED <<negotiators, reqs, bounds>>

\* The channel is open here: updateMapWithCID.
updateMapWithCID(n, t) ==
  /\ LET i == call[n][t].id
     IN /\ call[n][t].at = "caWait" /\ ca[n][i] = [by |-> t, st |-> "opened"]
        /\ CAChange(n, i, [by |-> t, st |-> "open"])
        /\ onLocalRequest(n, "CA_ALLOCATE", t, i)
        /\ Goes(n, t, "update", i)
  /\ UNCHANGED bounds

\* Either request may go unanswered; the channel of a failed update stays open.
responseTimeout(n, t) ==
  /\ call[n][t].at \in Waiting
  /\ TellRemoval(n, "INVALIDATE", t, reqs[n][t])
  /\ Goes(n, t, "failed", 0)
  /\ Fault
  /\ UNCHANGED <<proc, answers, free, map, ca, reqs>>

\* The process that uses t dies: its channels stay open.
OnConnectionLost(n, t) ==
  /\ call[n][t].at \notin {"idle", "failed"}
  /\ TellRemoval(n, "CLIENT_DISCONNECTED", t, 0)
  /\ call' = [call EXCEPT ![n] = [u \in Tag |->
       IF App[u] = App[t] THEN [at |-> "idle", id |-> 0] ELSE @[u]]]
  /\ ca' = [ca EXCEPT ![n] = [i \in Id |->
       IF @[i] # None /\ @[i].by \in {u \in Tag : App[u] = App[t]}
       THEN [@[i] EXCEPT !.by = None] ELSE @[i]]]
  /\ Fault
  /\ UNCHANGED <<proc, answers, free, map, reqs>>

invalidateChannelInfo(n, i) ==
  map' = [map EXCEPT ![n][i] = IF @ = None THEN None ELSE [tag |-> None]]

deallocateChannel(n, t) ==
  /\ call[n][t].at = "open" /\ ipc[n] = None
  /\ Closed(call[n][t].id)
  /\ OwnersTold(call[n][t].id)
  /\ invalidateChannelInfo(n, call[n][t].id)
  /\ UNCHANGED <<proc, ipc, net, answers, free, reqs, bounds>>

\* The owners at both ends kick the watchdogs as long as they live.
Kicked(i) ==
  \A n \in Node : \E t \in Tag : call[n][t].at \in {"update", "open"} /\ call[n][t].id = i

\* checkChannels; the first number is not among those it looks at.
checkChannels(n) ==
  \E i \in StartId + 1 .. free[n] - 1 :
    /\ map[n][i] # None /\ map[n][i].tag # None
    /\ ~Kicked(i)
    /\ Closed(i)
    /\ OwnersTold(i)
    /\ invalidateChannelInfo(n, i)
    /\ UNCHANGED <<proc, ipc, net, answers, free, reqs, bounds>>

NegotiatorStep(n) ==
  onRemoteRequest(n) \/ onRemoteConfirmation(n) \/ onRemoteRemoval(n) \/ RemoveLocal(n)

ClientStep(n, t) ==
  negotiateAgain(n, t) \/ caAllocate(n, t) \/ updateMapWithCID(n, t)

CAStep(i) == CAOpens(i) \/ \E n \in Node : CARefuses(n, i) \/ CAForgotten(n, i)

Next ==
  \/ \E n \in Node :
       \/ NegotiatorStep(n) \/ getAnswer(n) \/ checkChannels(n)
       \/ \E t \in Tag :
            \/ ClientStep(n, t) \/ allocateChannel(n, t) \/ deallocateChannel(n, t)
            \/ responseTimeout(n, t) \/ OnConnectionLost(n, t)
       \/ \E i \in Id : CAFails(n, i)
  \/ \E i \in Id : CAStep(i)

\* Threads run, processes and agents answer; nothing has to fail.
Fairness ==
  /\ \A n \in Node : WF_vars(NegotiatorStep(n)) /\ WF_vars(getAnswer(n))
  /\ \A n \in Node, t \in Tag : WF_vars(ClientStep(n, t))
  /\ \A i \in Id : WF_vars(CAStep(i))

Spec == Init /\ [][Next]_vars /\ Fairness

-----------------------------------------------------------------------------
(* Properties. *)

\* The clients, processors, queues and maps keep their types.
TypeOK ==
  /\ call \in [Node -> [Tag -> Call]]
  /\ proc \in [Node -> SUBSET Processor]
  /\ answers \in [Node -> SUBSET Answer]
  /\ ipc \in [Node -> Removal \cup {None}]
  /\ net \in [Node -> Seq(Notification)]
  /\ free \in [Node -> Nat]
  /\ map \in [Node -> [Id -> ChannelInfo \cup {None}]]
  /\ ca \in [Node -> [Id -> CAChannel \cup {None}]]
  /\ reqs \in [Node -> [Tag -> Nat]]
  /\ faults \in Nat
  /\ scenario \in Scenario

Has(n, t, i) == call[n][t] = [at |-> "open", id |-> i]

\* A number has one owner on a device, and connects the two ends of one tag:
\* allocations that succeed with one number are for complementing tags of the
\* two devices, although the master does not reserve the number it gives out and
\* the agents open it for whoever asks.
NoCrossedChannels ==
  \A i \in Id, n, k \in Node, t, u \in Tag :
    Has(n, t, i) /\ Has(k, u, i) => u = IF k = n THEN t ELSE getComplementingTag(t)

\* Two ends that ask their agents at the same time ask for the same number.
Asks(n, t) == call[n][t].at \in {"caAllocate", "caWait", "update"}
SameNumber ==
  \A t \in Tag : LET u == getComplementingTag(t)
                 IN Asks(Master, t) /\ Asks(Slave, u) => call[Master][t].id = call[Slave][u].id

\* The assertions of the processors: a second CA_ALLOCATE finds no processor
\* that has had one.
AssertionsHold ==
  \A n \in Node : Receives(n, {"CA_ALLOCATE"}) =>
    \A p \in obtainProcessorForNotification(n, Head(net[n])) : ~p.got

\* While a tag has its channel the negotiator knows: or the watchdog would
\* never close the channel of a process that died.
KnownToNegotiator ==
  \A n \in Node, i \in Id, t \in Tag : Has(n, t, i) => map[n][i] # None

\* Without timeouts and failures, two complementary calls with nobody else
\* at work both return with the channel, past the numbers that are taken ("idle":
\* the other end has already closed it again).
Alone(t) ==
  \A n \in Node, u \in Tag : u \notin {t, getComplementingTag(t)} => call[n][u].at = "idle"
BothCall(t) ==
  call[Master][t].at = "negotiate" /\ call[Slave][getComplementingTag(t)].at = "negotiate"
Succeeds(n, t) == call[n][t].at \in {"open", "idle"}
OutOfBounds ==
  \E n \in Node, t \in Tag :
    /\ call[n][t].at \in {"renegotiate", "caWait"}
    /\ reqs[n][t] = scenario.requests[t[1]] \/ call[n][t].id = MaxId
PromptCallsSucceed ==
  \A t \in Uses[Master] : [](faults = 0 /\ Alone(t)) =>
    /\ BothCall(t) ~> (Succeeds(Master, t) \/ OutOfBounds)
    /\ BothCall(t) ~> (Succeeds(Slave, getComplementingTag(t)) \/ OutOfBounds)

=============================================================================
