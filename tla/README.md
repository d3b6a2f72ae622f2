# iviLink in TLA+

iviLink connects applications on two devices, typically a head unit and a
phone. On each device a *System Controller* starts and watches the other
processes. A *Connectivity Agent* owns the connection and multiplexes numbered
channels over it. A *Channel Supervisor* agrees with its peer on channel
numbers, a *Profile Manager* on profiles and services, an *Application Manager*
launches applications, and libraries in the applications give access to all of
them. Every process talks to its neighbours on the same device over IPC and to
its counterpart through the agents.

This directory holds TLA+ modules for the parts whose correctness depends on
interleavings, repetition and loss, the TLC configurations that check them and
TLAPS proofs for any size. Paths below are relative to `src/framework`.

## Inventory

| Part | State | Operations | What is hard | Here |
|---|---|---|---|---|
| Connectivity Agent **L1** (`components/ConnectivityAgent/generic/L1`) | maps of requested and of registered channels with their client; a timer per request | client requests over IPC; service requests and responses of the peer; timeouts | three threads under two mutexes with gaps between critical sections; both sides ask at once; late timeouts; lost service messages | `ChannelAllocation` |
| **Client library** (`generic/common`, `CConnectivityAgentProxy`) | channels and their handlers, results for waiting calls | `allocateChannel`, `deallocateChannel`, `deallocateChannelForcibly`, notifications | calls block until a notification arrives; the peer or the watchdog closes the same channel | `ClientProxy` |
| Connectivity Agent **L0** (`generic/L0`) | buffers and counters of sources, frames not acknowledged, last number of every target | send, repeat, expire, acknowledge, accept, reject, replace the carrier | two threads and one mutex held while sending; repeated, rejected and lost frames; number wrap-around | `FrameTransfer`, `TransmitDispatcher` |
| Connectivity Agent **HAL** (`generic/HAL`, `ports`) | carrier adapters, sockets, devices | connect, handshake, send, receive | both ends blocked in `send`; adapters replaced while in use | the part L0 depends on, in `FrameTransfer` |
| **System Controller** (`components/SystemController`) | `mSystemState`, triggers, child processes, reset | launch the components in order, react to their callbacks, reset the stack | callbacks of several threads change an unprotected state; triggers handed between threads; processes that crash or connect too early | `SystemStateMachine` on `TriggerQueue` |
| **Channel Supervisor** (`components/ChannelSupervisor`) | used and reserved numbers, request processors | allocate and deallocate a number on both devices | crossing requests, numbers that are not reserved, timed-out requests, clients that die | `ChannelNegotiation` |
| **Profile Manager** (`components/ProfileManager`) | registry of applications and profile instances, incoming profiles, pending services | create and end profiles on both devices, launch what serves them | event thread, peer messages that cross, crashing applications | `ProfileInstances`; the choice of profiles is not modelled |
| **Application Manager** (`components/ApplicationManager`) | known, launched and waiting applications | launch, hand over services, remove | launch against initialisation; a process that dies | its part in `ProfileInstances` |
| **Application and profile libraries** (`libraries`) | active services, profile instances, incoming profiles | load, unload, incoming profiles, deaths | client thread against job thread, callbacks against destruction | `ProfileInstances`; buffers are not modelled |
| **IPC** (`utils/ipc`) | pending requests, one response buffer | `request`, `asyncRequest`, callbacks | response after the timeout; lost connections; restarted processes; re-entrance | `IpcRequest`; the other modules assume it reliable and ordered |
| **Thread utilities** (`utils/threads`) | timers, jobs | add, remove, fire | waking the thread for an earlier deadline | planned |
| Message protocols, repository, trust list, configuration, serialization, sockets, Android port, samples | | | no protocol state of their own | not modelled |

Interaction: applications call L1 over IPC (`ClientProxy` on top of
`ChannelAllocation`). L1s talk to each other over channel 0, the service
channel, which is carried like any other by L0. Opening and closing a channel
in L1 opens and closes its source and target in L0. L0's dispatcher sends
through the carrier adapter, whose receiving thread returns acknowledgements
and hands frames to the targets. The System Controller learns of the connection
and, when it is lost, restarts all processes of the device. Such a restart ends
every state modelled here: none of it is persistent.

### What makes each part correct

- L1: the two agents agree on which channels exist and to whom they belong
  whenever nothing is in flight; a channel is never both requested and
  registered; the registry agrees with L0.
- Client library: every call returns, its result is its own, and the client
  thinks it has a channel exactly when its agent thinks so.
- L0: the peer's consumer receives a prefix of what was written, in order;
  nothing undelivered is acknowledged; what can be sent is eventually received;
  priorities are respected without starving what the limits protect.
- System Controller: no trigger is lost, reordered or slept over, and the state
  machine is where a trigger expects it; the bring-up ends with the link up or
  with a restart; profiles are unlocked after an authentication only; a crash
  is followed by a restart, and nothing else is.
- Channel Supervisor: the two ends of a tag get the same number, nobody else
  gets it, and the negotiator knows of it.
- IPC: a response is given to the request it answers, into a buffer that is
  still there, and a lost connection ends the calls that wait on it.
- Profile Manager and libraries: a Profile Manager and its application agree on
  which instances exist, an instance does not outlive its counterpart, and every
  creation is decided.

## Modules

**`ChannelAllocation`**: L1 of the two agents. `requested` and `registry` are
`mRequestedMap` and `mL1ChannelRegistry` (the state and client direction of
`ChannelInfo`), `opened` the sources and targets in L0, `net` the service
channel, `ntf` the asynchronous IPC to clients, `timers` the running
`RequestTimeout`s, which the code never cancels. `beginAllocateChannel` is an
operator that returns the error and both new entries, because the code calls it
from the client's and from the peer's side. One action is one critical section.
`handling` and `expiring` hold what the receiving and the timeout thread still
have to do when they have released a mutex. A full queue (`QueueSize`) drops
the message, as `fillBuffer` does with `NO_FREE_BUFFERS`.

**`ClientProxy`** extends it with the blocking calls of
`CConnectivityAgentProxy`: `pc` is where the call of a client on a channel is,
`channels`, `request`, `onDealloc` and `result` are the maps it shares with the
IPC thread. An application's IPC request may be reported as failed, with or
without the agent having handled it (`requestAllocateFails`,
`requestDeallocateFails`), and the watchdog's client may close a channel
(`deallocateChannelForcibly`). The next-state relation contains the agents'
steps, without timeouts: it is about requests the peer answers within the 250 s.

**`FrameTransfer`**: L0 and the carrier of two devices, from `fillBuffer` on
one to the consumer on the other. `unacked` is the transmitted-frame queue,
`sending` the transmit thread inside `sendFrame` with that queue locked,
`acking` the receiving thread inside `sendACK`, `wire` the TCP connection with
room for `WireSize` frames. Faults: a repetition although the acknowledgement
is on its way (`early`), a client that rejects a frame (`reject`), a frame
given up after 20 s (`expire`), a lost connection (`break`), one lost before both
devices have their connectivity manager (`half`).

**`ReliableChannel`** is what a channel promises, and the abstract specification
that `FrameTransfer` implements: `received` is a prefix of `written`.

**`TransmitDispatcher`**: the scheduling inside one transmit thread, which
`FrameTransfer` leaves open. `at` is the thread's place in its pass over the
priorities, with `mRegistryMutex` held everywhere but at `wait`. What happens
to a frame is reduced to its being in the queue of transmitted frames (`queued`
counts them for each channel) or not.

**`TriggerQueue`**: the queue between the System Controller's IPC threads and
its trigger thread. `pushed` are the threads between the two critical sections
of `sendTrigger`, `at` the place of the trigger thread in `receiveTrigger`. The
trigger thread holds the condition variable's mutex at `update`. It reads
`mQueue.empty()` without the mutex: a read that races with a push may see
either side of it, and the model's step may come before or after.

**`SystemStateMachine`** extends it with what the triggers are for. `Moves` is
the table of the state classes (`ssm/states`): which event a state heeds, the
next state and the trigger that is sent; every other event is ignored.
`Launches` are the processes the triggers start, `handling` the place of the
trigger thread inside a case of `startTriggerHandler`, `announce` a trigger whose
thread has changed `mSystemState` and not sent it yet. `process` and `listening`
are the started processes and the `CIpc` objects that wait for them, `peer` the
other device as the Connectivity Agent reports it, `mailbox` and `watched` the
watchdog's messages and its component map. `DoReset` is the guarded `doReset`;
the process it runs in goes on until `ReplaceProcess`. One life of the System
Controller on Linux is modelled: its end is `Stopped`.

**`ChannelNegotiation`**: the tubes, clients and negotiators of the two Channel
Supervisors. `call` is where a thread is in `allocateChannel`, `proc` the set of
processors (`mProcessors`), `net` the notifications under way, `answers` the
responses to clients, `free` and `map` the `Map`. `onLocalRequest` and
`onRemoteRequest` stand for both kinds of processor, whose handlers differ in the
types and in who chooses the number; `Second` is the second phase. Timed-out
requests and lost clients are removed in two steps (`TellRemoval`,
`RemoveLocal`), as the code tells the peer before it takes the mutex. A client is
named by its tag, which stands for its connection and request number. The
Connectivity Agent is what `ChannelAllocation` promises its callers:
a number is opened when both devices have asked for it, refused when the peer
has it, and may fail.

**`IpcRequest`**: `CIpc` and `CIpcSocket` of a server and a client process.
`th` is where a thread is in `request` or `asyncRequest`, `mutex` is
`mRequestMutex`, `container` the pending requests with their response buffer,
`signalled` the threads whose semaphore has been signalled, `sockets` and `wire`
the connections of a process and what it can still read from them, `reading`
the message of which only the header has been read, `failed` the connections a
failed `send` has queued for closing. Processes die and start again, with ids
from the beginning.

**`ProfileInstances`**: two applications that load a service and its pair, with
their Profile Managers. On each device `known`, `serves` and `reg` are the
`ClientAppRegistry`, `incoming` and `pending` `mIncomingProfiles` and
`mPendingServiceMap`, `events` the queue of the Profile Manager's one thread,
into which IPC, the peer and its own handlers put events, `late` the timeout
events, `net` the peer's messages. `app` is the application process: its client
thread in `loadService` or `unloadService`, the one thread of its pool with the
jobs PmpPim's messages make, and the maps of `CServiceManager`, `CService` and
`CPIM` that they share. A map entry may be `Null`, as `incomingLoad` makes it, or
dangle; reading one may end the process (`UnloadCrash`, `Dies`). The Application
Manager is the set `requests` of sessions to hand over. An instance is named by
the device, the profile and the load that made it.

The modules named `...Proofs` hold the theorems. An `MC...`
module holds the instances of one module. Operators such as `Apply_KeepRequest`,
next to the definition they alter, are slips that a change to the code could
make: with one in place of the original, a property of a run fails.

## Runs

| Run | Question | Bounds |
|---|---|---|
| `alloc_timeouts` | What do the agents' maps promise when clients call anything, any timer fires and messages are dropped? | one channel, an application and a watchdog client per device, 2 calls per device, queue of 2 |
| `proxy` | Do agents and clients agree, and do the calls return, when both applications open and close at once, an IPC request fails or the watchdog's client interferes? | one channel, an application and a watchdog client per device; any number of calls and of forced closings, or any number of calls and 1 failed request |
| `proxy_watchdog_hang` (violated) | Does `deallocateChannel` return after a forced closing? | each application opens once |
| `frame_faults` | With two faults of any kind, the loss of the connection included: is delivery in order, is only what was delivered acknowledged, and is the rest kept? | service and data channel, 1 service and 2 data items each way, 2 faults of any kind |
| `frame_live` | Does everything arrive? | data one way, 1 fault |
| `frame_replaced` (violated) | Are frames processed after a reconnection? | 1 loss |
| `dispatch_served` | Is the source that is read there, do priorities hold, and which sources are served under any load? | 1 service, 2 real-time, 1 plain channel, each opened at most twice, two of them closed |
| `bringup` | Does the bring-up end, is no trigger or launch lost, is there one verdict, and are crashes, and only crashes, followed by a restart? | one crash, of the watchdog or the Channel Supervisor; one lost link |
| `bringup_assert` (violated) | Does the assertion of `receiveTrigger` hold? | the same |
| `negotiation` | Who gets which number when tags are negotiated at once, numbers are taken, requests time out, agents fail and applications die? | two tags with one fault or none, one tag with two faults and a number that is taken; three numbers |
| `ipc_requests` | Does every call get its own response, or end? | two threads in each of two processes, 1 call of the server, 2 of the client, 2 connections |
| `profiles` | Do Profile Managers, applications and the two devices agree on the profile instances, and is every creation decided? | a service with 2 profiles; six scenarios of 1 or 2 loads with an unload, a crash, lost requests or a launch |

Why the bounds suffice. L1's maps are indexed by channel and no operation looks
at two channels, so one channel is enough; two calls per device are the least
for a request that meets an older one's timer and for open-close-open. `proxy`
needs no bound on calls and forced closings: its states are compared without the
two counters (`View`), the numbers in the cfg are never reached, and the search
ends after 98 537 states at depth 82, with a queue of 8 that is never full. For
one channel, one application and one watchdog client per device it is complete.
A second application changes nothing as long as a number has one owner on a
device, which is what the negotiator sees to (theorem `OneOwnerOnADevice`); an
agent does not check whose channel it closes, and with two applications on one
number `ClientMatchesAgent`, `QuietAgreement`, `ResultIsForItsCaller` and
`OperationalEndsByDeallocation` all fail. The last also fails after two failed
requests: an answer left over from the first life of a channel finds no channel,
and `failAllocateChannel` erases the next life. Hence its condition `failed <= 1`. In L0 a gap, a frame ahead of it and an acknowledgement that
crosses a repetition need two data items and two faults. `Wrap = 8` is above
every number used, so that nothing wraps where wrapping is not the question.
In the dispatcher, two real-time sources reach `realTimeMessagesLimit`, a closed
and reopened one changes places with the other, and the plain one
waits behind both. The trigger thread's cycle involves two triggers, and no
thread of the bring-up sends more than `MaxSent = 2`: the bound never binds.
`Crashable` has the process that notices crashes and one that is noticed; with
two more, the authentication application among them, `bringup` has 557 000 states
and passes as well. A number that two tags meet on needs two tags and a
third number to go on to; the scenarios of `negotiation` combine one fault with
either a second tag or a number that is taken, for all of them together are
beyond the time a run has (the larger instance, 614 000 states, passes). A late
response needs two calls of one process, a response for the process before
a restart, and directions that differ two connections; `FirstDir` gives the
client a number that is not 1, as in a process with several `CIpc` objects.
In `profiles` the second profile is what a service can still lack when the first
dies, and `MapOrder` makes the map's order differ from the manifest's. The scenarios
(`MCScenario`) combine few disturbances each; they do not reach a crash in
`DropService`, for which both sides have to load while one of them restarts. The
counters that only bound a run are `MaxCalls`, `MaxForced`, `MaxFailed`,
`MaxOpens`, `MaxFaults`, `Window`, `Budget`, `MaxSent`, `MaxCrashes`, `MaxConnections`,
`MaxId`, `MaxLives`, `MaxLoads` and `Scenario`. In `proxy` a behaviour has either failed requests or
forced deallocations. `CHECK_DEADLOCK` is
off where a run ends because they are used up.

Fairness. Threads of the code run when they can. In `ClientProxy` and in
`SystemStateMachine` each behaviour's activity is finite, because calls, triggers
and launches are, so that one weak fairness of everything that is not a new call
or a mishap (`Progress`) is fairness for each thread. (The `View` of `proxy` leaves
the counter out that makes calls finite. The graph TLC searches then has more
behaviours, those with endless calls, and `UndisturbedDeallocateEnds` holds in
them too.) In `FrameTransfer` the
dispatch of each source and the repetition are strongly fair, since each pass
visits every source, and so is the acknowledgement's wait for the queue's mutex,
which is free while the transmit thread waits for its semaphore between passes.
In `TransmitDispatcher` only the thread is fair and a repeated frame is not due
again at once. In `ChannelNegotiation` the negotiators, the delivery of answers,
the clients inside a call and the Connectivity Agents are weakly fair, in
`IpcRequest` the receiving thread and the threads inside a call. In
`ProfileInstances` each thread is: the Profile Manager's event thread, its
receiving thread and its timer, the Application Manager, and the two threads of an
application. Nothing has to call, to fail, to crash or (but for that timer) to
time out.

## What the violated runs show

- `proxy_watchdog_hang`: after the watchdog has closed a channel, its owner's
  `deallocateChannel` waits forever, for the agent answers nothing.
- `frame_replaced`: nothing unlocks a replaced adapter. Usually the System
  Controller restarts the stack when the connection is lost, and hides it.
- `bringup_assert`: a sender delayed between the two mutexes wakes the trigger
  thread for an empty queue, which is asserted never to happen. The Application
  Manager's two callbacks suffice.

Four more disagreements are known from other instances of the same modules.
With a second item on the service channel and the fault `half`, order is lost: a
device writes its first service frame, the connection breaks before the peer has
its manager, and after the carriers are replaced the peer takes frame 2 for the
first (`firstFlag` in `CTarget.cpp` is still set, and
`CConnectivityAgent::makeHandshake` has run on one side only). `frame_faults` has
one such item on each side and does not show it; a restart of the stack, as after most losses, hides it.
With `Wrap = 4` and five items, `AckedIsDelivered` fails: `<=` on 32-bit frame
numbers takes a frame ahead of a rejected one for a repetition once the numbers
wrap around (2^32 frames). And the dispatcher's header promises round robin, but
within a priority every pass starts with the first source. And `request` promises
`ERROR_CONNECTION_LOST`, but a request without a direction is stored under
direction 1: `DirectedCallsEnd` fails without its condition `Directed`, because
the loss of a connection with another number wakes nobody, and the caller waits
for the response timeout with `mRequestMutex` held.

## Proofs

`ChannelAllocationProofs`, for any channels, clients, queue size and number of
calls: `TypeCorrect`, `NeverRequestedAndRegistered` and `RegistryMatchesL0`; and
for `ClientProxy`, with any number of applications, watchdog clients, failed
requests and forced closings, `ProxyTypeCorrect` and `AgentsAgreeWithClients`.
The invariant of the last two is
`IInv == TypeOK /\ NotRequestedAndRegistered /\ RegisteredIffOpen /\ ErasingIsClosed`.
The two properties are not inductive without the fourth conjunct: when
the receiving thread is between closing a channel in L0 and erasing its
registry entry, L0 has it closed. `ApplyInv` treats `beginAllocateChannel` once
for its three callers; `InvPreserved` has one step per action. The lemmas about
steps are stated for `AgentsMove`, what a step can do to the agents and the messages
whoever the clients are: `NextMoves` shows it of arbitrary clients, `ProxyMoves` of
the client library, whose steps are not steps of `Next` because it counts its
openings only and its requests may fail.

`TriggerQueueProofs`, for any threads and numbers of triggers: `TypeCorrect`
and `NoWakeupIsLost`. `NoLostWakeup` speaks of the waiting thread only;
inductive is `WakeupInv`: a set flag over a nonempty queue has a sender on its
way (`FlagWillBeCleared`), and while the trigger thread is about to set the
flag, whatever was pushed since it looked is not signalled yet
(`UpdateIsObserved`), as signalling needs the mutex it holds.

`SystemStateMachineProofs`, for any number of crashes and triggers:
`UsesTriggerQueue` says that every behaviour of the System Controller is one of
`TriggerQueue` (each action of the state machine is an action of the queue or
leaves it alone), from which `StartupIsWoken` carries `NoLostWakeup` over.
`VerdictIsOne` needs `VerdictInv`: whether a verdict was sent, or is about to be,
the state is Idle, which heeds no further event, and there is one such trigger in
all threads together. `StartupTypeCorrect`, `NoLaunchIsLost`, `ProfilesStayLocked`
and `RestartHasCause` come from one inductive invariant, `StartupInv`: every trigger
is sent once and is in one place, the queue or a thread (`QueueInv`, `OnceInv`); a
launch whose trigger is under way finds the state that heeds it, and the processes
the later states rely on were started before (`LaunchInv`, `AppInv`); whoever may
unlock all profiles has unlocked the authentication profile (`UnlockInv`); and the
watchdog hears of, and watches, only processes that were started (`WatchInv`). The
proof sorts the actions into a few kinds by what they do to the queue, the state
and the processes, and treats each kind once for each conjunct.

`FrameTransferProofs`, for any channels, queue and window sizes, items,
acknowledgements, repetitions and carriers: `TypeCorrect`, and, under `Bounded`,
`TransferIsReliable` (the devices implement `ReliableChannel`), `NothingIsLost`
and `AcknowledgedIsDelivered`. `Bounded` says that fewer frames than `Wrap` are
numbered on a channel (2^32 in the code) and that no connection is lost before both
devices have their manager (`half`); without either the theorems are false, as
said above. `DataInv` is the argument: the number of a frame is the number
of its item (`FramesInv`), a target knows how far it is (`DeliveredInv`), an
acknowledgement, wherever it is, is of a delivered frame (`AcksInv`), and
what is taken from the buffers and not delivered is held by the transmit side
(`KeptInv`). The rest is about connections: a device accepts any first frame
of the service channel, which is therefore the first of the wire (`FirstInv`), and
after a loss nothing is processed any more (`Stale`).

`TransmitDispatcherProofs`, for any channels, priorities, clients and queue sizes:
`TypeCorrect`, `SourceIsInUse` and `HigherIsOvertakenOnce`. `SourceInv` ties the
thread's place to the registry; `OvertakenInv` says which priorities can have been
overtaken at each place of a pass, because the check before a source is read
and the order of the pass leave one frame at most.

`ChannelNegotiationProofs`, for any tags, processes, scenarios and numbers:
`TypeCorrect`, `OwnedIsKnown` (`KnownToNegotiator`), `OneOwnerOnADevice` and
`BothAskForOneNumber` (`SameNumber`). A
client in `updateMapWithCID` takes any answer with the number of its request;
`UpdateInv` says that every processor and every answer with that number belongs to
the second exchange and to its channel, and that the map had the channel before
there was an answer. It is inductive with `ProcessorsInv` and `AnswersInv`, by which
no number is ahead of the requests made. `OneOwnerOnADevice` is the half of
`NoCrossedChannels` about one device: a channel that is owned is open in the agent
in its owner's name (`OwnerInv`).

`SameNumber` relates the two devices: while both ends of a tag ask their Connectivity
Agents, it is for one number, whatever earlier rounds of the same tag have timed out
and left in the queues. Its invariant `SessionInv /\ NumberInv` (theorem
`NumbersAgreed`) has two halves. `SessionInv`: a processor that a request has reached
belongs to its client's latest request or is about to be removed, and there is one
for a tag; so a client never takes the number of an older round. `NumberInv`: of
the numbers of a tag, what the slave has confirmed and the master has or will receive
(`Confirmed`) is at most anything the slave was or will be offered (`Offered`), which
is at most the master's present choice (`Chosen`), since `updateFreeChannel` only
counts up. A master that asks its agent has chosen its number and had it confirmed;
a slave that asks was offered its own; so the two are equal. Inductive it is with the
order of the offers in the slave's queue (`InOrder`) and between that queue and the
offer it has taken (`TakenFirst`). The steps
are sorted as before: a new request (`RequestStep`), the handlers of the two
notifications, the delivery of an answer, removals, and steps that send no number and
let clients only move on (`QuietStep`). `NoneIsNoRemoval` says that
no removal under way (`ipc`) is told apart from one.

`IpcRequestProofs`, for any threads, calls, connections, late responses and
restarts: `IpcTypeCorrect`, `BuffersAreCallers` and `AnswersAreOwn`. For the
buffers `IInv` adds that the mutex is held by the thread that sends or waits
(`HolderInv`), so that one request is pending (`SinglePending`) and a woken
caller finds a response or no entry (`WokenHasResponse`). For the responses
`OwnInv` adds that serial numbers and message ids differ by the same amount
(`Own`) in everything that can still reach a process in its present life: its
calls and entries, the requests on connections it has open, read or not, and
the responses. A restart, which starts the ids anew, closes every connection;
a new connection is empty (`NewIsEmpty`).

`ProfileInstancesProofs`, for any profiles, order of their names, lives, loads and
failures: `TypeCorrect`, `RegistryMatches` and `OrphansExplained` (`NoOrphans`). The
registry matches when what is
queued is handled (`Expected`), so `MatchInv` has to know that a creation which is
queued is also accepted: PmpPim compares its life with that of the connection.
`ConnectionInv` orders the events of an application by its lives: connected, then
created, then lost. And a death that crosses a creation must not be of the same
instance: `WayInv` says that an identifier makes its way once. It is at one of the
places of `At` (to be loaded, message to the peer, event there, put off, pending, to
be processed, job, `mIncomingPrfMap`, made), moves from one to the next and is never
at two, so that nothing is made or created twice. The proof reduces each step to
what it does at its device (`StepKinds`) and the other device to an unchanged one
with a message more (`WayThere`). `DeathInv` is what `NoOrphans` needs before
everything is quiet: once an identifier was sent, the device it comes from has it
registered, or its death is on the way back, is a job of the application, or came too
early; and a death on the way to the device it comes from is of an instance that is
nowhere else any more. `Flow` is what a step at one device may do to registrations and
deaths, shown for each kind of step; `FlowKeeps` derives `DeathInv` from it, from the
other parts, and from `WayOn`: an identifier never goes back on its way.

The assumptions are those named in the modules: two devices, profiles numbered
as in the manifest, entries of a map that are no identifiers, `NoDir` not a client,
`None` neither a tag nor an entry of a map nor a removal, two different processes with positive
direction ids, bounds that are numbers, applications and watchdog clients that are the clients; and `Bounded` of
`FrameTransfer`, above. Only model-checked are:

- everything temporal (liveness under fairness is out of the prover's reach);
- of `ClientProxy`, `QuietAgreement`, `ClientMatchesAgent`, `ResultIsForItsCaller` and
  `OperationalEndsByDeallocation`. They hold for one owner of a number on a device and
  a queue that is never full, as said above, so that a theorem for every value of the
  constants would need both as hypotheses; for one channel the run decides them;
- of `ChannelNegotiation`, `NoCrossedChannels` between the devices and
  `AssertionsHold`. They are claims about bounds: those of the run (one fault, or two
  with a single tag) and of larger instances that pass as well, one tag with 5 requests
  and 4 faults (5.7 million states) and two tags with 3 and 1 requests, 2 faults and a
  number that is taken (9.0 million). Whether they hold for any number of faults is
  open: the invariant of `SameNumber` does not carry over to the second exchange,
  where a number can be offered again when the master has not entered it.

## Not modelled

Besides the parts marked so in the inventory: the bytes of a frame and the
splitting of a buffer into frames; partial reads; the start-up handshake of
the carrier and its proxy; both directions of TCP full at once, where both
devices' threads block in `::send`; the use of a deleted adapter, which has no
state to speak of; `OnConnectionLost` of a client, which in the code leaves its
channels and only shuffles `mClientDirections`. `ClientProxy` assumes that no
request times out. With the 250 s timers of `alloc_timeouts` TLC finds
counterexamples to `QuietAgreement` and `ClientMatchesAgent`:
`RequestTimeout::onTimeout` decides under one mutex, erases under the other and
sends after both, and the peer's timer runs on its own. A failed IPC request has
the same effect: the client opens a channel again whose previous life is not
over. Both formulas, and the three about the client's maps, are therefore stated
for runs in which no request has failed (`NoRequestFailed`), and
`OperationalEndsByDeallocation` for one failed request at most. The failure of the
watchdog's own request, which only leaves its channel in `onDealloc`, is left
out to keep `proxy` small.

In `SystemStateMachine` the watchdog's counting of heartbeats is replaced by the
condition that everything else has come to rest; signal handlers, the progress
bar and the second life of the process are left out. In `ChannelNegotiation` the
messages that keep a channel alive for the watchdog are replaced by their effect
(`Kicked`), and the negotiators' own channel is there from the start. In
`IpcRequest` a message is read in two steps, not byte by byte; requests from
within a callback, which `checkThread` refuses, and the deletion of a
`CIpcSocket` under other threads are left out.

In `ProfileInstances` there is one service, one application and one client thread
per device. Left out are the locks of `ProfileHolder`, whose header is not in the
repository, the 10 s timeouts of questions to the Profile Manager and the
semaphores its answers share, `WaitingServiceManager`, `unloadInstances`, and the
Application Manager's data base and mutexes. Two of the properties name an
exception the code has no answer for: an instance whose death PmpPim learns of
before its creation stays for good (`missed` in `NoOrphans`), and a session request
that is lost stays pending and puts off all later creations
(`losses` in `EveryCreationIsDecided`).

## Plan

1. Done: `ChannelAllocation`, `ClientProxy`, `FrameTransfer` with
   `ReliableChannel`, `TransmitDispatcher`, `TriggerQueue`, `SystemStateMachine`,
   `ChannelNegotiation`, `IpcRequest`, `ProfileInstances`, and the theorems above.
2. Proofs: `ClientMatchesAgent` and `ResultIsForItsCaller` for numbers with one owner
   and queues with room, from an invariant about the messages of one channel;
   `NoCrossedChannels` and `AssertionsHold`, or the counterexample, with more faults.
3. The Application Manager's `CRequestHandler` with its mutexes and launch thread;
   PmpCore and the waiting services.
4. `TimeoutManager`: every subscriber fires, not before its time.
5. `CarrierHandshake`: the TCP adapter's connection and its locks.
