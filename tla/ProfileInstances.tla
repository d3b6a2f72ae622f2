-------------------------- MODULE ProfileInstances --------------------------
(***************************************************************************)
(* The life of profile instances on two devices: the client application    *)
(* with its libraries (CServiceManager, CService, CPIM), the Profile       *)
(* Manager's PmpPim with its ClientAppRegistry, and the requests PmpPim     *)
(* makes of the Application Manager.                                        *)
(*                                                                         *)
(* One service and its pair are modelled, one on each device, with the      *)
(* profiles Profiles in the order of the service's manifest.  An instance   *)
(* (piuid) is named by the device whose Profile Manager generated it, its   *)
(* profile and the number of the load it was made for.  An instance         *)
(* travels: application (mInstanceMap), event "create", registry of its     *)
(* Profile Manager, message to the peer, event "remoteCreate" there, job    *)
(* of the peer's application, its mInstanceMap, and back as a "create" the  *)
(* peer's Profile Manager knows to be incoming.  Its death takes the same   *)
(* way, and nothing synchronises the two.                                   *)
(***************************************************************************)
EXTENDS Naturals, Sequences, FiniteSets, SequencesExt

CONSTANTS
    Node,       \* the two devices
    Profiles,   \* 1..n, the order of the profiles in the manifest
    MapOrder,   \* the profiles in the order of mProfilesMap (by API name)
    Absent,     \* no entry in a map
    Null,       \* an entry that holds a null pointer
    MaxLives,   \* bound: lives of an application
    MaxLoads,   \* bound: loadService calls on a device
    Scenario    \* records: the devices whose application runs at the start,
                \* and for each device the bounds on lives, loadService and
                \* unloadService calls, crashes, and requests without answer

ASSUME NodeAssumption == \E a, b \in Node : a # b /\ Node = {a, b}
ASSUME ProfilesAssumption ==
    /\ Cardinality(Profiles) \in Nat \ {0}
    /\ Profiles = 1 .. Cardinality(Profiles)
    /\ MapOrder \in Seq(Profiles)
    /\ ToSet(MapOrder) = Profiles
ASSUME BoundsAssumption ==
    /\ MaxLives \in Nat \ {0} /\ MaxLoads \in Nat
    /\ \A s \in Scenario :
          /\ s.running \subseteq Node
          /\ s.lives \in [Node -> 1 .. MaxLives]
          /\ s.loads \in [Node -> 0 .. MaxLoads]
          /\ \A b \in {s.unloads, s.crashes, s.losses} : b \in [Node -> Nat]

Peer(n) == CHOOSE m \in Node : m # n
Ids == [by : Node, p : Profiles, k : 1 .. MaxLoads]
ASSUME EntriesAssumption == Absent # Null /\ {Absent, Null} \cap Ids = {}
NoService == [p \in Profiles |-> Absent]

VARIABLES
    scenario,   \* the bounds of this behaviour
    known,      \* PmpPim: life of the application in mDirIdAppMap, 0 if none
    serves,     \* PmpPim: the application's entry in mAppDatas has the service
    reg,        \* PmpPim: mProfileToApp
    incoming,   \* PmpPim: mIncomingProfiles
    pending,    \* PmpPim: mPendingServiceMap
    events,     \* event queue of the Profile Manager's only thread
    late,       \* creations pushed back as timeout events
    net,        \* messages on their way to a Profile Manager
    requests,   \* Application Manager: session requests to deliver
    life,       \* number of the application's latest life
    app,        \* the application process
    done,       \* loads, unloads, crashes and losses so far
    missed,     \* history: deaths PmpPim was told of and did not know
    dropped     \* history: creations given up on the way to an instance

pmpVars == <<scenario, known, serves, reg, incoming, pending, late, net>>
history == <<missed, dropped>>
vars == <<scenario, known, serves, reg, incoming, pending, events, late, net, requests,
          life, app, done, missed, dropped>>

(***************************************************************************)
(* State of an application process.                                        *)
(*   svc, active, own  mActiveServices: the service's mProfilesMap; whether *)
(*                     the service is active; whether load() made it, which *)
(*                     leaves its mCbMap empty                              *)
(*   inst, prf         mInstanceMap and mIncomingPrfMap of CPIM             *)
(*   jobs, phase       thread pool of one thread, and how far its job is    *)
(*   client, next      the client thread in loadService, and the profile    *)
(*                     it loads next                                        *)
(*   told              threads whose request to PmpPim was answered         *)
(***************************************************************************)
Fresh == [up |-> FALSE, cbs |-> FALSE, active |-> FALSE, svc |-> NoService,
          own |-> FALSE, inst |-> {}, prf |-> NoService, jobs |-> <<>>,
          phase |-> "check", client |-> "idle", next |-> 1, told |-> {}]

Zero == [n \in Node |-> 0]
None == [n \in Node |-> {}]
Empty == [n \in Node |-> <<>>]

Event(op, id, l) == [op |-> op, id |-> id, life |-> l]
ConnEvent(op, l) == [op |-> op, life |-> l]
Ask(n, who) == [op |-> "ask", who |-> who, life |-> life[n]]
Mine(n, p) == [by |-> n, p |-> p, k |-> done[n].loads]

Init ==
    /\ scenario \in Scenario
    /\ life = [n \in Node |-> IF n \in scenario.running THEN 1 ELSE 0]
    /\ app = [n \in Node |-> [Fresh EXCEPT !.up = life[n] = 1, !.cbs = life[n] = 1]]
    /\ known = life
    /\ serves = [n \in Node |-> FALSE]
    /\ reg = None /\ incoming = None /\ pending = None /\ late = None
    /\ events = Empty /\ net = Empty
    /\ requests = None
    /\ done = [n \in Node |-> [loads |-> 0, unloads |-> 0, crashes |-> 0, losses |-> 0]]
    /\ missed = None /\ dropped = None

-----------------------------------------------------------------------------
(* The Profile Manager: one handler per event, run by one thread.          *)

Head1(n, op) == events[n] # <<>> /\ Head(events[n]).op = op

\* The handled event leaves the queue, the events it pushes go to the end.
Then(n, pushed) == events' = [events EXCEPT ![n] = Tail(@) \o pushed]

Send(n, msgs) == net' = [net EXCEPT ![Peer(n)] = @ \o msgs]
Process(id, l) == Event("process", id, l)

\* A PMAL message to the application of life l, put in the job queue.
ToApp(n, l, op, id) ==
    app' = IF app[n].up /\ life[n] = l
           THEN [app EXCEPT ![n].jobs = Append(@, [op |-> op, id |-> id])]
           ELSE app

OnConnection(n) ==
    /\ Head1(n, "connected")
    /\ known' = [known EXCEPT ![n] = Head(events[n]).life]
    /\ Then(n, <<>>)
    /\ UNCHANGED <<scenario, serves, reg, incoming, pending, late, net, requests, life,
                   app, done, history>>

\* The messages that tell the peer of the deaths.
Deaths_None(order) == <<>>
Deaths(order) == [i \in DOMAIN order |-> [op |-> "remoteDied", id |-> order[i]]]

\* Every profile of the application dies, in the order of a set of piuids.
OnConnectionLost(n) ==
    /\ Head1(n, "lost")
    /\ \E order \in SetToSeqs(reg[n]) : Send(n, Deaths(order))
    /\ reg' = [reg EXCEPT ![n] = {}]
    /\ known' = [known EXCEPT ![n] = 0]
    /\ serves' = [serves EXCEPT ![n] = FALSE]
    /\ Then(n, <<>>)
    /\ UNCHANGED <<scenario, incoming, pending, late, requests, life, app, done, history>>

\* mIncomingProfiles tells an instance made for the peer from a local one.
CreateProfile(n) ==
    /\ Head1(n, "create")
    /\ LET e == Head(events[n]) IN
       IF known[n] = e.life
       THEN /\ incoming' = [incoming EXCEPT ![n] = @ \ {e.id}]
            /\ reg' = [reg EXCEPT ![n] = @ \cup {e.id}]
            /\ Send(n, IF e.id \in incoming[n] \/ e.id \in reg[n] THEN <<>>
                       ELSE <<[op |-> "remoteCreate", id |-> e.id]>>)
       ELSE UNCHANGED <<incoming, reg, net>>
    /\ Then(n, <<>>)
    /\ UNCHANGED <<scenario, known, serves, pending, late, requests, life, app, done, history>>

ProfileDied(n) ==
    /\ Head1(n, "died")
    /\ LET id == Head(events[n]).id IN
       /\ reg' = [reg EXCEPT ![n] = @ \ {id}]
       /\ Send(n, Deaths(IF id \in reg[n] THEN <<id>> ELSE <<>>))
    /\ Then(n, <<>>)
    /\ UNCHANGED <<scenario, known, serves, incoming, pending, late, requests, life, app,
                   done, history>>

\* A session that is not pending any more was answered before.
erasePending_Keep(n, id) == pending[n]
erasePending(n, id) == pending[n] \ {id}

ReadyToServe(n) ==
    /\ Head1(n, "ready")
    /\ LET e == Head(events[n])
           served == e.id \in pending[n] /\ known[n] = e.life
       IN /\ pending' = [pending EXCEPT ![n] = erasePending(n, e.id)]
          /\ serves' = [serves EXCEPT ![n] = @ \/ served]
          /\ Then(n, IF served THEN <<Process(e.id, e.life)>> ELSE <<>>)
    /\ UNCHANGED <<scenario, known, reg, incoming, late, net, requests, life, app, done, history>>

\* While any service is pending every creation is put off by a timeout event.
OnCreateProfile(n) ==
    /\ Head1(n, "remoteCreate")
    /\ LET id == Head(events[n]).id IN
       \/ /\ pending[n] # {}
          /\ late' = [late EXCEPT ![n] = @ \cup {id}]
          /\ Then(n, <<>>)
          /\ UNCHANGED <<pending, requests>>
       \/ /\ pending[n] = {}
          /\ serves[n]
          /\ Then(n, <<Process(id, known[n])>>)
          /\ UNCHANGED <<late, pending, requests>>
       \/ /\ pending[n] = {}
          /\ ~serves[n]
          /\ pending' = [pending EXCEPT ![n] = {id}]
          /\ requests' = [requests EXCEPT ![n] = @ \cup {[id |-> id, copy |-> 1]}]
          /\ Then(n, <<>>)
          /\ UNCHANGED late
    /\ UNCHANGED <<scenario, known, serves, reg, incoming, net, life, app, done, history>>

ProcessIncomingProfile(n) ==
    /\ Head1(n, "process")
    /\ LET e == Head(events[n])
           accepted == known[n] = e.life /\ e.id \notin reg[n]
           reached == accepted /\ app[n].up /\ life[n] = e.life
       IN /\ incoming' = IF accepted THEN [incoming EXCEPT ![n] = @ \cup {e.id}] ELSE incoming
          /\ IF accepted THEN ToApp(n, e.life, "incoming", e.id) ELSE UNCHANGED app
          /\ dropped' = IF reached THEN dropped ELSE [dropped EXCEPT ![n] = @ \cup {e.id}]
    /\ Then(n, <<>>)
    /\ UNCHANGED <<scenario, known, serves, reg, pending, late, net, requests, life, done, missed>>

OnProfileDied(n) ==
    /\ Head1(n, "remoteDied")
    /\ LET id == Head(events[n]).id IN
       \/ /\ id \in reg[n]
          /\ reg' = [reg EXCEPT ![n] = @ \ {id}]
          /\ ToApp(n, known[n], "died", id)
          /\ UNCHANGED missed
       \/ /\ id \notin reg[n]
          /\ missed' = [missed EXCEPT ![n] = @ \cup {id}]
          /\ UNCHANGED <<reg, app>>
    /\ Then(n, <<>>)
    /\ UNCHANGED <<scenario, known, serves, incoming, pending, late, net, requests, life,
                   done, dropped>>

\* findProfiles, getProfileLibPath and generatePIUID change nothing.
Answer(n) ==
    /\ Head1(n, "ask")
    /\ LET e == Head(events[n]) IN
       app' = IF app[n].up /\ life[n] = e.life
              THEN [app EXCEPT ![n].told = @ \cup {e.who}] ELSE app
    /\ Then(n, <<>>)
    /\ UNCHANGED <<pmpVars, requests, life, done, history>>

\* A message of the peer becomes an event.
Receive(n) ==
    /\ net[n] # <<>>
    /\ events' = [events EXCEPT ![n] = Append(@, Head(net[n]))]
    /\ net' = [net EXCEPT ![n] = Tail(@)]
    /\ UNCHANGED <<scenario, known, serves, reg, incoming, pending, late, requests, life,
                   app, done, history>>

\* The 300 ms of a creation that was put off are over.
Timeout(n) ==
    \E id \in late[n] :
        /\ late' = [late EXCEPT ![n] = @ \ {id}]
        /\ events' = [events EXCEPT ![n] = Append(@, [op |-> "remoteCreate", id |-> id])]
        /\ UNCHANGED <<scenario, known, serves, reg, incoming, pending, net, requests,
                       life, app, done, history>>

-----------------------------------------------------------------------------
(* The Application Manager, as far as PmpPim's requests need it.           *)

Post(n, evs) == events' = [events EXCEPT ![n] = @ \o evs]

\* A new life of the application: it connects to PmpPim before its callbacks
\* are in CServiceManager.
NewLife(n) ==
    /\ ~app[n].up
    /\ life[n] < scenario.lives[n]
    /\ life' = [life EXCEPT ![n] = @ + 1]
    /\ app' = [app EXCEPT ![n] = [Fresh EXCEPT !.up = TRUE]]
    /\ Post(n, <<ConnEvent("connected", life[n] + 1)>>)

\* setSessionPid and initApplication may both pass the session to the new
\* application.
Sessions(n, copies) == [id : {r.id : r \in requests[n]}, copy : copies]
Launch(n) ==
    /\ requests[n] # {}
    /\ NewLife(n)
    /\ \E copies \in {{1}, {1, 2}} :
          requests' = [requests EXCEPT ![n] = Sessions(n, copies)]
    /\ UNCHANGED <<pmpVars, done, history>>

\* sessionRequest in the application answers readyToServe.
SessionRequest(n) ==
    \E r \in requests[n] :
        /\ app[n].up
        /\ requests' = [requests EXCEPT ![n] = @ \ {r}]
        /\ Post(n, <<Event("ready", r.id, life[n])>>)
        /\ UNCHANGED <<pmpVars, life, app, done, history>>

\* No application to launch, a launch that failed, a session sent to a process
\* that is gone: appRequestError and connection losses do nothing in PmpPim.
LoseRequest(n) ==
    \E r \in requests[n] :
        /\ done[n].losses < scenario.losses[n]
        /\ requests' = [requests EXCEPT ![n] = @ \ {r}]
        /\ done' = [done EXCEPT ![n].losses = @ + 1]
        /\ UNCHANGED <<pmpVars, events, life, app, history>>

-----------------------------------------------------------------------------
(* The application process.                                                *)

\* mActiveServicesMutex: held by the job that loads an incoming profile.
ActiveLocked(a) == a.phase = "wait"
\* mCallbacksMutex: held by the client thread while CService::load runs.
CallbacksLocked(a) == a.client = "loading"

\* An entry is dangling when the instance it points to was destroyed.
Dangling(a, p) == a.svc[p] \notin {Absent, Null} /\ a.svc[p] \notin a.inst
Holders(a) == {a.svc[p] : p \in Profiles} \cap a.inst

\* CService::unload reads every entry: a null one crashes, one whose instance
\* is gone may.
UnloadCrash(a) == \E p \in Profiles : a.svc[p] = Null \/ Dangling(a, p)
UnloadReturns(a) == \A p \in Profiles : a.svc[p] # Null
Unloaded_StillActive(a) == [a EXCEPT !.inst = @ \ Holders(a), !.svc = NoService]
Unloaded(a) == [a EXCEPT !.inst = @ \ Holders(a), !.svc = NoService, !.active = FALSE]
\* Its instances die in the order of the map of holders.
UnloadEvents_None(n, a) == {<<>>}
UnloadEvents(n, a) ==
    LET live == {i \in DOMAIN MapOrder : a.svc[MapOrder[i]] \in a.inst}
        inMapOrder == {o \in SetToSeqs(live) : \A i, j \in DOMAIN o : i < j => o[i] < o[j]}
    IN {[i \in DOMAIN o |-> Event("died", a.svc[MapOrder[o[i]]], life[n])] : o \in inMapOrder}

\* The process ends; what it had sent is still read before the connection is
\* found lost.
Dies(n) ==
    /\ app' = [app EXCEPT ![n] = Fresh]
    /\ Post(n, <<ConnEvent("lost", life[n])>>)
    /\ dropped' = [dropped EXCEPT ![n] =
                     @ \cup {j.id : j \in {i \in ToSet(app[n].jobs) : i.op = "incoming"}}]
    /\ UNCHANGED <<pmpVars, requests, life, missed>>

Crash(n) ==
    /\ app[n].up
    /\ done[n].crashes < scenario.crashes[n]
    /\ done' = [done EXCEPT ![n].crashes = @ + 1]
    /\ Dies(n)

StartByUser(n) ==
    /\ NewLife(n)
    /\ UNCHANGED <<pmpVars, requests, done, history>>

AppStep(n, a) ==
    /\ app' = [app EXCEPT ![n] = a]
    /\ UNCHANGED <<pmpVars, requests, life, missed>>

\* internalRun passes the callbacks on after it has asked to be registered.
RegisterCallbacks(n) ==
    /\ app[n].up /\ ~app[n].cbs
    /\ AppStep(n, [app[n] EXCEPT !.cbs = TRUE])
    /\ UNCHANGED <<events, done, dropped>>

\* loadService: the service is not active.
LoadService(n) ==
    LET a == app[n] IN
    /\ a.up /\ a.cbs /\ a.client = "idle"
    /\ ~ActiveLocked(a)
    /\ ~a.active
    /\ done[n].loads < scenario.loads[n]
    /\ done' = [done EXCEPT ![n].loads = @ + 1]
    /\ AppStep(n, [a EXCEPT !.client = "checked"])
    /\ UNCHANGED <<events, dropped>>

StartLoading(n) ==
    /\ app[n].client = "checked"
    /\ AppStep(n, [app[n] EXCEPT !.client = "loading", !.next = 1])
    /\ Post(n, <<Ask(n, "client")>>)
    /\ UNCHANGED <<done, dropped>>

\* CPIM::loadProfile for the next profile of the manifest, then the questions
\* for the one after it.
LoadProfile(n) ==
    LET a == app[n]
        last == a.next = Cardinality(Profiles)
    IN
    /\ a.client = "loading" /\ "client" \in a.told
    /\ AppStep(n, [a EXCEPT !.inst = @ \cup {Mine(n, a.next)},
                            !.client = IF last THEN "loaded" ELSE @,
                            !.next = IF last THEN @ ELSE @ + 1,
                            !.told = @ \ {"client"}])
    /\ Post(n, <<Event("create", Mine(n, a.next), life[n])>>
               \o IF last THEN <<>> ELSE <<Ask(n, "client")>>)
    /\ UNCHANGED <<done, dropped>>

\* A question that fails ends the load: the new CService is deleted, which
\* unloads what it had loaded; mActiveServices stays as it is.
LoadFails(n) ==
    LET a == app[n]
        new == [a EXCEPT !.svc = [p \in Profiles |-> IF p < a.next THEN Mine(n, p) ELSE Absent]]
    IN
    /\ a.client = "loading" /\ "client" \in a.told
    /\ done[n].losses < scenario.losses[n]
    /\ done' = [done EXCEPT ![n].losses = @ + 1]
    /\ \/ /\ AppStep(n, [a EXCEPT !.inst = @ \ Holders(new), !.client = "idle",
                                    !.told = @ \ {"client"}])
          /\ \E evs \in UnloadEvents(n, new) : Post(n, evs)
          /\ UNCHANGED dropped
       \/ UnloadCrash(new) /\ Dies(n)

\* The loaded service replaces whatever mActiveServices holds by now.
LoadDone(n) ==
    LET a == app[n] IN
    /\ a.client = "loaded"
    /\ ~ActiveLocked(a)
    /\ AppStep(n, [a EXCEPT !.client = "idle", !.active = TRUE, !.own = TRUE,
                            !.svc = [p \in Profiles |-> Mine(n, p)]])
    /\ UNCHANGED <<events, done, dropped>>

UnloadService(n) ==
    LET a == app[n] IN
    /\ a.up /\ a.active /\ a.client = "idle"
    /\ ~ActiveLocked(a)
    /\ done[n].unloads < scenario.unloads[n]
    /\ done' = [done EXCEPT ![n].unloads = @ + 1]
    /\ \/ /\ UnloadReturns(a)
          /\ AppStep(n, Unloaded(a))
          /\ \E evs \in UnloadEvents(n, a) : Post(n, evs)
          /\ UNCHANGED dropped
       \/ UnloadCrash(a) /\ Dies(n)

-----------------------------------------------------------------------------
(* The thread pool's only thread.                                          *)

Job(n) == Head(app[n].jobs)
AtPhase(n, op, phase) ==
    /\ app[n].jobs # <<>>
    /\ Job(n).op = op
    /\ app[n].phase = phase
JobDone(a) == [a EXCEPT !.jobs = Tail(@), !.phase = "check"]

\* serviceRequestCallback: an active service is not loaded again; then the
\* piuid waits in mIncomingPrfMap, unless an older one does.
Requested(a, id) ==
    [a EXCEPT !.phase = "request", !.prf[id.p] = IF @ = Absent THEN id ELSE @]

CheckService(n) ==
    /\ AtPhase(n, "incoming", "check")
    /\ AppStep(n, IF app[n].active THEN Requested(app[n], Job(n).id)
                  ELSE [app[n] EXCEPT !.phase = "put"])
    /\ UNCHANGED <<events, done, dropped>>

\* CService::incomingLoad enters a null holder for every profile.  Without
\* callbacks the load is refused.
IncomingLoad(n) ==
    LET a == app[n] IN
    /\ AtPhase(n, "incoming", "put")
    /\ ~CallbacksLocked(a)
    /\ \/ /\ a.cbs
          /\ AppStep(n, Requested([a EXCEPT !.active = TRUE, !.own = FALSE,
                                            !.svc = [p \in Profiles |-> Null]],
                                  Job(n).id))
          /\ UNCHANGED dropped
       \/ /\ ~a.cbs
          /\ AppStep(n, JobDone(a))
          /\ dropped' = [dropped EXCEPT ![n] = @ \cup {Job(n).id}]
    /\ UNCHANGED <<events, done>>

\* incomingProfileRequest: a service load() made has no callbacks in mCbMap.
IncomingProfile(n) ==
    LET a == app[n] IN
    /\ AtPhase(n, "incoming", "request")
    /\ \/ /\ a.active /\ ~a.own
          /\ AppStep(n, [a EXCEPT !.phase = "wait"])
          /\ Post(n, <<Ask(n, "job")>>)
          /\ UNCHANGED dropped
       \/ /\ ~(a.active /\ ~a.own)
          /\ AppStep(n, IF a.active THEN [a EXCEPT !.phase = "drop"] ELSE JobDone(a))
          /\ dropped' = [dropped EXCEPT ![n] = @ \cup {Job(n).id}]
          /\ UNCHANGED events
    /\ UNCHANGED done

\* loadProfile takes the piuid that waits in mIncomingPrfMap; an instance that
\* exists already leaves a null holder.
InstanceCreated(n) ==
    LET a == app[n]
        p == Job(n).id.p
        id == a.prf[p]
        new == id \notin a.inst
    IN
    /\ AtPhase(n, "incoming", "wait") /\ "job" \in a.told
    /\ AppStep(n, JobDone([a EXCEPT !.prf[p] = Absent, !.told = @ \ {"job"},
                                    !.inst = @ \cup {id},
                                    !.svc[p] = IF new THEN id ELSE Null]))
    /\ Post(n, IF new THEN <<Event("create", id, life[n])>> ELSE <<>>)
    /\ dropped' = [dropped EXCEPT ![n] = IF id = Job(n).id /\ new THEN @ ELSE @ \cup {Job(n).id}]
    /\ UNCHANGED done

\* No answer with a library path: the piuid stays in mIncomingPrfMap.
InstanceFails(n) ==
    LET a == app[n] IN
    /\ AtPhase(n, "incoming", "wait") /\ "job" \in a.told
    /\ done[n].losses < scenario.losses[n]
    /\ done' = [done EXCEPT ![n].losses = @ + 1]
    /\ AppStep(n, JobDone([a EXCEPT !.told = @ \ {"job"}, !.svc[Job(n).id.p] = Null]))
    /\ dropped' = [dropped EXCEPT ![n] = @ \cup {Job(n).id}]
    /\ UNCHANGED events

\* The error path of incomingProfile unloads the service.
DropService(n) ==
    LET a == app[n] IN
    /\ AtPhase(n, "incoming", "drop")
    /\ \/ /\ UnloadReturns(a)
          /\ AppStep(n, JobDone(Unloaded(a)))
          /\ \E evs \in UnloadEvents(n, a) : Post(n, evs)
          /\ UNCHANGED dropped
       \/ UnloadCrash(a) /\ Dies(n)
    /\ UNCHANGED done

\* profileDiedInternal.  CService::profileDied walks the holders in map order
\* to the one of the instance; an instance no holder has is removed by CPIM.
\* A service whose last holder goes is not active any more.
ProfileDiedJob(n) ==
    LET a == app[n]
        id == Job(n).id
        at == {i \in DOMAIN MapOrder : a.svc[MapOrder[i]] = id}
        read == {MapOrder[i] : i \in {j \in DOMAIN MapOrder : \A x \in at : j < x}}
        holders == [p \in Profiles |-> IF a.svc[p] = id THEN Absent ELSE a.svc[p]]
    IN
    /\ AtPhase(n, "died", "check")
    /\ \/ /\ id \notin a.inst
          /\ AppStep(n, JobDone(a))
          /\ UNCHANGED <<events, dropped>>
       \/ /\ id \in a.inst
          /\ \A p \in read : a.svc[p] # Null
          /\ AppStep(n, JobDone([a EXCEPT !.inst = @ \ {id}, !.svc = holders,
                                          !.active = holders # NoService]))
          /\ UNCHANGED <<events, dropped>>
       \/ /\ id \in a.inst
          /\ \E p \in read : a.svc[p] = Null \/ Dangling(a, p)
          /\ Dies(n)
    /\ UNCHANGED done

-----------------------------------------------------------------------------

PmpStep(n) ==
    \/ OnConnection(n) \/ OnConnectionLost(n) \/ CreateProfile(n) \/ ProfileDied(n)
    \/ ReadyToServe(n) \/ OnCreateProfile(n) \/ ProcessIncomingProfile(n)
    \/ OnProfileDied(n) \/ Answer(n)
AmStep(n) == Launch(n) \/ SessionRequest(n)
ClientStep(n) == RegisterCallbacks(n) \/ StartLoading(n) \/ LoadProfile(n) \/ LoadDone(n)
JobStep(n) ==
    \/ CheckService(n) \/ IncomingLoad(n) \/ IncomingProfile(n)
    \/ InstanceCreated(n) \/ DropService(n) \/ ProfileDiedJob(n)
\* What users, crashes and failing requests do: no fairness.
Disturbance(n) ==
    \/ Crash(n) \/ StartByUser(n) \/ LoseRequest(n) \/ LoadService(n) \/ LoadFails(n)
    \/ UnloadService(n) \/ InstanceFails(n)

Next == \E n \in Node :
    \/ PmpStep(n) \/ Receive(n) \/ Timeout(n)
    \/ AmStep(n) \/ ClientStep(n) \/ JobStep(n)
    \/ Disturbance(n)

Fairness == \A n \in Node :
    /\ WF_vars(PmpStep(n)) /\ WF_vars(Receive(n)) /\ WF_vars(Timeout(n))
    /\ WF_vars(AmStep(n)) /\ WF_vars(ClientStep(n)) /\ WF_vars(JobStep(n))

Spec == Init /\ [][Next]_vars
FairSpec == Spec /\ Fairness

-----------------------------------------------------------------------------
(* Properties.                                                             *)

Messages == [op : {"remoteCreate", "remoteDied"}, id : Ids]
Events ==
    Messages
    \cup [op : {"create", "died", "ready", "process"}, id : Ids, life : 1 .. MaxLives]
    \cup [op : {"connected", "lost"}, life : 1 .. MaxLives]
    \cup [op : {"ask"}, who : {"client", "job"}, life : 1 .. MaxLives]

\* Types, and what the mutexes and the single job thread guarantee: a job that
\* waits for an answer holds the service it loads for, which a load of this
\* side did not make (CService::incomingProfileRequest).
Jobs == [op : {"incoming", "died"}, id : Ids]
Apps ==
    [up : BOOLEAN, cbs : BOOLEAN, active : BOOLEAN, own : BOOLEAN,
     svc : [Profiles -> Ids \cup {Absent, Null}], inst : SUBSET Ids,
     prf : [Profiles -> Ids \cup {Absent}], jobs : Seq(Jobs),
     phase : {"check", "put", "request", "wait", "drop"},
     client : {"idle", "checked", "loading", "loaded"}, next : Profiles,
     told : SUBSET {"client", "job"}]

TypeOK ==
    /\ scenario \in Scenario
    /\ known \in [Node -> 0 .. MaxLives] /\ life \in [Node -> 0 .. MaxLives]
    /\ serves \in [Node -> BOOLEAN]
    /\ reg \in [Node -> SUBSET Ids] /\ incoming \in [Node -> SUBSET Ids]
    /\ pending \in [Node -> SUBSET Ids] /\ late \in [Node -> SUBSET Ids]
    /\ missed \in [Node -> SUBSET Ids] /\ dropped \in [Node -> SUBSET Ids]
    /\ events \in [Node -> Seq(Events)] /\ net \in [Node -> Seq(Messages)]
    /\ requests \in [Node -> SUBSET [id : Ids, copy : {1, 2}]]
    /\ done \in [Node -> [loads : 0 .. MaxLoads, unloads : Nat, crashes : Nat, losses : Nat]]
    /\ app \in [Node -> Apps]
    /\ \A n \in Node :
          /\ \A x, y \in pending[n] : x = y
          /\ app[n].phase = "wait" => app[n].active /\ ~app[n].own
                                     /\ app[n].prf[Job(n).id.p] # Absent
          /\ app[n].active <=> app[n].svc # NoService

\* The registry once the events of the application that are queued are handled:
\* what is in it or will be created, unless a death or the loss of the
\* connection follows.
Ends(e, id) == e.op = "lost" \/ (e.op = "died" /\ e.id = id)
Lasts(q, i, id) == \A j \in DOMAIN q : j > i => ~Ends(q[j], id)
Expected(q, r) ==
    {id \in Ids :
       \/ id \in r /\ Lasts(q, 0, id)
       \/ \E i \in DOMAIN q : q[i].op = "create" /\ q[i].id = id /\ Lasts(q, i, id)}

\* The registry of a Profile Manager and the instance map of the application
\* differ only by what is on its way between the two processes: no create,
\* death or crash, in whatever order they cross, leaves an instance that
\* PmpPim does not know or a registered one that does not exist.
RegistryMatchesApp ==
    \A n \in Node, id \in Ids :
        app[n].up /\ [op |-> "died", id |-> id] \notin ToSet(app[n].jobs)
        => (id \in app[n].inst <=> id \in Expected(events[n], reg[n]))

Quiet ==
    \A n \in Node :
        /\ events[n] = <<>> /\ net[n] = <<>> /\ late[n] = {} /\ requests[n] = {}
        /\ app[n].jobs = <<>> /\ app[n].client = "idle"

\* When nothing is on its way, an instance made for the peer has the peer's
\* instance behind it, unless PmpPim was told of its death before it knew it
\* (onProfileDied returns, and the instance stays for good).
NoOrphans ==
    Quiet =>
    \A n \in Node : \A id \in app[n].inst :
        id.by = n \/ id \in app[id.by].inst \/ id \in missed[n]

\* A profile a side has loaded gets its counterpart on the peer, or the
\* creation was refused there, or the profile is gone again.  It does not wait
\* for ever behind another service: deferred creations are tried again, and
\* readyToServe lets them in.
EveryCreationIsDecided ==
    \A id \in Ids :
        LET n == id.by
            m == Peer(n)
        IN id \in reg[n]
           ~> \/ id \in app[m].inst \/ id \in dropped[m] \/ id \notin reg[n]
              \/ ~app[m].up \/ done[m].losses > 0
=============================================================================
