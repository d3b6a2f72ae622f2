----------------------- MODULE ProfileInstancesProofs -----------------------
(***************************************************************************)
(* Proofs about ProfileInstances: its types, that the registry of a        *)
(* Profile Manager matches the instances of its application, and that an   *)
(* instance without its peer's is explained.  A step is what its device    *)
(* does to one queue, one process and one registry (Step); each part of    *)
(* the invariant is shown once for every kind of step.                     *)
(***************************************************************************)
EXTENDS ProfileInstances, FiniteSetTheorems, SequenceTheorems, TLAPS

-----------------------------------------------------------------------------
(* The inductive invariant.  Its parts are about a process, about the events *)
(* that tell of its connection, about the way of an identifier from one      *)
(* device to the other, about the registry, and about deaths on their way.   *)

\* A process that is not there has no state.  The phases of the job thread are
\* about its first job; an identifier that waits in mIncomingPrfMap waits
\* under its profile.
ProcessOK(a) ==
  /\ ~a.up => a = Fresh
  /\ a.phase # "check" => a.jobs # <<>> /\ Head(a.jobs).op = "incoming"
  /\ a.phase \in {"request", "wait", "drop"} => a.prf[Head(a.jobs).id.p] # Absent
  /\ a.phase = "wait" => a.active /\ ~a.own
  /\ \A p \in Profiles : a.prf[p] # Absent => a.prf[p].p = p
  /\ a.active <=> a.svc # NoService
ProcessInv ==
  \A n \in Node :
    /\ ProcessOK(app[n])
    /\ app[n].up => life[n] # 0
    /\ app[n].client # "idle" => done[n].loads # 0
    /\ serves[n] => known[n] # 0

\* The events that tell of an application's connection, and its creations, are
\* queued in the order of its lives: connected, then created, then lost.
OfLife(e) == e.op \in {"connected", "lost", "create"}
Before(e, f) ==
  OfLife(e) /\ OfLife(f) =>
    /\ e.life <= f.life
    /\ (e.op = "lost" \/ f.op = "connected") => e.life < f.life
Queued(q, op, l) == \E i \in DOMAIN q : q[i].op = op /\ q[i].life = l
Ordered(q, k, l, up) ==
  /\ \A i, j \in DOMAIN q : i < j => Before(q[i], q[j])
  /\ \A i \in DOMAIN q : OfLife(q[i]) => q[i].life <= l /\ k <= q[i].life
  /\ \A i \in DOMAIN q :
       /\ q[i].op = "connected" =>
            k < q[i].life /\ ((up /\ q[i].life = l) \/ Queued(q, "lost", q[i].life))
       /\ q[i].op = "create" =>
            \/ k = q[i].life
            \/ \E j \in DOMAIN q : j < i /\ q[j].op = "connected" /\ q[j].life = q[i].life
       /\ q[i].op = "lost" /\ up => q[i].life < l
  /\ up => (k = l) \/ Queued(q, "connected", l)
  /\ k # 0 => (up /\ k = l) \/ Queued(q, "lost", k)
ConnectionInv ==
  \A n \in Node :
    /\ Ordered(events[n], known[n], life[n], app[n].up)
    /\ known[n] = 0 => reg[n] = {}

\* What may still become of an identifier at a device.
Unborn(n, id) ==
  /\ id.by = n
  /\ \/ id.k > done[n].loads
     \/ /\ id.k = done[n].loads
        /\ app[n].client = "checked" \/ (app[n].client = "loading" /\ id.p >= app[n].next)
InQueue(q, op, id) == \E i \in DOMAIN q : q[i].op = op /\ q[i].id = id
AwaitsLoad(a, i) == a.jobs[i].op = "incoming" /\ (i > 1 \/ a.phase \in {"check", "put"})
ToLoad(a, id) == \E i \in DOMAIN a.jobs : AwaitsLoad(a, i) /\ a.jobs[i].id = id
Made(n, id) ==
  \/ InQueue(events[n], "create", id) \/ id \in reg[n]
  \/ id \in app[n].inst \/ InQueue(app[n].jobs, "died", id)
Coming(n, id) == Unborn(id.by, id) \/ (id.by # n /\ InQueue(events[id.by], "create", id))
At(n, id, s) ==
  \/ s = 1 /\ Coming(n, id)
  \/ s = 2 /\ InQueue(net[n], "remoteCreate", id)
  \/ s = 3 /\ InQueue(events[n], "remoteCreate", id)
  \/ s = 4 /\ id \in late[n]
  \/ s = 5 /\ id \in pending[n]
  \/ s = 6 /\ InQueue(events[n], "process", id)
  \/ s = 7 /\ ToLoad(app[n], id)
  \/ s = 8 /\ app[n].prf[id.p] = id
  \/ s = 9 /\ Made(n, id)
Stage == 1..9

Making(e) == e.op \in {"create", "remoteCreate", "process"}
Unique(q) ==
  \A i, j \in DOMAIN q : Making(q[i]) /\ q[i].op = q[j].op /\ q[i].id = q[j].id => i = j
OnceToLoad(a) ==
  \A i, j \in DOMAIN a.jobs :
    AwaitsLoad(a, i) /\ AwaitsLoad(a, j) /\ a.jobs[i].id = a.jobs[j].id => i = j

\* An identifier makes its way once: it is never at two places at a time.
WayInv ==
  \A n \in Node :
    /\ \A id \in Ids, s, t \in Stage : At(n, id, s) /\ At(n, id, t) => s = t
    /\ Unique(net[n]) /\ Unique(events[n]) /\ OnceToLoad(app[n])
    /\ \A id \in Ids : InQueue(events[n], "create", id) => id \notin reg[n]
    /\ \A id \in Ids, s \in Stage : id.by = n /\ At(n, id, s) => s \in {1, 9}
    /\ \A id \in Ids :
         (\/ At(n, id, 7) \/ At(n, id, 8)
          \/ id.by # n /\ InQueue(events[n], "create", id)) => id \in incoming[n]

Matches(a, q, r) ==
  \A id \in Ids :
    IF InQueue(a.jobs, "died", id) THEN id \notin Expected(q, r)
    ELSE id \in a.inst <=> id \in Expected(q, r)
MatchInv == \A n \in Node : Matches(app[n], events[n], reg[n])

\* Deaths on their way: the peer's message for a device, the job of the
\* application there.  A death that is a job is one of the registry as well;
\* one that is sent back to the device an instance comes from is that of an
\* instance that is nowhere any more; and the device an instance was made for
\* has it registered until that is told, or was told before it could matter.
Dying(n, id) == InQueue(app[n].jobs, "died", id)
DeathTo(n, id) == InQueue(net[n], "remoteDied", id) \/ InQueue(events[n], "remoteDied", id)
Somewhere(n, id) == \E s \in Stage : At(n, id, s)
Sent(n, id) == \E s \in Stage \ {1} : At(n, id, s)
DeathInv ==
  \A n \in Node, id \in Ids :
    /\ Dying(n, id) => id \notin reg[n] /\ ~InQueue(events[n], "create", id)
    /\ id.by # n =>
         /\ DeathTo(id.by, id) => ~Somewhere(n, id)
         /\ Sent(n, id) => \/ id \in reg[id.by] \/ DeathTo(n, id)
                           \/ Dying(n, id) \/ id \in missed[n]

IInv == TypeOK /\ ProcessInv /\ ConnectionInv /\ WayInv /\ MatchInv /\ DeathInv

-----------------------------------------------------------------------------
(* Nodes, records, queues. *)

LEMMA PeerType ==
  ASSUME NEW n \in Node
  PROVE Peer(n) \in Node /\ Peer(n) # n /\ Peer(Peer(n)) = n
        /\ \A m \in Node : m = n \/ m = Peer(n)
  <1>1. PICK a, b \in Node : a # b /\ Node = {a, b} BY NodeAssumption
  <1>2. \A m \in Node : Peer(m) \in Node /\ Peer(m) # m
    BY <1>1 DEF Peer
  <1>3. QED BY <1>1, <1>2

LEMMA SomeProfile == 1 \in Profiles
  BY ProfilesAssumption

LEMMA FreshOK == Fresh \in Apps /\ ProcessOK(Fresh)
  BY SomeProfile, EntriesAssumption DEF Fresh, Apps, NoService, ProcessOK

\* What it means to handle the first element of a queue and to add others.
LEMMA Appended ==
  ASSUME NEW S, NEW q \in Seq(S), NEW evs \in Seq(S)
  PROVE /\ q \o evs \in Seq(S)
        /\ Len(q \o evs) = Len(q) + Len(evs)
        /\ \A i \in DOMAIN q : i \in DOMAIN (q \o evs) /\ (q \o evs)[i] = q[i]
        /\ \A i \in DOMAIN evs : Len(q) + i \in DOMAIN (q \o evs) /\ (q \o evs)[Len(q) + i] = evs[i]
        /\ \A i \in DOMAIN (q \o evs) :
             \/ i \in DOMAIN q
             \/ i > Len(q) /\ i - Len(q) \in DOMAIN evs /\ (q \o evs)[i] = evs[i - Len(q)]
OBVIOUS

LEMMA Handled ==
  ASSUME NEW S, NEW q \in Seq(S), q # <<>>
  PROVE /\ Tail(q) \in Seq(S) /\ Head(q) \in S /\ Head(q) = q[1]
        /\ Len(Tail(q)) = Len(q) - 1 /\ Len(q) \in Nat \ {0}
        /\ 1 \in DOMAIN q
        /\ \A i \in DOMAIN Tail(q) : i + 1 \in DOMAIN q /\ Tail(q)[i] = q[i + 1]
        /\ \A i \in DOMAIN q : i = 1 \/ (i - 1 \in DOMAIN Tail(q) /\ q[i] = Tail(q)[i - 1])
OBVIOUS

LEMMA AppendOne ==
  ASSUME NEW S, NEW q \in Seq(S), NEW e \in S
  PROVE Append(q, e) = q \o <<e>> /\ <<e>> \in Seq(S)
OBVIOUS

-----------------------------------------------------------------------------
(* Types and processes. *)

LEMMA JobDoneOK ==
  ASSUME NEW a \in Apps, ProcessOK(a), a.jobs # <<>>
  PROVE JobDone(a) \in Apps /\ ProcessOK(JobDone(a))
  <1>1. Tail(a.jobs) \in Seq(Jobs)
    BY DEF Apps
  <1>2. a.up
    BY DEF ProcessOK, Fresh
  <1>3. JobDone(a) \in Apps
    BY <1>1 DEF JobDone, Apps
  <1>4. JobDone(a).up = a.up /\ JobDone(a).phase = "check" /\ JobDone(a).prf = a.prf
        /\ JobDone(a).active = a.active /\ JobDone(a).svc = a.svc
    BY DEF JobDone, Apps
  <1>5. QED BY <1>2, <1>3, <1>4 DEF ProcessOK

\* The application while its job thread is not loading a profile: everything
\* else may change as long as it stays active exactly with a service.
LEMMA OthersOK ==
  ASSUME NEW a \in Apps, ProcessOK(a), NEW b \in Apps, a.up, b.up,
         b.jobs = a.jobs, b.prf = a.prf, b.phase = a.phase,
         b.active <=> b.svc # NoService,
         b.phase = "wait" => b.active /\ ~b.own
  PROVE ProcessOK(b)
  BY DEF ProcessOK

LEMMA UnloadedOK ==
  ASSUME NEW a \in Apps, ProcessOK(a), a.up, a.phase # "wait"
  PROVE /\ Unloaded(a) \in Apps /\ ProcessOK(Unloaded(a))
        /\ Unloaded(a).jobs = a.jobs /\ Unloaded(a).phase = a.phase /\ Unloaded(a).up
        /\ Unloaded(a).prf = a.prf /\ Unloaded(a).client = a.client
        /\ Unloaded(a).next = a.next
  <1>1. NoService \in [Profiles -> Ids \cup {Absent, Null}]
    BY DEF NoService
  <1>2. Unloaded(a) \in Apps
    BY <1>1 DEF Unloaded, Apps
  <1>3. /\ Unloaded(a).jobs = a.jobs /\ Unloaded(a).phase = a.phase /\ Unloaded(a).up
        /\ Unloaded(a).prf = a.prf /\ Unloaded(a).svc = NoService /\ ~Unloaded(a).active
        /\ Unloaded(a).client = a.client /\ Unloaded(a).next = a.next
    BY DEF Unloaded, Apps
  <1>4. QED BY <1>2, <1>3, OthersOK

LEMMA RequestedOK ==
  ASSUME NEW a \in Apps, ProcessOK(a), a.jobs # <<>>, Head(a.jobs).op = "incoming",
         a.phase # "wait"
  PROVE LET b == Requested(a, Head(a.jobs).id)
        IN /\ b \in Apps /\ ProcessOK(b)
           /\ b.up /\ b.jobs = a.jobs /\ b.client = a.client /\ b.next = a.next
           /\ b.phase = "request" /\ b.inst = a.inst
           /\ \A p \in Profiles : b.prf[p] = a.prf[p]
                                  \/ (b.prf[p] = Head(a.jobs).id /\ p = Head(a.jobs).id.p)
  <1> DEFINE id == Head(a.jobs).id
             b == Requested(a, id)
  <1>0. a.jobs \in Seq(Jobs)
    BY DEF Apps
  <1>1. id \in Ids /\ id.p \in Profiles
    <2>1. Head(a.jobs) \in Jobs BY <1>0
    <2>2. QED BY <2>1 DEF Jobs, Ids
  <1>2. a.up
    BY DEF ProcessOK, Fresh
  <1>3. b \in Apps
    BY <1>1 DEF Requested, Apps
  <1>4. /\ b.up /\ b.jobs = a.jobs /\ b.phase = "request" /\ b.client = a.client
        /\ b.active = a.active /\ b.svc = a.svc /\ b.own = a.own /\ b.next = a.next
        /\ b.inst = a.inst
        /\ b.prf = [a.prf EXCEPT ![id.p] = IF @ = Absent THEN id ELSE @]
    BY <1>1, <1>2 DEF Requested, Apps
  <1>5. /\ \A p \in Profiles : b.prf[p] = a.prf[p] \/ (b.prf[p] = id /\ p = id.p)
        /\ b.prf[id.p] # Absent
    BY <1>1, <1>4, EntriesAssumption DEF Apps
  <1> HIDE DEF b
  <1>6. ProcessOK(b)
    BY <1>1, <1>3, <1>4, <1>5 DEF ProcessOK
  <1>7. QED BY <1>3, <1>4, <1>5, <1>6 DEF b

LEMMA EventTypes ==
  /\ \A id \in Ids, l \in 1 .. MaxLives, op \in {"create", "died", "ready", "process"} :
       Event(op, id, l) \in Events
  /\ \A l \in 1 .. MaxLives, op \in {"connected", "lost"} : ConnEvent(op, l) \in Events
  /\ \A id \in Ids, op \in {"remoteCreate", "remoteDied"} :
       [op |-> op, id |-> id] \in Messages /\ [op |-> op, id |-> id] \in Events
  /\ \A n \in Node, who \in {"client", "job"} : life[n] \in 1 .. MaxLives => Ask(n, who) \in Events
  /\ Messages \subseteq Events
  BY DEF Event, ConnEvent, Ask, Events, Messages

\* What is known of an event by its operation.
LEMMA EventFields ==
  ASSUME NEW e \in Events
  PROVE /\ e.op \in {"create", "died", "ready", "process", "remoteCreate", "remoteDied"}
             => e.id \in Ids
        /\ e.op \in {"create", "died", "ready", "process", "connected", "lost", "ask"}
             => e.life \in 1 .. MaxLives
        /\ e.op = "ask" => e.who \in {"client", "job"}
        /\ e.op \in {"create", "died", "ready", "process", "remoteCreate", "remoteDied",
                     "connected", "lost", "ask"}
  BY DEF Events, Messages

\* A sequence that holds every element of a finite set once.
LEMMA OrderCovers ==
  ASSUME NEW S, IsFiniteSet(S), NEW o \in SetToSeqs(S)
  PROVE \E m \in Nat : o \in [1 .. m -> S] /\ \A x \in S : \E i \in 1 .. m : o[i] = x
  <1>1. PICK m \in Nat : m = Cardinality(S)
    BY FS_CardinalityType
  <1>2. o \in [1 .. m -> S] /\ \A i, j \in 1 .. m : i # j => o[i] # o[j]
    BY <1>1 DEF SetToSeqs
  <1>3. \A x \in S : \E i \in 1 .. m : o[i] = x
    <2> SUFFICES ASSUME NEW x \in S, \A i \in 1 .. m : o[i] # x PROVE FALSE
      OBVIOUS
    <2>1. o \in [1 .. m -> S \ {x}]
      BY <1>2
    <2>2. IsFiniteSet(S \ {x}) /\ Cardinality(S \ {x}) = m - 1
      BY <1>1, FS_RemoveElement
    <2>3. IsFiniteSet(1 .. m) /\ Cardinality(1 .. m) = m
      BY <1>1, FS_Interval
    <2>4. Cardinality(S \ {x}) < Cardinality(1 .. m)
      BY <1>1, <2>2, <2>3
    <2>5. PICK i, j \in 1 .. m : i # j /\ o[i] = o[j]
      <3> DEFINE T == S \ {x}
                 D == 1 .. m
      <3>1. IsFiniteSet(T) /\ IsFiniteSet(D) /\ Cardinality(T) < Cardinality(D) /\ o \in [D -> T]
        BY <2>1, <2>2, <2>3, <2>4
      <3> HIDE DEF T, D
      <3>2. \E i, j \in D : i # j /\ o[i] = o[j]
        BY <3>1, FS_PigeonHole
      <3>3. QED BY <3>2 DEF D
    <2>6. QED BY <1>2, <2>5
  <1>4. QED BY <1>2, <1>3

\* The events of an application that unloads its service: the deaths of the
\* instances that its holders have.
LEMMA Unloads ==
  ASSUME NEW n \in Node, NEW a \in Apps, life[n] \in 1 .. MaxLives,
         NEW evs \in UnloadEvents(n, a)
  PROVE /\ evs \in Seq(Events)
        /\ \A i \in DOMAIN evs : /\ evs[i].op = "died"
                                 /\ evs[i].id \in Holders(a) /\ evs[i].id \in Ids
        /\ \A id \in Holders(a) : InQueue(evs, "died", id)
  <1> DEFINE live == {i \in DOMAIN MapOrder : a.svc[MapOrder[i]] \in a.inst}
  <1>1. PICK o \in SetToSeqs(live) :
          evs = [i \in DOMAIN o |-> Event("died", a.svc[MapOrder[o[i]]], life[n])]
    BY DEF UnloadEvents
  <1>2. IsFiniteSet(live)
    <2>1. Len(MapOrder) \in Nat /\ DOMAIN MapOrder = 1 .. Len(MapOrder)
      BY ProfilesAssumption
    <2>2. IsFiniteSet(DOMAIN MapOrder)
      BY <2>1, FS_Interval
    <2>3. live \subseteq DOMAIN MapOrder
      OBVIOUS
    <2>4. QED BY <2>2, <2>3, FS_Subset
  <1>3. \A i \in DOMAIN MapOrder : MapOrder[i] \in Profiles
    BY ProfilesAssumption
  <1>4. \A p \in Profiles : \E i \in DOMAIN MapOrder : MapOrder[i] = p
    BY ProfilesAssumption DEF ToSet
  <1>5. \A i \in live : a.svc[MapOrder[i]] \in Holders(a) /\ a.svc[MapOrder[i]] \in Ids
    BY <1>3 DEF Holders, Apps
  <1>6. \A id \in Holders(a) : \E i \in live : a.svc[MapOrder[i]] = id
    BY <1>4 DEF Holders
  <1> HIDE DEF live
  <1>7. PICK m \in Nat : o \in [1 .. m -> live] /\ \A x \in live : \E i \in 1 .. m : o[i] = x
    BY <1>2, OrderCovers
  <1>8. DOMAIN evs = 1 .. m
        /\ \A i \in 1 .. m : evs[i] = Event("died", a.svc[MapOrder[o[i]]], life[n])
    BY <1>1, <1>7
  <1>9. \A i \in 1 .. m : evs[i] \in Events /\ evs[i].op = "died"
                            /\ evs[i].id = a.svc[MapOrder[o[i]]]
    <2> TAKE i \in 1 .. m
    <2> DEFINE id == a.svc[MapOrder[o[i]]]
    <2>1. o[i] \in live BY <1>7
    <2>2. id \in Ids BY <1>5, <2>1
    <2>3. evs[i] = Event("died", id, life[n]) BY <1>8
    <2> HIDE DEF id
    <2>4. evs[i] \in Events /\ evs[i].op = "died" /\ evs[i].id = id
      <3>1. Event("died", id, life[n]) \in Events BY <2>2, EventTypes
      <3>2. QED BY <2>3, <3>1 DEF Event
    <2>5. QED BY <2>4 DEF id
  <1>10. evs \in Seq(Events)
    <2>1. evs = [i \in 1 .. m |-> evs[i]] BY <1>1, <1>8
    <2>2. \A i \in 1 .. m : evs[i] \in Events BY <1>9
    <2>3. [i \in 1 .. m |-> evs[i]] \in Seq(Events) BY <2>2
    <2>4. QED BY <2>1, <2>3
  <1>11. \A id \in Holders(a) : InQueue(evs, "died", id)
    <2> TAKE id \in Holders(a)
    <2>1. PICK x \in live : a.svc[MapOrder[x]] = id BY <1>6
    <2>2. PICK i \in 1 .. m : o[i] = x BY <1>7
    <2>3. evs[i].op = "died" /\ evs[i].id = id BY <1>9, <2>1, <2>2
    <2>4. QED BY <1>8, <2>3 DEF InQueue
  <1>12. \A i \in 1 .. m : evs[i].id \in Holders(a) /\ evs[i].id \in Ids
    BY <1>5, <1>7, <1>9
  <1>13. QED BY <1>8, <1>9, <1>10, <1>11, <1>12

\* Handlers that take the first event and add others.
LEMMA ThenTypes ==
  ASSUME events \in [Node -> Seq(Events)], NEW n \in Node, NEW pushed \in Seq(Events),
         events[n] # <<>>, Then(n, pushed)
  PROVE /\ events' \in [Node -> Seq(Events)]
        /\ events'[n] = Tail(events[n]) \o pushed
        /\ \A m \in Node \ {n} : events'[m] = events[m]
        /\ Head(events[n]) \in Events /\ events[n] \in Seq(Events)
  <1>1. Tail(events[n]) \o pushed \in Seq(Events) /\ Head(events[n]) \in Events
    OBVIOUS
  <1>2. QED BY <1>1 DEF Then

LEMMA PostTypes ==
  ASSUME events \in [Node -> Seq(Events)], NEW n \in Node, NEW evs \in Seq(Events),
         Post(n, evs)
  PROVE /\ events' \in [Node -> Seq(Events)]
        /\ events'[n] = events[n] \o evs
        /\ \A m \in Node \ {n} : events'[m] = events[m]
        /\ events[n] \in Seq(Events)
  <1>1. events[n] \o evs \in Seq(Events)
    OBVIOUS
  <1>2. QED BY <1>1 DEF Post

LEMMA SendTypes ==
  ASSUME net \in [Node -> Seq(Messages)], NEW n \in Node, NEW msgs \in Seq(Messages),
         Send(n, msgs)
  PROVE /\ net' \in [Node -> Seq(Messages)]
        /\ net'[Peer(n)] = net[Peer(n)] \o msgs
        /\ \A m \in Node \ {Peer(n)} : net'[m] = net[m]
        /\ net[Peer(n)] \in Seq(Messages)
  <1>1. Peer(n) \in Node BY PeerType
  <1>2. net[Peer(n)] \o msgs \in Seq(Messages)
    BY <1>1
  <1>3. QED BY <1>1, <1>2 DEF Send

\* A step of one process, the other one unchanged.
LEMMA ProcessStep ==
  ASSUME TypeOK, ProcessInv, NEW n \in Node, NEW b \in Apps, ProcessOK(b),
         app' = [app EXCEPT ![n] = b],
         life' \in [Node -> 0 .. MaxLives], b.up => life'[n] # 0,
         \A m \in Node \ {n} : life'[m] = life[m] /\ done'[m] = done[m],
         b.client # "idle" => done'[n].loads # 0,
         UNCHANGED <<serves, known>>
  PROVE /\ app' \in [Node -> Apps] /\ ProcessInv'
        /\ app'[n] = b /\ \A m \in Node \ {n} : app'[m] = app[m]
        /\ \A m \in Node : app'[m].phase = "wait" => app'[m].active /\ ~app'[m].own
                                     /\ app'[m].prf[Head(app'[m].jobs).id.p] # Absent
        /\ \A m \in Node : app'[m].active <=> app'[m].svc # NoService
  <1>1. app' \in [Node -> Apps] /\ app'[n] = b /\ \A m \in Node \ {n} : app'[m] = app[m]
    BY DEF TypeOK
  <1>2. ProcessInv'
    <2> SUFFICES ASSUME NEW m \in Node
                 PROVE /\ ProcessOK(app'[m]) /\ (app'[m].up => life'[m] # 0)
                       /\ app'[m].client # "idle" => done'[m].loads # 0
                       /\ serves'[m] => known'[m] # 0
      BY DEF ProcessInv
    <2>1. CASE m = n BY <1>1, <2>1 DEF ProcessInv
    <2>2. CASE m # n BY <1>1, <2>2 DEF ProcessInv
    <2>3. QED BY <2>1, <2>2
  <1>3. \A m \in Node : ProcessOK(app'[m])
    BY <1>2 DEF ProcessInv
  <1>4. QED BY <1>1, <1>2, <1>3 DEF ProcessOK

\* TypeOK without what ProcessInv says.
VarsOK ==
  /\ scenario \in Scenario
  /\ known \in [Node -> 0 .. MaxLives] /\ serves \in [Node -> BOOLEAN]
  /\ reg \in [Node -> SUBSET Ids] /\ incoming \in [Node -> SUBSET Ids]
  /\ pending \in [Node -> SUBSET Ids] /\ late \in [Node -> SUBSET Ids]
  /\ missed \in [Node -> SUBSET Ids] /\ dropped \in [Node -> SUBSET Ids]
  /\ events \in [Node -> Seq(Events)] /\ net \in [Node -> Seq(Messages)]
  /\ requests \in [Node -> SUBSET [id : Ids, copy : {1, 2}]]
  /\ \A n \in Node : \A x, y \in pending[n] : x = y
CountsOK ==
  /\ life \in [Node -> 0 .. MaxLives]
  /\ done \in [Node -> [loads : 0 .. MaxLoads, unloads : Nat, crashes : Nat, losses : Nat]]
ProcessesOK == app \in [Node -> Apps] /\ ProcessInv

LEMMA TypeParts == VarsOK /\ CountsOK /\ ProcessesOK <=> TypeOK /\ ProcessInv
  BY DEF VarsOK, CountsOK, ProcessesOK, TypeOK, ProcessInv, ProcessOK, Job

LEMMA IdsFinite == IsFiniteSet(Ids)
  <1> DEFINE T == (Node \X Profiles) \X (1 .. MaxLoads)
             f == [t \in T |-> [by |-> t[1][1], p |-> t[1][2], k |-> t[2]]]
  <1>1. IsFiniteSet(Node)
    <2>1. PICK a, b \in Node : Node = {a, b} BY NodeAssumption
    <2>2. IsFiniteSet({a, b})
      <3>1. IsFiniteSet({a}) BY FS_Singleton
      <3>2. IsFiniteSet({a} \cup {b}) BY <3>1, FS_AddElement
      <3>3. {a} \cup {b} = {a, b} OBVIOUS
      <3>4. QED BY <3>2, <3>3
    <2>3. QED BY <2>1, <2>2
  <1>2. IsFiniteSet(Profiles) /\ IsFiniteSet(1 .. MaxLoads)
    <2>1. IsFiniteSet(1 .. MaxLoads) /\ IsFiniteSet(1 .. Cardinality(Profiles))
      BY ProfilesAssumption, BoundsAssumption, FS_Interval
    <2>2. QED BY <2>1, ProfilesAssumption
  <1>3. IsFiniteSet(T)
    BY <1>1, <1>2, FS_Product
  <1>4. \A id \in Ids : \E t \in T : f[t] = id
    <2> TAKE id \in Ids
    <2>1. <<<<id.by, id.p>>, id.k>> \in T BY DEF Ids
    <2>2. f[<<<<id.by, id.p>>, id.k>>] = id BY <2>1 DEF Ids
    <2>3. QED BY <2>1, <2>2
  <1>5. \A t \in T : f[t] \in Ids
    BY DEF Ids
  <1>6. f \in Surjection(T, Ids)
    BY <1>4, <1>5 DEF Surjection
  <1> HIDE DEF T, f
  <1>7. QED BY <1>3, <1>6, FS_Surjection

LEMMA DeathTypes ==
  ASSUME NEW S \in SUBSET Ids, NEW order \in SetToSeqs(S)
  PROVE Deaths(order) \in Seq(Messages)
        /\ \A i \in DOMAIN Deaths(order) : Deaths(order)[i].op = "remoteDied"
  <1>1. PICK m \in Nat : order \in [1 .. m -> S]
    BY IdsFinite, FS_Subset, OrderCovers
  <1>2. \A i \in 1 .. m : [op |-> "remoteDied", id |-> order[i]] \in Messages
    <2> TAKE i \in 1 .. m
    <2>1. order[i] \in Ids BY <1>1
    <2>2. QED BY <2>1 DEF Messages
  <1>3. Deaths(order) = [i \in 1 .. m |-> [op |-> "remoteDied", id |-> order[i]]]
    BY <1>1 DEF Deaths
  <1>4. QED BY <1>2, <1>3

LEMMA SingleDeath ==
  ASSUME NEW id \in Ids
  PROVE /\ Deaths(<<>>) = <<>>
        /\ Deaths(<<id>>) = <<[op |-> "remoteDied", id |-> id]>>
        /\ Deaths(<<>>) \in Seq(Messages) /\ Deaths(<<id>>) \in Seq(Messages)
  <1>1. [op |-> "remoteDied", id |-> id] \in Messages BY DEF Messages
  <1>2. Deaths(<<>>) = <<>> /\ Deaths(<<id>>) = <<[op |-> "remoteDied", id |-> id]>>
    BY DEF Deaths
  <1>3. <<>> \in Seq(Messages) /\ <<[op |-> "remoteDied", id |-> id]>> \in Seq(Messages)
    BY <1>1
  <1> HIDE DEF Messages
  <1>4. QED BY <1>2, <1>3

\* A message of PmpPim to an application.
LEMMA ToAppTypes ==
  ASSUME TypeOK, ProcessInv, NEW n \in Node, NEW l, NEW op \in {"incoming", "died"},
         NEW id \in Ids, ToApp(n, l, op, id) \/ UNCHANGED app,
         UNCHANGED <<life, done, serves, known>>
  PROVE ProcessesOK'
  <1> DEFINE a == app[n]
             b == [a EXCEPT !.jobs = Append(@, [op |-> op, id |-> id])]
  <1>0. VarsOK /\ CountsOK /\ ProcessesOK
    BY TypeParts
  <1>1. a \in Apps /\ a.jobs \in Seq(Jobs) /\ [op |-> op, id |-> id] \in Jobs
    BY <1>0 DEF ProcessesOK, Apps, Jobs
  <1>2. Append(a.jobs, [op |-> op, id |-> id]) \in Seq(Jobs)
        /\ (a.jobs # <<>> => /\ Append(a.jobs, [op |-> op, id |-> id]) # <<>>
                             /\ Head(Append(a.jobs, [op |-> op, id |-> id])) = Head(a.jobs))
    BY <1>1
  <1>3. CASE app' = [app EXCEPT ![n] = b] /\ a.up
    <2>1. b \in Apps BY <1>1, <1>2 DEF Apps
    <2>2. /\ b.up = a.up /\ b.jobs = Append(a.jobs, [op |-> op, id |-> id]) /\ b.prf = a.prf
          /\ b.phase = a.phase /\ b.active = a.active /\ b.own = a.own
          /\ b.svc = a.svc /\ b.client = a.client
      BY <1>1 DEF Apps
    <2>3. ProcessOK(a) BY DEF ProcessInv
    <2> HIDE DEF b, a
    <2>4. ProcessOK(b)
      BY <1>2, <1>3, <2>2, <2>3 DEF ProcessOK
    <2>5. a.up => life[n] # 0 BY DEF ProcessInv, a
    <2>6. b.client # "idle" => done'[n].loads # 0
      BY <2>2 DEF ProcessInv, a
    <2>7. QED
      BY <1>0, <1>3, <2>1, <2>2, <2>4, <2>5, <2>6, ProcessStep DEF CountsOK, ProcessesOK
  <1>4. CASE UNCHANGED app
    BY <1>0, <1>4 DEF ProcessesOK, ProcessInv
  <1>5. QED BY <1>3, <1>4 DEF ToApp

LEMMA PmpTypes ==
  ASSUME TypeOK, ProcessInv, NEW n \in Node, PmpStep(n)
  PROVE VarsOK' /\ CountsOK' /\ ProcessesOK'
  <1> DEFINE e == Head(events[n])
             Goal == VarsOK' /\ CountsOK' /\ ProcessesOK'
  <1>0. VarsOK /\ CountsOK /\ ProcessesOK
    BY TypeParts
  <1>1. events \in [Node -> Seq(Events)]
    BY <1>0 DEF VarsOK
  <1>2. events[n] # <<>> => e \in Events
    BY <1>1
  <1>3. <<>> \in Seq(Events)
    OBVIOUS
  <1>4. \A x \in Events : <<x>> \in Seq(Events)
    OBVIOUS
  <1>5. UNCHANGED <<life, app, done>> /\ (\A m \in Node : serves'[m] => known'[m] # 0)
          => CountsOK' /\ ProcessesOK'
    BY <1>0 DEF CountsOK, ProcessesOK, ProcessInv
  <1>s. \A m \in Node : serves[m] => known[m] # 0
    BY DEF ProcessInv
  <1>6. CASE OnConnection(n)
    <2> USE <1>6 DEF OnConnection, Head1, history
    <2>1. events' \in [Node -> Seq(Events)] BY <1>1, <1>3, ThenTypes
    <2>2. e.life \in 1 .. MaxLives BY <1>2, EventFields
    <2>3. known' \in [Node -> 0 .. MaxLives]
      BY <1>0, <2>2, BoundsAssumption DEF VarsOK
    <2>4. \A m \in Node : serves'[m] => known'[m] # 0
      BY <1>0, <1>s, <2>2, BoundsAssumption DEF VarsOK
    <2>5. VarsOK' BY <1>0, <2>1, <2>3 DEF VarsOK
    <2>6. QED BY <1>5, <2>4, <2>5
  <1>7. CASE OnConnectionLost(n)
    <2> USE <1>7 DEF OnConnectionLost, Head1, history
    <2>1. events' \in [Node -> Seq(Events)] BY <1>1, <1>3, ThenTypes
    <2>2. PICK order \in SetToSeqs(reg[n]) : Send(n, Deaths(order)) OBVIOUS
    <2>3. reg[n] \in SUBSET Ids BY <1>0 DEF VarsOK
    <2>4. net' \in [Node -> Seq(Messages)]
      BY <1>0, <2>2, <2>3, DeathTypes, SendTypes DEF VarsOK
    <2>5. /\ known' \in [Node -> 0 .. MaxLives] /\ reg' \in [Node -> SUBSET Ids]
          /\ serves' \in [Node -> BOOLEAN]
      BY <1>0, BoundsAssumption DEF VarsOK
    <2>6. \A m \in Node : serves'[m] => known'[m] # 0
      BY <1>0, <1>s DEF VarsOK
    <2>7. VarsOK' BY <1>0, <2>1, <2>4, <2>5 DEF VarsOK
    <2>8. QED BY <1>5, <2>6, <2>7
  <1>8. CASE CreateProfile(n)
    <2> USE <1>8 DEF CreateProfile, Head1, history
    <2>1. events' \in [Node -> Seq(Events)] BY <1>1, <1>3, ThenTypes
    <2>2. e.id \in Ids BY <1>2, EventFields
    <2>3. <<[op |-> "remoteCreate", id |-> e.id]>> \in Seq(Messages) /\ <<>> \in Seq(Messages)
      <3>1. [op |-> "remoteCreate", id |-> e.id] \in Messages BY <2>2 DEF Messages
      <3>2. QED BY <3>1
    <2>4. net' \in [Node -> Seq(Messages)]
      BY <1>0, <2>3, SendTypes DEF VarsOK
    <2>5. reg' \in [Node -> SUBSET Ids] /\ incoming' \in [Node -> SUBSET Ids]
      <3>1. CASE known[n] = e.life
        <4>1. incoming' = [incoming EXCEPT ![n] = @ \ {e.id}]
              /\ reg' = [reg EXCEPT ![n] = @ \cup {e.id}]
          BY <3>1
        <4>2. QED BY <1>0, <2>2, <4>1 DEF VarsOK
      <3>2. CASE known[n] # e.life
        BY <1>0, <3>2 DEF VarsOK
      <3>3. QED BY <3>1, <3>2
    <2>6. VarsOK' BY <1>0, <2>1, <2>4, <2>5 DEF VarsOK
    <2>7. QED BY <1>5, <1>s, <2>6
  <1>9. CASE ProfileDied(n)
    <2> USE <1>9 DEF ProfileDied, Head1, history
    <2>1. events' \in [Node -> Seq(Events)] BY <1>1, <1>3, ThenTypes
    <2>2. e.id \in Ids BY <1>2, EventFields
    <2>3. net' \in [Node -> Seq(Messages)] BY <1>0, <2>2, SingleDeath, SendTypes DEF VarsOK
    <2>4. reg' \in [Node -> SUBSET Ids] BY <1>0, <2>2 DEF VarsOK
    <2>5. VarsOK' BY <1>0, <2>1, <2>3, <2>4 DEF VarsOK
    <2>6. QED BY <1>5, <1>s, <2>5
  <1>10. CASE ReadyToServe(n)
    <2> USE <1>10 DEF ReadyToServe, Head1, history
    <2>1. e.id \in Ids /\ e.life \in 1 .. MaxLives BY <1>2, EventFields
    <2>2. <<Process(e.id, e.life)>> \in Seq(Events)
      <3>1. Process(e.id, e.life) \in Events BY <2>1, EventTypes DEF Process
      <3>2. QED BY <3>1
    <2>3. events' \in [Node -> Seq(Events)] BY <1>1, <1>3, <2>2, ThenTypes
    <2>4. pending' \in [Node -> SUBSET Ids] /\ serves' \in [Node -> BOOLEAN]
      BY <1>0, <2>1 DEF VarsOK, erasePending
    <2>5. \A m \in Node : \A x, y \in pending'[m] : x = y
      BY <1>0, <2>1 DEF VarsOK, erasePending
    <2>6. VarsOK' BY <1>0, <2>3, <2>4, <2>5 DEF VarsOK
    <2>7. \A m \in Node : serves'[m] => known'[m] # 0
      BY <1>0, <1>s, <2>1 DEF VarsOK
    <2>8. QED BY <1>5, <2>6, <2>7
  <1>11. CASE OnCreateProfile(n)
    <2> USE <1>11 DEF OnCreateProfile, Head1, history
    <2>1. e.id \in Ids BY <1>2, EventFields
    <2>2. serves[n] => <<Process(e.id, known[n])>> \in Seq(Events)
      <3>1. serves[n] => known[n] \in 1 .. MaxLives
        BY <1>0, <1>s, BoundsAssumption DEF VarsOK
      <3>2. serves[n] => Process(e.id, known[n]) \in Events
        BY <2>1, <3>1, EventTypes DEF Process
      <3>3. QED BY <3>2
    <2>3. events' \in [Node -> Seq(Events)] BY <1>1, <1>3, <2>2, ThenTypes
    <2>4. /\ late' = late \/ late' = [late EXCEPT ![n] = @ \cup {e.id}]
          /\ pending' = pending \/ pending' = [pending EXCEPT ![n] = {e.id}]
      OBVIOUS
    <2>5. /\ late' \in [Node -> SUBSET Ids] /\ pending' \in [Node -> SUBSET Ids]
          /\ \A m \in Node : \A x, y \in pending'[m] : x = y
      <3>1. late' \in [Node -> SUBSET Ids]
        <4>1. late \in [Node -> SUBSET Ids] /\ {e.id} \subseteq Ids BY <1>0, <2>1 DEF VarsOK
        <4>2. [late EXCEPT ![n] = @ \cup {e.id}] \in [Node -> SUBSET Ids] BY <4>1
        <4>3. QED BY ONLY <2>4, <4>1, <4>2
      <3>2. pending' = pending => pending' \in [Node -> SUBSET Ids]
                                /\ \A m \in Node : \A x, y \in pending'[m] : x = y
        BY <1>0 DEF VarsOK
      <3>3. pending' = [pending EXCEPT ![n] = {e.id}] =>
              pending' \in [Node -> SUBSET Ids]
              /\ \A m \in Node : \A x, y \in pending'[m] : x = y
        BY <1>0, <2>1 DEF VarsOK
      <3>4. QED BY <2>4, <3>1, <3>2, <3>3
    <2>6. requests' \in [Node -> SUBSET [id : Ids, copy : {1, 2}]]
      BY <1>0, <2>1 DEF VarsOK
    <2>7. VarsOK' BY <1>0, <2>3, <2>5, <2>6 DEF VarsOK
    <2>8. QED BY <1>5, <1>s, <2>7
  <1>12. CASE ProcessIncomingProfile(n)
    <2> USE <1>12 DEF ProcessIncomingProfile, Head1
    <2>1. e.id \in Ids BY <1>2, EventFields
    <2>2. events' \in [Node -> Seq(Events)] BY <1>1, <1>3, ThenTypes
    <2>3. incoming' \in [Node -> SUBSET Ids] /\ dropped' \in [Node -> SUBSET Ids]
      BY <1>0, <2>1 DEF VarsOK
    <2>4. ProcessesOK'
      BY <1>0, <2>1, ToAppTypes
    <2>5. VarsOK' BY <1>0, <2>2, <2>3 DEF VarsOK
    <2>6. QED BY <1>0, <2>4, <2>5 DEF CountsOK
  <1>13. CASE OnProfileDied(n)
    <2> USE <1>13 DEF OnProfileDied, Head1
    <2>1. e.id \in Ids BY <1>2, EventFields
    <2>2. events' \in [Node -> Seq(Events)] BY <1>1, <1>3, ThenTypes
    <2>3. reg' \in [Node -> SUBSET Ids] /\ missed' \in [Node -> SUBSET Ids]
      <3>1. CASE e.id \in reg[n]
        <4>1. reg' = [reg EXCEPT ![n] = @ \ {e.id}] /\ missed' = missed BY <3>1
        <4>2. QED BY <1>0, <4>1 DEF VarsOK
      <3>2. CASE e.id \notin reg[n]
        <4>1. reg' = reg /\ missed' = [missed EXCEPT ![n] = @ \cup {e.id}] BY <3>2
        <4>2. QED BY <1>0, <2>1, <4>1 DEF VarsOK
      <3>3. QED BY <3>1, <3>2
    <2>4. ProcessesOK'
      BY <1>0, <2>1, ToAppTypes
    <2>5. VarsOK' BY <1>0, <2>2, <2>3 DEF VarsOK
    <2>6. QED BY <1>0, <2>4, <2>5 DEF CountsOK
  <1>14. CASE Answer(n)
    <2> USE <1>14 DEF Answer, Head1, pmpVars, history
    <2>1. e.who \in {"client", "job"} BY <1>2, EventFields
    <2>2. events' \in [Node -> Seq(Events)] BY <1>1, <1>3, ThenTypes
    <2> DEFINE b == [app[n] EXCEPT !.told = @ \cup {e.who}]
    <2>3. CASE app[n].up /\ life[n] = e.life
      <3>1. app[n] \in Apps BY <1>0 DEF ProcessesOK
      <3>2. b \in Apps BY <2>1, <3>1 DEF Apps
      <3>3. /\ b.up = app[n].up /\ b.jobs = app[n].jobs /\ b.prf = app[n].prf
            /\ b.phase = app[n].phase /\ b.active = app[n].active /\ b.own = app[n].own
            /\ b.svc = app[n].svc /\ b.client = app[n].client
        BY <3>1 DEF Apps
      <3>4. app' = [app EXCEPT ![n] = b] BY <2>3
      <3> HIDE DEF b
      <3>5. ProcessOK(b)
        BY <2>3, <3>1, <3>2, <3>3 DEF ProcessInv, ProcessOK
      <3>6. ProcessesOK'
        BY <1>0, <2>3, <3>2, <3>3, <3>4, <3>5, ProcessStep DEF ProcessInv, CountsOK, ProcessesOK
      <3>7. VarsOK' BY <1>0, <2>2 DEF VarsOK
      <3>8. QED BY <1>0, <3>6, <3>7 DEF CountsOK
    <2>4. CASE ~(app[n].up /\ life[n] = e.life)
      <3>1. VarsOK' BY <1>0, <2>2 DEF VarsOK
      <3>2. QED BY <1>5, <1>s, <2>4, <3>1
    <2>5. QED BY <2>3, <2>4
  <1>15. QED
    BY <1>6, <1>7, <1>8, <1>9, <1>10, <1>11, <1>12, <1>13, <1>14 DEF PmpStep

\* The four counters.
LEMMA CountTypes ==
  ASSUME VarsOK, CountsOK, NEW n \in Node
  PROVE /\ done[n].losses < scenario.losses[n] /\ done' = [done EXCEPT ![n].losses = @ + 1]
             => /\ done' \in [Node -> [loads : 0 .. MaxLoads, unloads : Nat, crashes : Nat, losses : Nat]]
                /\ \A m \in Node : done'[m].loads = done[m].loads
        /\ done' = [done EXCEPT ![n].unloads = @ + 1]
             => /\ done' \in [Node -> [loads : 0 .. MaxLoads, unloads : Nat, crashes : Nat, losses : Nat]]
                /\ \A m \in Node : done'[m].loads = done[m].loads
        /\ done' = [done EXCEPT ![n].crashes = @ + 1]
             => /\ done' \in [Node -> [loads : 0 .. MaxLoads, unloads : Nat, crashes : Nat, losses : Nat]]
                /\ \A m \in Node : done'[m].loads = done[m].loads
        /\ done[n].loads < scenario.loads[n] /\ done' = [done EXCEPT ![n].loads = @ + 1]
             => /\ done' \in [Node -> [loads : 0 .. MaxLoads, unloads : Nat, crashes : Nat, losses : Nat]]
                /\ \A m \in Node \ {n} : done'[m].loads = done[m].loads
                /\ done'[n].loads = done[n].loads + 1
        /\ \A m \in Node : done[m].loads \in 0 .. MaxLoads
  <1>1. scenario.loads[n] \in 0 .. MaxLoads
    BY BoundsAssumption DEF VarsOK
  <1>2. MaxLoads \in Nat
    BY BoundsAssumption
  <1>3. QED BY <1>1, <1>2 DEF CountsOK

LEMMA LoadCount ==
  ASSUME VarsOK, CountsOK, NEW n \in Node, done[n].loads < scenario.loads[n],
         done' = [done EXCEPT ![n].loads = @ + 1]
  PROVE /\ done' \in [Node -> [loads : 0 .. MaxLoads, unloads : Nat, crashes : Nat, losses : Nat]]
        /\ \A m \in Node \ {n} : done'[m].loads = done[m].loads
        /\ done'[n].loads = done[n].loads + 1 /\ done[n].loads \in Nat
  <1>1. done[n].loads \in 0 .. MaxLoads /\ MaxLoads \in Nat /\ scenario.loads[n] \in 0 .. MaxLoads
    BY BoundsAssumption DEF CountsOK, VarsOK
  <1>2. done[n].loads + 1 \in 0 .. MaxLoads BY <1>1
  <1>3. QED BY <1>1, <1>2 DEF CountsOK

DoneKeeps(n) ==
  /\ done' \in [Node -> [loads : 0 .. MaxLoads, unloads : Nat, crashes : Nat, losses : Nat]]
  /\ \A m \in Node : done'[m].loads = done[m].loads

\* A step of the process that stays up.
LEMMA AppTypes ==
  ASSUME TypeOK, ProcessInv, NEW n \in Node, NEW b \in Apps, ProcessOK(b),
         b.up => app[n].up, AppStep(n, b),
         done' \in [Node -> [loads : 0 .. MaxLoads, unloads : Nat, crashes : Nat, losses : Nat]],
         \A m \in Node \ {n} : done'[m].loads = done[m].loads,
         b.client # "idle" => done'[n].loads # 0,
         events' \in [Node -> Seq(Events)],
         dropped' = dropped \/ \E S \in SUBSET Ids : dropped' = [dropped EXCEPT ![n] = @ \cup S]
  PROVE VarsOK' /\ CountsOK' /\ ProcessesOK'
  <1>0. VarsOK /\ CountsOK /\ ProcessesOK
    BY TypeParts
  <1>1. dropped' \in [Node -> SUBSET Ids]
    <2>1. dropped \in [Node -> SUBSET Ids] BY <1>0 DEF VarsOK
    <2>2. \A S \in SUBSET Ids : [dropped EXCEPT ![n] = @ \cup S] \in [Node -> SUBSET Ids]
      BY <2>1
    <2>3. QED BY <2>1, <2>2
  <1>2. VarsOK' BY <1>0, <1>1 DEF VarsOK, AppStep, pmpVars
  <1>3. CountsOK' BY <1>0 DEF CountsOK, AppStep
  <1>4. ProcessesOK'
    <2>1. app' = [app EXCEPT ![n] = b] /\ UNCHANGED <<life, serves, known>>
      BY DEF AppStep, pmpVars
    <2>2. b.up => life'[n] # 0 BY <2>1 DEF ProcessInv
    <2>3. app' \in [Node -> Apps] BY <1>0, <2>1 DEF ProcessesOK
    <2>4. ProcessInv'
      <3> SUFFICES ASSUME NEW m \in Node
                   PROVE /\ ProcessOK(app'[m]) /\ (app'[m].up => life'[m] # 0)
                         /\ app'[m].client # "idle" => done'[m].loads # 0
                         /\ serves'[m] => known'[m] # 0
        BY DEF ProcessInv
      <3>1. CASE m = n BY <1>0, <2>1, <2>2, <3>1 DEF ProcessInv, ProcessesOK
      <3>2. CASE m # n BY <1>0, <2>1, <3>2 DEF ProcessInv, ProcessesOK
      <3>3. QED BY <3>1, <3>2
    <2>5. QED BY <2>3, <2>4 DEF ProcessesOK
  <1>5. QED BY <1>2, <1>3, <1>4

\* A process that ends.
LEMMA DiesTypes ==
  ASSUME TypeOK, ProcessInv, NEW n \in Node, app[n].up, Dies(n),
         done' \in [Node -> [loads : 0 .. MaxLoads, unloads : Nat, crashes : Nat, losses : Nat]],
         \A m \in Node : done'[m].loads = done[m].loads
  PROVE VarsOK' /\ CountsOK' /\ ProcessesOK'
        /\ <<ConnEvent("lost", life[n])>> \in Seq(Events)
  <1>0. VarsOK /\ CountsOK /\ ProcessesOK
    BY TypeParts
  <1>1. life[n] \in 1 .. MaxLives
    BY <1>0, BoundsAssumption DEF ProcessInv, CountsOK
  <1>2. <<ConnEvent("lost", life[n])>> \in Seq(Events)
    <2>1. ConnEvent("lost", life[n]) \in Events BY <1>1, EventTypes
    <2>2. QED BY <2>1
  <1>3. events' \in [Node -> Seq(Events)]
    BY <1>0, <1>2, PostTypes DEF Dies, VarsOK
  <1>4. dropped' \in [Node -> SUBSET Ids]
    <2> DEFINE S == {j.id : j \in {i \in ToSet(app[n].jobs) : i.op = "incoming"}}
    <2>1. app[n].jobs \in Seq(Jobs) BY <1>0 DEF ProcessesOK, Apps
    <2>2. ToSet(app[n].jobs) \subseteq Jobs BY <2>1 DEF ToSet
    <2>3. S \subseteq Ids BY <2>2 DEF Jobs
    <2>4. dropped' = [dropped EXCEPT ![n] = @ \cup S] BY DEF Dies
    <2> HIDE DEF S
    <2>5. dropped \in [Node -> SUBSET Ids] BY <1>0 DEF VarsOK
    <2>6. QED BY <2>3, <2>4, <2>5
  <1>5. VarsOK' BY <1>0, <1>3, <1>4 DEF VarsOK, Dies, pmpVars
  <1>6. CountsOK' BY <1>0 DEF CountsOK, Dies
  <1>7. ProcessesOK'
    <2>1. app' = [app EXCEPT ![n] = Fresh] /\ UNCHANGED <<life, serves, known>>
      BY DEF Dies, pmpVars
    <2>2. app' \in [Node -> Apps] BY <1>0, <2>1, FreshOK DEF ProcessesOK
    <2>3. ProcessInv'
      <3> SUFFICES ASSUME NEW m \in Node
                   PROVE /\ ProcessOK(app'[m]) /\ (app'[m].up => life'[m] # 0)
                         /\ app'[m].client # "idle" => done'[m].loads # 0
                         /\ serves'[m] => known'[m] # 0
        BY DEF ProcessInv
      <3>1. CASE m = n
        <4>1. app'[m] = Fresh BY <1>0, <2>1, <3>1 DEF ProcessesOK
        <4>2. ~Fresh.up /\ Fresh.client = "idle" BY DEF Fresh
        <4>3. QED BY <2>1, <4>1, <4>2, FreshOK DEF ProcessInv
      <3>2. CASE m # n BY <1>0, <2>1, <3>2 DEF ProcessInv, ProcessesOK
      <3>3. QED BY <3>1, <3>2
    <2>4. QED BY <2>2, <2>3 DEF ProcessesOK
  <1>8. QED BY <1>2, <1>5, <1>6, <1>7

\* A process that starts.
LEMMA NewLifeTypes ==
  ASSUME TypeOK, ProcessInv, NEW n \in Node, NewLife(n), UNCHANGED <<serves, known, done>>
  PROVE /\ events' \in [Node -> Seq(Events)] /\ CountsOK' /\ ProcessesOK'
        /\ <<ConnEvent("connected", life[n] + 1)>> \in Seq(Events)
  <1>0. VarsOK /\ CountsOK /\ ProcessesOK
    BY TypeParts
  <1>1. life[n] + 1 \in 1 .. MaxLives /\ life[n] \in Nat
    <2>1. scenario.lives[n] \in 1 .. MaxLives BY <1>0, BoundsAssumption DEF VarsOK
    <2>2. life[n] \in 0 .. MaxLives BY <1>0 DEF CountsOK
    <2>3. QED BY <2>1, <2>2, BoundsAssumption DEF NewLife
  <1>2. <<ConnEvent("connected", life[n] + 1)>> \in Seq(Events)
    <2>1. ConnEvent("connected", life[n] + 1) \in Events BY <1>1, EventTypes
    <2>2. QED BY <2>1
  <1>3. events' \in [Node -> Seq(Events)]
    BY <1>0, <1>2, PostTypes DEF NewLife, VarsOK
  <1>4. CountsOK'
    BY <1>0, <1>1, BoundsAssumption DEF CountsOK, NewLife
  <1>5. ProcessesOK'
    <2> DEFINE b == [Fresh EXCEPT !.up = TRUE]
    <2>1. b \in Apps BY FreshOK DEF Apps
    <2>2. b.up /\ b.client = "idle" /\ ProcessOK(b)
      BY FreshOK DEF Fresh, ProcessOK
    <2>3. app' = [app EXCEPT ![n] = b] /\ life' = [life EXCEPT ![n] = @ + 1]
      BY DEF NewLife
    <2> HIDE DEF b
    <2>4. /\ life' \in [Node -> 0 .. MaxLives] /\ life'[n] # 0
          /\ \A m \in Node \ {n} : life'[m] = life[m]
      BY <1>0, <1>1, <1>4, <2>3 DEF CountsOK
    <2>5. QED BY <1>0, <2>1, <2>2, <2>3, <2>4, ProcessStep DEF ProcessesOK
  <1>6. QED BY <1>2, <1>3, <1>4, <1>5

LEMMA DeliveryTypes ==
  ASSUME TypeOK, ProcessInv, NEW n \in Node, Receive(n) \/ Timeout(n)
  PROVE VarsOK' /\ CountsOK' /\ ProcessesOK'
  <1>0. VarsOK /\ CountsOK /\ ProcessesOK
    BY TypeParts
  <1>1. UNCHANGED <<life, app, done, serves, known>> => CountsOK' /\ ProcessesOK'
    BY <1>0 DEF CountsOK, ProcessesOK, ProcessInv
  <1>2. CASE Receive(n)
    <2> USE <1>2 DEF Receive, history
    <2>1. net[n] \in Seq(Messages) /\ Head(net[n]) \in Messages /\ Tail(net[n]) \in Seq(Messages)
      BY <1>0 DEF VarsOK
    <2>2. Append(events[n], Head(net[n])) \in Seq(Events)
      BY <1>0, <2>1, EventTypes DEF VarsOK
    <2>3. events' \in [Node -> Seq(Events)] /\ net' \in [Node -> Seq(Messages)]
      BY <1>0, <2>1, <2>2 DEF VarsOK
    <2>4. VarsOK' BY <1>0, <2>3 DEF VarsOK
    <2>5. QED BY <1>1, <2>4
  <1>3. CASE Timeout(n)
    <2> USE <1>3 DEF Timeout, history
    <2>1. PICK id \in late[n] :
            /\ late' = [late EXCEPT ![n] = @ \ {id}]
            /\ events' = [events EXCEPT ![n] = Append(@, [op |-> "remoteCreate", id |-> id])]
      OBVIOUS
    <2>2. id \in Ids BY <1>0 DEF VarsOK
    <2>3. [op |-> "remoteCreate", id |-> id] \in Events BY <2>2, EventTypes
    <2>4. Append(events[n], [op |-> "remoteCreate", id |-> id]) \in Seq(Events)
      BY <1>0, <2>3 DEF VarsOK
    <2>5. events' \in [Node -> Seq(Events)] /\ late' \in [Node -> SUBSET Ids]
      BY <1>0, <2>1, <2>4 DEF VarsOK
    <2>6. VarsOK' BY <1>0, <2>5 DEF VarsOK
    <2>7. QED BY <1>1, <2>6
  <1>4. QED BY <1>2, <1>3

LEMMA RequestTypes ==
  ASSUME TypeOK, ProcessInv, NEW n \in Node,
         Launch(n) \/ SessionRequest(n) \/ LoseRequest(n) \/ StartByUser(n)
  PROVE VarsOK' /\ CountsOK' /\ ProcessesOK'
  <1>0. VarsOK /\ CountsOK /\ ProcessesOK
    BY TypeParts
  <1>1. CASE Launch(n)
    <2> USE <1>1 DEF Launch, history, pmpVars
    <2>1. events' \in [Node -> Seq(Events)] /\ CountsOK' /\ ProcessesOK'
      BY NewLifeTypes
    <2>2. requests' \in [Node -> SUBSET [id : Ids, copy : {1, 2}]]
      <3>1. PICK copies \in {{1}, {1, 2}} :
              requests' = [requests EXCEPT ![n] =
                            Sessions(n, copies)]
        OBVIOUS
      <3>2. copies \subseteq {1, 2} OBVIOUS
      <3>3. Sessions(n, copies) \subseteq [id : Ids, copy : {1, 2}]
        BY <1>0, <3>2 DEF VarsOK, Sessions
      <3>4. requests \in [Node -> SUBSET [id : Ids, copy : {1, 2}]] BY <1>0 DEF VarsOK
      <3>5. QED BY <3>1, <3>3, <3>4
    <2>3. VarsOK' BY <1>0, <2>1, <2>2 DEF VarsOK
    <2>4. QED BY <2>1, <2>3
  <1>2. CASE SessionRequest(n)
    <2> USE <1>2 DEF SessionRequest, history, pmpVars
    <2>1. PICK r \in requests[n] : /\ app[n].up
                                   /\ requests' = [requests EXCEPT ![n] = @ \ {r}]
                                   /\ Post(n, <<Event("ready", r.id, life[n])>>)
      OBVIOUS
    <2>2. r.id \in Ids BY <1>0 DEF VarsOK
    <2>3. life[n] \in 1 .. MaxLives
      BY <1>0, <2>1, BoundsAssumption DEF ProcessInv, CountsOK
    <2>4. Event("ready", r.id, life[n]) \in Events BY <2>2, <2>3, EventTypes
    <2>5. <<Event("ready", r.id, life[n])>> \in Seq(Events) BY <2>4
    <2>6. events' \in [Node -> Seq(Events)] BY <1>0, <2>1, <2>5, PostTypes DEF VarsOK
    <2>7. requests' \in [Node -> SUBSET [id : Ids, copy : {1, 2}]] BY <1>0, <2>1 DEF VarsOK
    <2>8. VarsOK' BY <1>0, <2>6, <2>7 DEF VarsOK
    <2>9. QED BY <1>0, <2>8 DEF CountsOK, ProcessesOK, ProcessInv
  <1>3. CASE LoseRequest(n)
    <2> USE <1>3 DEF LoseRequest, history, pmpVars
    <2>1. PICK r \in requests[n] : requests' = [requests EXCEPT ![n] = @ \ {r}]
      OBVIOUS
    <2>2. requests' \in [Node -> SUBSET [id : Ids, copy : {1, 2}]] BY <1>0, <2>1 DEF VarsOK
    <2>3. VarsOK' BY <1>0, <2>2 DEF VarsOK
    <2>4. DoneKeeps(n) BY <1>0, CountTypes DEF DoneKeeps
    <2>5. QED BY <1>0, <2>3, <2>4 DEF DoneKeeps, CountsOK, ProcessesOK, ProcessInv
  <1>4. CASE StartByUser(n)
    <2> USE <1>4 DEF StartByUser, history, pmpVars
    <2>1. events' \in [Node -> Seq(Events)] /\ CountsOK' /\ ProcessesOK'
      BY NewLifeTypes
    <2>2. VarsOK' BY <1>0, <2>1 DEF VarsOK
    <2>3. QED BY <2>1, <2>2
  <1>5. QED BY <1>1, <1>2, <1>3, <1>4

\* What the client thread does; Mine(n, p) is a fresh identifier.
LEMMA MineType ==
  ASSUME CountsOK, NEW n \in Node, NEW p \in Profiles, done[n].loads # 0
  PROVE Mine(n, p) \in Ids /\ Mine(n, p).by = n /\ Mine(n, p).p = p
        /\ Mine(n, p).k = done[n].loads
  <1>1. done[n].loads \in 1 .. MaxLoads
    BY BoundsAssumption DEF CountsOK
  <1>2. QED BY <1>1 DEF Mine, Ids

\* The service that CService::load was making when it failed.
Partial(n) == [app[n] EXCEPT !.svc =
                 [p \in Profiles |-> IF p < app[n].next THEN Mine(n, p) ELSE Absent]]

\* The application after each step of its client thread.
AfterLoad(n) == [app[n] EXCEPT !.client = "checked"]
AfterStart(n) == [app[n] EXCEPT !.client = "loading", !.next = 1]
AfterProfile(n) ==
  LET last == app[n].next = Cardinality(Profiles)
  IN [app[n] EXCEPT !.inst = @ \cup {Mine(n, app[n].next)},
                    !.client = IF last THEN "loaded" ELSE @,
                    !.next = IF last THEN @ ELSE @ + 1,
                    !.told = @ \ {"client"}]
AfterFailure(n) == [app[n] EXCEPT !.inst = @ \ Holders(Partial(n)), !.client = "idle",
                                  !.told = @ \ {"client"}]
AfterDone(n) == [app[n] EXCEPT !.client = "idle", !.active = TRUE, !.own = TRUE,
                               !.svc = [p \in Profiles |-> Mine(n, p)]]

LEMMA AfterLoadOK ==
  ASSUME NEW n \in Node, app[n] \in Apps, ProcessOK(app[n]), app[n].up
  PROVE LET b == AfterLoad(n)
            a == app[n]
        IN /\ b \in Apps /\ ProcessOK(b)
           /\ b.up /\ b.jobs = a.jobs /\ b.prf = a.prf /\ b.phase = a.phase
           /\ b.inst = a.inst /\ b.client = "checked" /\ b.next = a.next
  <1> DEFINE a == app[n]
             b == AfterLoad(n)
  <1>1. b \in Apps BY DEF AfterLoad, Apps
  <1>2. /\ b.up /\ b.jobs = a.jobs /\ b.prf = a.prf /\ b.phase = a.phase
        /\ b.inst = a.inst /\ b.client = "checked" /\ b.next = a.next
        /\ b.active = a.active /\ b.own = a.own /\ b.svc = a.svc
    BY DEF AfterLoad, Apps
  <1> HIDE DEF b
  <1>3. ProcessOK(b) BY <1>1, <1>2 DEF ProcessOK
  <1>4. QED BY <1>1, <1>2, <1>3 DEF b

LEMMA AfterStartOK ==
  ASSUME NEW n \in Node, app[n] \in Apps, ProcessOK(app[n]), app[n].up
  PROVE LET b == AfterStart(n)
            a == app[n]
        IN /\ b \in Apps /\ ProcessOK(b)
           /\ b.up /\ b.jobs = a.jobs /\ b.prf = a.prf /\ b.phase = a.phase
           /\ b.inst = a.inst /\ b.client = "loading" /\ b.next = 1
  <1> DEFINE a == app[n]
             b == AfterStart(n)
  <1>1. b \in Apps BY SomeProfile DEF AfterStart, Apps
  <1>2. /\ b.up /\ b.jobs = a.jobs /\ b.prf = a.prf /\ b.phase = a.phase
        /\ b.inst = a.inst /\ b.client = "loading" /\ b.next = 1
        /\ b.active = a.active /\ b.own = a.own /\ b.svc = a.svc
    BY DEF AfterStart, Apps
  <1> HIDE DEF b
  <1>3. ProcessOK(b) BY <1>1, <1>2 DEF ProcessOK
  <1>4. QED BY <1>1, <1>2, <1>3 DEF b

LEMMA AfterProfileOK ==
  ASSUME NEW n \in Node, app[n] \in Apps, ProcessOK(app[n]), app[n].up, CountsOK,
         done[n].loads # 0, app[n].client = "loading"
  PROVE LET b == AfterProfile(n)
            a == app[n]
        IN /\ b \in Apps /\ ProcessOK(b)
           /\ b.up /\ b.jobs = a.jobs /\ b.prf = a.prf /\ b.phase = a.phase
           /\ b.inst = a.inst \cup {Mine(n, a.next)}
           /\ b.client = "loaded" \/ (b.client = "loading" /\ b.next = a.next + 1)
           /\ a.next \in Profiles
  <1> DEFINE a == app[n]
             b == AfterProfile(n)
             last == a.next = Cardinality(Profiles)
  <1>1. a.next \in Profiles /\ (~last => a.next + 1 \in Profiles)
    BY ProfilesAssumption DEF Apps
  <1>2. Mine(n, a.next) \in Ids BY <1>1, MineType
  <1>3. b \in Apps BY <1>1, <1>2 DEF AfterProfile, Apps
  <1>4. /\ b.up /\ b.jobs = a.jobs /\ b.prf = a.prf /\ b.phase = a.phase
        /\ b.inst = a.inst \cup {Mine(n, a.next)}
        /\ b.client = "loaded" \/ (b.client = "loading" /\ b.next = a.next + 1)
        /\ b.active = a.active /\ b.own = a.own /\ b.svc = a.svc
    BY DEF AfterProfile, Apps
  <1> HIDE DEF b, last
  <1>5. ProcessOK(b) BY <1>3, <1>4 DEF ProcessOK
  <1>6. QED BY <1>1, <1>3, <1>4, <1>5 DEF b

LEMMA PartialOK ==
  ASSUME NEW n \in Node, app[n] \in Apps, CountsOK, done[n].loads # 0
  PROVE Partial(n) \in Apps /\ Partial(n).inst = app[n].inst /\ Partial(n).up = app[n].up
  <1> DEFINE svc == [p \in Profiles |-> IF p < app[n].next THEN Mine(n, p) ELSE Absent]
  <1>1. svc \in [Profiles -> Ids \cup {Absent, Null}]
    BY MineType
  <1>2. Partial(n) = [app[n] EXCEPT !.svc = svc]
    BY DEF Partial
  <1> HIDE DEF svc
  <1>3. QED BY <1>1, <1>2 DEF Apps

LEMMA AfterFailureOK ==
  ASSUME NEW n \in Node, app[n] \in Apps, ProcessOK(app[n]), app[n].up
  PROVE LET b == AfterFailure(n)
            a == app[n]
        IN /\ b \in Apps /\ ProcessOK(b)
           /\ b.up /\ b.jobs = a.jobs /\ b.prf = a.prf /\ b.phase = a.phase
           /\ b.inst = a.inst \ Holders(Partial(n)) /\ b.client = "idle"
  <1> DEFINE a == app[n]
             b == AfterFailure(n)
  <1>1. b \in Apps BY DEF AfterFailure, Apps
  <1>2. /\ b.up /\ b.jobs = a.jobs /\ b.prf = a.prf /\ b.phase = a.phase
        /\ b.inst = a.inst \ Holders(Partial(n)) /\ b.client = "idle"
        /\ b.active = a.active /\ b.own = a.own /\ b.svc = a.svc
    BY DEF AfterFailure, Apps
  <1> HIDE DEF b
  <1>3. ProcessOK(b) BY <1>1, <1>2 DEF ProcessOK
  <1>4. QED BY <1>1, <1>2, <1>3 DEF b

LEMMA AfterDoneOK ==
  ASSUME NEW n \in Node, app[n] \in Apps, ProcessOK(app[n]), app[n].up, CountsOK,
         done[n].loads # 0, app[n].phase # "wait"
  PROVE LET b == AfterDone(n)
            a == app[n]
        IN /\ b \in Apps /\ ProcessOK(b)
           /\ b.up /\ b.jobs = a.jobs /\ b.prf = a.prf /\ b.phase = a.phase
           /\ b.inst = a.inst /\ b.client = "idle"
  <1> DEFINE a == app[n]
             b == AfterDone(n)
             svc == [p \in Profiles |-> Mine(n, p)]
  <1>1. svc \in [Profiles -> Ids \cup {Absent, Null}] /\ svc # NoService
    <2>1. \A p \in Profiles : Mine(n, p) \in Ids BY MineType
    <2>2. svc[1] \in Ids /\ NoService[1] = Absent BY <2>1, SomeProfile DEF NoService
    <2>3. QED BY <2>1, <2>2, EntriesAssumption
  <1>2. b = [a EXCEPT !.client = "idle", !.active = TRUE, !.own = TRUE, !.svc = svc]
    BY DEF AfterDone
  <1> HIDE DEF svc
  <1>3. b \in Apps BY <1>1, <1>2 DEF Apps
  <1>4. /\ b.up /\ b.jobs = a.jobs /\ b.prf = a.prf /\ b.phase = a.phase
        /\ b.inst = a.inst /\ b.client = "idle" /\ b.active /\ b.own /\ b.svc = svc
    BY <1>2 DEF Apps
  <1> HIDE DEF b
  <1>5. ProcessOK(b) BY <1>1, <1>3, <1>4 DEF ProcessOK
  <1>6. QED BY <1>3, <1>4, <1>5 DEF b

\* The application after the steps of its job thread.
AtPut(a) == [a EXCEPT !.active = TRUE, !.own = FALSE, !.svc = [p \in Profiles |-> Null]]
AfterCreated(a) ==
  LET p == Head(a.jobs).id.p
      id == a.prf[p]
      new == id \notin a.inst
  IN JobDone([a EXCEPT !.prf[p] = Absent, !.told = @ \ {"job"}, !.inst = @ \cup {id},
                       !.svc[p] = IF new THEN id ELSE Null])
AfterNoLib(a) == JobDone([a EXCEPT !.told = @ \ {"job"}, !.svc[Head(a.jobs).id.p] = Null])
AfterDeath(a) ==
  LET id == Head(a.jobs).id
      holders == [p \in Profiles |-> IF a.svc[p] = id THEN Absent ELSE a.svc[p]]
  IN JobDone([a EXCEPT !.inst = @ \ {id}, !.svc = holders, !.active = holders # NoService])

LEMMA FirstJob ==
  ASSUME NEW a \in Apps, a.jobs # <<>>
  PROVE /\ a.jobs \in Seq(Jobs) /\ Head(a.jobs) \in Jobs
        /\ Head(a.jobs).id \in Ids /\ Head(a.jobs).id.p \in Profiles
        /\ Tail(a.jobs) \in Seq(Jobs)
  <1>1. a.jobs \in Seq(Jobs) BY DEF Apps
  <1>2. Head(a.jobs) \in Jobs /\ Tail(a.jobs) \in Seq(Jobs) BY <1>1
  <1>3. QED BY <1>1, <1>2 DEF Jobs, Ids

\* The fields of a process whose job is done.
LEMMA DoneFields ==
  ASSUME NEW a \in Apps
  PROVE LET b == JobDone(a)
        IN /\ b.up = a.up /\ b.jobs = Tail(a.jobs) /\ b.prf = a.prf /\ b.phase = "check"
           /\ b.inst = a.inst /\ b.client = a.client /\ b.next = a.next
           /\ b.active = a.active /\ b.svc = a.svc
  BY DEF JobDone, Apps

LEMMA AtPutOK ==
  ASSUME NEW a \in Apps, ProcessOK(a), a.jobs # <<>>, Head(a.jobs).op = "incoming",
         a.phase = "put"
  PROVE LET b == AtPut(a)
        IN /\ b \in Apps /\ ProcessOK(b)
           /\ b.up /\ b.jobs = a.jobs /\ b.prf = a.prf /\ b.phase = a.phase
           /\ b.inst = a.inst /\ b.client = a.client /\ b.next = a.next
  <1> DEFINE b == AtPut(a)
             svc == [p \in Profiles |-> Null]
  <1>1. svc \in [Profiles -> Ids \cup {Absent, Null}] /\ svc # NoService
    BY EntriesAssumption, SomeProfile DEF NoService
  <1>2. b = [a EXCEPT !.active = TRUE, !.own = FALSE, !.svc = svc]
    BY DEF AtPut
  <1>3. a.up BY DEF ProcessOK, Fresh
  <1> HIDE DEF svc
  <1>4. b \in Apps BY <1>1, <1>2 DEF Apps
  <1>5. /\ b.up /\ b.jobs = a.jobs /\ b.prf = a.prf /\ b.phase = a.phase
        /\ b.inst = a.inst /\ b.client = a.client /\ b.next = a.next
        /\ b.active /\ b.svc = svc
    BY <1>2, <1>3 DEF Apps
  <1> HIDE DEF b
  <1>6. ProcessOK(b) BY <1>1, <1>3, <1>4, <1>5 DEF ProcessOK
  <1>7. QED BY <1>4, <1>5, <1>6 DEF b

LEMMA CreatedOK ==
  ASSUME NEW a \in Apps, ProcessOK(a), a.jobs # <<>>, Head(a.jobs).op = "incoming",
         a.phase = "wait"
  PROVE LET b == AfterCreated(a)
            p == Head(a.jobs).id.p
        IN /\ b \in Apps /\ ProcessOK(b)
           /\ b.up /\ b.jobs = Tail(a.jobs) /\ b.phase = "check"
           /\ b.prf = [a.prf EXCEPT ![p] = Absent]
           /\ b.inst = a.inst \cup {a.prf[p]} /\ b.client = a.client /\ b.next = a.next
           /\ a.prf[p] \in Ids /\ a.prf[p].p = p
  <1> DEFINE p == Head(a.jobs).id.p
             id == a.prf[p]
             svc == [a.svc EXCEPT ![p] = IF id \notin a.inst THEN id ELSE Null]
             prf == [a.prf EXCEPT ![p] = Absent]
             c == [a EXCEPT !.prf = prf, !.told = @ \ {"job"}, !.inst = @ \cup {id}, !.svc = svc]
             b == AfterCreated(a)
  <1>1. p \in Profiles BY FirstJob
  <1>2. id \in Ids /\ id.p = p
    BY <1>1 DEF ProcessOK, Apps
  <1>3. svc \in [Profiles -> Ids \cup {Absent, Null}] /\ svc # NoService
    <2>1. svc[p] # Absent BY <1>1, <1>2, EntriesAssumption DEF Apps
    <2>2. QED BY <1>1, <1>2, <2>1 DEF Apps, NoService
  <1>4. prf \in [Profiles -> Ids \cup {Absent}] BY <1>1 DEF Apps
  <1>5. a.up /\ a.active BY DEF ProcessOK, Fresh
  <1>6. b = JobDone(c)
    BY DEF AfterCreated
  <1> HIDE DEF b, svc, prf
  <1>7. c \in Apps BY <1>2, <1>3, <1>4 DEF Apps
  <1>8. /\ c.up /\ c.jobs = a.jobs /\ c.prf = prf /\ c.svc = svc /\ c.active
        /\ c.inst = a.inst \cup {id} /\ c.client = a.client /\ c.next = a.next
    BY <1>5 DEF Apps
  <1> HIDE DEF c
  <1>9. /\ b.up /\ b.jobs = Tail(a.jobs) /\ b.prf = prf /\ b.phase = "check"
        /\ b.inst = a.inst \cup {id} /\ b.client = a.client /\ b.next = a.next
        /\ b.active /\ b.svc = svc
    BY <1>6, <1>7, <1>8, DoneFields
  <1>10. b \in Apps
    BY <1>6, <1>7, <1>8, FirstJob DEF JobDone, Apps
  <1>11. ProcessOK(b)
    <2>1. \A x \in Profiles : prf[x] # Absent => prf[x].p = x
      BY DEF prf, ProcessOK, Apps
    <2>2. QED BY <1>3, <1>9, <2>1 DEF ProcessOK
  <1>12. QED BY <1>2, <1>9, <1>10, <1>11 DEF b, prf

LEMMA NoLibOK ==
  ASSUME NEW a \in Apps, ProcessOK(a), a.jobs # <<>>, Head(a.jobs).op = "incoming",
         a.phase = "wait"
  PROVE LET b == AfterNoLib(a)
        IN /\ b \in Apps /\ ProcessOK(b)
           /\ b.up /\ b.jobs = Tail(a.jobs) /\ b.phase = "check" /\ b.prf = a.prf
           /\ b.inst = a.inst /\ b.client = a.client /\ b.next = a.next
  <1> DEFINE p == Head(a.jobs).id.p
             svc == [a.svc EXCEPT ![p] = Null]
             c == [a EXCEPT !.told = @ \ {"job"}, !.svc = svc]
             b == AfterNoLib(a)
  <1>1. p \in Profiles BY FirstJob
  <1>2. svc \in [Profiles -> Ids \cup {Absent, Null}] /\ svc # NoService
    <2>1. svc[p] # Absent BY <1>1, EntriesAssumption DEF Apps
    <2>2. QED BY <1>1, <2>1 DEF Apps, NoService
  <1>3. a.up /\ a.active BY DEF ProcessOK, Fresh
  <1>4. b = JobDone(c)
    BY DEF AfterNoLib
  <1> HIDE DEF b, svc
  <1>5. c \in Apps BY <1>2 DEF Apps
  <1>6. /\ c.up /\ c.jobs = a.jobs /\ c.prf = a.prf /\ c.svc = svc /\ c.active
        /\ c.inst = a.inst /\ c.client = a.client /\ c.next = a.next
    BY <1>3 DEF Apps
  <1> HIDE DEF c
  <1>7. /\ b.up /\ b.jobs = Tail(a.jobs) /\ b.prf = a.prf /\ b.phase = "check"
        /\ b.inst = a.inst /\ b.client = a.client /\ b.next = a.next
        /\ b.active /\ b.svc = svc
    BY <1>4, <1>5, <1>6, DoneFields
  <1>8. b \in Apps
    BY <1>4, <1>5, <1>6, FirstJob DEF JobDone, Apps
  <1>9. ProcessOK(b)
    BY <1>2, <1>7 DEF ProcessOK
  <1>10. QED BY <1>7, <1>8, <1>9 DEF b

LEMMA DeathOK ==
  ASSUME NEW a \in Apps, ProcessOK(a), a.jobs # <<>>, a.phase = "check"
  PROVE LET b == AfterDeath(a)
        IN /\ b \in Apps /\ ProcessOK(b)
           /\ b.up /\ b.jobs = Tail(a.jobs) /\ b.phase = "check" /\ b.prf = a.prf
           /\ b.inst = a.inst \ {Head(a.jobs).id} /\ b.client = a.client /\ b.next = a.next
  <1> DEFINE id == Head(a.jobs).id
             svc == [p \in Profiles |-> IF a.svc[p] = id THEN Absent ELSE a.svc[p]]
             c == [a EXCEPT !.inst = @ \ {id}, !.svc = svc, !.active = svc # NoService]
             b == AfterDeath(a)
  <1>1. svc \in [Profiles -> Ids \cup {Absent, Null}] BY DEF Apps
  <1>2. a.up BY DEF ProcessOK, Fresh
  <1>3. b = JobDone(c) BY DEF AfterDeath
  <1> HIDE DEF b, svc
  <1>4. (svc # NoService) \in BOOLEAN OBVIOUS
  <1>5. c \in Apps BY <1>1, <1>4 DEF Apps
  <1>6. /\ c.up /\ c.jobs = a.jobs /\ c.prf = a.prf /\ c.svc = svc
        /\ c.active = (svc # NoService)
        /\ c.inst = a.inst \ {id} /\ c.client = a.client /\ c.next = a.next
    BY <1>2 DEF Apps
  <1> HIDE DEF c
  <1>7. /\ b.up /\ b.jobs = Tail(a.jobs) /\ b.prf = a.prf /\ b.phase = "check"
        /\ b.inst = a.inst \ {id} /\ b.client = a.client /\ b.next = a.next
        /\ b.active = (svc # NoService) /\ b.svc = svc
    BY <1>3, <1>5, <1>6, DoneFields
  <1>8. b \in Apps
    BY <1>3, <1>5, <1>6, FirstJob DEF JobDone, Apps
  <1>9. ProcessOK(b)
    BY <1>7 DEF ProcessOK
  <1>10. QED BY <1>7, <1>8, <1>9 DEF b

-----------------------------------------------------------------------------
(* The events of an application's connection, as its queue grows and shrinks.  *)

LEMMA EventLives ==
  ASSUME NEW e \in Events, OfLife(e)
  PROVE e.life \in Nat \ {0}
  <1>1. e.life \in 1 .. MaxLives BY EventFields DEF OfLife
  <1>2. QED BY <1>1, BoundsAssumption

\* Events that are not about the connection or the creations change nothing.
LEMMA OrderedQuiet ==
  ASSUME NEW q \in Seq(Events), NEW evs \in Seq(Events), NEW k, NEW l, NEW up,
         Ordered(q, k, l, up), \A i \in DOMAIN evs : ~OfLife(evs[i])
  PROVE Ordered(q \o evs, k, l, up)
  <1> DEFINE r == q \o evs
  <1>1. /\ \A i \in DOMAIN q : i \in DOMAIN r /\ r[i] = q[i]
        /\ \A i \in DOMAIN r : i \in DOMAIN q \/ ~OfLife(r[i])
        /\ \A i, j \in DOMAIN r : i < j /\ j \in DOMAIN q => i \in DOMAIN q
        /\ DOMAIN r \subseteq Nat
    <2>1. \A i, j \in DOMAIN r : i < j /\ j \in DOMAIN q => i \in DOMAIN q
      OBVIOUS
    <2>2. QED BY <2>1, Appended
  <1> HIDE DEF r
  <1>2. \A op, x : Queued(q, op, x) => Queued(r, op, x)
    BY <1>1 DEF Queued
  <1>3. \A i, j \in DOMAIN r : i < j => Before(r[i], r[j])
    BY <1>1 DEF Ordered, Before
  <1>4. \A i \in DOMAIN r : OfLife(r[i]) => r[i].life <= l /\ k <= r[i].life
    BY <1>1 DEF Ordered
  <1>5. \A i \in DOMAIN r :
       /\ r[i].op = "connected" =>
            k < r[i].life /\ ((up /\ r[i].life = l) \/ Queued(r, "lost", r[i].life))
       /\ r[i].op = "create" =>
            \/ k = r[i].life
            \/ \E j \in DOMAIN r : j < i /\ r[j].op = "connected" /\ r[j].life = r[i].life
       /\ r[i].op = "lost" /\ up => r[i].life < l
    <2> TAKE i \in DOMAIN r
    <2>1. CASE ~OfLife(r[i]) BY <2>1 DEF OfLife
    <2>2. CASE OfLife(r[i])
      <3>1. i \in DOMAIN q /\ r[i] = q[i] BY <1>1, <2>2
      <3>2. q[i].op = "create" =>
              \/ k = q[i].life
              \/ \E j \in DOMAIN q : j < i /\ q[j].op = "connected" /\ q[j].life = q[i].life
        BY <3>1 DEF Ordered
      <3>3. QED BY <1>1, <1>2, <3>1, <3>2 DEF Ordered
    <2>3. QED BY <2>1, <2>2
  <1>6. /\ up => (k = l) \/ Queued(r, "connected", l)
        /\ k # 0 => (up /\ k = l) \/ Queued(r, "lost", k)
    BY <1>2 DEF Ordered
  <1>7. QED BY <1>3, <1>4, <1>5, <1>6 DEF Ordered, r

\* A creation of the application's life.
LEMMA OrderedCreate ==
  ASSUME NEW q \in Seq(Events), NEW e \in Events, NEW k \in Nat, NEW l \in Nat, NEW up,
         Ordered(q, k, l, up), up, e.op = "create", e.life = l
  PROVE Ordered(q \o <<e>>, k, l, up)
  <1> DEFINE r == q \o <<e>>
  <1>0. <<e>> \in Seq(Events) OBVIOUS
  <1>1. /\ \A i \in DOMAIN q : i \in DOMAIN r /\ r[i] = q[i]
        /\ \A i \in DOMAIN r : i \in DOMAIN q \/ (i = Len(q) + 1 /\ r[i] = e)
        /\ \A i, j \in DOMAIN r : i < j => i \in DOMAIN q
        /\ \A i \in DOMAIN q : i < Len(q) + 1
        /\ DOMAIN r \subseteq Nat
    OBVIOUS
  <1>t. \A i \in DOMAIN q : q[i] \in Events OBVIOUS
  <1> HIDE DEF r
  <1>2. \A op, x : Queued(q, op, x) => Queued(r, op, x)
    BY <1>1 DEF Queued
  <1>3. \A i, j \in DOMAIN r : i < j => Before(r[i], r[j])
    <2> SUFFICES ASSUME NEW i \in DOMAIN r, NEW j \in DOMAIN r, i < j,
                        OfLife(r[i]), OfLife(r[j])
                 PROVE /\ r[i].life <= r[j].life
                       /\ (r[i].op = "lost" \/ r[j].op = "connected") => r[i].life < r[j].life
      BY DEF Before
    <2>1. i \in DOMAIN q /\ r[i] = q[i] BY <1>1
    <2>2. CASE j \in DOMAIN q
      BY <1>1, <2>1, <2>2 DEF Ordered, Before
    <2>3. CASE r[j] = e
      <3>1. q[i].life <= l BY <2>1 DEF Ordered
      <3>2. q[i].op = "lost" => q[i].life < l BY <2>1 DEF Ordered
      <3>3. QED BY <2>1, <2>3, <3>1, <3>2
    <2>4. QED BY <1>1, <2>2, <2>3
  <1>4. up => (k = l) \/ Queued(q, "connected", l) BY DEF Ordered
  <1>5. k <= l
    <2>1. CASE k = l BY <2>1
    <2>2. CASE Queued(q, "connected", l)
      <3>1. PICK i \in DOMAIN q : q[i].op = "connected" /\ q[i].life = l BY <2>2 DEF Queued
      <3>2. QED BY <3>1 DEF Ordered, OfLife
    <2>3. QED BY <1>4, <2>1, <2>2
  <1>6. \A i \in DOMAIN r : OfLife(r[i]) => r[i].life <= l /\ k <= r[i].life
    BY <1>1, <1>5 DEF Ordered
  <1>7. \A i \in DOMAIN r :
       /\ r[i].op = "connected" =>
            k < r[i].life /\ ((up /\ r[i].life = l) \/ Queued(r, "lost", r[i].life))
       /\ r[i].op = "create" =>
            \/ k = r[i].life
            \/ \E j \in DOMAIN r : j < i /\ r[j].op = "connected" /\ r[j].life = r[i].life
       /\ r[i].op = "lost" /\ up => r[i].life < l
    <2> TAKE i \in DOMAIN r
    <2>1. CASE i \in DOMAIN q
      <3>1. r[i] = q[i] BY <1>1, <2>1
      <3>2. q[i].op = "create" =>
              \/ k = q[i].life
              \/ \E j \in DOMAIN q : j < i /\ q[j].op = "connected" /\ q[j].life = q[i].life
        BY <2>1 DEF Ordered
      <3>3. QED BY <1>1, <1>2, <2>1, <3>1, <3>2 DEF Ordered
    <2>2. CASE i = Len(q) + 1 /\ r[i] = e
      <3>1. CASE k = l BY <2>2, <3>1
      <3>2. CASE Queued(q, "connected", l)
        <4>1. PICK j \in DOMAIN q : q[j].op = "connected" /\ q[j].life = l
          BY <3>2 DEF Queued
        <4>2. QED BY <1>1, <2>2, <4>1
      <3>3. QED BY <1>4, <3>1, <3>2
    <2>3. QED BY <1>1, <2>1, <2>2
  <1>8. /\ up => (k = l) \/ Queued(r, "connected", l)
        /\ k # 0 => (up /\ k = l) \/ Queued(r, "lost", k)
    BY <1>2 DEF Ordered
  <1>9. QED BY <1>3, <1>6, <1>7, <1>8 DEF Ordered, r

\* A new life connects.
LEMMA OrderedConnect ==
  ASSUME NEW q \in Seq(Events), NEW e \in Events, NEW k \in Nat, NEW l \in Nat,
         Ordered(q, k, l, FALSE), k <= l, e.op = "connected", e.life = l + 1
  PROVE Ordered(q \o <<e>>, k, l + 1, TRUE)
  <1> DEFINE r == q \o <<e>>
  <1>1. /\ \A i \in DOMAIN q : i \in DOMAIN r /\ r[i] = q[i]
        /\ \A i \in DOMAIN r : i \in DOMAIN q \/ (i = Len(q) + 1 /\ r[i] = e)
        /\ \A i, j \in DOMAIN r : i < j => i \in DOMAIN q
        /\ \A i \in DOMAIN q : i < Len(q) + 1
        /\ DOMAIN r \subseteq Nat
        /\ Len(q) + 1 \in DOMAIN r /\ r[Len(q) + 1] = e
    OBVIOUS
  <1>t. \A i \in DOMAIN q : OfLife(q[i]) => q[i].life \in Nat /\ q[i].life <= l
    BY EventLives DEF Ordered
  <1> HIDE DEF r
  <1>2. \A op, x : Queued(q, op, x) => Queued(r, op, x)
    BY <1>1 DEF Queued
  <1>3. \A i, j \in DOMAIN r : i < j => Before(r[i], r[j])
    <2> SUFFICES ASSUME NEW i \in DOMAIN r, NEW j \in DOMAIN r, i < j,
                        OfLife(r[i]), OfLife(r[j])
                 PROVE /\ r[i].life <= r[j].life
                       /\ (r[i].op = "lost" \/ r[j].op = "connected") => r[i].life < r[j].life
      BY DEF Before
    <2>1. i \in DOMAIN q /\ r[i] = q[i] BY <1>1
    <2>2. CASE j \in DOMAIN q
      BY <1>1, <2>1, <2>2 DEF Ordered, Before
    <2>3. CASE r[j] = e
      <3>1. q[i].life \in Nat /\ q[i].life <= l BY <1>t, <2>1
      <3>2. QED BY <2>1, <2>3, <3>1
    <2>4. QED BY <1>1, <2>2, <2>3
  <1>4. \A i \in DOMAIN r : OfLife(r[i]) => r[i].life <= l + 1 /\ k <= r[i].life
    <2> SUFFICES ASSUME NEW i \in DOMAIN r, OfLife(r[i])
                 PROVE r[i].life <= l + 1 /\ k <= r[i].life
      OBVIOUS
    <2>1. CASE i \in DOMAIN q
      <3>1. q[i].life \in Nat /\ q[i].life <= l /\ k <= q[i].life
        BY <1>1, <1>t, <2>1 DEF Ordered
      <3>2. QED BY <1>1, <2>1, <3>1
    <2>2. CASE r[i] = e BY <2>2
    <2>3. QED BY <1>1, <2>1, <2>2
  <1>5. \A i \in DOMAIN r :
       /\ r[i].op = "connected" =>
            k < r[i].life /\ ((TRUE /\ r[i].life = l + 1) \/ Queued(r, "lost", r[i].life))
       /\ r[i].op = "create" =>
            \/ k = r[i].life
            \/ \E j \in DOMAIN r : j < i /\ r[j].op = "connected" /\ r[j].life = r[i].life
       /\ r[i].op = "lost" /\ TRUE => r[i].life < l + 1
    <2> TAKE i \in DOMAIN r
    <2>1. CASE i \in DOMAIN q
      <3>1. r[i] = q[i] BY <1>1, <2>1
      <3>2. q[i].op = "create" =>
              \/ k = q[i].life
              \/ \E j \in DOMAIN q : j < i /\ q[j].op = "connected" /\ q[j].life = q[i].life
        BY <2>1 DEF Ordered
      <3>3. q[i].op = "lost" => q[i].life < l + 1 BY <1>t, <2>1 DEF OfLife
      <3>4. q[i].op = "connected" => k < q[i].life /\ Queued(q, "lost", q[i].life)
        BY <2>1 DEF Ordered
      <3>5. QED BY <1>1, <1>2, <2>1, <3>1, <3>2, <3>3, <3>4
    <2>2. CASE i = Len(q) + 1 /\ r[i] = e
      BY <2>2
    <2>3. QED BY <1>1, <2>1, <2>2
  <1>6. Queued(r, "connected", l + 1) BY <1>1 DEF Queued
  <1>7. k # 0 => Queued(r, "lost", k)
    BY <1>2 DEF Ordered
  <1>8. QED BY <1>3, <1>4, <1>5, <1>6, <1>7 DEF Ordered, r

\* The process is gone.
LEMMA OrderedLose ==
  ASSUME NEW q \in Seq(Events), NEW e \in Events, NEW k \in Nat, NEW l \in Nat,
         Ordered(q, k, l, TRUE), k <= l, e.op = "lost", e.life = l
  PROVE Ordered(q \o <<e>>, k, l, FALSE)
  <1> DEFINE r == q \o <<e>>
  <1>1. /\ \A i \in DOMAIN q : i \in DOMAIN r /\ r[i] = q[i]
        /\ \A i \in DOMAIN r : i \in DOMAIN q \/ (i = Len(q) + 1 /\ r[i] = e)
        /\ \A i, j \in DOMAIN r : i < j => i \in DOMAIN q
        /\ DOMAIN r \subseteq Nat
        /\ Len(q) + 1 \in DOMAIN r /\ r[Len(q) + 1] = e
    OBVIOUS
  <1> HIDE DEF r
  <1>2. \A op, x : Queued(q, op, x) => Queued(r, op, x)
    BY <1>1 DEF Queued
  <1>3. Queued(r, "lost", l) BY <1>1 DEF Queued
  <1>4. \A i, j \in DOMAIN r : i < j => Before(r[i], r[j])
    <2> SUFFICES ASSUME NEW i \in DOMAIN r, NEW j \in DOMAIN r, i < j,
                        OfLife(r[i]), OfLife(r[j])
                 PROVE /\ r[i].life <= r[j].life
                       /\ (r[i].op = "lost" \/ r[j].op = "connected") => r[i].life < r[j].life
      BY DEF Before
    <2>1. i \in DOMAIN q /\ r[i] = q[i] BY <1>1
    <2>2. CASE j \in DOMAIN q
      BY <1>1, <2>1, <2>2 DEF Ordered, Before
    <2>3. CASE r[j] = e
      <3>1. q[i].life <= l BY <2>1 DEF Ordered
      <3>2. q[i].op = "lost" => q[i].life < l BY <2>1 DEF Ordered
      <3>3. QED BY <2>1, <2>3, <3>1, <3>2
    <2>4. QED BY <1>1, <2>2, <2>3
  <1>5. \A i \in DOMAIN r : OfLife(r[i]) => r[i].life <= l /\ k <= r[i].life
    BY <1>1 DEF Ordered
  <1>6. \A i \in DOMAIN r :
       /\ r[i].op = "connected" =>
            k < r[i].life /\ ((FALSE /\ r[i].life = l) \/ Queued(r, "lost", r[i].life))
       /\ r[i].op = "create" =>
            \/ k = r[i].life
            \/ \E j \in DOMAIN r : j < i /\ r[j].op = "connected" /\ r[j].life = r[i].life
       /\ r[i].op = "lost" /\ FALSE => r[i].life < l
    <2> TAKE i \in DOMAIN r
    <2>1. CASE i \in DOMAIN q
      <3>1. r[i] = q[i] BY <1>1, <2>1
      <3>2. q[i].op = "create" =>
              \/ k = q[i].life
              \/ \E j \in DOMAIN q : j < i /\ q[j].op = "connected" /\ q[j].life = q[i].life
        BY <2>1 DEF Ordered
      <3>3. q[i].op = "connected" => k < q[i].life /\ (q[i].life = l \/ Queued(q, "lost", q[i].life))
        BY <2>1 DEF Ordered
      <3>4. QED BY <1>1, <1>2, <1>3, <2>1, <3>1, <3>2, <3>3
    <2>2. CASE r[i] = e
      BY <2>2
    <2>3. QED BY <1>1, <2>1, <2>2
  <1>7. k # 0 => Queued(r, "lost", k)
    BY <1>2, <1>3 DEF Ordered
  <1>8. QED BY <1>4, <1>5, <1>6, <1>7 DEF Ordered, r

\* Handling the first event of the queue.
LEMMA OrderedHandle ==
  ASSUME NEW q \in Seq(Events), NEW k \in Nat, NEW l \in Nat, NEW up,
         Ordered(q, k, l, up), q # <<>>
  PROVE LET e == Head(q)
            r == Tail(q)
        IN /\ e.op \notin {"connected", "lost"} => Ordered(r, k, l, up)
           /\ e.op = "create" => k = e.life
           /\ e.op = "connected" => Ordered(r, e.life, l, up)
           /\ e.op = "lost" => Ordered(r, 0, l, up)
  <1> DEFINE e == Head(q)
             r == Tail(q)
  <1>1. /\ e = q[1] /\ 1 \in DOMAIN q /\ e \in Events
        /\ \A i \in DOMAIN r : i + 1 \in DOMAIN q /\ r[i] = q[i + 1]
        /\ \A i \in DOMAIN q : i = 1 \/ (i - 1 \in DOMAIN r /\ q[i] = r[i - 1])
        /\ DOMAIN r \subseteq Nat \ {0} /\ DOMAIN q \subseteq Nat \ {0}
        /\ \A i \in DOMAIN r : 1 < i + 1
    BY Handled
  <1>t. \A i \in DOMAIN q : OfLife(q[i]) => q[i].life \in Nat \ {0} /\ q[i].life <= l
    BY EventLives DEF Ordered
  <1> HIDE DEF r, e
  <1>2. \A op, x : Queued(q, op, x) /\ (e.op # op \/ e.life # x) => Queued(r, op, x)
    BY <1>1 DEF Queued
  <1>3. \A i, j \in DOMAIN r : i < j => Before(r[i], r[j])
    <2> SUFFICES ASSUME NEW i \in DOMAIN r, NEW j \in DOMAIN r, i < j
                 PROVE Before(r[i], r[j])
      OBVIOUS
    <2>1. i + 1 < j + 1 BY <1>1
    <2>2. QED BY <1>1, <2>1 DEF Ordered
  \* What Ordered says of the events that stay.
  <1>4. \A i \in DOMAIN r : OfLife(r[i]) =>
          /\ r[i].life \in Nat \ {0} /\ r[i].life <= l /\ k <= r[i].life
          /\ OfLife(e) => e.life <= r[i].life
          /\ OfLife(e) /\ (e.op = "lost" \/ r[i].op = "connected") => e.life < r[i].life
    <2> SUFFICES ASSUME NEW i \in DOMAIN r, OfLife(r[i])
                 PROVE /\ r[i].life \in Nat \ {0} /\ r[i].life <= l /\ k <= r[i].life
                       /\ OfLife(e) => e.life <= r[i].life
                       /\ OfLife(e) /\ (e.op = "lost" \/ r[i].op = "connected")
                            => e.life < r[i].life
      OBVIOUS
    <2>1. i + 1 \in DOMAIN q /\ r[i] = q[i + 1] /\ 1 < i + 1 BY <1>1
    <2>2. Before(e, r[i]) BY <1>1, <2>1 DEF Ordered
    <2>3. k <= q[i + 1].life BY <2>1 DEF Ordered
    <2>4. QED BY <1>t, <2>1, <2>2, <2>3 DEF Before
  <1>5. \A i \in DOMAIN r :
          /\ r[i].op = "connected" =>
               k < r[i].life /\ ((up /\ r[i].life = l) \/ Queued(q, "lost", r[i].life))
          /\ r[i].op = "lost" /\ up => r[i].life < l
    <2> TAKE i \in DOMAIN r
    <2>1. i + 1 \in DOMAIN q /\ r[i] = q[i + 1] BY <1>1
    <2>2. QED BY <2>1 DEF Ordered
  <1>6. \A i \in DOMAIN r : r[i].op = "create" =>
          \/ k = r[i].life
          \/ e.op = "connected" /\ e.life = r[i].life
          \/ \E j \in DOMAIN r : j < i /\ r[j].op = "connected" /\ r[j].life = r[i].life
    <2> SUFFICES ASSUME NEW i \in DOMAIN r, r[i].op = "create", k # r[i].life
                 PROVE \/ e.op = "connected" /\ e.life = r[i].life
                       \/ \E j \in DOMAIN r : j < i /\ r[j].op = "connected"
                                                    /\ r[j].life = r[i].life
      OBVIOUS
    <2>1. i + 1 \in DOMAIN q /\ r[i] = q[i + 1] BY <1>1
    <2>2. PICK j \in DOMAIN q : j < i + 1 /\ q[j].op = "connected" /\ q[j].life = r[i].life
      BY <2>1 DEF Ordered
    <2>3. CASE j = 1 BY <1>1, <2>2, <2>3
    <2>4. CASE j # 1
      <3>1. j - 1 \in DOMAIN r /\ q[j] = r[j - 1] /\ j - 1 < i
        BY <1>1, <2>2, <2>4
      <3>2. QED BY <2>2, <3>1
    <2>5. QED BY <2>3, <2>4
  <1>7. /\ up => (k = l) \/ Queued(q, "connected", l)
        /\ k # 0 => (up /\ k = l) \/ Queued(q, "lost", k)
    BY DEF Ordered
  \* What it says of the handled event.
  <1>8. /\ OfLife(e) => e.life <= l /\ k <= e.life /\ e.life \in Nat \ {0}
        /\ e.op = "connected" => k < e.life
                                 /\ ((up /\ e.life = l) \/ Queued(q, "lost", e.life))
        /\ e.op = "lost" /\ up => e.life < l
        /\ e.op = "create" => k = e.life
    <2>1. \A j \in DOMAIN q : ~(j < 1) BY <1>1
    <2>2. QED BY <1>1, <1>t, <2>1 DEF Ordered
  <1>9. e.op \notin {"connected", "lost"} => Ordered(r, k, l, up)
    <2> HAVE e.op \notin {"connected", "lost"}
    <2>1. \A op, x : op \in {"connected", "lost"} /\ Queued(q, op, x) => Queued(r, op, x)
      BY <1>2
    <2>2. \A i \in DOMAIN r : OfLife(r[i]) => r[i].life <= l /\ k <= r[i].life
      BY <1>4
    <2>3. QED BY <1>3, <1>5, <1>6, <1>7, <2>1, <2>2 DEF Ordered
  <1>10. e.op = "connected" => Ordered(r, e.life, l, up)
    <2> HAVE e.op = "connected"
    <2>1. OfLife(e) BY DEF OfLife
    <2>2. \A x : Queued(q, "lost", x) => Queued(r, "lost", x)
      BY <1>2
    <2>3. \A i \in DOMAIN r : OfLife(r[i]) => r[i].life <= l /\ e.life <= r[i].life
      BY <1>4, <2>1
    <2>4. \A i \in DOMAIN r :
            /\ r[i].op = "connected" =>
                 e.life < r[i].life /\ ((up /\ r[i].life = l) \/ Queued(r, "lost", r[i].life))
            /\ r[i].op = "create" =>
                 \/ e.life = r[i].life
                 \/ \E j \in DOMAIN r : j < i /\ r[j].op = "connected" /\ r[j].life = r[i].life
            /\ r[i].op = "lost" /\ up => r[i].life < l
      <3> TAKE i \in DOMAIN r
      <3>1. r[i].op = "create" => k # r[i].life
        BY <1>4, <1>8, <2>1 DEF OfLife
      <3>2. r[i].op = "connected" => e.life < r[i].life
        BY <1>4, <2>1 DEF OfLife
      <3>3. QED BY <1>5, <1>6, <2>2, <3>1, <3>2
    <2>5. up => e.life = l \/ Queued(r, "connected", l)
      BY <1>2, <1>7, <1>8, <2>1
    <2>6. e.life # 0 => (up /\ e.life = l) \/ Queued(r, "lost", e.life)
      BY <1>8, <2>2
    <2>7. QED BY <1>3, <2>3, <2>4, <2>5, <2>6 DEF Ordered
  <1>11. e.op = "lost" => Ordered(r, 0, l, up)
    <2> HAVE e.op = "lost"
    <2>1. OfLife(e) BY DEF OfLife
    <2>2. \A x : Queued(q, "connected", x) => Queued(r, "connected", x)
      BY <1>2
    <2>3. \A i \in DOMAIN r : OfLife(r[i]) => r[i].life <= l /\ 0 <= r[i].life
      BY <1>4
    <2>4. \A i \in DOMAIN r :
            /\ r[i].op = "connected" =>
                 0 < r[i].life /\ ((up /\ r[i].life = l) \/ Queued(r, "lost", r[i].life))
            /\ r[i].op = "create" =>
                 \/ 0 = r[i].life
                 \/ \E j \in DOMAIN r : j < i /\ r[j].op = "connected" /\ r[j].life = r[i].life
            /\ r[i].op = "lost" /\ up => r[i].life < l
      <3> TAKE i \in DOMAIN r
      <3>1. OfLife(r[i]) => e.life < r[i].life /\ r[i].life \in Nat \ {0}
        BY <1>4, <2>1
      <3>2. OfLife(r[i]) => k # r[i].life /\ e.life # r[i].life
        BY <1>8, <2>1, <3>1
      <3>3. r[i].op = "connected" /\ Queued(q, "lost", r[i].life) => Queued(r, "lost", r[i].life)
        BY <1>2, <3>2 DEF OfLife
      <3>4. r[i].op = "connected" => 0 < r[i].life BY <3>1 DEF OfLife
      <3>5. r[i].op = "create" => k # r[i].life BY <3>2 DEF OfLife
      <3>6. QED BY <1>5, <1>6, <3>3, <3>4, <3>5
    <2>5. up => 0 = l \/ Queued(r, "connected", l)
      <3> HAVE up
      <3>1. k # l BY <1>8, <2>1
      <3>2. QED BY <1>7, <2>2, <3>1
    <2>6. QED BY <1>3, <2>3, <2>4, <2>5 DEF Ordered
  <1>12. QED BY <1>8, <1>9, <1>10, <1>11 DEF e, r

-----------------------------------------------------------------------------
(* The steps of a process that stays up, by what they do to its instances, its *)
(* jobs and the events it sends.                                               *)

Keeps(a, b) == b.jobs = a.jobs /\ b.prf = a.prf /\ b.phase = a.phase
DropsJob(a, b) == a.jobs # <<>> /\ b.jobs = Tail(a.jobs) /\ b.phase = "check"

Continues(a, b, evs) ==
  /\ \A i \in DOMAIN evs : evs[i].op = "ask"
  /\ b.inst = a.inst /\ b.jobs = a.jobs /\ b.prf = a.prf
  /\ b.phase \in {"check", "put"} => a.phase \in {"check", "put"}
LoadsOne(n, a, b, evs) ==
  \E id \in Ids :
    /\ Keeps(a, b) /\ b.inst = a.inst \cup {id}
    /\ Unborn(n, id) /\ ~Unborn(n, id)'
    /\ evs[1] = Event("create", id, life[n]) /\ 1 \in DOMAIN evs
    /\ \A i \in DOMAIN evs : i # 1 => evs[i].op = "ask"
UnloadsAll(a, b, evs) ==
  /\ \E H \in SUBSET Ids :
       /\ b.inst = a.inst \ H
       /\ \A i \in DOMAIN evs : evs[i].op = "died" /\ evs[i].id \in H
       /\ \A id \in H : InQueue(evs, "died", id)
  /\ \/ Keeps(a, b)
     \/ DropsJob(a, b) /\ b.prf = a.prf /\ Head(a.jobs).op = "incoming"
RequestsOne(a, b, evs) ==
  LET id == Head(a.jobs).id IN
  /\ evs = <<>> /\ b.inst = a.inst /\ b.jobs = a.jobs /\ a.jobs # <<>>
  /\ Head(a.jobs).op = "incoming" /\ a.phase \in {"check", "put"} /\ b.phase = "request"
  /\ \A p \in Profiles : b.prf[p] = a.prf[p] \/ (b.prf[p] = id /\ p = id.p)
GivesUpJob(a, b, evs) ==
  /\ evs = <<>> /\ b.inst = a.inst /\ b.prf = a.prf /\ DropsJob(a, b)
  /\ Head(a.jobs).op = "incoming" \/ (Head(a.jobs).op = "died" /\ Head(a.jobs).id \notin a.inst)
MakesOne(n, a, b, evs) ==
  LET p == Head(a.jobs).id.p
      id == a.prf[p]
  IN /\ DropsJob(a, b) /\ Head(a.jobs).op = "incoming" /\ a.phase = "wait"
     /\ b.prf = [a.prf EXCEPT ![p] = Absent] /\ b.inst = a.inst \cup {id}
     /\ id \in Ids /\ id.p = p
     /\ evs = IF id \notin a.inst THEN <<Event("create", id, life[n])>> ELSE <<>>
RemovesOne(a, b, evs) ==
  /\ evs = <<>> /\ DropsJob(a, b) /\ Head(a.jobs).op = "died" /\ b.prf = a.prf
  /\ b.inst = a.inst \ {Head(a.jobs).id}

Kind(n, a, b, evs) ==
  \/ Continues(a, b, evs) \/ LoadsOne(n, a, b, evs) \/ UnloadsAll(a, b, evs)
  \/ RequestsOne(a, b, evs) \/ GivesUpJob(a, b, evs) \/ MakesOne(n, a, b, evs)
  \/ RemovesOne(a, b, evs)

Effect(n, b, evs) ==
  /\ b \in Apps /\ ProcessOK(b) /\ b.up /\ app[n].up /\ app' = [app EXCEPT ![n] = b]
  /\ evs \in Seq(Events) /\ events' = [events EXCEPT ![n] = @ \o evs]
  /\ UNCHANGED <<pmpVars, requests, life, missed>>
  /\ done' \in [Node -> [loads : 0 .. MaxLoads, unloads : Nat, crashes : Nat, losses : Nat]]
  /\ \A m \in Node \ {n} : done'[m].loads = done[m].loads
  /\ b.client # "idle" => done'[n].loads # 0
  /\ dropped' = dropped \/ \E S \in SUBSET Ids : dropped' = [dropped EXCEPT ![n] = @ \cup S]
  /\ \A id \in Ids : Unborn(n, id)' => Unborn(n, id)
  /\ Kind(n, app[n], b, evs)

\* The client thread only ever makes identifiers fewer to come.
LEMMA UnbornFalls ==
  ASSUME NEW n \in Node, NEW b \in Apps, NEW a \in Apps, app[n] = a, app'[n] = b,
         b.client = "idle" \/ b.client = "loaded" \/ (b.client = a.client /\ b.next = a.next),
         done'[n].loads = done[n].loads
  PROVE \A id \in Ids : Unborn(n, id)' => Unborn(n, id)
  BY DEF Unborn

NoEvents(n) == events' = [events EXCEPT ![n] = @ \o <<>>]
LEMMA NoEventsSent ==
  ASSUME VarsOK, NEW n \in Node, UNCHANGED events
  PROVE NoEvents(n)
  <1>1. events[n] \in Seq(Events) BY DEF VarsOK
  <1>2. events[n] \o <<>> = events[n] BY <1>1
  <1>3. QED BY <1>2 DEF NoEvents, VarsOK

LEMMA ClientEffect ==
  ASSUME TypeOK, ProcessInv, NEW n \in Node,
         \/ ClientStep(n) \/ LoadService(n) \/ LoadFails(n) \/ UnloadService(n)
  PROVE (\E b, evs : Effect(n, b, evs)) \/ (Dies(n) /\ DoneKeeps(n) /\ app[n].up)
  <1> DEFINE a == app[n]
             Goal == (\E b, evs : Effect(n, b, evs)) \/ (Dies(n) /\ DoneKeeps(n) /\ app[n].up)
  <1>0. VarsOK /\ CountsOK /\ ProcessesOK
    BY TypeParts
  <1>1. a \in Apps /\ ProcessOK(a) /\ app \in [Node -> Apps]
    BY <1>0 DEF ProcessesOK, ProcessInv
  <1>2. <<>> \in Seq(Events) OBVIOUS
  <1>3. UNCHANGED done => DoneKeeps(n)
    BY <1>0 DEF DoneKeeps, CountsOK
  <1>4. \A b : app' = [app EXCEPT ![n] = b] => app'[n] = b
    BY <1>1
  <1>5. a.client # "idle" => done[n].loads # 0 /\ a.up
    BY <1>1 DEF ProcessInv, ProcessOK, Fresh
  <1>6. a.up => life[n] \in 1 .. MaxLives
    BY <1>0, BoundsAssumption DEF ProcessInv, CountsOK
  <1>7. CASE RegisterCallbacks(n)
    <2> USE <1>7 DEF RegisterCallbacks, AppStep
    <2> DEFINE b == [a EXCEPT !.cbs = TRUE]
    <2>1. b \in Apps BY <1>1 DEF Apps
    <2>2. /\ b.up = a.up /\ b.jobs = a.jobs /\ b.prf = a.prf /\ b.phase = a.phase
          /\ b.inst = a.inst /\ b.client = a.client /\ b.next = a.next
          /\ b.active = a.active /\ b.own = a.own /\ b.svc = a.svc
      BY <1>1 DEF Apps
    <2>3. app' = [app EXCEPT ![n] = b] OBVIOUS
    <2> HIDE DEF b
    <2>4. ProcessOK(b) BY <1>1, <2>1, <2>2 DEF ProcessOK
    <2>5. NoEvents(n) BY <1>0, NoEventsSent
    <2>6. Continues(a, b, <<>>) BY <2>2 DEF Continues
    <2>7. \A id \in Ids : Unborn(n, id)' => Unborn(n, id)
      BY <1>1, <1>4, <2>1, <2>2, <2>3, UnbornFalls
    <2>8. Effect(n, b, <<>>)
      BY <1>2, <1>3, <1>5, <2>1, <2>2, <2>3, <2>4, <2>5, <2>6, <2>7
         DEF Effect, Kind, NoEvents, DoneKeeps
    <2>9. QED BY <2>8
  <1>8. CASE LoadService(n)
    <2> USE <1>8 DEF LoadService, AppStep
    <2> DEFINE b == AfterLoad(n)
    <2>1. app' = [app EXCEPT ![n] = b] BY DEF AfterLoad
    <2>2. /\ b \in Apps /\ ProcessOK(b)
          /\ b.up /\ b.jobs = a.jobs /\ b.prf = a.prf /\ b.phase = a.phase
          /\ b.inst = a.inst /\ b.client = "checked" /\ b.next = a.next
      BY <1>1, AfterLoadOK
    <2> HIDE DEF b
    <2>3. /\ done' \in [Node -> [loads : 0 .. MaxLoads, unloads : Nat, crashes : Nat, losses : Nat]]
          /\ \A m \in Node \ {n} : done'[m].loads = done[m].loads
          /\ done'[n].loads = done[n].loads + 1 /\ done[n].loads \in Nat
      <3>1. /\ done[n].loads < scenario.loads[n]
            /\ done' = [done EXCEPT ![n].loads = @ + 1]
        OBVIOUS
      <3>2. MaxLoads \in Nat BY BoundsAssumption
      <3>3. n \in Node OBVIOUS
      <3>4. done[n].loads \in 0 .. MaxLoads BY <1>0, CountTypes
      <3>5. QED BY ONLY <1>0, <3>1, <3>2, <3>3, <3>4, LoadCount
    <2>4. \A id \in Ids : Unborn(n, id)' => Unborn(n, id)
      <3> SUFFICES ASSUME NEW id \in Ids, Unborn(n, id)' PROVE Unborn(n, id)
        OBVIOUS
      <3>1. app'[n] = b BY <1>4, <2>1
      <3>2. id.by = n /\ id.k \in Nat /\ (id.k > done'[n].loads \/ id.k = done'[n].loads)
        BY DEF Unborn, Ids
      <3>3. id.k > done[n].loads
        BY <2>3, <3>2
      <3>4. QED BY <3>2, <3>3 DEF Unborn
    <2>5. NoEvents(n) BY <1>0, NoEventsSent
    <2>6. Continues(a, b, <<>>) BY <2>2 DEF Continues
    <2>7. done'[n].loads # 0 BY <2>3
    <2>8. Kind(n, a, b, <<>>) BY <2>6 DEF Kind
    <2>9. Effect(n, b, <<>>)
      BY <1>2, <2>1, <2>2, <2>3, <2>4, <2>5, <2>7, <2>8 DEF Effect, NoEvents
    <2>10. QED BY <2>9
  <1>9. CASE StartLoading(n)
    <2> USE <1>9 DEF StartLoading, AppStep
    <2> DEFINE b == AfterStart(n)
               evs == <<Ask(n, "client")>>
    <2>1. app' = [app EXCEPT ![n] = b] BY DEF AfterStart
    <2>2. /\ b \in Apps /\ ProcessOK(b)
          /\ b.up /\ b.jobs = a.jobs /\ b.prf = a.prf /\ b.phase = a.phase
          /\ b.inst = a.inst /\ b.client = "loading" /\ b.next = 1
      BY <1>1, <1>5, AfterStartOK
    <2> HIDE DEF b
    <2>3. \A id \in Ids : Unborn(n, id)' => Unborn(n, id)
      <3>1. app'[n] = b BY <1>4, <2>1
      <3>2. QED BY <2>2, <3>1 DEF Unborn
    <2>4. evs \in Seq(Events) /\ Continues(a, b, evs)
      <3>1. Ask(n, "client") \in Events BY <1>5, <1>6, EventTypes
      <3>2. Ask(n, "client").op = "ask" BY DEF Ask
      <3>3. QED BY <2>2, <3>1, <3>2 DEF Continues
    <2>5. Effect(n, b, evs)
      BY <1>3, <1>5, <2>1, <2>2, <2>3, <2>4 DEF Effect, Kind, DoneKeeps, Post
    <2>6. QED BY <2>5
  <1>10. CASE LoadProfile(n)
    <2> USE <1>10 DEF LoadProfile, AppStep
    <2> DEFINE b == AfterProfile(n)
               last == a.next = Cardinality(Profiles)
               asks == IF last THEN <<>> ELSE <<Ask(n, "client")>>
    <2>0. PICK id : id = Mine(n, a.next) OBVIOUS
    <2> DEFINE evs == <<Event("create", id, life[n])>> \o asks
    <2>1. app' = [app EXCEPT ![n] = b] BY DEF AfterProfile
    <2>2. /\ b \in Apps /\ ProcessOK(b)
          /\ b.up /\ b.jobs = a.jobs /\ b.prf = a.prf /\ b.phase = a.phase
          /\ b.inst = a.inst \cup {id}
          /\ b.client = "loaded" \/ (b.client = "loading" /\ b.next = a.next + 1)
          /\ a.next \in Profiles
      BY <1>0, <1>1, <1>5, <2>0, AfterProfileOK
    <2>3. id \in Ids /\ id.by = n /\ id.p = a.next /\ id.k = done[n].loads
      BY <1>0, <1>5, <2>0, <2>2, MineType
    <2>4. events' = [events EXCEPT ![n] = @ \o evs] BY <2>0 DEF Post
    <2>5. app'[n] = b BY <1>4, <2>1
    <2> HIDE DEF b
    <2>6. /\ evs \in Seq(Events) /\ 1 \in DOMAIN evs
          /\ evs[1] = Event("create", id, life[n])
          /\ \A i \in DOMAIN evs : i # 1 => evs[i].op = "ask"
      <3>1. Event("create", id, life[n]) \in Events BY <1>5, <1>6, <2>3, EventTypes
      <3>2. Ask(n, "client") \in Events BY <1>5, <1>6, EventTypes
      <3>3. Ask(n, "client").op = "ask" BY DEF Ask
      <3>4. <<Event("create", id, life[n])>> \in Seq(Events) BY <3>1
      <3>5. CASE last BY <3>1, <3>4, <3>5
      <3>6. CASE ~last
        <4> DEFINE x == Event("create", id, life[n])
                   y == Ask(n, "client")
        <4>1. evs = <<x>> \o <<y>> BY <3>6
        <4>2. x \in Events /\ y \in Events /\ y.op = "ask" BY <3>1, <3>2, <3>3
        <4> HIDE DEF x, y, evs
        <4>3. evs \in Seq(Events) /\ DOMAIN evs = {1, 2} /\ evs[1] = x /\ evs[2] = y
          BY <4>1, <4>2
        <4>4. QED BY <4>2, <4>3 DEF x
      <3>7. QED BY <3>5, <3>6
    <2> HIDE DEF evs
    <2>7. LoadsOne(n, a, b, evs) /\ \A i \in Ids : Unborn(n, i)' => Unborn(n, i)
      <3>1. a.next \in Nat /\ a.client = "loading" BY <2>2, ProfilesAssumption
      <3>2. Unborn(n, id) BY <2>3, <3>1 DEF Unborn
      <3>3. ~Unborn(n, id)'
        <4>1. done'[n].loads = done[n].loads OBVIOUS
        <4>2. ~(id.k > done[n].loads) /\ ~(id.p >= a.next + 1)
          <5>1. done[n].loads \in Nat BY <1>0 DEF CountsOK
          <5>2. QED BY <2>3, <3>1, <5>1
        <4>3. QED BY <2>2, <2>3, <2>5, <3>1, <4>1, <4>2 DEF Unborn
      <3>4. \A i \in Ids : Unborn(n, i)' => Unborn(n, i)
        <4> TAKE i \in Ids
        <4>1. i.p \in Nat BY ProfilesAssumption DEF Ids
        <4>2. i.p >= a.next + 1 => i.p >= a.next BY <3>1, <4>1
        <4>3. QED BY <2>2, <2>5, <3>1, <4>2 DEF Unborn
      <3>5. QED BY <2>2, <2>3, <2>6, <3>2, <3>3, <3>4 DEF LoadsOne, Keeps
    <2>8. Effect(n, b, evs)
      BY <1>3, <1>5, <2>1, <2>2, <2>4, <2>6, <2>7 DEF Effect, Kind, DoneKeeps
    <2>9. QED BY <2>8
  <1>11. CASE LoadFails(n)
    <2> USE <1>11 DEF LoadFails
    <2>1. DoneKeeps(n) BY <1>0, CountTypes DEF DoneKeeps
    <2>2. CASE UnloadCrash(Partial(n)) /\ Dies(n)
      BY <1>5, <2>1, <2>2
    <2>3. CASE /\ AppStep(n, AfterFailure(n))
               /\ \E evs \in UnloadEvents(n, Partial(n)) : Post(n, evs)
               /\ UNCHANGED dropped
      <3> DEFINE b == AfterFailure(n)
                 H == Holders(Partial(n))
      <3>1. PICK evs \in UnloadEvents(n, Partial(n)) : Post(n, evs) BY <2>3
      <3>2. Partial(n) \in Apps /\ Partial(n).inst = a.inst
        BY <1>0, <1>1, <1>5, PartialOK
      <3>3. /\ b \in Apps /\ ProcessOK(b)
            /\ b.up /\ b.jobs = a.jobs /\ b.prf = a.prf /\ b.phase = a.phase
            /\ b.inst = a.inst \ H /\ b.client = "idle"
        BY <1>1, <1>5, AfterFailureOK
      <3>4. /\ evs \in Seq(Events)
            /\ \A i \in DOMAIN evs : evs[i].op = "died" /\ evs[i].id \in H
            /\ \A id \in H : InQueue(evs, "died", id)
        BY <1>5, <1>6, <3>1, <3>2, Unloads
      <3>5. H \subseteq Ids BY <3>2 DEF Holders, Apps
      <3> HIDE DEF b, H
      <3>6. UnloadsAll(a, b, evs) BY <3>3, <3>4, <3>5 DEF UnloadsAll, Keeps
      <3>7. app' = [app EXCEPT ![n] = b] BY <2>3 DEF AppStep, b
      <3>8. \A id \in Ids : Unborn(n, id)' => Unborn(n, id)
        BY <1>1, <1>4, <2>1, <3>3, <3>7, UnbornFalls DEF DoneKeeps
      <3>9. Effect(n, b, evs)
        BY <1>5, <2>1, <2>3, <3>1, <3>3, <3>4, <3>6, <3>7, <3>8
           DEF Effect, Kind, DoneKeeps, Post, AppStep
      <3>10. QED BY <3>9
    <2>4. QED BY <2>2, <2>3 DEF AfterFailure, Partial
  <1>12. CASE LoadDone(n)
    <2> USE <1>12 DEF LoadDone, AppStep, ActiveLocked
    <2> DEFINE b == AfterDone(n)
    <2>1. app' = [app EXCEPT ![n] = b] BY DEF AfterDone
    <2>2. /\ b \in Apps /\ ProcessOK(b)
          /\ b.up /\ b.jobs = a.jobs /\ b.prf = a.prf /\ b.phase = a.phase
          /\ b.inst = a.inst /\ b.client = "idle"
      BY <1>0, <1>1, <1>5, AfterDoneOK
    <2> HIDE DEF b
    <2>3. \A id \in Ids : Unborn(n, id)' => Unborn(n, id)
      BY <1>1, <1>4, <2>1, <2>2, UnbornFalls
    <2>4. NoEvents(n) BY <1>0, NoEventsSent
    <2>5. Continues(a, b, <<>>) BY <2>2 DEF Continues
    <2>6. Effect(n, b, <<>>)
      BY <1>2, <1>3, <1>5, <2>1, <2>2, <2>3, <2>4, <2>5 DEF Effect, Kind, NoEvents, DoneKeeps
    <2>7. QED BY <2>6
  <1>13. CASE UnloadService(n)
    <2> USE <1>13 DEF UnloadService, ActiveLocked
    <2>1. DoneKeeps(n) BY <1>0, CountTypes DEF DoneKeeps
    <2>2. CASE UnloadCrash(a) /\ Dies(n) BY <2>1, <2>2
    <2>3. CASE /\ AppStep(n, Unloaded(a))
               /\ \E evs \in UnloadEvents(n, a) : Post(n, evs)
               /\ UNCHANGED dropped
      <3> DEFINE b == Unloaded(a)
                 H == Holders(a)
      <3>1. PICK evs \in UnloadEvents(n, a) : Post(n, evs) BY <2>3
      <3>2. /\ b \in Apps /\ ProcessOK(b)
            /\ b.up /\ b.jobs = a.jobs /\ b.prf = a.prf /\ b.phase = a.phase
            /\ b.client = a.client /\ b.next = a.next
        BY <1>1, UnloadedOK
      <3>3. b.inst = a.inst \ H BY <1>1 DEF Unloaded, Apps
      <3>4. /\ evs \in Seq(Events)
            /\ \A i \in DOMAIN evs : evs[i].op = "died" /\ evs[i].id \in H
            /\ \A id \in H : InQueue(evs, "died", id)
        BY <1>1, <1>6, <3>1, Unloads
      <3>5. H \subseteq Ids BY <1>1 DEF Holders, Apps
      <3> HIDE DEF b, H
      <3>6. UnloadsAll(a, b, evs) BY <3>2, <3>3, <3>4, <3>5 DEF UnloadsAll, Keeps
      <3>7. app' = [app EXCEPT ![n] = b] BY <2>3 DEF AppStep, b
      <3>8. \A id \in Ids : Unborn(n, id)' => Unborn(n, id)
        BY <1>1, <1>4, <2>1, <3>2, <3>7, UnbornFalls DEF DoneKeeps
      <3>9. Effect(n, b, evs)
        BY <1>5, <2>1, <2>3, <3>1, <3>2, <3>4, <3>6, <3>7, <3>8
           DEF Effect, Kind, DoneKeeps, Post, AppStep
      <3>10. QED BY <3>9
    <2>4. QED BY <2>2, <2>3
  <1>20. QED BY <1>7, <1>8, <1>9, <1>10, <1>11, <1>12, <1>13 DEF ClientStep

LEMMA JobEffect ==
  ASSUME TypeOK, ProcessInv, NEW n \in Node, JobStep(n) \/ InstanceFails(n)
  PROVE (\E b, evs : Effect(n, b, evs)) \/ (Dies(n) /\ DoneKeeps(n) /\ app[n].up)
  <1> DEFINE a == app[n]
             id == Head(a.jobs).id
             Goal == (\E b, evs : Effect(n, b, evs)) \/ (Dies(n) /\ DoneKeeps(n) /\ app[n].up)
  <1>0. VarsOK /\ CountsOK /\ ProcessesOK
    BY TypeParts
  <1>1. a \in Apps /\ ProcessOK(a) /\ app \in [Node -> Apps]
    BY <1>0 DEF ProcessesOK, ProcessInv
  <1>2. <<>> \in Seq(Events) OBVIOUS
  <1>3. UNCHANGED done => DoneKeeps(n)
    BY <1>0 DEF DoneKeeps, CountsOK
  <1>4. \A b : app' = [app EXCEPT ![n] = b] => app'[n] = b
    BY <1>1
  <1>5. a.client # "idle" => done[n].loads # 0
    BY DEF ProcessInv
  <1>6. a.up => life[n] \in 1 .. MaxLives
    BY <1>0, BoundsAssumption DEF ProcessInv, CountsOK
  <1>7. /\ a.jobs # <<>>
        /\ \/ JobStep(n) /\ Head(a.jobs).op \in {"incoming", "died"}
           \/ InstanceFails(n)
    BY DEF JobStep, CheckService, IncomingLoad, IncomingProfile, InstanceCreated,
           DropService, ProfileDiedJob, InstanceFails, AtPhase, Job
  <1>8. a.up BY <1>1, <1>7 DEF ProcessOK, Fresh
  <1>9. id \in Ids /\ id.p \in Profiles BY <1>1, <1>7, FirstJob
  <1>10. dropped' = [dropped EXCEPT ![n] = @ \cup {id}]
           => \E S \in SUBSET Ids : dropped' = [dropped EXCEPT ![n] = @ \cup S]
    <2>1. {id} \in SUBSET Ids BY <1>9
    <2>2. QED BY <2>1
  \* What remains to be shown for a step without events.
  <1>11. ASSUME NEW b \in Apps, ProcessOK(b), b.up, app' = [app EXCEPT ![n] = b],
                UNCHANGED <<pmpVars, requests, life, missed, events>>, DoneKeeps(n),
                \/ UNCHANGED dropped
                \/ dropped' = [dropped EXCEPT ![n] = @ \cup {id}],
                b.client = a.client, b.next = a.next, Kind(n, a, b, <<>>)
         PROVE Goal
    <2>1. NoEvents(n) BY <1>0, <1>11, NoEventsSent
    <2>2. \A i \in Ids : Unborn(n, i)' => Unborn(n, i)
      BY <1>1, <1>4, <1>11, UnbornFalls DEF DoneKeeps
    <2>3. Effect(n, b, <<>>)
      BY <1>2, <1>5, <1>8, <1>10, <1>11, <2>1, <2>2 DEF Effect, NoEvents, DoneKeeps
    <2>4. QED BY <2>3
  <1>12. CASE CheckService(n)
    <2> USE <1>12 DEF CheckService, AtPhase, Job
    <2>1. CASE a.active
      <3> DEFINE b == Requested(a, id)
      <3>1. /\ b \in Apps /\ ProcessOK(b)
            /\ b.up /\ b.jobs = a.jobs /\ b.client = a.client /\ b.next = a.next
            /\ b.phase = "request" /\ b.inst = a.inst
            /\ \A p \in Profiles : b.prf[p] = a.prf[p] \/ (b.prf[p] = id /\ p = id.p)
        BY <1>1, RequestedOK
      <3>2. app' = [app EXCEPT ![n] = b] BY <2>1 DEF AppStep
      <3> HIDE DEF b
      <3>3. Kind(n, a, b, <<>>) BY <3>1 DEF Kind, RequestsOne
      <3>4. QED BY <1>3, <1>11, <3>1, <3>2, <3>3 DEF AppStep
    <2>2. CASE ~a.active
      <3> DEFINE b == [a EXCEPT !.phase = "put"]
      <3>1. b \in Apps BY <1>1 DEF Apps
      <3>2. /\ b.up /\ b.jobs = a.jobs /\ b.prf = a.prf /\ b.phase = "put"
            /\ b.inst = a.inst /\ b.client = a.client /\ b.next = a.next
            /\ b.active = a.active /\ b.svc = a.svc
        BY <1>1, <1>8 DEF Apps
      <3>3. app' = [app EXCEPT ![n] = b] BY <2>2 DEF AppStep
      <3> HIDE DEF b
      <3>4. ProcessOK(b) BY <1>1, <3>2 DEF ProcessOK
      <3>5. Kind(n, a, b, <<>>) BY <3>2 DEF Kind, Continues
      <3>6. QED BY <1>3, <1>11, <3>1, <3>2, <3>3, <3>4, <3>5 DEF AppStep
    <2>3. QED BY <2>1, <2>2
  <1>13. CASE IncomingLoad(n)
    <2> USE <1>13 DEF IncomingLoad, AtPhase, Job
    <2>1. CASE a.cbs
      <3> DEFINE c == AtPut(a)
                 b == Requested(c, id)
      <3>1. /\ c \in Apps /\ ProcessOK(c)
            /\ c.up /\ c.jobs = a.jobs /\ c.prf = a.prf /\ c.phase = a.phase
            /\ c.inst = a.inst /\ c.client = a.client /\ c.next = a.next
        BY <1>1, AtPutOK
      <3>2. app' = [app EXCEPT ![n] = b] /\ UNCHANGED dropped
        BY <2>1 DEF AppStep, AtPut
      <3> HIDE DEF c
      <3>3. /\ b \in Apps /\ ProcessOK(b)
            /\ b.up /\ b.jobs = c.jobs /\ b.client = c.client /\ b.next = c.next
            /\ b.phase = "request" /\ b.inst = c.inst
            /\ \A p \in Profiles : b.prf[p] = c.prf[p] \/ (b.prf[p] = id /\ p = id.p)
        BY <3>1, RequestedOK
      <3> HIDE DEF b
      <3>4. Kind(n, a, b, <<>>) BY <3>1, <3>3 DEF Kind, RequestsOne
      <3>5. QED BY <1>3, <1>11, <3>1, <3>2, <3>3, <3>4 DEF AppStep
    <2>2. CASE ~a.cbs
      <3> DEFINE b == JobDone(a)
      <3>1. b \in Apps /\ ProcessOK(b) BY <1>1, JobDoneOK
      <3>2. /\ b.up = a.up /\ b.jobs = Tail(a.jobs) /\ b.prf = a.prf /\ b.phase = "check"
            /\ b.inst = a.inst /\ b.client = a.client /\ b.next = a.next
        BY <1>1, DoneFields
      <3>3. app' = [app EXCEPT ![n] = b] BY <2>2 DEF AppStep
      <3> HIDE DEF b
      <3>4. Kind(n, a, b, <<>>) BY <1>7, <3>2 DEF Kind, GivesUpJob, DropsJob
      <3>5. QED BY <1>3, <1>8, <1>11, <2>2, <3>1, <3>2, <3>3, <3>4 DEF AppStep
    <2>3. QED BY <2>1, <2>2
  <1>14. CASE IncomingProfile(n)
    <2> USE <1>14 DEF IncomingProfile, AtPhase, Job
    <2>1. CASE /\ a.active /\ ~a.own
               /\ AppStep(n, [a EXCEPT !.phase = "wait"])
               /\ Post(n, <<Ask(n, "job")>>)
               /\ UNCHANGED dropped
      <3> DEFINE b == [a EXCEPT !.phase = "wait"]
                 evs == <<Ask(n, "job")>>
      <3>1. b \in Apps BY <1>1 DEF Apps
      <3>2. /\ b.up /\ b.jobs = a.jobs /\ b.prf = a.prf /\ b.phase = "wait"
            /\ b.inst = a.inst /\ b.client = a.client /\ b.next = a.next
            /\ b.active = a.active /\ b.svc = a.svc /\ b.own = a.own
        BY <1>1, <1>8 DEF Apps
      <3>3. app' = [app EXCEPT ![n] = b] BY <2>1 DEF AppStep
      <3> HIDE DEF b
      <3>4. ProcessOK(b) BY <1>1, <2>1, <3>2 DEF ProcessOK
      <3>5. evs \in Seq(Events) /\ Kind(n, a, b, evs)
        <4>1. Ask(n, "job") \in Events BY <1>6, <1>8, EventTypes
        <4>2. Ask(n, "job").op = "ask" BY DEF Ask
        <4>3. Continues(a, b, evs) BY <3>2, <4>2 DEF Continues
        <4>4. QED BY <4>1, <4>3 DEF Kind
      <3>6. \A i \in Ids : Unborn(n, i)' => Unborn(n, i)
        BY <1>1, <1>4, <3>1, <3>2, <3>3, UnbornFalls
      <3>7. Effect(n, b, evs)
        BY <1>3, <1>5, <1>8, <2>1, <3>1, <3>2, <3>3, <3>4, <3>5, <3>6
           DEF Effect, DoneKeeps, Post, AppStep
      <3>8. QED BY <3>7
    <2>2. CASE /\ a.active
               /\ AppStep(n, [a EXCEPT !.phase = "drop"])
               /\ dropped' = [dropped EXCEPT ![n] = @ \cup {id}]
               /\ UNCHANGED events
      <3> DEFINE b == [a EXCEPT !.phase = "drop"]
      <3>1. b \in Apps BY <1>1 DEF Apps
      <3>2. /\ b.up /\ b.jobs = a.jobs /\ b.prf = a.prf /\ b.phase = "drop"
            /\ b.inst = a.inst /\ b.client = a.client /\ b.next = a.next
            /\ b.active = a.active /\ b.svc = a.svc
        BY <1>1, <1>8 DEF Apps
      <3>3. app' = [app EXCEPT ![n] = b] BY <2>2 DEF AppStep
      <3> HIDE DEF b
      <3>4. ProcessOK(b) BY <1>1, <3>2 DEF ProcessOK
      <3>5. Kind(n, a, b, <<>>) BY <3>2 DEF Kind, Continues
      <3>6. QED BY <1>3, <1>11, <2>2, <3>1, <3>2, <3>3, <3>4, <3>5 DEF AppStep
    <2>3. CASE /\ AppStep(n, JobDone(a))
               /\ dropped' = [dropped EXCEPT ![n] = @ \cup {id}]
               /\ UNCHANGED events
      <3> DEFINE b == JobDone(a)
      <3>1. b \in Apps /\ ProcessOK(b) BY <1>1, JobDoneOK
      <3>2. /\ b.up = a.up /\ b.jobs = Tail(a.jobs) /\ b.prf = a.prf /\ b.phase = "check"
            /\ b.inst = a.inst /\ b.client = a.client /\ b.next = a.next
        BY <1>1, DoneFields
      <3>3. app' = [app EXCEPT ![n] = b] BY <2>3 DEF AppStep
      <3> HIDE DEF b
      <3>4. Kind(n, a, b, <<>>) BY <1>7, <3>2 DEF Kind, GivesUpJob, DropsJob
      <3>5. QED BY <1>3, <1>8, <1>11, <2>3, <3>1, <3>2, <3>3, <3>4 DEF AppStep
    <2>4. QED BY <2>1, <2>2, <2>3
  <1>15. CASE InstanceCreated(n)
    <2> USE <1>15 DEF InstanceCreated, AtPhase, Job
    <2> DEFINE b == AfterCreated(a)
               new == a.prf[id.p]
               evs == IF new \notin a.inst THEN <<Event("create", new, life[n])>> ELSE <<>>
    <2>1. /\ b \in Apps /\ ProcessOK(b)
          /\ b.up /\ b.jobs = Tail(a.jobs) /\ b.phase = "check"
          /\ b.prf = [a.prf EXCEPT ![id.p] = Absent]
          /\ b.inst = a.inst \cup {new} /\ b.client = a.client /\ b.next = a.next
          /\ new \in Ids /\ new.p = id.p
      BY <1>1, CreatedOK
    <2>2. app' = [app EXCEPT ![n] = b] BY DEF AppStep, AfterCreated
    <2>3. events' = [events EXCEPT ![n] = @ \o evs] BY DEF Post
    <2>4. \E S \in SUBSET Ids : dropped' = [dropped EXCEPT ![n] = @ \cup S]
      <3>1. CASE new = id /\ new \notin a.inst
        <4>1. dropped' = [dropped EXCEPT ![n] = @] BY <3>1
        <4>2. dropped' = [dropped EXCEPT ![n] = @ \cup {}] BY <4>1
        <4>3. QED BY <4>2
      <3>2. CASE ~(new = id /\ new \notin a.inst)
        <4>1. dropped' = [dropped EXCEPT ![n] = @ \cup {id}] BY <3>2
        <4>2. QED BY <1>10, <4>1
      <3>3. QED BY <3>1, <3>2
    <2>5. evs \in Seq(Events)
      <3> DEFINE x == Event("create", new, life[n])
      <3>1. x \in Events BY <1>6, <1>8, <2>1, EventTypes
      <3>2. evs = <<x>> \/ evs = <<>> OBVIOUS
      <3> HIDE DEF x, evs
      <3>3. <<x>> \in Seq(Events) BY ONLY <3>1
      <3>4. QED BY <1>2, <3>2, <3>3
    <2>6. Kind(n, a, b, evs) BY <1>7, <2>1 DEF Kind, MakesOne, DropsJob
    <2> HIDE DEF b, evs
    <2>7. \A i \in Ids : Unborn(n, i)' => Unborn(n, i)
      BY <1>1, <1>4, <2>1, <2>2, UnbornFalls
    <2>8. Effect(n, b, evs)
      BY <1>3, <1>5, <1>8, <2>1, <2>2, <2>3, <2>4, <2>5, <2>6, <2>7
         DEF Effect, DoneKeeps, AppStep
    <2>9. QED BY <2>8
  <1>16. CASE InstanceFails(n)
    <2> USE <1>16 DEF InstanceFails, AtPhase, Job
    <2> DEFINE b == AfterNoLib(a)
    <2>1. /\ b \in Apps /\ ProcessOK(b)
          /\ b.up /\ b.jobs = Tail(a.jobs) /\ b.phase = "check" /\ b.prf = a.prf
          /\ b.inst = a.inst /\ b.client = a.client /\ b.next = a.next
      BY <1>1, NoLibOK
    <2>2. app' = [app EXCEPT ![n] = b] BY DEF AppStep, AfterNoLib
    <2>3. DoneKeeps(n) BY <1>0, CountTypes DEF DoneKeeps
    <2> HIDE DEF b
    <2>4. Kind(n, a, b, <<>>) BY <1>7, <2>1 DEF Kind, GivesUpJob, DropsJob
    <2>5. QED BY <1>11, <2>1, <2>2, <2>3, <2>4 DEF AppStep
  <1>17. CASE DropService(n)
    <2> USE <1>17 DEF DropService, AtPhase, Job
    <2>1. CASE UnloadCrash(a) /\ Dies(n) BY <1>3, <1>8, <2>1
    <2>2. CASE /\ AppStep(n, JobDone(Unloaded(a)))
               /\ \E evs \in UnloadEvents(n, a) : Post(n, evs)
               /\ UNCHANGED dropped
      <3> DEFINE c == Unloaded(a)
                 b == JobDone(c)
                 H == Holders(a)
      <3>1. PICK evs \in UnloadEvents(n, a) : Post(n, evs) BY <2>2
      <3>2. /\ c \in Apps /\ ProcessOK(c)
            /\ c.up /\ c.jobs = a.jobs /\ c.prf = a.prf /\ c.phase = a.phase
            /\ c.client = a.client /\ c.next = a.next
        BY <1>1, <1>8, UnloadedOK
      <3>3. c.inst = a.inst \ H BY <1>1 DEF Unloaded, Apps
      <3>4. /\ evs \in Seq(Events)
            /\ \A i \in DOMAIN evs : evs[i].op = "died" /\ evs[i].id \in H
            /\ \A x \in H : InQueue(evs, "died", x)
        BY <1>1, <1>6, <1>8, <3>1, Unloads
      <3>5. H \subseteq Ids BY <1>1 DEF Holders, Apps
      <3> HIDE DEF c, H
      <3>6. b \in Apps /\ ProcessOK(b) BY <1>7, <3>2, JobDoneOK
      <3>7. /\ b.up = c.up /\ b.jobs = Tail(c.jobs) /\ b.prf = c.prf /\ b.phase = "check"
            /\ b.inst = c.inst /\ b.client = c.client /\ b.next = c.next
        BY <3>2, DoneFields
      <3>8. app' = [app EXCEPT ![n] = b] BY <2>2 DEF AppStep, c
      <3> HIDE DEF b
      <3>9. UnloadsAll(a, b, evs)
        BY <1>7, <3>2, <3>3, <3>4, <3>5, <3>7 DEF UnloadsAll, DropsJob
      <3>10. \A i \in Ids : Unborn(n, i)' => Unborn(n, i)
        BY <1>1, <1>4, <3>2, <3>6, <3>7, <3>8, UnbornFalls
      <3>11. Effect(n, b, evs)
        BY <1>3, <1>5, <1>8, <2>2, <3>1, <3>2, <3>4, <3>6, <3>7, <3>8, <3>9, <3>10
           DEF Effect, Kind, DoneKeeps, Post, AppStep
      <3>12. QED BY <3>11
    <2>3. QED BY <2>1, <2>2
  <1>18. CASE ProfileDiedJob(n)
    <2> USE <1>18 DEF ProfileDiedJob, AtPhase, Job
    <2>1. CASE /\ id \notin a.inst
               /\ AppStep(n, JobDone(a)) /\ UNCHANGED <<events, dropped>>
      <3> DEFINE b == JobDone(a)
      <3>1. b \in Apps /\ ProcessOK(b) BY <1>1, JobDoneOK
      <3>2. /\ b.up = a.up /\ b.jobs = Tail(a.jobs) /\ b.prf = a.prf /\ b.phase = "check"
            /\ b.inst = a.inst /\ b.client = a.client /\ b.next = a.next
        BY <1>1, DoneFields
      <3>3. app' = [app EXCEPT ![n] = b] BY <2>1 DEF AppStep
      <3> HIDE DEF b
      <3>4. Kind(n, a, b, <<>>) BY <1>7, <2>1, <3>2 DEF Kind, GivesUpJob, DropsJob
      <3>5. QED BY <1>3, <1>8, <1>11, <2>1, <3>1, <3>2, <3>3, <3>4 DEF AppStep
    <2>2. CASE AppStep(n, AfterDeath(a)) /\ UNCHANGED <<events, dropped>>
      <3> DEFINE b == AfterDeath(a)
      <3>1. /\ b \in Apps /\ ProcessOK(b)
            /\ b.up /\ b.jobs = Tail(a.jobs) /\ b.phase = "check" /\ b.prf = a.prf
            /\ b.inst = a.inst \ {id} /\ b.client = a.client /\ b.next = a.next
        BY <1>1, <1>7, DeathOK
      <3>2. app' = [app EXCEPT ![n] = b] BY <2>2 DEF AppStep
      <3> HIDE DEF b
      <3>3. Kind(n, a, b, <<>>) BY <1>7, <3>1 DEF Kind, RemovesOne, DropsJob
      <3>4. QED BY <1>3, <1>8, <1>11, <2>2, <3>1, <3>2, <3>3 DEF AppStep
    <2>3. CASE Dies(n) BY <1>3, <1>8, <2>3
    <2>4. QED BY <2>1, <2>2, <2>3 DEF AfterDeath
  <1>30. QED
    BY <1>12, <1>13, <1>14, <1>15, <1>16, <1>17, <1>18 DEF JobStep

LEMMA EffectTypes ==
  ASSUME TypeOK, ProcessInv, NEW n \in Node, NEW b, NEW evs, Effect(n, b, evs)
  PROVE VarsOK' /\ CountsOK' /\ ProcessesOK'
  <1>0. VarsOK /\ CountsOK /\ ProcessesOK
    BY TypeParts
  <1>1. /\ b \in Apps /\ ProcessOK(b) /\ app[n].up
        /\ evs \in Seq(Events) /\ AppStep(n, b)
    BY DEF Effect, AppStep
  <1>2. events' \in [Node -> Seq(Events)]
    BY <1>0, <1>1, PostTypes DEF Effect, Post, VarsOK
  <1>3. QED BY <1>1, <1>2, AppTypes DEF Effect

\* Every step is a handler of PmpPim, a delivery, a request, or what a process
\* does: it goes on with some effect, or it ends.
Step(n) ==
  \/ PmpStep(n) \/ Receive(n) \/ Timeout(n)
  \/ Launch(n) \/ SessionRequest(n) \/ LoseRequest(n) \/ StartByUser(n)
  \/ \E b, evs : Effect(n, b, evs)
  \/ Dies(n) /\ DoneKeeps(n) /\ app[n].up

LEMMA StepKinds ==
  ASSUME TypeOK, ProcessInv, Next
  PROVE \E n \in Node : Step(n)
  <1>1. PICK n \in Node : \/ PmpStep(n) \/ Receive(n) \/ Timeout(n)
                          \/ AmStep(n) \/ ClientStep(n) \/ JobStep(n) \/ Disturbance(n)
    BY DEF Next
  <1>2. CASE ClientStep(n) \/ LoadService(n) \/ LoadFails(n) \/ UnloadService(n)
    BY <1>2, ClientEffect DEF Step
  <1>3. CASE JobStep(n) \/ InstanceFails(n)
    BY <1>3, JobEffect DEF Step
  <1>4. CASE Crash(n)
    <2>1. VarsOK /\ CountsOK BY TypeParts
    <2>2. done' = [done EXCEPT ![n].crashes = @ + 1] /\ Dies(n) /\ app[n].up
      BY <1>4 DEF Crash
    <2>3. DoneKeeps(n) BY <2>1, <2>2, CountTypes DEF DoneKeeps
    <2>4. QED BY <2>2, <2>3 DEF Step
  <1>5. QED BY <1>1, <1>2, <1>3, <1>4 DEF Step, AmStep, Disturbance

LEMMA StepTypes ==
  ASSUME TypeOK, ProcessInv, NEW n \in Node, Step(n)
  PROVE VarsOK' /\ CountsOK' /\ ProcessesOK'
  <1>1. CASE PmpStep(n) BY <1>1, PmpTypes
  <1>2. CASE Receive(n) \/ Timeout(n) BY <1>2, DeliveryTypes
  <1>3. CASE Launch(n) \/ SessionRequest(n) \/ LoseRequest(n) \/ StartByUser(n)
    BY <1>3, RequestTypes
  <1>4. CASE \E b, evs : Effect(n, b, evs) BY <1>4, EffectTypes
  <1>5. CASE Dies(n) /\ DoneKeeps(n) /\ app[n].up BY <1>5, DiesTypes DEF DoneKeeps
  <1>6. QED BY <1>1, <1>2, <1>3, <1>4, <1>5 DEF Step

LEMMA TypeStep ==
  ASSUME TypeOK, ProcessInv, [Next]_vars
  PROVE TypeOK' /\ ProcessInv'
  <1>1. CASE Next
    <2>1. VarsOK' /\ CountsOK' /\ ProcessesOK'
      BY <1>1, StepKinds, StepTypes
    <2>2. QED
      BY <2>1 DEF VarsOK, CountsOK, ProcessesOK, TypeOK, ProcessInv, ProcessOK, Job
  <1>2. CASE UNCHANGED vars
    BY <1>2 DEF vars, TypeOK, ProcessInv, Job
  <1>3. QED BY <1>1, <1>2

LEMMA TypeInit ==
  ASSUME Init
  PROVE TypeOK /\ ProcessInv
  <1>1. scenario \in Scenario BY DEF Init
  <1>2. MaxLives \in Nat \ {0} /\ MaxLoads \in Nat BY BoundsAssumption
  <1>3. life \in [Node -> 0 .. MaxLives] /\ \A n \in Node : life[n] \in {0, 1}
    <2>1. 0 \in 0 .. MaxLives /\ 1 \in 0 .. MaxLives BY <1>2
    <2>2. life = [n \in Node |-> IF n \in scenario.running THEN 1 ELSE 0] BY DEF Init
    <2>3. QED BY <2>1, <2>2
  <1>4. CountsOK
    <2>1. 0 \in 0 .. MaxLoads BY <1>2
    <2>2. done = [n \in Node |-> [loads |-> 0, unloads |-> 0, crashes |-> 0, losses |-> 0]]
      BY DEF Init
    <2>3. QED BY <1>3, <2>1, <2>2 DEF CountsOK
  <1>5. VarsOK
    <2>1. <<>> \in Seq(Events) /\ <<>> \in Seq(Messages) OBVIOUS
    <2>2. events \in [Node -> Seq(Events)] /\ net \in [Node -> Seq(Messages)]
      BY <2>1 DEF Init, Empty
    <2>3. QED BY <1>1, <1>3, <2>2 DEF Init, VarsOK, None
  <1>6. app \in [Node -> Apps]
        /\ \A n \in Node : /\ ProcessOK(app[n]) /\ (app[n].up => life[n] # 0)
                           /\ app[n].client = "idle" /\ app[n].inst = {}
                           /\ app[n].up = (life[n] = 1) /\ app[n].jobs = <<>>
                           /\ app[n].prf = NoService
    <2>1. app = [n \in Node |-> [Fresh EXCEPT !.up = life[n] = 1, !.cbs = life[n] = 1]]
      BY DEF Init
    <2>2. \A x \in BOOLEAN : LET b == [Fresh EXCEPT !.up = x, !.cbs = x]
                             IN /\ b \in Apps /\ ProcessOK(b) /\ b.up = x
                                /\ b.client = "idle" /\ b.inst = {} /\ b.jobs = <<>>
                                /\ b.prf = NoService
      <3> TAKE x \in BOOLEAN
      <3> DEFINE b == [Fresh EXCEPT !.up = x, !.cbs = x]
      <3>1. b \in Apps BY FreshOK DEF Apps
      <3>2. /\ b.up = x /\ b.client = "idle" /\ b.inst = {} /\ b.jobs = <<>>
            /\ b.prf = NoService /\ b.phase = "check" /\ ~b.active /\ b.svc = NoService
        BY DEF Fresh
      <3>3. ~x => b = Fresh
        <4>1. Fresh.up = FALSE /\ Fresh.cbs = FALSE BY DEF Fresh
        <4>2. \A r \in Apps : [r EXCEPT !.up = r.up, !.cbs = r.cbs] = r BY DEF Apps
        <4>3. [Fresh EXCEPT !.up = Fresh.up, !.cbs = Fresh.cbs] = Fresh BY <4>2, FreshOK
        <4>4. QED BY <4>1, <4>3
      <3> HIDE DEF b
      <3>4. ProcessOK(b) BY <3>2, <3>3 DEF ProcessOK, NoService
      <3>5. QED BY <3>1, <3>2, <3>4 DEF b
    <2>3. \A n \in Node : (life[n] = 1) \in BOOLEAN OBVIOUS
    <2> DEFINE f(x) == [Fresh EXCEPT !.up = x, !.cbs = x]
    <2>4. app = [n \in Node |-> f(life[n] = 1)] BY <2>1
    <2>5. \A x \in BOOLEAN : /\ f(x) \in Apps /\ ProcessOK(f(x)) /\ f(x).up = x
                             /\ f(x).client = "idle" /\ f(x).inst = {} /\ f(x).jobs = <<>>
                             /\ f(x).prf = NoService
      BY <2>2
    <2> HIDE DEF f
    <2>6. app \in [Node -> Apps] BY <2>3, <2>4, <2>5
    <2>7. \A n \in Node : app[n] = f(life[n] = 1) BY <2>4
    <2>8. \A n \in Node : /\ ProcessOK(app[n]) /\ app[n].up = (life[n] = 1)
                          /\ app[n].client = "idle" /\ app[n].inst = {} /\ app[n].jobs = <<>>
                          /\ app[n].prf = NoService
      BY <2>3, <2>5, <2>7
    <2>9. \A n \in Node : app[n].up => life[n] # 0
      <3> SUFFICES ASSUME NEW n \in Node, app[n].up PROVE life[n] # 0
        OBVIOUS
      <3>1. app[n].up = (life[n] = 1) BY <2>8
      <3>2. life[n] = 1 BY <3>1
      <3>3. QED BY <3>2
    <2>10. QED BY <2>6, <2>8, <2>9
  <1>7. ProcessesOK
    BY <1>6 DEF ProcessesOK, ProcessInv, Init
  <1>8. QED BY <1>4, <1>5, <1>7, TypeParts

\* A step at one device leaves the other one alone, but for the messages to it.
Elsewhere(n) ==
  \A m \in Node \ {n} :
    /\ events'[m] = events[m] /\ known'[m] = known[m] /\ reg'[m] = reg[m]
    /\ life'[m] = life[m] /\ app'[m] = app[m] /\ incoming'[m] = incoming[m]
    /\ pending'[m] = pending[m] /\ late'[m] = late[m]
    /\ done'[m].loads = done[m].loads

LEMMA StepElsewhere ==
  ASSUME TypeOK, ProcessInv, NEW n \in Node, Step(n)
  PROVE Elsewhere(n)
  <1>0. VarsOK /\ CountsOK /\ ProcessesOK
    BY TypeParts
  <1>1. CASE PmpStep(n)
    <2>1. \A m \in Node \ {n} : events'[m] = events[m]
      <3>1. \E pushed : Then(n, pushed)
        BY <1>1 DEF PmpStep, OnConnection, OnConnectionLost, CreateProfile, ProfileDied,
           ReadyToServe, OnCreateProfile, ProcessIncomingProfile, OnProfileDied, Answer
      <3>2. QED BY <1>0, <3>1 DEF Then, VarsOK
    <2>2. CASE OnConnection(n) \/ OnConnectionLost(n) \/ CreateProfile(n) \/ ProfileDied(n)
      BY <1>0, <2>1, <2>2 DEF OnConnection, OnConnectionLost, CreateProfile, ProfileDied,
         VarsOK, Elsewhere
    <2>3. CASE ReadyToServe(n) \/ OnCreateProfile(n)
      BY <1>0, <2>1, <2>3 DEF ReadyToServe, OnCreateProfile, VarsOK, Elsewhere
    <2>4. CASE ProcessIncomingProfile(n) \/ OnProfileDied(n)
      BY <1>0, <2>1, <2>4 DEF ProcessIncomingProfile, OnProfileDied, ToApp, VarsOK,
         ProcessesOK, Elsewhere
    <2>5. CASE Answer(n)
      BY <1>0, <2>1, <2>5 DEF Answer, pmpVars, VarsOK, ProcessesOK, Elsewhere
    <2>6. QED BY <1>1, <2>2, <2>3, <2>4, <2>5 DEF PmpStep
  <1>2. CASE Receive(n) \/ Timeout(n)
    <2>1. CASE Receive(n) BY <1>0, <2>1 DEF Receive, VarsOK, Elsewhere
    <2>2. CASE Timeout(n)
      <3>1. PICK id \in late[n] :
              /\ late' = [late EXCEPT ![n] = @ \ {id}]
              /\ events' = [events EXCEPT ![n] = Append(@, [op |-> "remoteCreate", id |-> id])]
        BY <2>2 DEF Timeout
      <3>2. QED BY <1>0, <2>2, <3>1 DEF Timeout, VarsOK, Elsewhere
    <2>3. QED BY <1>2, <2>1, <2>2
  <1>3. CASE Launch(n) \/ StartByUser(n)
    BY <1>0, <1>3 DEF Launch, StartByUser, NewLife, Post, pmpVars, VarsOK, CountsOK,
       ProcessesOK, Elsewhere
  <1>4. CASE SessionRequest(n) \/ LoseRequest(n)
    <2>1. CASE SessionRequest(n)
      <3>1. PICK r \in requests[n] : Post(n, <<Event("ready", r.id, life[n])>>)
        BY <2>1 DEF SessionRequest
      <3>2. \A m \in Node \ {n} : events'[m] = events[m]
        BY <1>0, <3>1 DEF Post, VarsOK
      <3>3. UNCHANGED <<pmpVars, life, app, done>> BY <2>1 DEF SessionRequest
      <3>4. QED BY <3>2, <3>3 DEF pmpVars, Elsewhere
    <2>2. CASE LoseRequest(n)
      <3>1. UNCHANGED <<pmpVars, events, life, app>> BY <2>2 DEF LoseRequest
      <3>2. done[n].losses < scenario.losses[n] /\ done' = [done EXCEPT ![n].losses = @ + 1]
        BY <2>2 DEF LoseRequest
      <3>3. \A m \in Node : done'[m].loads = done[m].loads BY <1>0, <3>2, CountTypes
      <3>4. QED BY <3>1, <3>3 DEF pmpVars, Elsewhere
    <2>3. QED BY <1>4, <2>1, <2>2
  <1>5. CASE \E b, evs : Effect(n, b, evs)
    BY <1>0, <1>5 DEF Effect, pmpVars, VarsOK, ProcessesOK, Elsewhere
  <1>6. CASE Dies(n) /\ DoneKeeps(n)
    BY <1>0, <1>6 DEF Dies, DoneKeeps, Post, pmpVars, VarsOK, ProcessesOK, Elsewhere
  <1>7. QED BY <1>1, <1>2, <1>3, <1>4, <1>5, <1>6 DEF Step

-----------------------------------------------------------------------------
(* ConnectionInv. *)

ConnAt(n) ==
  /\ Ordered(events[n], known[n], life[n], app[n].up)
  /\ known[n] = 0 => reg[n] = {}

LEMMA KnownLife ==
  ASSUME NEW q, NEW k \in Nat, NEW l \in Nat, NEW up, Ordered(q, k, l, up)
  PROVE k <= l
  <1>1. CASE Queued(q, "lost", k)
    <2>1. PICK i \in DOMAIN q : q[i].op = "lost" /\ q[i].life = k BY <1>1 DEF Queued
    <2>2. QED BY <2>1 DEF Ordered, OfLife
  <1>2. CASE k = l \/ k = 0 BY <1>2
  <1>3. QED BY <1>1, <1>2 DEF Ordered

\* PmpPim handles the first event of its queue.
LEMMA PmpConn ==
  ASSUME TypeOK, ProcessInv, ConnectionInv, NEW n \in Node, PmpStep(n)
  PROVE ConnAt(n)'
  <1> DEFINE e == Head(events[n])
             q == events[n]
             r == Tail(events[n])
             k == known[n]
             l == life[n]
             up == app[n].up
  <1>0. VarsOK /\ CountsOK /\ ProcessesOK
    BY TypeParts
  <1>1. /\ q \in Seq(Events) /\ k \in Nat /\ l \in Nat
        /\ Ordered(q, k, l, up) /\ (k = 0 => reg[n] = {})
    BY <1>0, BoundsAssumption DEF VarsOK, CountsOK, ConnectionInv
  <1>2. <<>> \in Seq(Events) /\ \A x \in Events : <<x>> \in Seq(Events)
    OBVIOUS
  <1>3. q # <<>> /\ e \in Events /\ r \in Seq(Events)
    BY <1>1 DEF PmpStep, OnConnection, OnConnectionLost, CreateProfile, ProfileDied,
       ReadyToServe, OnCreateProfile, ProcessIncomingProfile, OnProfileDied, Answer, Head1
  <1>4. /\ e.op \notin {"connected", "lost"} => Ordered(r, k, l, up)
        /\ e.op = "create" => k = e.life
        /\ e.op = "connected" => Ordered(r, e.life, l, up)
        /\ e.op = "lost" => Ordered(r, 0, l, up)
    BY <1>1, <1>3, OrderedHandle
  <1>5. \A x \in Events : x.op = "process" => \A kk : Ordered(r, kk, l, up) => Ordered(r \o <<x>>, kk, l, up)
    <2> SUFFICES ASSUME NEW x \in Events, x.op = "process", NEW kk, Ordered(r, kk, l, up)
                 PROVE Ordered(r \o <<x>>, kk, l, up)
      OBVIOUS
    <2>1. <<x>> \in Seq(Events) /\ \A i \in DOMAIN <<x>> : ~OfLife(<<x>>[i])
      BY DEF OfLife
    <2>2. QED BY <1>3, <2>1, OrderedQuiet
  <1>6. r \o <<>> = r BY <1>3
  <1>7. ProcessesOK' /\ app'[n].up = up /\ life'[n] = l
    <2>1. ProcessesOK' BY PmpTypes
    <2>2. CASE ProcessIncomingProfile(n) \/ OnProfileDied(n)
      <3>1. \A js : [app[n] EXCEPT !.jobs = js].up = up
        <4>1. app[n] \in Apps BY <1>0 DEF ProcessesOK
        <4>2. QED BY <4>1 DEF Apps
      <3>2. \/ app' = app
            \/ \E js : app' = [app EXCEPT ![n] = [app[n] EXCEPT !.jobs = js]]
        <4>1. \A x, op, id : ToApp(n, x, op, id) =>
                \/ app' = app
                \/ \E js : app' = [app EXCEPT ![n] = [app[n] EXCEPT !.jobs = js]]
          BY <1>0 DEF ToApp, ProcessesOK
        <4>2. QED BY <2>2, <4>1 DEF ProcessIncomingProfile, OnProfileDied
      <3>3. app'[n].up = up BY <1>0, <3>1, <3>2 DEF ProcessesOK
      <3>4. life' = life BY <2>2 DEF ProcessIncomingProfile, OnProfileDied
      <3>5. QED BY <2>1, <3>3, <3>4
    <2>3. CASE Answer(n)
      <3>1. \A a \in Apps : \A js : [a EXCEPT !.told = js].up = a.up BY DEF Apps
      <3>2. QED BY <1>0, <2>1, <2>3, <3>1 DEF Answer, ProcessesOK
    <2>4. CASE \/ OnConnection(n) \/ OnConnectionLost(n) \/ CreateProfile(n) \/ ProfileDied(n)
               \/ ReadyToServe(n) \/ OnCreateProfile(n)
      BY <2>1, <2>4 DEF OnConnection, OnConnectionLost, CreateProfile, ProfileDied,
         ReadyToServe, OnCreateProfile
    <2>5. QED BY <2>1, <2>2, <2>3, <2>4 DEF PmpStep, OnCreateProfile, ReadyToServe,
         ProcessIncomingProfile, OnProfileDied, Answer, pmpVars
  <1> HIDE DEF e, q, r, up
  <1>8. CASE OnConnection(n)
    <2>1. e.op = "connected" /\ events'[n] = r /\ known'[n] = e.life /\ reg' = reg
      BY <1>0, <1>2, <1>6, <1>8, ThenTypes DEF OnConnection, Head1, e, r, VarsOK
    <2>2. e.life # 0 BY <1>3, <2>1, EventLives DEF OfLife
    <2>3. QED BY <1>4, <1>7, <2>1, <2>2 DEF ConnAt
  <1>9. CASE OnConnectionLost(n)
    <2>1. e.op = "lost" /\ events'[n] = r /\ known'[n] = 0 /\ reg'[n] = {}
      BY <1>0, <1>2, <1>6, <1>9, ThenTypes DEF OnConnectionLost, Head1, e, r, VarsOK
    <2>2. QED BY <1>4, <1>7, <2>1 DEF ConnAt
  <1>10. CASE CreateProfile(n)
    <2>1. e.op = "create" /\ events'[n] = r /\ known' = known
      BY <1>0, <1>2, <1>6, <1>10, ThenTypes DEF CreateProfile, Head1, e, r, VarsOK
    <2>2. k # 0 BY <1>3, <1>4, <2>1, EventLives DEF OfLife
    <2>3. QED BY <1>4, <1>7, <2>1, <2>2 DEF ConnAt
  <1>11. CASE ProfileDied(n)
    <2>1. e.op = "died" /\ events'[n] = r /\ known' = known /\ reg'[n] \subseteq reg[n]
      BY <1>0, <1>2, <1>6, <1>11, ThenTypes DEF ProfileDied, Head1, e, r, VarsOK
    <2>2. QED BY <1>1, <1>4, <1>7, <2>1 DEF ConnAt
  <1>12. CASE ReadyToServe(n) \/ OnCreateProfile(n)
    <2>1. /\ e.op \in {"ready", "remoteCreate"} /\ known' = known /\ reg' = reg
          /\ \/ Then(n, <<>>)
             \/ Then(n, <<Process(e.id, e.life)>>) /\ e.op = "ready"
             \/ Then(n, <<Process(e.id, k)>>) /\ serves[n]
      BY <1>12 DEF ReadyToServe, OnCreateProfile, Head1, e
    <2>2. e.id \in Ids /\ (e.op = "ready" => e.life \in 1 .. MaxLives)
          /\ (serves[n] => k \in 1 .. MaxLives)
      <3>1. serves[n] => k # 0 BY DEF ProcessInv
      <3>2. k \in 0 .. MaxLives BY <1>0 DEF VarsOK
      <3>3. QED BY <1>3, <2>1, <3>1, <3>2, BoundsAssumption, EventFields
    <2>3. CASE Then(n, <<>>)
      <3>1. events'[n] = r
        BY <1>0, <1>2, <1>3, <1>6, <2>3, ThenTypes DEF VarsOK, q, r
      <3>2. QED BY <1>1, <1>4, <1>7, <2>1, <3>1 DEF ConnAt
    <2>4. ASSUME NEW x \in Events, x.op = "process", Then(n, <<x>>) PROVE ConnAt(n)'
      <3>1. events'[n] = r \o <<x>>
        BY <1>0, <1>2, <1>3, <2>4, ThenTypes DEF VarsOK, q, r
      <3>2. QED BY <1>1, <1>4, <1>5, <1>7, <2>1, <2>4, <3>1 DEF ConnAt
    <2>5. CASE Then(n, <<Process(e.id, e.life)>>) /\ e.op = "ready"
      <3>1. Process(e.id, e.life) \in Events BY <2>2, <2>5, EventTypes DEF Process
      <3>2. Process(e.id, e.life).op = "process" BY DEF Process, Event
      <3>3. QED BY <2>4, <2>5, <3>1, <3>2
    <2>6. CASE Then(n, <<Process(e.id, k)>>) /\ serves[n]
      <3>1. Process(e.id, k) \in Events BY <2>2, <2>6, EventTypes DEF Process
      <3>2. Process(e.id, k).op = "process" BY DEF Process, Event
      <3>3. QED BY <2>4, <2>6, <3>1, <3>2
    <2>7. QED BY <2>1, <2>3, <2>5, <2>6
  <1>13. CASE ProcessIncomingProfile(n) \/ OnProfileDied(n) \/ Answer(n)
    <2>1. /\ e.op \in {"process", "remoteDied", "ask"} /\ Then(n, <<>>)
          /\ known' = known /\ reg'[n] \subseteq reg[n]
      BY <1>0, <1>13 DEF ProcessIncomingProfile, OnProfileDied, Answer, Head1, e, pmpVars, VarsOK
    <2>2. events'[n] = r
      BY <1>0, <1>2, <1>3, <1>6, <2>1, ThenTypes DEF VarsOK, q, r
    <2>3. QED BY <1>1, <1>4, <1>7, <2>1, <2>2 DEF ConnAt
  <1>14. QED
    BY <1>8, <1>9, <1>10, <1>11, <1>12, <1>13 DEF PmpStep

\* What an application sends: deaths and questions, or first a creation.
Creates(n, evs, id) ==
  /\ 1 \in DOMAIN evs /\ evs[1] = Event("create", id, life[n])
  /\ \A i \in DOMAIN evs : i # 1 => evs[i].op = "ask"
LEMMA EffectSends ==
  ASSUME NEW n \in Node, NEW a, NEW b, NEW evs \in Seq(Events), Kind(n, a, b, evs)
  PROVE \/ \A i \in DOMAIN evs : evs[i].op \in {"ask", "died"}
        \/ \E id \in Ids : Creates(n, evs, id)
  <1>1. CASE evs = <<>> BY <1>1
  <1>2. CASE MakesOne(n, a, b, evs)
    <2> DEFINE id == a.prf[Head(a.jobs).id.p]
    <2>1. id \in Ids /\ (evs = <<>> \/ evs = <<Event("create", id, life[n])>>)
      BY <1>2 DEF MakesOne
    <2> HIDE DEF id
    <2>2. CASE evs = <<Event("create", id, life[n])>>
      <3>1. DOMAIN evs = {1} /\ evs[1] = Event("create", id, life[n]) BY <2>2
      <3>2. QED BY <2>1, <3>1 DEF Creates
    <2>3. QED BY <1>1, <2>1, <2>2
  <1>3. QED
    BY <1>1, <1>2 DEF Kind, Continues, LoadsOne, UnloadsAll, RequestsOne, GivesUpJob,
       RemovesOne, Creates

LEMMA EffectConn ==
  ASSUME TypeOK, ProcessInv, ConnectionInv, NEW n \in Node, NEW b, NEW evs, Effect(n, b, evs)
  PROVE ConnAt(n)'
  <1> DEFINE q == events[n]
             k == known[n]
             l == life[n]
  <1>0. VarsOK /\ CountsOK /\ ProcessesOK
    BY TypeParts
  <1>1. /\ q \in Seq(Events) /\ k \in Nat /\ l \in Nat
        /\ Ordered(q, k, l, app[n].up) /\ (k = 0 => reg[n] = {})
    BY <1>0, BoundsAssumption DEF VarsOK, CountsOK, ConnectionInv
  <1>2. /\ evs \in Seq(Events) /\ events'[n] = q \o evs /\ b.up /\ app'[n] = b /\ app[n].up
        /\ known' = known /\ reg' = reg /\ life' = life
    BY <1>0 DEF Effect, pmpVars, VarsOK, ProcessesOK
  <1>3. app'[n].up = app[n].up
    BY <1>2 DEF Effect, Apps, ProcessesOK, TypeOK
  <1> HIDE DEF q
  <1>4. Ordered(q \o evs, k, l, app[n].up)
    <2>1. CASE \A i \in DOMAIN evs : evs[i].op \in {"ask", "died"}
      <3>1. \A i \in DOMAIN evs : ~OfLife(evs[i]) BY <2>1 DEF OfLife
      <3>2. QED BY <1>1, <1>2, <3>1, OrderedQuiet
    <2>2. ASSUME NEW id \in Ids, Creates(n, evs, id)
          PROVE Ordered(q \o evs, k, l, app[n].up)
      <3> DEFINE x == evs[1]
                 y == Tail(evs)
      <3>1. /\ x \in Events /\ y \in Seq(Events) /\ evs # <<>>
            /\ q \o evs = (q \o <<x>>) \o y /\ q \o <<x>> \in Seq(Events)
            /\ \A i \in DOMAIN y : i + 1 \in DOMAIN evs /\ i + 1 # 1 /\ y[i] = evs[i + 1]
        <4>1. 1 \in DOMAIN evs /\ evs \in Seq(Events) /\ q \in Seq(Events)
          BY <1>1, <1>2, <2>2 DEF Creates
        <4>2. x \in Events /\ y \in Seq(Events) /\ evs # <<>> /\ <<x>> \in Seq(Events)
          BY <4>1
        <4>3. \A i \in DOMAIN y : i + 1 \in DOMAIN evs /\ i + 1 # 1 /\ y[i] = evs[i + 1]
          BY <4>1, <4>2
        <4>4. evs = <<x>> \o y BY <4>1, <4>2
        <4> HIDE DEF x, y
        <4>5. q \o evs = (q \o <<x>>) \o y BY <4>1, <4>2, <4>4
        <4>6. QED BY <4>1, <4>2, <4>3, <4>5
      <3>2. x.op = "create" /\ x.life = l BY <2>2 DEF Creates, Event
      <3>3. \A i \in DOMAIN y : ~OfLife(y[i]) BY <2>2, <3>1 DEF Creates, OfLife
      <3> HIDE DEF x, y
      <3>4. Ordered(q \o <<x>>, k, l, app[n].up)
        BY <1>1, <1>2, <3>1, <3>2, OrderedCreate
      <3>5. QED BY <3>1, <3>3, <3>4, OrderedQuiet
    <2>3. QED BY <1>2, <2>1, <2>2, EffectSends DEF Effect
  <1>5. QED BY <1>1, <1>2, <1>3, <1>4 DEF ConnAt

LEMMA ConnStep ==
  ASSUME TypeOK, ProcessInv, ConnectionInv, NEW n \in Node, Step(n)
  PROVE ConnectionInv'
  <1> DEFINE q == events[n]
             k == known[n]
             l == life[n]
  <1>0. VarsOK /\ CountsOK /\ ProcessesOK
    BY TypeParts
  <1>1. /\ q \in Seq(Events) /\ k \in Nat /\ l \in Nat
        /\ Ordered(q, k, l, app[n].up) /\ (k = 0 => reg[n] = {})
    BY <1>0, BoundsAssumption DEF VarsOK, CountsOK, ConnectionInv
  <1>2. k <= l BY <1>1, KnownLife
  \* Events that do not matter.
  <1>3. ASSUME NEW x \in Events, ~OfLife(x), events'[n] = q \o <<x>>,
               UNCHANGED <<known, reg, life, app>>
        PROVE ConnAt(n)'
    <2>1. <<x>> \in Seq(Events) /\ \A i \in DOMAIN <<x>> : ~OfLife(<<x>>[i])
      BY <1>3
    <2>2. Ordered(q \o <<x>>, k, l, app[n].up) BY <1>1, <2>1, OrderedQuiet
    <2>3. QED BY <1>1, <1>3, <2>2 DEF ConnAt
  <1>4. ConnAt(n)'
    <2>1. CASE PmpStep(n) BY <2>1, PmpConn
    <2>2. CASE Receive(n)
      <3> DEFINE x == Head(net[n])
      <3>1. /\ events' = [events EXCEPT ![n] = Append(@, x)]
            /\ UNCHANGED <<known, reg, life, app>>
        BY <2>2 DEF Receive
      <3>2. x \in Messages BY <1>0, <2>2 DEF Receive, VarsOK
      <3>3. x \in Events /\ ~OfLife(x) BY <3>2, EventTypes DEF Messages, OfLife
      <3> HIDE DEF x
      <3>4. events'[n] = q \o <<x>>
        BY <1>0, <1>1, <3>1, <3>3, AppendOne DEF VarsOK
      <3>5. QED BY <1>3, <3>1, <3>3, <3>4
    <2>3. CASE Timeout(n)
      <3>1. PICK id \in late[n] :
              /\ events' = [events EXCEPT ![n] = Append(@, [op |-> "remoteCreate", id |-> id])]
              /\ UNCHANGED <<known, reg, life, app>>
        BY <2>3 DEF Timeout
      <3> DEFINE x == [op |-> "remoteCreate", id |-> id]
      <3>2. id \in Ids BY <1>0 DEF VarsOK
      <3>3. x \in Events /\ ~OfLife(x) BY <3>2, EventTypes DEF OfLife
      <3> HIDE DEF x
      <3>4. events'[n] = q \o <<x>>
        BY <1>0, <1>1, <3>1, <3>3, AppendOne DEF VarsOK, x
      <3>5. QED BY <1>3, <3>1, <3>3, <3>4
    <2>4. CASE SessionRequest(n)
      <3>1. PICK r \in requests[n] : /\ app[n].up /\ Post(n, <<Event("ready", r.id, life[n])>>)
                                     /\ UNCHANGED <<pmpVars, life, app>>
        BY <2>4 DEF SessionRequest
      <3> DEFINE x == Event("ready", r.id, life[n])
      <3>2. r.id \in Ids BY <1>0 DEF VarsOK
      <3>3. l \in 1 .. MaxLives
        BY <1>0, <3>1, BoundsAssumption DEF ProcessInv, CountsOK
      <3>4. x \in Events /\ ~OfLife(x)
        <4>1. x \in Events BY <3>2, <3>3, EventTypes
        <4>2. x.op = "ready" BY DEF Event
        <4>3. QED BY <4>1, <4>2 DEF OfLife
      <3>5. Post(n, <<x>>) BY <3>1
      <3> HIDE DEF x
      <3>6. events'[n] = q \o <<x>> BY <1>0, <3>5 DEF Post, VarsOK
      <3>7. QED BY <1>3, <3>1, <3>4, <3>6 DEF pmpVars
    <2>5. CASE LoseRequest(n)
      BY <1>1, <2>5 DEF LoseRequest, pmpVars, ConnAt
    <2>6. CASE Launch(n) \/ StartByUser(n)
      <3>1. NewLife(n) /\ UNCHANGED <<pmpVars, done>> BY <2>6 DEF Launch, StartByUser
      <3> DEFINE x == ConnEvent("connected", l + 1)
      <3>2. <<x>> \in Seq(Events) BY <3>1, NewLifeTypes DEF pmpVars
      <3>3. x \in Events BY <3>2
      <3>4. x.op = "connected" /\ x.life = l + 1 BY DEF ConnEvent
      <3>5. /\ life'[n] = l + 1 /\ app'[n].up = TRUE /\ app[n].up = FALSE
            /\ Post(n, <<x>>)
        <4>1. app'[n].up = TRUE
          BY <1>0, <3>1 DEF NewLife, ProcessesOK, Fresh
        <4>2. life'[n] = l + 1 BY <1>0, <3>1 DEF NewLife, CountsOK
        <4>3. app[n].up = FALSE BY <1>0, <3>1 DEF NewLife, ProcessesOK, Apps
        <4>4. QED BY <3>1, <4>1, <4>2, <4>3 DEF NewLife
      <3> HIDE DEF x
      <3>6. events'[n] = q \o <<x>> BY <1>0, <3>5 DEF Post, VarsOK
      <3>7. Ordered(q \o <<x>>, k, l + 1, TRUE)
        BY <1>1, <1>2, <3>3, <3>4, <3>5, OrderedConnect
      <3>8. QED BY <1>1, <3>1, <3>5, <3>6, <3>7 DEF pmpVars, ConnAt
    <2>7. CASE \E b, evs : Effect(n, b, evs) BY <2>7, EffectConn
    <2>8. CASE Dies(n) /\ DoneKeeps(n) /\ app[n].up
      <3> DEFINE x == ConnEvent("lost", l)
      <3>1. <<x>> \in Seq(Events) BY <2>8, DiesTypes DEF DoneKeeps
      <3>2. x \in Events BY <3>1
      <3>3. x.op = "lost" /\ x.life = l BY DEF ConnEvent
      <3>4. /\ UNCHANGED <<pmpVars, life>> /\ app'[n].up = FALSE /\ app[n].up = TRUE
            /\ Post(n, <<x>>)
        <4>1. app'[n].up = FALSE BY <1>0, <2>8 DEF Dies, ProcessesOK, Fresh
        <4>2. app[n].up = TRUE BY <1>0, <2>8 DEF ProcessesOK, Apps
        <4>3. QED BY <2>8, <4>1, <4>2 DEF Dies
      <3> HIDE DEF x
      <3>5. events'[n] = q \o <<x>> BY <1>0, <3>4 DEF Post, VarsOK
      <3>6. Ordered(q \o <<x>>, k, l, FALSE)
        BY <1>1, <1>2, <3>2, <3>3, <3>4, OrderedLose
      <3>7. QED BY <1>1, <3>4, <3>5, <3>6 DEF pmpVars, ConnAt
    <2>9. QED BY <2>1, <2>2, <2>3, <2>4, <2>5, <2>6, <2>7, <2>8 DEF Step
  <1>5. \A m \in Node \ {n} : ConnAt(m)'
    BY StepElsewhere DEF Elsewhere, ConnAt, ConnectionInv
  <1>6. QED BY <1>4, <1>5 DEF ConnAt, ConnectionInv

-----------------------------------------------------------------------------
(* WayInv.  First, which events a queue holds as it grows and shrinks.         *)

LEMMA InParts ==
  ASSUME NEW S, NEW q \in Seq(S), NEW r \in Seq(S)
  PROVE \A op, id : InQueue(q \o r, op, id) <=> InQueue(q, op, id) \/ InQueue(r, op, id)
  <1> DEFINE c == q \o r
  <1>1. /\ \A i \in DOMAIN q : i \in DOMAIN c /\ c[i] = q[i]
        /\ \A i \in DOMAIN r : Len(q) + i \in DOMAIN c /\ c[Len(q) + i] = r[i]
        /\ \A i \in DOMAIN c : \/ i \in DOMAIN q
                               \/ i - Len(q) \in DOMAIN r /\ c[i] = r[i - Len(q)]
    BY Appended
  <1> HIDE DEF c
  <1>2. ASSUME NEW op, NEW id, InQueue(c, op, id)
        PROVE InQueue(q, op, id) \/ InQueue(r, op, id)
    BY <1>1, <1>2 DEF InQueue
  <1>3. ASSUME NEW op, NEW id, InQueue(q, op, id) \/ InQueue(r, op, id)
        PROVE InQueue(c, op, id)
    BY <1>1, <1>3 DEF InQueue
  <1>4. QED BY <1>2, <1>3 DEF c

LEMMA InRest ==
  ASSUME NEW S, NEW q \in Seq(S), q # <<>>
  PROVE \A op, id : InQueue(q, op, id) <=>
          (Head(q).op = op /\ Head(q).id = id) \/ InQueue(Tail(q), op, id)
  <1> DEFINE r == Tail(q)
  <1>1. /\ 1 \in DOMAIN q /\ Head(q) = q[1]
        /\ \A i \in DOMAIN r : i + 1 \in DOMAIN q /\ r[i] = q[i + 1]
        /\ \A i \in DOMAIN q : i = 1 \/ (i - 1 \in DOMAIN r /\ q[i] = r[i - 1])
    BY Handled
  <1> HIDE DEF r
  <1>2. ASSUME NEW op, NEW id, InQueue(q, op, id)
        PROVE (Head(q).op = op /\ Head(q).id = id) \/ InQueue(r, op, id)
    BY <1>1, <1>2 DEF InQueue
  <1>3. ASSUME NEW op, NEW id, (Head(q).op = op /\ Head(q).id = id) \/ InQueue(r, op, id)
        PROVE InQueue(q, op, id)
    BY <1>1, <1>3 DEF InQueue
  <1>4. QED BY <1>2, <1>3 DEF r

LEMMA InFew ==
  /\ \A op, id : ~InQueue(<<>>, op, id)
  /\ \A x, op, id : InQueue(<<x>>, op, id) <=> x.op = op /\ x.id = id
  <1>1. \A op, id : ~InQueue(<<>>, op, id) BY DEF InQueue
  <1>2. \A x, op, id : InQueue(<<x>>, op, id) <=> x.op = op /\ x.id = id
    <2> TAKE x, op, id
    <2>1. DOMAIN <<x>> = {1} /\ <<x>>[1] = x OBVIOUS
    <2>2. QED BY <2>1 DEF InQueue
  <1>3. QED BY <1>1, <1>2

LEMMA UniqueParts ==
  ASSUME NEW S, NEW q \in Seq(S), NEW r \in Seq(S), Unique(q), Unique(r),
         \A i \in DOMAIN r : Making(r[i]) => ~InQueue(q, r[i].op, r[i].id)
  PROVE Unique(q \o r)
  <1> DEFINE c == q \o r
  <1>1. /\ \A i \in DOMAIN q : i \in DOMAIN c /\ c[i] = q[i]
        /\ \A i \in DOMAIN c : \/ i \in DOMAIN q
                               \/ i - Len(q) \in DOMAIN r /\ c[i] = r[i - Len(q)]
        /\ DOMAIN c \subseteq Nat /\ Len(q) \in Nat
    BY Appended
  <1> HIDE DEF c
  <1>2. SUFFICES ASSUME NEW i \in DOMAIN c, NEW j \in DOMAIN c, Making(c[i]),
                        c[i].op = c[j].op, c[i].id = c[j].id
                 PROVE i = j
    BY DEF Unique, c
  <1>3. Making(c[j]) BY <1>2 DEF Making
  <1>4. CASE i \in DOMAIN q /\ j \in DOMAIN q
    BY <1>1, <1>2, <1>4 DEF Unique
  <1>5. CASE i \notin DOMAIN q /\ j \notin DOMAIN q
    <2>1. i - Len(q) \in DOMAIN r /\ j - Len(q) \in DOMAIN r
          /\ c[i] = r[i - Len(q)] /\ c[j] = r[j - Len(q)]
      BY <1>1, <1>5
    <2>2. i - Len(q) = j - Len(q) BY <1>2, <2>1 DEF Unique
    <2>3. QED BY <1>1, <2>2
  <1>6. CASE i \in DOMAIN q /\ j \notin DOMAIN q
    BY <1>1, <1>2, <1>3, <1>6 DEF InQueue
  <1>7. CASE i \notin DOMAIN q /\ j \in DOMAIN q
    BY <1>1, <1>2, <1>3, <1>7 DEF InQueue
  <1>8. QED BY <1>4, <1>5, <1>6, <1>7

LEMMA UniqueRest ==
  ASSUME NEW S, NEW q \in Seq(S), q # <<>>, Unique(q)
  PROVE /\ Unique(Tail(q))
        /\ Making(Head(q)) => ~InQueue(Tail(q), Head(q).op, Head(q).id)
  <1> DEFINE r == Tail(q)
  <1>1. /\ 1 \in DOMAIN q /\ Head(q) = q[1]
        /\ \A i \in DOMAIN r : i + 1 \in DOMAIN q /\ r[i] = q[i + 1]
        /\ DOMAIN r \subseteq Nat \ {0}
    BY Handled
  <1> HIDE DEF r
  <1>2. Unique(r)
    <2> SUFFICES ASSUME NEW i \in DOMAIN r, NEW j \in DOMAIN r, Making(r[i]),
                        r[i].op = r[j].op, r[i].id = r[j].id
                 PROVE i = j
      BY DEF Unique
    <2>1. i + 1 = j + 1 BY <1>1 DEF Unique
    <2>2. QED BY <1>1, <2>1
  <1>3. ASSUME Making(Head(q)), InQueue(r, Head(q).op, Head(q).id) PROVE FALSE
    <2>1. PICK i \in DOMAIN r : r[i].op = Head(q).op /\ r[i].id = Head(q).id
      BY <1>3 DEF InQueue
    <2>2. i + 1 = 1 BY <1>1, <1>3, <2>1 DEF Unique
    <2>3. QED BY <1>1, <2>2
  <1>4. QED BY <1>2, <1>3 DEF r

\* Queues that say nothing of a creation.
LEMMA UniqueFew ==
  /\ Unique(<<>>)
  /\ \A x : Unique(<<x>>)
  /\ \A q : (\A i \in DOMAIN q : ~Making(q[i])) => Unique(q)
  <1>1. \A x : Unique(<<x>>)
    <2> TAKE x
    <2>1. DOMAIN <<x>> = {1} OBVIOUS
    <2>2. QED BY <2>1 DEF Unique
  <1>2. QED BY <1>1 DEF Unique

-----------------------------------------------------------------------------
(* A step at a device, by what it moves there.                                 *)

WayAt(n) ==
  /\ \A id \in Ids, s, t \in Stage : At(n, id, s) /\ At(n, id, t) => s = t
  /\ Unique(net[n]) /\ Unique(events[n]) /\ OnceToLoad(app[n])
  /\ \A id \in Ids : InQueue(events[n], "create", id) => id \notin reg[n]
  /\ \A id \in Ids, s \in Stage : id.by = n /\ At(n, id, s) => s \in {1, 9}
  /\ \A id \in Ids :
       (\/ At(n, id, 7) \/ At(n, id, 8)
        \/ id.by # n /\ InQueue(events[n], "create", id)) => id \in incoming[n]

LEMMA WayParts == WayInv <=> \A n \in Node : WayAt(n)
  BY DEF WayInv, WayAt

\* And it never goes back: it leaves the place it comes from only when that has
\* it registered, and once it was made it stays made or is gone.
WayOn(n) ==
  /\ WayAt(n)'
  /\ \A id \in Ids :
       /\ Somewhere(n, id)' => Somewhere(n, id)
       /\ id.by # n /\ Sent(n, id)' => Sent(n, id) \/ id \in reg'[id.by]
       /\ Made(n, id) /\ Somewhere(n, id)' => Made(n, id)'

\* Nothing is at a new place.
LEMMA Onward ==
  ASSUME NEW n \in Node, WayAt(n), WayAt(n)',
         \A id \in Ids, s \in Stage : At(n, id, s)' => At(n, id, s)
  PROVE WayOn(n)
  <1>1. 9 \in Stage /\ \A id : (Made(n, id) <=> At(n, id, 9)) /\ (Made(n, id)' <=> At(n, id, 9)')
    BY DEF At, Stage
  <1>2. ASSUME NEW id \in Ids, Made(n, id), Somewhere(n, id)' PROVE Made(n, id)'
    <2>1. PICK s \in Stage : At(n, id, s)' BY <1>2 DEF Somewhere
    <2>2. At(n, id, s) /\ At(n, id, 9) BY <1>1, <1>2, <2>1
    <2>3. s = 9 BY <1>1, <2>2 DEF WayAt
    <2>4. QED BY <1>1, <2>1, <2>3
  <1>3. QED BY <1>2 DEF WayOn, Somewhere, Sent

\* Only i is at a new place, t.
Kept(n, i, t) ==
  \A id \in Ids :
    LET new(s) == id = i /\ s = t IN
    /\ Unborn(n, id)' => Unborn(n, id)
    /\ InQueue(net[n], "remoteCreate", id)' => InQueue(net[n], "remoteCreate", id) \/ new(2)
    /\ InQueue(events[n], "remoteCreate", id)' => InQueue(events[n], "remoteCreate", id) \/ new(3)
    /\ (id \in late[n])' => id \in late[n] \/ new(4)
    /\ (id \in pending[n])' => id \in pending[n] \/ new(5)
    /\ InQueue(events[n], "process", id)' => InQueue(events[n], "process", id) \/ new(6)
    /\ ToLoad(app[n], id)' => ToLoad(app[n], id) \/ new(7)
    /\ (app[n].prf[id.p] = id)' => app[n].prf[id.p] = id \/ new(8)
    /\ Made(n, id)' => Made(n, id) \/ new(9)

LEMMA UnbornElsewhere ==
  ASSUME NEW n \in Node, Elsewhere(n)
  PROVE \A m \in Node \ {n}, id \in Ids :
          /\ Unborn(m, id)' <=> Unborn(m, id)
          /\ InQueue(events[m], "create", id)' <=> InQueue(events[m], "create", id)
  BY DEF Elsewhere, Unborn

LEMMA KeptPlaces ==
  ASSUME NEW n \in Node, Elsewhere(n), NEW i, NEW t, Kept(n, i, t)
  PROVE \A id \in Ids, s \in Stage : At(n, id, s)' => At(n, id, s) \/ (id = i /\ s = t)
  <1>1. \A id \in Ids : Coming(n, id)' => Coming(n, id)
    <2> TAKE id \in Ids
    <2>1. id.by \in Node BY DEF Ids
    <2>2. CASE id.by = n BY <2>2 DEF Coming, Kept
    <2>3. CASE id.by # n BY <2>1, <2>3, UnbornElsewhere DEF Coming
    <2>4. QED BY <2>2, <2>3
  <1>2. QED BY <1>1 DEF At, Kept, Stage

LEMMA WayMoves ==
  ASSUME NEW n \in Node, WayAt(n), Elsewhere(n), NEW i, NEW t, Kept(n, i, t),
         \/ t = 0
         \/ /\ i \in Ids /\ t \in Stage /\ (i.by = n => t = 9)
            /\ \E f \in Stage : At(n, i, f) /\ (f = t \/ ~At(n, i, f)')
  PROVE /\ (\A id \in Ids, s, x \in Stage : At(n, id, s) /\ At(n, id, x) => s = x)'
        /\ (\A id \in Ids, s \in Stage : id.by = n /\ At(n, id, s) => s \in {1, 9})'
        /\ t # 0 => \A s \in Stage : At(n, i, s)' => s = t
  <1>1. \A id \in Ids, s \in Stage : At(n, id, s)' => At(n, id, s) \/ (id = i /\ s = t)
    BY KeptPlaces
  <1>2. \A id \in Ids, s, x \in Stage : At(n, id, s) /\ At(n, id, x) => s = x
    BY DEF WayAt
  <1>3. \A id \in Ids, s \in Stage : id.by = n /\ At(n, id, s) => s \in {1, 9}
    BY DEF WayAt
  <1>4. t = 0 => \A s \in Stage : s # t BY DEF Stage
  <1>5. t # 0 => \A s \in Stage : At(n, i, s)' => s = t
    <2> SUFFICES ASSUME t # 0, NEW s \in Stage, At(n, i, s)', s # t PROVE FALSE
      OBVIOUS
    <2>1. PICK f \in Stage : At(n, i, f) /\ (f = t \/ ~At(n, i, f)') OBVIOUS
    <2>2. i \in Ids OBVIOUS
    <2>3. At(n, i, s) BY <1>1, <2>2
    <2>4. s = f BY <1>2, <2>1, <2>2, <2>3
    <2>5. QED BY <2>1, <2>4
  <1>6. ASSUME NEW id \in Ids, NEW s \in Stage, NEW x \in Stage, At(n, id, s)', At(n, id, x)'
        PROVE s = x
    <2>1. CASE id = i /\ t # 0 BY <1>5, <1>6, <2>1
    <2>2. CASE id # i \/ t = 0
      <3>1. At(n, id, s) /\ At(n, id, x) BY <1>1, <1>4, <1>6, <2>2
      <3>2. QED BY <1>2, <3>1
    <2>3. QED BY <2>1, <2>2
  <1>7. ASSUME NEW id \in Ids, NEW s \in Stage, id.by = n, At(n, id, s)'
        PROVE s \in {1, 9}
    <2>1. CASE At(n, id, s) BY <1>3, <1>7, <2>1
    <2>2. CASE id = i /\ s = t BY <1>4, <1>7, <2>2
    <2>3. QED BY <1>1, <1>7, <2>1, <2>2
  <1>8. QED BY <1>5, <1>6, <1>7

\* The other device, if no creation is sent to it.
LEMMA WayThere ==
  ASSUME NEW n \in Node, NEW m \in Node \ {n}, WayAt(m), Elsewhere(n),
         \A id \in Ids : InQueue(net[m], "remoteCreate", id)' => InQueue(net[m], "remoteCreate", id),
         Unique(net[m])',
         \A id \in Ids : /\ Unborn(n, id)' => Unborn(n, id)
                         /\ InQueue(events[n], "create", id)' =>
                              \/ InQueue(events[n], "create", id)
                              \/ Unborn(n, id) \/ id.by # n
  PROVE WayOn(m)
  <1>1. \A id \in Ids : Coming(m, id)' => Coming(m, id)
    <2> TAKE id \in Ids
    <2>1. id.by = n \/ id.by = m BY PeerType DEF Ids
    <2>2. CASE id.by = n BY <2>2 DEF Coming
    <2>3. CASE id.by = m BY <2>3, UnbornElsewhere DEF Coming
    <2>4. QED BY <2>1, <2>2, <2>3
  <1>2. /\ events'[m] = events[m] /\ reg'[m] = reg[m] /\ app'[m] = app[m]
        /\ incoming'[m] = incoming[m] /\ pending'[m] = pending[m] /\ late'[m] = late[m]
    BY DEF Elsewhere
  <1>3. \A id \in Ids, s \in Stage : At(m, id, s)' => At(m, id, s)
    BY <1>1, <1>2 DEF At, Stage, Made
  <1>4. 7 \in Stage /\ 8 \in Stage BY DEF Stage
  <1>5. WayAt(m)' BY <1>2, <1>3, <1>4 DEF WayAt
  <1>6. QED BY <1>3, <1>5, Onward

SameApp(a, b) ==
  /\ b.client = a.client /\ b.next = a.next /\ b.inst = a.inst /\ b.prf = a.prf
  /\ b.phase = a.phase

LEMMA ToAppJobs ==
  ASSUME app \in [Node -> Apps], NEW n \in Node, NEW l, NEW op \in {"incoming", "died"},
         NEW id \in Ids, ToApp(n, l, op, id)
  PROVE /\ SameApp(app[n], app'[n]) /\ app'[n].up = app[n].up
        /\ IF app[n].up /\ life[n] = l
           THEN app'[n].jobs = app[n].jobs \o <<[op |-> op, id |-> id]>>
           ELSE app' = app
        /\ [op |-> op, id |-> id] \in Jobs /\ app[n].jobs \in Seq(Jobs)
  <1> DEFINE j == [op |-> op, id |-> id]
             a == app[n]
  <1>1. a \in Apps /\ a.jobs \in Seq(Jobs) /\ j \in Jobs BY DEF Apps, Jobs
  <1> HIDE DEF j
  <1>2. Append(a.jobs, j) = a.jobs \o <<j>> BY <1>1, AppendOne
  <1>3. CASE app[n].up /\ life[n] = l
    <2>1. app' = [app EXCEPT ![n].jobs = Append(@, j)] BY <1>3 DEF ToApp, j
    <2>2. app'[n] = [a EXCEPT !.jobs = Append(@, j)] BY <2>1
    <2>3. app'[n].jobs = a.jobs \o <<j>> /\ SameApp(a, app'[n]) /\ app'[n].up = a.up
      BY <1>1, <1>2, <2>2 DEF SameApp, Apps
    <2>4. QED BY <1>1, <1>3, <2>3 DEF j
  <1>4. CASE ~(app[n].up /\ life[n] = l)
    BY <1>1, <1>4 DEF ToApp, SameApp, j
  <1>5. QED BY <1>3, <1>4

LEMMA ToLoadParts ==
  ASSUME NEW a, NEW b, NEW x \in Jobs, a.jobs \in Seq(Jobs), b.phase = a.phase,
         b.jobs = a.jobs \o <<x>>
  PROVE /\ \A id \in Ids : ToLoad(b, id) => ToLoad(a, id) \/ (x.op = "incoming" /\ x.id = id)
        /\ OnceToLoad(a) /\ (x.op = "incoming" => ~ToLoad(a, x.id)) => OnceToLoad(b)
  <1>1. <<x>> \in Seq(Jobs) OBVIOUS
  <1>2. /\ \A i \in DOMAIN b.jobs : \/ i \in DOMAIN a.jobs
                                    \/ i = Len(a.jobs) + 1 /\ b.jobs[i] = x
        /\ \A i \in DOMAIN a.jobs : b.jobs[i] = a.jobs[i]
    OBVIOUS
  <1>3. \A id \in Ids : ToLoad(b, id) => ToLoad(a, id) \/ (x.op = "incoming" /\ x.id = id)
    BY <1>2 DEF ToLoad, AwaitsLoad
  <1>4. ASSUME OnceToLoad(a), x.op = "incoming" => ~ToLoad(a, x.id) PROVE OnceToLoad(b)
    BY <1>2, <1>4 DEF OnceToLoad, ToLoad, AwaitsLoad
  <1>5. QED BY <1>3, <1>4

\* What all handlers of PmpPim leave as it is.
LEMMA PmpFrame ==
  ASSUME TypeOK, ProcessInv, NEW n \in Node, PmpStep(n)
  PROVE /\ SameApp(app[n], app'[n]) /\ done' = done /\ net'[n] = net[n]
        /\ \A id \in Ids : Unborn(n, id)' <=> Unborn(n, id)
  <1>0. VarsOK /\ CountsOK /\ ProcessesOK
    BY TypeParts
  <1>1. app \in [Node -> Apps] /\ app[n] \in Apps BY <1>0 DEF ProcessesOK
  <1>2. events \in [Node -> Seq(Events)] BY <1>0 DEF VarsOK
  <1>3. events[n] # <<>> => Head(events[n]) \in Events BY <1>2
  <1>4. SameApp(app[n], app'[n])
    <2>1. CASE ProcessIncomingProfile(n)
      <3>1. Head(events[n]).id \in Ids
        BY <1>3, <2>1, EventFields DEF ProcessIncomingProfile, Head1
      <3>2. QED
        BY <1>1, <2>1, <3>1, ToAppJobs DEF ProcessIncomingProfile, SameApp
    <2>2. CASE OnProfileDied(n)
      <3>1. Head(events[n]).id \in Ids
        BY <1>3, <2>2, EventFields DEF OnProfileDied, Head1
      <3>2. QED BY <1>1, <2>2, <3>1, ToAppJobs DEF OnProfileDied, SameApp
    <2>3. CASE Answer(n)
      <3>1. app' = app \/ \E t : app' = [app EXCEPT ![n] = [app[n] EXCEPT !.told = t]]
        BY <1>1, <2>3 DEF Answer
      <3>2. app'[n] = app[n] \/ \E t : app'[n] = [app[n] EXCEPT !.told = t]
        BY <1>1, <3>1
      <3>3. QED BY <1>1, <3>2 DEF SameApp, Apps
    <2>4. CASE UNCHANGED app BY <2>4 DEF SameApp
    <2>5. QED BY <2>1, <2>2, <2>3, <2>4 DEF PmpStep, OnConnection, OnConnectionLost,
          CreateProfile, ProfileDied, ReadyToServe, OnCreateProfile
  <1>5. done' = done
    BY DEF PmpStep, OnConnection, OnConnectionLost, CreateProfile, ProfileDied, ReadyToServe,
       OnCreateProfile, ProcessIncomingProfile, OnProfileDied, Answer
  <1>6. net'[n] = net[n]
    <2>1. (\E msgs : Send(n, msgs)) \/ UNCHANGED net
      BY DEF PmpStep, OnConnection, OnConnectionLost, CreateProfile, ProfileDied, ReadyToServe,
         OnCreateProfile, ProcessIncomingProfile, OnProfileDied, Answer, pmpVars
    <2>2. QED BY <1>0, <2>1, PeerType DEF Send, VarsOK
  <1>7. QED BY <1>4, <1>5, <1>6 DEF Unborn, SameApp

\* Deaths sent to the other device.
LEMMA DeathsSent ==
  ASSUME VarsOK, NEW n \in Node, NEW msgs \in Seq(Messages),
         Send(n, msgs), \A i \in DOMAIN msgs : msgs[i].op = "remoteDied", Unique(net[Peer(n)])
  PROVE LET m == Peer(n) IN
        /\ \A id \in Ids : InQueue(net[m], "remoteCreate", id)' => InQueue(net[m], "remoteCreate", id)
        /\ Unique(net[m])'
  <1>1. /\ net'[Peer(n)] = net[Peer(n)] \o msgs /\ net[Peer(n)] \in Seq(Messages)
    BY SendTypes DEF VarsOK
  <1>2. \A id \in Ids : ~InQueue(msgs, "remoteCreate", id) BY DEF InQueue
  <1>3. \A i \in DOMAIN msgs : ~Making(msgs[i]) BY DEF Making
  <1>4. Unique(msgs) BY <1>3, UniqueFew
  <1>5. Unique(net[Peer(n)] \o msgs) BY <1>1, <1>3, <1>4, UniqueParts
  <1>6. QED BY <1>1, <1>2, <1>5, InParts

LEMMA Diedless ==
  ASSUME NEW id \in Ids
  PROVE /\ \A i \in DOMAIN Deaths(<<id>>) : Deaths(<<id>>)[i].op = "remoteDied"
        /\ \A i \in DOMAIN Deaths(<<>>) : Deaths(<<>>)[i].op = "remoteDied"
  <1> DEFINE x == [op |-> "remoteDied", id |-> id]
  <1>1. Deaths(<<id>>) = <<x>> /\ Deaths(<<>>) = <<>> BY SingleDeath
  <1>2. x.op = "remoteDied" OBVIOUS
  <1> HIDE DEF x
  <1>3. DOMAIN <<x>> = {1} /\ <<x>>[1] = x /\ DOMAIN <<>> = {} OBVIOUS
  <1>4. QED BY <1>1, <1>2, <1>3

\* What a handler of PmpPim does to the queue: it takes the first event and
\* pushes none but that an incoming profile is to be processed.
LEMMA PmpQueue ==
  ASSUME TypeOK, ProcessInv, NEW n \in Node, PmpStep(n)
  PROVE /\ events[n] \in Seq(Events) /\ events[n] # <<>>
        /\ Head(events[n]) \in Events /\ Tail(events[n]) \in Seq(Events)
        /\ \A op, id : op # "process" =>
             (InQueue(events[n], op, id)' <=> InQueue(Tail(events[n]), op, id))
  <1> DEFINE e == Head(events[n])
             r == Tail(events[n])
  <1>0. VarsOK /\ CountsOK /\ ProcessesOK
    BY TypeParts
  <1>1. events[n] \in Seq(Events) /\ events[n] # <<>> /\ e \in Events /\ r \in Seq(Events)
    BY <1>0 DEF VarsOK, PmpStep, OnConnection, OnConnectionLost, CreateProfile, ProfileDied,
       ReadyToServe, OnCreateProfile, ProcessIncomingProfile, OnProfileDied, Answer, Head1
  <1>2. \E pushed \in Seq(Events) :
          Then(n, pushed) /\ \A op, id : op # "process" => ~InQueue(pushed, op, id)
    <2>1. \/ Then(n, <<>>)
          \/ Then(n, <<Process(e.id, e.life)>>) /\ e.op = "ready"
          \/ Then(n, <<Process(e.id, known[n])>>) /\ e.op = "remoteCreate" /\ serves[n]
      BY DEF PmpStep, OnConnection, OnConnectionLost, CreateProfile, ProfileDied,
         ReadyToServe, OnCreateProfile, ProcessIncomingProfile, OnProfileDied, Answer, Head1
    <2>2. ASSUME NEW id \in Ids, NEW l \in 1 .. MaxLives, Then(n, <<Process(id, l)>>)
          PROVE \E pushed \in Seq(Events) :
                  Then(n, pushed) /\ \A op, y : op # "process" => ~InQueue(pushed, op, y)
      <3> DEFINE x == Process(id, l)
      <3>1. x \in Events /\ x.op = "process" BY EventTypes DEF Process, Event
      <3> HIDE DEF x
      <3>2. <<x>> \in Seq(Events) BY ONLY <3>1
      <3>3. \A op, y : op # "process" => ~InQueue(<<x>>, op, y) BY <3>1, InFew
      <3>4. QED BY <2>2, <3>2, <3>3 DEF x
    <2>3. CASE Then(n, <<>>)
      <3>1. <<>> \in Seq(Events) OBVIOUS
      <3>2. QED BY <2>3, <3>1, InFew
    <2>4. CASE Then(n, <<Process(e.id, e.life)>>) /\ e.op = "ready"
      <3>1. e.id \in Ids /\ e.life \in 1 .. MaxLives BY <1>1, <2>4, EventFields
      <3>2. QED BY <2>2, <2>4, <3>1
    <2>5. CASE Then(n, <<Process(e.id, known[n])>>) /\ e.op = "remoteCreate" /\ serves[n]
      <3>1. e.id \in Ids BY <1>1, <2>5, EventFields
      <3>2. known[n] \in 0 .. MaxLives /\ known[n] # 0
        BY <1>0, <2>5 DEF ProcessInv, VarsOK
      <3>3. known[n] \in 1 .. MaxLives BY <3>2, BoundsAssumption
      <3>4. QED BY <2>2, <2>5, <3>1, <3>3
    <2>6. QED BY <2>1, <2>3, <2>4, <2>5
  <1>3. PICK pushed \in Seq(Events) :
          Then(n, pushed) /\ \A op, id : op # "process" => ~InQueue(pushed, op, id)
    BY <1>2
  <1>4. events'[n] = r \o pushed BY <1>0, <1>1, <1>3, ThenTypes DEF VarsOK
  <1>5. \A op, id : InQueue(r \o pushed, op, id) <=>
                      InQueue(r, op, id) \/ InQueue(pushed, op, id)
    BY ONLY <1>1, InParts, pushed \in Seq(Events)
  <1>6. QED BY <1>1, <1>3, <1>4, <1>5

\* PmpPim handles an event: the other device.
LEMMA PmpThere ==
  ASSUME TypeOK, ProcessInv, ConnectionInv, WayInv, NEW n \in Node, PmpStep(n), Elsewhere(n)
  PROVE WayOn(Peer(n))
  <1>m. PICK m \in Node \ {n} : m = Peer(n) BY PeerType
  <1> DEFINE q == events[n]
             e == Head(q)
             r == Tail(q)
  <1>0. VarsOK /\ CountsOK /\ ProcessesOK
    BY TypeParts
  <1>1. m \in Node \ {n} /\ WayAt(m) /\ WayAt(n) BY <1>m, WayParts
  <1>2. q \in Seq(Events) /\ q # <<>> /\ e \in Events /\ r \in Seq(Events)
    BY <1>0 DEF VarsOK, PmpStep, OnConnection, OnConnectionLost, CreateProfile, ProfileDied,
       ReadyToServe, OnCreateProfile, ProcessIncomingProfile, OnProfileDied, Answer, Head1
  <1>3. \A op, id : InQueue(q, op, id) <=> (e.op = op /\ e.id = id) \/ InQueue(r, op, id)
    BY <1>2, InRest
  <1>5. \A id : InQueue(events'[n], "create", id) => InQueue(r, "create", id)
    BY PmpQueue
  <1>6. \A id \in Ids : Unborn(n, id)' <=> Unborn(n, id) BY PmpFrame
  <1> HIDE DEF q, e, r
  <1>7. CASE ~(CreateProfile(n) /\ e.id \notin incoming[n] /\ e.id \notin reg[n])
    <2>1. /\ \A id \in Ids : InQueue(net[m], "remoteCreate", id)' => InQueue(net[m], "remoteCreate", id)
          /\ Unique(net[m])'
      <3>1. Unique(net[m]) BY <1>1 DEF WayAt
      <3>2. UNCHANGED net => /\ \A id \in Ids : InQueue(net[m], "remoteCreate", id)' => InQueue(net[m], "remoteCreate", id)
                             /\ Unique(net[m])'
        BY <3>1
      <3>3. UNCHANGED net \/ \E msgs \in Seq(Messages) :
              Send(n, msgs) /\ \A i \in DOMAIN msgs : msgs[i].op = "remoteDied"
        <4>1. CASE OnConnectionLost(n)
          <5>1. PICK order \in SetToSeqs(reg[n]) : Send(n, Deaths(order))
            BY <4>1 DEF OnConnectionLost
          <5>2. reg[n] \in SUBSET Ids BY <1>0 DEF VarsOK
          <5>3. QED BY <5>1, <5>2, DeathTypes
        <4>2. CASE ProfileDied(n)
          <5>1. e.id \in Ids BY <1>2, <4>2, EventFields DEF ProfileDied, Head1, e, q
          <5>2. Send(n, Deaths(<<e.id>>)) \/ Send(n, Deaths(<<>>))
            BY <4>2 DEF ProfileDied, e, q
          <5>3. QED BY <5>1, <5>2, SingleDeath, Diedless
        <4>3. CASE CreateProfile(n)
          <5>1. UNCHANGED net \/ Send(n, <<>>)
            BY <1>7, <4>3 DEF CreateProfile, e, q
          <5>2. <<>> \in Seq(Messages) /\ \A i \in DOMAIN <<>> : <<>>[i].op = "remoteDied"
            OBVIOUS
          <5>3. QED BY <5>1, <5>2
        <4>4. CASE UNCHANGED net BY <4>4
        <4>5. QED BY <4>1, <4>2, <4>3, <4>4 DEF PmpStep, OnConnection, ReadyToServe,
              OnCreateProfile, ProcessIncomingProfile, OnProfileDied, Answer, pmpVars
      <3>4. QED BY <1>0, <1>m, <3>1, <3>2, <3>3, DeathsSent
    <2>2. \A id \in Ids : /\ Unborn(n, id)' => Unborn(n, id)
                          /\ InQueue(events[n], "create", id)' => InQueue(events[n], "create", id)
      BY <1>3, <1>5, <1>6 DEF q
    <2>3. WayOn(m) BY <1>1, <2>1, <2>2, WayThere
    <2>4. QED BY <1>m, <2>3
  <1>8. CASE CreateProfile(n) /\ e.id \notin incoming[n] /\ e.id \notin reg[n]
    <2>i. PICK i : i = e.id OBVIOUS
    <2> DEFINE x == [op |-> "remoteCreate", id |-> i]
    <2>1. e.op = "create" /\ i \in Ids BY <1>2, <1>8, <2>i, EventFields DEF CreateProfile, Head1, e, q
    <2>2. InQueue(q, "create", i) BY <1>3, <2>1, <2>i
    <2>3. i.by = n /\ n # m
      <3>1. i.by # n => i \in incoming[n] BY <1>1, <2>1, <2>2 DEF WayAt, q
      <3>2. QED BY <1>1, <1>8, <2>i, <3>1
    <2>4. x \in Messages BY <2>1, EventTypes
    <2>5. Send(n, <<x>>) \/ UNCHANGED net
      BY <1>8, <2>i DEF CreateProfile, e, q
    <2> HIDE DEF x
    <2>6. <<x>> \in Seq(Messages) BY <2>4
    <2>7. net[m] \in Seq(Messages) /\ (net'[m] = net[m] \o <<x>> \/ net'[m] = net[m])
      BY <1>0, <1>m, <2>5, <2>6, SendTypes DEF VarsOK
    <2>8. /\ At(m, i, 1) /\ At(n, i, 9) /\ 1 \in Stage /\ 2 \in Stage /\ 9 \in Stage
      BY <2>2, <2>3 DEF At, Coming, Made, Stage, q
    <2>9. ~Unborn(n, i) /\ ~InQueue(r, "create", i)
      <3>1. ~At(n, i, 1) BY <1>1, <2>1, <2>8 DEF WayAt
      <3>2. Unique(q) BY <1>1 DEF WayAt, q
      <3>3. Making(e) BY <2>1 DEF Making
      <3>4. ~InQueue(r, e.op, e.id) BY <1>2, <3>2, <3>3, UniqueRest DEF e, r
      <3>5. QED BY <2>1, <2>i, <2>3, <3>1, <3>4 DEF At, Coming
    <2>10. ~At(m, i, 1)'
      <3>1. ~Unborn(n, i)' BY <1>6, <2>1, <2>9
      <3>2. ~InQueue(events[n], "create", i)' BY <1>5, <2>9
      <3>3. QED BY <2>3, <3>1, <3>2 DEF At, Coming
    <2>11. \A id \in Ids : Coming(m, id)' => Coming(m, id)
      <3> TAKE id \in Ids
      <3>1. id.by = n \/ id.by = m BY <1>m, PeerType DEF Ids
      <3>2. CASE id.by = n BY <1>3, <1>5, <1>6, <3>2 DEF Coming, q
      <3>3. CASE id.by = m BY <1>1, <3>3, UnbornElsewhere DEF Coming
      <3>4. QED BY <3>1, <3>2, <3>3
    <2>12. ~InQueue(net[m], "remoteCreate", i)
      <3>1. ~At(m, i, 2) BY <1>1, <2>1, <2>8 DEF WayAt
      <3>2. QED BY <3>1 DEF At
    <2>13. \A id : InQueue(net[m], "remoteCreate", id)' =>
             InQueue(net[m], "remoteCreate", id) \/ id = i
      <3>1. x.id = i BY DEF x
      <3>2. \A id : InQueue(net[m] \o <<x>>, "remoteCreate", id) <=>
              InQueue(net[m], "remoteCreate", id) \/ InQueue(<<x>>, "remoteCreate", id)
        BY ONLY <2>6, <2>7, InParts
      <3>3. QED BY <2>7, <3>1, <3>2, InFew
    <2>14. Unique(net[m])'
      <3>1. Unique(net[m]) BY <1>1 DEF WayAt
      <3>2. \A j \in DOMAIN <<x>> : Making(<<x>>[j]) => ~InQueue(net[m], <<x>>[j].op, <<x>>[j].id)
        BY <2>12 DEF x
      <3>3. QED BY <2>6, <2>7, <3>1, <3>2, UniqueParts, UniqueFew
    <2>15. /\ events'[m] = events[m] /\ reg'[m] = reg[m] /\ app'[m] = app[m]
           /\ incoming'[m] = incoming[m] /\ pending'[m] = pending[m] /\ late'[m] = late[m]
      BY <1>1 DEF Elsewhere
    <2>16. \A id \in Ids, s \in Stage : At(m, id, s)' => At(m, id, s) \/ (id = i /\ s = 2)
      BY <2>11, <2>13, <2>15 DEF At, Stage, Made
    <2>17. \A s \in Stage : At(m, i, s)' => s = 2
      <3> SUFFICES ASSUME NEW s \in Stage, At(m, i, s)', s # 2 PROVE FALSE
        OBVIOUS
      <3>1. At(m, i, s) BY <2>1, <2>16
      <3>2. s = 1 BY <1>1, <2>1, <2>8, <3>1 DEF WayAt
      <3>3. QED BY <2>10, <3>2
    <2>18. (\A id \in Ids, s, t \in Stage : At(m, id, s) /\ At(m, id, t) => s = t)'
      <3> SUFFICES ASSUME NEW id \in Ids, NEW s \in Stage, NEW t \in Stage,
                          At(m, id, s)', At(m, id, t)'
                   PROVE s = t
        OBVIOUS
      <3>1. CASE id = i BY <2>17, <3>1
      <3>2. CASE id # i BY <1>1, <2>16, <3>2 DEF WayAt
      <3>3. QED BY <3>1, <3>2
    <2>19. (\A id \in Ids, s \in Stage : id.by = m /\ At(m, id, s) => s \in {1, 9})'
      BY <1>1, <2>3, <2>16 DEF WayAt
    <2>20. \A id \in Ids : /\ At(m, id, 7)' => At(m, id, 7)
                           /\ At(m, id, 8)' => At(m, id, 8)
      BY <2>16 DEF Stage
    <2>21. WayAt(m)' BY <1>1, <2>14, <2>15, <2>18, <2>19, <2>20 DEF WayAt
    <2>22. i \in reg'[n]
      <3>1. /\ known[n] \in Nat /\ life[n] \in Nat
            /\ Ordered(q, known[n], life[n], app[n].up)
        BY <1>0, BoundsAssumption DEF VarsOK, CountsOK, ConnectionInv, q
      <3>2. known[n] = e.life BY <1>2, <2>1, <3>1, OrderedHandle DEF e
      <3>3. reg' = [reg EXCEPT ![n] = @ \cup {i}] BY <1>8, <2>i, <3>2 DEF CreateProfile, e, q
      <3>4. QED BY <1>0, <3>3 DEF VarsOK
    <2>23. ASSUME NEW id \in Ids, NEW s \in Stage, At(m, id, s)'
           PROVE /\ Somewhere(m, id)
                 /\ id.by # m /\ s # 1 => Sent(m, id) \/ id \in reg'[id.by]
                 /\ Made(m, id) => Made(m, id)'
      <3>1. \A j : (Made(m, j) <=> At(m, j, 9)) /\ (Made(m, j)' <=> At(m, j, 9)')
        BY DEF At
      <3>2. CASE At(m, id, s)
        <4>1. Somewhere(m, id) /\ (s # 1 => Sent(m, id)) BY <3>2 DEF Somewhere, Sent
        <4>2. Made(m, id) => s = 9 BY <1>1, <2>8, <3>1, <3>2 DEF WayAt
        <4>3. QED BY <2>23, <3>1, <4>1, <4>2
      <3>3. CASE id = i /\ s = 2
        <4>1. Somewhere(m, id) BY <2>8, <3>3 DEF Somewhere
        <4>2. ~Made(m, id)
          <5>1. ~At(m, i, 9) BY <1>1, <2>1, <2>8 DEF WayAt
          <5>2. QED BY <3>1, <3>3, <5>1
        <4>3. QED BY <2>3, <2>22, <3>3, <4>1, <4>2
      <3>4. QED BY <2>16, <2>23, <3>2, <3>3
    <2>24. WayOn(m) BY <2>21, <2>23 DEF WayOn, Somewhere, Sent
    <2>25. QED BY <1>m, <2>24
  <1>9. QED BY <1>m, <1>7, <1>8

\* The device of the step: something moves from one place to the next one.
LEMMA MovesWay ==
  ASSUME NEW n \in Node, WayAt(n), Elsewhere(n), NEW i, NEW t, Kept(n, i, t),
         \/ t = 0
         \/ /\ i \in Ids /\ t \in Stage /\ (i.by = n => t = 9)
            /\ \E f \in Stage : /\ At(n, i, f) /\ (f = t \/ ~At(n, i, f)')
                                /\ f \in {1, 9} => i.by = n,
         Unique(net[n])', Unique(events[n])', OnceToLoad(app[n])',
         \A id \in Ids : InQueue(events[n], "create", id)' => id \notin reg'[n],
         incoming[n] \subseteq incoming'[n], t \in {7, 8} => i \in incoming'[n],
         \A id \in Ids : id.by # n /\ InQueue(events[n], "create", id)' =>
                           InQueue(events[n], "create", id) \/ id \in incoming'[n]
  PROVE WayOn(n)
  <1>1. /\ (\A id \in Ids, s, x \in Stage : At(n, id, s) /\ At(n, id, x) => s = x)'
        /\ (\A id \in Ids, s \in Stage : id.by = n /\ At(n, id, s) => s \in {1, 9})'
    <2>1. \/ t = 0
          \/ /\ i \in Ids /\ t \in Stage /\ (i.by = n => t = 9)
             /\ \E f \in Stage : At(n, i, f) /\ (f = t \/ ~At(n, i, f)')
      OBVIOUS
    <2>2. QED BY <2>1, WayMoves
  <1>2. \A id \in Ids : /\ At(n, id, 7)' => At(n, id, 7) \/ id \in incoming'[n]
                        /\ At(n, id, 8)' => At(n, id, 8) \/ id \in incoming'[n]
    BY KeptPlaces DEF Stage
  <1>3. \A id \in Ids : (\/ At(n, id, 7) \/ At(n, id, 8)
                         \/ id.by # n /\ InQueue(events[n], "create", id)) => id \in incoming[n]
    BY DEF WayAt
  <1>4. (\A id \in Ids : (\/ At(n, id, 7) \/ At(n, id, 8)
                          \/ id.by # n /\ InQueue(events[n], "create", id)) => id \in incoming[n])'
    BY <1>2, <1>3
  <1>5. WayAt(n)' BY <1>1, <1>4 DEF WayAt
  <1>6. \A id \in Ids, s \in Stage : At(n, id, s)' => At(n, id, s) \/ (id = i /\ s = t)
    BY KeptPlaces
  <1>7. 1 \in Stage /\ 9 \in Stage /\ 0 \notin Stage
        /\ \A id : (Made(n, id) <=> At(n, id, 9)) /\ (Made(n, id)' <=> At(n, id, 9)')
    BY DEF At, Stage
  <1>8. CASE t = 0 BY <1>5, <1>6, <1>7, <1>8, Onward
  <1>9. CASE t # 0
    <2>1. PICK f \in Stage : /\ At(n, i, f) /\ (f = t \/ ~At(n, i, f)')
                             /\ f \in {1, 9} => i.by = n
      BY <1>9
    <2>2. i \in Ids /\ (i.by = n => t = 9) BY <1>9
    <2>3. ASSUME NEW id \in Ids, NEW s \in Stage, At(n, id, s)'
          PROVE /\ Somewhere(n, id)
                /\ id.by # n /\ s # 1 => Sent(n, id)
                /\ Made(n, id) => Made(n, id)'
      <3>1. CASE At(n, id, s)
        <4>1. Somewhere(n, id) /\ (s # 1 => Sent(n, id)) BY <3>1 DEF Somewhere, Sent
        <4>2. Made(n, id) => s = 9 BY <1>7, <3>1 DEF WayAt
        <4>3. QED BY <1>7, <2>3, <4>1, <4>2
      <3>2. CASE id = i /\ s = t
        <4>1. Somewhere(n, id) /\ (id.by # n => Sent(n, id))
          <5>1. Somewhere(n, i) BY <2>1 DEF Somewhere
          <5>2. i.by # n => f \in Stage \ {1} BY <2>1
          <5>3. i.by # n => Sent(n, i) BY <2>1, <5>2 DEF Sent
          <5>4. QED BY <3>2, <5>1, <5>3
        <4>2. Made(n, id) => f = 9
          <5>1. Made(n, i) => At(n, i, 9) /\ 9 \in Stage BY <1>7
          <5>2. QED BY <2>1, <2>2, <3>2, <5>1 DEF WayAt
        <4>3. QED BY <1>7, <2>1, <2>2, <2>3, <3>2, <4>1, <4>2
      <3>3. QED BY <1>6, <2>3, <3>1, <3>2
    <2>4. QED BY <1>5, <2>3 DEF WayOn, Somewhere, Sent
  <1>10. QED BY <1>8, <1>9

\* A step that only forgets.
LEMMA FallsWay ==
  ASSUME NEW n \in Node, WayAt(n), Elsewhere(n), Kept(n, 0, 0),
         Unique(net[n])', Unique(events[n])', OnceToLoad(app[n])',
         \A id \in Ids : InQueue(events[n], "create", id)' => InQueue(events[n], "create", id),
         reg'[n] \subseteq reg[n], incoming[n] \subseteq incoming'[n]
  PROVE WayOn(n)
  BY MovesWay DEF WayAt

LEMMA PmpHere ==
  ASSUME TypeOK, ProcessInv, ConnectionInv, WayInv, NEW n \in Node, PmpStep(n), Elsewhere(n)
  PROVE WayOn(n)
  <1> DEFINE q == events[n]
             e == Head(q)
             r == Tail(q)
             a == app[n]
  <1>0. VarsOK /\ CountsOK /\ ProcessesOK
    BY TypeParts
  <1>1. WayAt(n) BY WayParts
  <1>2. /\ q \in Seq(Events) /\ q # <<>> /\ e \in Events /\ r \in Seq(Events)
        /\ a \in Apps /\ app \in [Node -> Apps] /\ a.jobs \in Seq(Jobs)
    BY <1>0 DEF VarsOK, PmpStep, OnConnection, OnConnectionLost, CreateProfile, ProfileDied,
       ReadyToServe, OnCreateProfile, ProcessIncomingProfile, OnProfileDied, Answer, Head1,
       ProcessesOK, Apps
  <1>3. \A op, id : InQueue(q, op, id) <=> (e.op = op /\ e.id = id) \/ InQueue(r, op, id)
    BY <1>2, InRest
  <1>4. Unique(r) /\ (Making(e) => ~InQueue(r, e.op, e.id))
    BY <1>1, <1>2, UniqueRest DEF WayAt
  <1>5. /\ SameApp(a, app'[n]) /\ done' = done /\ net'[n] = net[n]
        /\ \A id \in Ids : Unborn(n, id)' <=> Unborn(n, id)
    BY PmpFrame
  <1>6. /\ Unique(net[n])' /\ OnceToLoad(a)
    BY <1>1, <1>5 DEF WayAt
  <1>7. \A pushed \in Seq(Events) : Then(n, pushed) => events'[n] = r \o pushed
    BY <1>0, <1>2, ThenTypes DEF VarsOK
  <1>8. Then(n, <<>>) => events'[n] = r
    <2>1. <<>> \in Seq(Events) /\ \A s \in Seq(Events) : s \o <<>> = s OBVIOUS
    <2>2. r \o <<>> = r BY ONLY <1>2, <2>1
    <2>3. QED BY <1>7, <2>1, <2>2
  <1>9. app'[n].jobs = a.jobs =>
          /\ OnceToLoad(app[n])'
          /\ \A id \in Ids : /\ ToLoad(app[n], id)' <=> ToLoad(app[n], id)
                             /\ InQueue(app[n].jobs, "died", id)' <=> InQueue(app[n].jobs, "died", id)
    BY <1>5, <1>6 DEF SameApp, OnceToLoad, ToLoad, AwaitsLoad
  <1>p. \A id \in Ids : (app[n].prf[id.p] = id)' <=> app[n].prf[id.p] = id
    BY <1>5 DEF SameApp
  <1>i. PICK i : i = e.id OBVIOUS
  <1>u. e.op \in {"create", "died", "ready", "process", "remoteCreate", "remoteDied"} => i \in Ids
    BY <1>2, <1>i, EventFields
  <1> HIDE DEF q, e, r, a
  \* The way is the same but for the first event.
  <1>10. ASSUME Then(n, <<>>), app'[n].jobs = a.jobs, late'[n] = late[n],
                pending'[n] \subseteq pending[n], reg'[n] \subseteq reg[n]
         PROVE Kept(n, 0, 0) /\ Unique(events[n])'
               /\ \A id \in Ids : InQueue(events[n], "create", id)' => InQueue(events[n], "create", id)
    <2>1. \A op, id : InQueue(events[n], op, id)' => InQueue(events[n], op, id)
      BY <1>3, <1>8, <1>10 DEF q
    <2>2. \A id \in Ids : Made(n, id)' => Made(n, id)
      BY <1>5, <1>9, <1>10, <2>1 DEF Made, SameApp, a
    <2>3. Kept(n, 0, 0)
      BY <1>5, <1>9, <1>p, <1>10, <2>1, <2>2 DEF Kept
    <2>4. QED BY <1>4, <1>8, <1>10, <2>1, <2>3
  <1>11. CASE OnConnection(n) \/ OnConnectionLost(n) \/ ProfileDied(n) \/ Answer(n)
    <2>1. /\ Then(n, <<>>) /\ late' = late /\ pending' = pending /\ reg'[n] \subseteq reg[n]
          /\ incoming' = incoming
      BY <1>0, <1>11 DEF OnConnection, OnConnectionLost, ProfileDied, Answer, pmpVars, VarsOK
    <2>2. app'[n].jobs = a.jobs
      <3>1. CASE Answer(n)
        <4>1. app' = app \/ \E t : app' = [app EXCEPT ![n] = [a EXCEPT !.told = t]]
          BY <1>2, <3>1 DEF Answer, a
        <4>2. app'[n] = a \/ \E t : app'[n] = [a EXCEPT !.told = t]
          BY <1>2, <4>1 DEF a
        <4>3. QED BY <1>2, <4>2 DEF Apps
      <3>2. QED BY <1>11, <3>1 DEF OnConnection, OnConnectionLost, ProfileDied, a
    <2>3. Kept(n, 0, 0) /\ Unique(events[n])' /\ OnceToLoad(app[n])'
          /\ \A id \in Ids : InQueue(events[n], "create", id)' => InQueue(events[n], "create", id)
      BY <1>9, <1>10, <2>1, <2>2
    <2>4. QED BY <1>1, <1>6, <2>1, <2>3, FallsWay
  <1>12. CASE OnProfileDied(n)
    <2>1. i \in Ids /\ Then(n, <<>>) /\ late' = late /\ pending' = pending /\ incoming' = incoming
          /\ \/ i \in reg[n] /\ reg' = [reg EXCEPT ![n] = @ \ {i}] /\ ToApp(n, known[n], "died", i)
             \/ i \notin reg[n] /\ reg' = reg /\ app' = app
      BY <1>u, <1>i, <1>12 DEF OnProfileDied, Head1, e, q
    <2>2. CASE app'[n].jobs = a.jobs
      <3>1. reg'[n] \subseteq reg[n] BY <1>0, <2>1 DEF VarsOK
      <3>2. Kept(n, 0, 0) /\ Unique(events[n])' /\ OnceToLoad(app[n])'
            /\ \A id \in Ids : InQueue(events[n], "create", id)' => InQueue(events[n], "create", id)
        BY <1>9, <1>10, <2>1, <2>2, <3>1
      <3>3. QED BY <1>1, <1>6, <2>1, <3>1, <3>2, FallsWay
    <2>3. CASE app'[n].jobs # a.jobs
      <3> DEFINE j == [op |-> "died", id |-> i]
      <3>1. i \in reg[n] /\ reg' = [reg EXCEPT ![n] = @ \ {i}] /\ ToApp(n, known[n], "died", i)
        BY <2>1, <2>3 DEF a
      <3>2. app'[n].jobs = a.jobs \o <<j>> /\ j \in Jobs
        BY <1>2, <2>1, <2>3, <3>1, ToAppJobs DEF a
      <3>3. j.op = "died" /\ j.id = i OBVIOUS
      <3> HIDE DEF j
      <3>4. OnceToLoad(app[n])' /\ \A id \in Ids : ToLoad(app[n], id)' => ToLoad(app[n], id)
        BY <1>2, <1>5, <1>6, <3>2, <3>3, ToLoadParts DEF SameApp, a
      <3>5. \A id : InQueue(app'[n].jobs, "died", id) =>
              InQueue(a.jobs, "died", id) \/ id = i
        <4>1. <<j>> \in Seq(Jobs) BY <3>2
        <4>2. \A id : InQueue(a.jobs \o <<j>>, "died", id) <=>
                InQueue(a.jobs, "died", id) \/ InQueue(<<j>>, "died", id)
          BY ONLY <1>2, <4>1, InParts
        <4>3. QED BY <3>2, <3>3, <4>2, InFew
      <3>6. \A op, id : InQueue(events[n], op, id)' => InQueue(events[n], op, id)
        BY <1>3, <1>8, <2>1 DEF q
      <3>7. reg'[n] \subseteq reg[n] BY <1>0, <3>1 DEF VarsOK
      <3>8. \A id \in Ids : Made(n, id)' => Made(n, id)
        BY <1>5, <3>1, <3>5, <3>6, <3>7 DEF Made, SameApp, a
      <3>9. Kept(n, 0, 0)
        BY <1>5, <1>p, <2>1, <3>4, <3>6, <3>8 DEF Kept
      <3>10. Unique(events[n])' BY <1>4, <1>8, <2>1
      <3>11. QED BY <1>1, <1>6, <2>1, <3>4, <3>6, <3>7, <3>9, <3>10, FallsWay
    <2>4. QED BY <2>2, <2>3
  <1>13. CASE CreateProfile(n)
    <2>1. /\ e.op = "create" /\ i \in Ids /\ Then(n, <<>>) /\ late' = late /\ pending' = pending
          /\ app' = app
      BY <1>u, <1>i, <1>13 DEF CreateProfile, Head1, e, q
    <2>2. known[n] = e.life
      <3>1. /\ known[n] \in Nat /\ life[n] \in Nat
            /\ Ordered(q, known[n], life[n], app[n].up)
        BY <1>0, BoundsAssumption DEF VarsOK, CountsOK, ConnectionInv, q
      <3>2. QED BY <1>2, <2>1, <3>1, OrderedHandle DEF e
    <2>3. incoming'[n] = incoming[n] \ {i} /\ reg'[n] = reg[n] \cup {i}
      BY <1>0, <1>13, <1>i, <2>2 DEF CreateProfile, VarsOK, e, q
    <2>4. \A op, id : InQueue(events[n], op, id)' => InQueue(events[n], op, id)
      BY <1>3, <1>8, <2>1 DEF q
    <2>5. InQueue(events[n], "create", i) /\ ~InQueue(events[n], "create", i)'
      BY <1>3, <1>4, <1>8, <1>i, <2>1 DEF Making, q
    <2>6. \A id \in Ids : Made(n, id)' => Made(n, id)
      BY <2>1, <2>3, <2>4, <2>5 DEF Made
    <2>7. OnceToLoad(app[n])'
          /\ \A id \in Ids : ToLoad(app[n], id)' <=> ToLoad(app[n], id)
      BY <1>9, <2>1 DEF a
    <2>8. Kept(n, 0, 0)
      BY <1>5, <1>p, <2>1, <2>4, <2>6, <2>7 DEF Kept
    <2>9. /\ (\A id \in Ids, s, x \in Stage : At(n, id, s) /\ At(n, id, x) => s = x)'
          /\ (\A id \in Ids, s \in Stage : id.by = n /\ At(n, id, s) => s \in {1, 9})'
      BY <1>1, <2>8, WayMoves
    <2>10. Unique(events[n])' BY <1>4, <1>8, <2>1
    <2>11. \A id \in Ids, s \in Stage : At(n, id, s)' => At(n, id, s)
      <3>1. \A id \in Ids, s \in Stage : At(n, id, s)' => At(n, id, s) \/ (id = 0 /\ s = 0)
        BY <2>8, KeptPlaces
      <3>2. QED BY <3>1 DEF Stage
    <2>12. (\A id \in Ids : InQueue(events[n], "create", id) => id \notin reg[n])'
      BY <1>1, <2>3, <2>4, <2>5 DEF WayAt
    <2>13. (\A id \in Ids : (\/ At(n, id, 7) \/ At(n, id, 8)
                             \/ id.by # n /\ InQueue(events[n], "create", id)) => id \in incoming[n])'
      <3>1. At(n, i, 9) /\ 9 \in Stage /\ 7 \in Stage /\ 8 \in Stage
        BY <2>5 DEF At, Made, Stage
      <3>2. ~At(n, i, 7) /\ ~At(n, i, 8) BY <1>1, <2>1, <3>1 DEF WayAt
      <3>3. \A id \in Ids : /\ At(n, id, 7)' => At(n, id, 7) /\ id # i
                            /\ At(n, id, 8)' => At(n, id, 8) /\ id # i
        BY <2>11, <3>1, <3>2
      <3>4. \A id \in Ids : InQueue(events[n], "create", id)' =>
                              InQueue(events[n], "create", id) /\ id # i
        BY <2>4, <2>5
      <3>5. \A id \in Ids : id \in incoming[n] /\ id # i => id \in incoming'[n]
        BY <2>3
      <3>6. \A id \in Ids : (\/ At(n, id, 7) \/ At(n, id, 8)
                             \/ id.by # n /\ InQueue(events[n], "create", id)) => id \in incoming[n]
        BY <1>1 DEF WayAt
      <3>7. QED BY <3>3, <3>4, <3>5, <3>6
    <2>14. WayAt(n)' BY <1>6, <2>7, <2>9, <2>10, <2>12, <2>13 DEF WayAt
    <2>15. QED BY <1>1, <2>11, <2>14, Onward
  \* An event "process" for i is pushed.
  <1>14. ASSUME NEW l \in 1 .. MaxLives, i \in Ids, Then(n, <<Process(i, l)>>),
                ~InQueue(q, "process", i)
         PROVE /\ Unique(events[n])'
               /\ \A op, id : InQueue(events[n], op, id)' =>
                    InQueue(r, op, id) \/ (op = "process" /\ id = i)
    <2> DEFINE x == Process(i, l)
    <2>1. x \in Events /\ x.op = "process" /\ x.id = i
      BY <1>14, EventTypes DEF Process, Event
    <2>2. Then(n, <<x>>) BY <1>14
    <2> HIDE DEF x
    <2>3. <<x>> \in Seq(Events) BY <2>1
    <2>4. events'[n] = r \o <<x>> BY <1>7, <2>2, <2>3
    <2>5. \A op, id : InQueue(r \o <<x>>, op, id) <=>
            InQueue(r, op, id) \/ InQueue(<<x>>, op, id)
      BY ONLY <1>2, <2>3, InParts
    <2>6. ~InQueue(r, "process", i) BY <1>3, <1>14
    <2>7. Unique(r \o <<x>>)
      <3>1. \A j \in DOMAIN <<x>> : Making(<<x>>[j]) => ~InQueue(r, <<x>>[j].op, <<x>>[j].id)
        BY <2>1, <2>6
      <3>2. QED BY <1>2, <1>4, <2>3, <3>1, UniqueParts, UniqueFew
    <2>8. QED BY <2>1, <2>4, <2>5, <2>7, InFew
  <1>15. CASE ReadyToServe(n)
    <2>1. /\ e.op = "ready" /\ i \in Ids /\ late' = late /\ reg' = reg /\ app' = app
          /\ incoming' = incoming /\ pending'[n] = pending[n] \ {i}
          /\ \/ Then(n, <<>>)
             \/ i \in pending[n] /\ Then(n, <<Process(i, e.life)>>)
      BY <1>0, <1>u, <1>i, <1>15 DEF ReadyToServe, erasePending, Head1, e, q, VarsOK
    <2>2. CASE Then(n, <<>>)
      <3>1. Kept(n, 0, 0) /\ Unique(events[n])' /\ OnceToLoad(app[n])'
            /\ \A id \in Ids : InQueue(events[n], "create", id)' => InQueue(events[n], "create", id)
        BY <1>9, <1>10, <2>1, <2>2 DEF a
      <3>2. QED BY <1>1, <1>6, <2>1, <3>1, FallsWay
    <2>3. CASE i \in pending[n] /\ Then(n, <<Process(i, e.life)>>)
      <3>1. At(n, i, 5) /\ ~At(n, i, 5)' BY <2>1, <2>3 DEF At
      <3>2. 5 \in Stage /\ 6 \in Stage BY DEF Stage
      <3>3. ~At(n, i, 6) /\ i.by # n
        BY <1>1, <2>1, <3>1, <3>2 DEF WayAt
      <3>4. ~InQueue(q, "process", i) BY <3>3 DEF At, q
      <3>5. e.life \in 1 .. MaxLives BY <1>2, <2>1, EventFields
      <3>6. /\ Unique(events[n])'
            /\ \A op, id : InQueue(events[n], op, id)' =>
                 InQueue(events[n], op, id) \/ (op = "process" /\ id = i)
        <4>1. PICK l \in 1 .. MaxLives : l = e.life BY <3>5
        <4>2. Then(n, <<Process(i, l)>>) BY <2>3, <4>1
        <4>3. /\ Unique(events[n])'
              /\ \A op, id : InQueue(events[n], op, id)' =>
                   InQueue(r, op, id) \/ (op = "process" /\ id = i)
          BY <1>14, <2>1, <3>4, <4>2
        <4>4. QED BY <1>3, <4>3 DEF q
      <3>7. \A id \in Ids : Made(n, id)' => Made(n, id)
        BY <2>1, <3>6 DEF Made
      <3>8. OnceToLoad(app[n])' /\ \A id \in Ids : ToLoad(app[n], id)' <=> ToLoad(app[n], id)
        BY <1>9, <2>1 DEF a
      <3>9. Kept(n, i, 6)
        BY <1>5, <1>p, <2>1, <3>6, <3>7, <3>8 DEF Kept
      <3>10. \A id \in Ids : InQueue(events[n], "create", id)' => InQueue(events[n], "create", id)
        BY <3>6
      <3>11. QED
        BY <1>1, <1>6, <2>1, <3>1, <3>2, <3>3, <3>6, <3>8, <3>9, <3>10, MovesWay DEF WayAt
    <2>4. QED BY <2>1, <2>2, <2>3
  <1>16. CASE OnCreateProfile(n)
    <2>1. /\ e.op = "remoteCreate" /\ i \in Ids /\ reg' = reg /\ app' = app
          /\ incoming' = incoming
          /\ \/ /\ Then(n, <<>>) /\ late'[n] = late[n] \cup {i} /\ pending' = pending
             \/ /\ Then(n, <<Process(i, known[n])>>) /\ serves[n]
                /\ late' = late /\ pending' = pending
             \/ /\ Then(n, <<>>) /\ late' = late
                /\ pending[n] = {} /\ pending'[n] = {i}
      <3>1. e.op = "remoteCreate" /\ i \in Ids /\ reg' = reg /\ app' = app /\ incoming' = incoming
        BY <1>u, <1>16 DEF OnCreateProfile, Head1, e, q
      <3>2. CASE pending[n] # {} /\ Then(n, <<>>) /\ late' = [late EXCEPT ![n] = @ \cup {i}]
                 /\ pending' = pending
        BY <1>0, <3>1, <3>2 DEF VarsOK
      <3>3. CASE pending[n] = {} /\ Then(n, <<>>) /\ pending' = [pending EXCEPT ![n] = {i}]
                 /\ late' = late
        BY <1>0, <3>1, <3>3 DEF VarsOK
      <3>4. CASE Then(n, <<Process(i, known[n])>>) /\ serves[n]
                /\ late' = late /\ pending' = pending
        BY <3>1, <3>4
      <3>5. QED BY <1>16, <1>i, <3>2, <3>3, <3>4 DEF OnCreateProfile, e, q
    <2>2. At(n, i, 3) /\ ~InQueue(r, "remoteCreate", i)
      BY <1>3, <1>4, <1>i, <2>1 DEF At, Making, q
    <2>3. 3 \in Stage /\ 4 \in Stage /\ 5 \in Stage /\ 6 \in Stage BY DEF Stage
    <2>4. ~At(n, i, 6) /\ i.by # n
      BY <1>1, <2>1, <2>2, <2>3 DEF WayAt
    <2>5. /\ Unique(events[n])'
          /\ \/ /\ \A op, id : InQueue(events[n], op, id)' => InQueue(events[n], op, id)
                /\ \/ late'[n] = late[n] \cup {i} /\ pending' = pending
                   \/ late' = late /\ pending[n] = {} /\ pending'[n] = {i}
             \/ /\ \A op, id : InQueue(events[n], op, id)' =>
                     InQueue(events[n], op, id) \/ (op = "process" /\ id = i)
                /\ late' = late /\ pending' = pending
          /\ ~InQueue(events[n], "remoteCreate", i)'
      <3>1. CASE Then(n, <<>>)
        <4>1. events'[n] = r BY <1>8, <3>1
        <4>2. /\ Unique(events[n])' /\ ~InQueue(events[n], "remoteCreate", i)'
              /\ \A op, id : InQueue(events[n], op, id)' => InQueue(events[n], op, id)
          BY <1>3, <1>4, <2>2, <4>1 DEF q
        <4>3. CASE late'[n] = late[n] \cup {i} /\ pending' = pending BY <4>2, <4>3
        <4>4. CASE late' = late /\ pending[n] = {} /\ pending'[n] = {i} BY <4>2, <4>4
        <4>5. CASE late' = late /\ pending' = pending BY <4>2, <4>5
        <4>6. QED BY <2>1, <4>3, <4>4, <4>5
      <3>2. CASE Then(n, <<Process(i, known[n])>>) /\ serves[n] /\ late' = late /\ pending' = pending
        <4>1. known[n] \in 1 .. MaxLives
          <5>1. known[n] \in 0 .. MaxLives /\ known[n] # 0
            BY <1>0, <3>2 DEF VarsOK, ProcessInv
          <5>2. QED BY <5>1, BoundsAssumption
        <4>2. ~InQueue(q, "process", i) BY <2>4 DEF At, q
        <4>3. PICK l \in 1 .. MaxLives : l = known[n] BY <4>1
        <4>4. Then(n, <<Process(i, l)>>) BY <3>2, <4>3
        <4>5. /\ Unique(events[n])'
              /\ \A op, id : InQueue(events[n], op, id)' =>
                   InQueue(r, op, id) \/ (op = "process" /\ id = i)
          BY <1>14, <2>1, <4>2, <4>4
        <4>6. ~InQueue(events[n], "remoteCreate", i)' BY <2>2, <4>5
        <4>7. \A op, id : InQueue(events[n], op, id)' =>
                InQueue(events[n], op, id) \/ (op = "process" /\ id = i)
          BY <1>3, <4>5 DEF q
        <4>8. QED BY <3>2, <4>5, <4>6, <4>7
      <3>3. QED BY <2>1, <3>1, <3>2
    <2>6. \A id \in Ids : InQueue(events[n], "create", id)' => InQueue(events[n], "create", id)
      BY <2>5
    <2>7. \A id \in Ids : Made(n, id)' => Made(n, id)
      BY <2>1, <2>6 DEF Made
    <2>8. OnceToLoad(app[n])' /\ \A id \in Ids : ToLoad(app[n], id)' <=> ToLoad(app[n], id)
      BY <1>9, <2>1 DEF a
    <2>9. ~At(n, i, 3)' BY <2>5 DEF At
    <2>10. Kept(n, i, 4) \/ Kept(n, i, 5) \/ Kept(n, i, 6)
      <3>1. CASE \A op, id : InQueue(events[n], op, id)' => InQueue(events[n], op, id)
        <4>1. CASE late'[n] = late[n] \cup {i} /\ pending' = pending
          <5>1. Kept(n, i, 4)
            BY <1>5, <1>p, <2>1, <2>7, <2>8, <3>1, <4>1 DEF Kept
          <5>2. QED BY <5>1
        <4>2. CASE late' = late /\ pending[n] = {} /\ pending'[n] = {i}
          <5>1. Kept(n, i, 5)
            BY <1>5, <1>p, <2>1, <2>7, <2>8, <3>1, <4>2 DEF Kept
          <5>2. QED BY <5>1
        <4>3. CASE late' = late /\ pending' = pending
          <5>1. Kept(n, i, 6)
            BY <1>5, <1>p, <2>1, <2>7, <2>8, <3>1, <4>3 DEF Kept
          <5>2. QED BY <5>1
        <4>4. QED BY <2>5, <4>1, <4>2, <4>3
      <3>2. CASE /\ \A op, id : InQueue(events[n], op, id)' =>
                      InQueue(events[n], op, id) \/ (op = "process" /\ id = i)
                 /\ late' = late /\ pending' = pending
        <4>1. Kept(n, i, 6)
          BY <1>5, <1>p, <2>1, <2>7, <2>8, <3>2 DEF Kept
        <4>2. QED BY <4>1
      <3>3. QED BY <2>5, <3>1, <3>2
    <2>11. \A id \in Ids : InQueue(events[n], "create", id)' => id \notin reg'[n]
      BY <1>1, <2>1, <2>6 DEF WayAt
    <2>12. PICK t \in {4, 5, 6} : Kept(n, i, t) BY <2>10
    <2>13. t \in Stage /\ t \notin {7, 8} BY DEF Stage
    <2>14. QED
      BY <1>1, <1>6, <2>1, <2>2, <2>3, <2>4, <2>5, <2>6, <2>8, <2>9, <2>11, <2>12, <2>13, MovesWay
  <1>17. CASE ProcessIncomingProfile(n)
    <2>1. /\ e.op = "process" /\ i \in Ids /\ Then(n, <<>>) /\ late' = late
          /\ pending' = pending /\ reg' = reg
          /\ \/ incoming' = incoming /\ app' = app
             \/ incoming'[n] = incoming[n] \cup {i} /\ ToApp(n, e.life, "incoming", i)
      <3>1. /\ e.op = "process" /\ i \in Ids /\ Then(n, <<>>) /\ late' = late
            /\ pending' = pending /\ reg' = reg
        BY <1>u, <1>17 DEF ProcessIncomingProfile, Head1, e, q
      <3>2. \/ incoming' = incoming /\ app' = app
            \/ incoming' = [incoming EXCEPT ![n] = @ \cup {i}] /\ ToApp(n, e.life, "incoming", i)
        BY <1>i, <1>17 DEF ProcessIncomingProfile, e, q
      <3>3. incoming' = [incoming EXCEPT ![n] = @ \cup {i}] => incoming'[n] = incoming[n] \cup {i}
        BY <1>0 DEF VarsOK
      <3>4. QED BY <3>1, <3>2, <3>3
    <2>2. CASE app'[n].jobs = a.jobs
      <3>1. Kept(n, 0, 0) /\ Unique(events[n])' /\ OnceToLoad(app[n])'
            /\ \A id \in Ids : InQueue(events[n], "create", id)' => InQueue(events[n], "create", id)
        BY <1>9, <1>10, <2>1, <2>2
      <3>2. incoming[n] \subseteq incoming'[n] BY <2>1
      <3>3. QED BY <1>1, <1>6, <2>1, <3>1, <3>2, FallsWay
    <2>3. CASE app'[n].jobs # a.jobs
      <3> DEFINE j == [op |-> "incoming", id |-> i]
      <3>1. incoming'[n] = incoming[n] \cup {i} /\ ToApp(n, e.life, "incoming", i)
        BY <2>1, <2>3 DEF a
      <3>2. app'[n].jobs = a.jobs \o <<j>> /\ j \in Jobs
        <4>1. PICK l : l = e.life OBVIOUS
        <4>2. ToApp(n, l, "incoming", i) BY <3>1, <4>1
        <4>3. QED BY <1>2, <2>1, <2>3, <4>2, ToAppJobs DEF a
      <3>3. j.op = "incoming" /\ j.id = i OBVIOUS
      <3> HIDE DEF j
      <3>4. At(n, i, 6) /\ ~InQueue(r, "process", i)
        BY <1>3, <1>4, <1>i, <2>1 DEF At, Making, q
      <3>5. 6 \in Stage /\ 7 \in Stage BY DEF Stage
      <3>6. ~At(n, i, 7) /\ i.by # n BY <1>1, <2>1, <3>4, <3>5 DEF WayAt
      <3>7. ~ToLoad(app[n], i) BY <3>6 DEF At
      <3>8. OnceToLoad(app[n])' /\ \A id \in Ids : ToLoad(app[n], id)' => ToLoad(app[n], id) \/ id = i
        BY <1>2, <1>5, <1>6, <3>2, <3>3, <3>7, ToLoadParts DEF SameApp, a
      <3>9. \A id : InQueue(app'[n].jobs, "died", id) => InQueue(a.jobs, "died", id)
        <4>1. <<j>> \in Seq(Jobs) BY <3>2
        <4>2. \A id : InQueue(a.jobs \o <<j>>, "died", id) <=>
                InQueue(a.jobs, "died", id) \/ InQueue(<<j>>, "died", id)
          BY ONLY <1>2, <4>1, InParts
        <4>3. QED BY <3>2, <3>3, <4>2, InFew
      <3>10. \A op, id : InQueue(events[n], op, id)' => InQueue(events[n], op, id)
        BY <1>3, <1>8, <2>1 DEF q
      <3>11. \A id \in Ids : Made(n, id)' => Made(n, id)
        BY <1>5, <2>1, <3>9, <3>10 DEF Made, SameApp, a
      <3>12. Kept(n, i, 7)
        BY <1>5, <1>p, <2>1, <3>8, <3>10, <3>11 DEF Kept
      <3>13. Unique(events[n])' /\ ~At(n, i, 6)'
        BY <1>4, <1>8, <2>1, <3>4 DEF At
      <3>14. \A id \in Ids : InQueue(events[n], "create", id)' => id \notin reg'[n]
        BY <1>1, <2>1, <3>10 DEF WayAt
      <3>15. QED
        BY <1>1, <1>6, <2>1, <3>1, <3>4, <3>5, <3>6, <3>8, <3>10, <3>12, <3>13, <3>14, MovesWay
    <2>4. QED BY <2>2, <2>3
  <1>18. QED
    BY <1>11, <1>12, <1>13, <1>15, <1>16, <1>17 DEF PmpStep

\* Events without creations, added to a queue.
LEMMA PostedQuietly ==
  ASSUME NEW q \in Seq(Events), NEW evs \in Seq(Events), Unique(q),
         \A i \in DOMAIN evs : ~Making(evs[i])
  PROVE /\ Unique(q \o evs)
        /\ \A op, id : op \in {"create", "remoteCreate", "process"} =>
             (InQueue(q \o evs, op, id) <=> InQueue(q, op, id))
  <1>1. Unique(evs) BY UniqueFew
  <1>2. Unique(q \o evs) BY <1>1, UniqueParts
  <1>3. \A op, id : op \in {"create", "remoteCreate", "process"} => ~InQueue(evs, op, id)
    BY DEF InQueue, Making
  <1>4. \A op, id : InQueue(q \o evs, op, id) <=> InQueue(q, op, id) \/ InQueue(evs, op, id)
    BY ONLY InParts, q \in Seq(Events), evs \in Seq(Events)
  <1>5. QED BY <1>2, <1>3, <1>4

\* One creation, added to a queue.
LEMMA PostedCreation ==
  ASSUME NEW q \in Seq(Events), NEW evs \in Seq(Events), Unique(q), NEW op0, NEW i,
         1 \in DOMAIN evs, evs[1].op = op0, evs[1].id = i,
         \A j \in DOMAIN evs : j # 1 => ~Making(evs[j]),
         ~InQueue(q, op0, i)
  PROVE /\ Unique(q \o evs)
        /\ \A op, id : op \in {"create", "remoteCreate", "process"} =>
             (InQueue(q \o evs, op, id) => InQueue(q, op, id) \/ (op = op0 /\ id = i))
  <1>1. Unique(evs) BY DEF Unique, Making
  <1>2. \A j \in DOMAIN evs : Making(evs[j]) => ~InQueue(q, evs[j].op, evs[j].id)
    OBVIOUS
  <1>3. Unique(q \o evs) BY <1>1, <1>2, UniqueParts
  <1>4. \A op, id : op \in {"create", "remoteCreate", "process"} /\ InQueue(evs, op, id) =>
          op = op0 /\ id = i
    BY DEF InQueue, Making
  <1>5. \A op, id : InQueue(q \o evs, op, id) <=> InQueue(q, op, id) \/ InQueue(evs, op, id)
    BY ONLY InParts, q \in Seq(Events), evs \in Seq(Events)
  <1>6. QED BY <1>3, <1>4, <1>5

LEMMA PostedOne ==
  ASSUME NEW q \in Seq(Events), NEW x \in Events, Unique(q), ~InQueue(q, x.op, x.id)
  PROVE /\ Unique(q \o <<x>>)
        /\ \A op, id : op \in {"create", "remoteCreate", "process"} =>
             (InQueue(q \o <<x>>, op, id) => InQueue(q, op, id) \/ (op = x.op /\ id = x.id))
  <1>0. PICK o, i : o = x.op /\ i = x.id OBVIOUS
  <1> DEFINE evs == <<x>>
  <1>1. /\ evs \in Seq(Events) /\ 1 \in DOMAIN evs /\ evs[1].op = o /\ evs[1].id = i
        /\ \A j \in DOMAIN evs : j # 1 => ~Making(evs[j])
    BY <1>0
  <1>2. ~InQueue(q, o, i) BY <1>0
  <1> HIDE DEF evs
  <1>3. /\ Unique(q \o evs)
        /\ \A op, id : op \in {"create", "remoteCreate", "process"} =>
             (InQueue(q \o evs, op, id) => InQueue(q, op, id) \/ (op = o /\ id = i))
    BY <1>1, <1>2, PostedCreation
  <1>4. QED BY <1>0, <1>3 DEF evs

\* A message becomes an event; a creation that was put off is an event again.
LEMMA DeliveryHere ==
  ASSUME TypeOK, ProcessInv, WayInv, NEW n \in Node, Receive(n) \/ Timeout(n), Elsewhere(n)
  PROVE WayOn(n)
  <1> DEFINE q == events[n]
  <1>0. VarsOK /\ CountsOK /\ ProcessesOK
    BY TypeParts
  <1>1. WayAt(n) /\ q \in Seq(Events) /\ net[n] \in Seq(Messages)
    BY <1>0, WayParts DEF VarsOK
  <1>2. Unique(q) /\ Unique(net[n]) /\ OnceToLoad(app[n]) BY <1>1 DEF WayAt
  <1>3. UNCHANGED <<reg, incoming, pending, app, done>>
    BY DEF Receive, Timeout
  <1>4. \A id \in Ids : /\ Unborn(n, id)' <=> Unborn(n, id)
                        /\ ToLoad(app[n], id)' <=> ToLoad(app[n], id)
                        /\ (app[n].prf[id.p] = id)' <=> app[n].prf[id.p] = id
    BY <1>3 DEF Unborn
  <1>5. OnceToLoad(app[n])' BY <1>2, <1>3
  <1>6. 2 \in Stage /\ 3 \in Stage /\ 4 \in Stage BY DEF Stage
  <1> HIDE DEF q
  <1>7. (\A id : InQueue(events[n], "create", id)' => InQueue(events[n], "create", id)) =>
          /\ \A id \in Ids : Made(n, id)' => Made(n, id)
          /\ \A id \in Ids : InQueue(events[n], "create", id)' => id \notin reg'[n]
    BY <1>1, <1>3 DEF Made, WayAt
  <1>8. CASE Receive(n)
    <2>1. net[n] # <<>> /\ late' = late BY <1>8 DEF Receive
    <2>x. PICK x : x = Head(net[n]) OBVIOUS
    <2>2. x \in Messages /\ x \in Events
      <3>1. x \in Messages BY <1>1, <2>1, <2>x
      <3>2. QED BY <3>1, EventTypes
    <2>3. events'[n] = q \o <<x>> /\ net'[n] = Tail(net[n]) /\ <<x>> \in Seq(Events)
      BY <1>0, <1>1, <1>8, <2>2, <2>x, AppendOne DEF Receive, VarsOK, q
    <2>4. /\ \A op, id : InQueue(net[n], op, id) <=>
               (x.op = op /\ x.id = id) \/ InQueue(Tail(net[n]), op, id)
          /\ Unique(Tail(net[n])) /\ (Making(x) => ~InQueue(Tail(net[n]), x.op, x.id))
      BY <1>1, <1>2, <2>1, <2>x, InRest, UniqueRest
    <2>5. CASE x.op = "remoteDied"
      <3>1. \A i \in DOMAIN <<x>> : ~Making(<<x>>[i]) BY <2>5 DEF Making
      <3>2. /\ Unique(q \o <<x>>)
            /\ \A op, id : op \in {"create", "remoteCreate", "process"} =>
                 (InQueue(q \o <<x>>, op, id) <=> InQueue(q, op, id))
        BY <1>1, <1>2, <2>3, <3>1, PostedQuietly
      <3>3. /\ Unique(events[n])' /\ Unique(net[n])'
            /\ \A id : InQueue(events[n], "create", id)' => InQueue(events[n], "create", id)
        BY <2>3, <2>4, <3>2 DEF q
      <3>4. Kept(n, 0, 0)
        BY <1>3, <1>4, <1>7, <2>1, <2>3, <2>4, <3>2, <3>3 DEF Kept, q
      <3>5. QED BY <1>1, <1>3, <1>5, <3>3, <3>4, FallsWay
    <2>6. CASE x.op = "remoteCreate"
      <3>i. PICK i : i = x.id OBVIOUS
      <3>1. i \in Ids BY <2>2, <2>6, <3>i, EventFields
      <3>2. At(n, i, 2) /\ ~At(n, i, 2)'
        BY <2>3, <2>4, <2>6, <3>i DEF At, Making
      <3>3. ~At(n, i, 3) /\ i.by # n BY <1>1, <1>6, <3>1, <3>2 DEF WayAt
      <3>5. ~InQueue(q, "remoteCreate", i) BY <3>3 DEF At, q
      <3>6. /\ Unique(q \o <<x>>)
            /\ \A op, id : op \in {"create", "remoteCreate", "process"} =>
                 (InQueue(q \o <<x>>, op, id) =>
                    InQueue(q, op, id) \/ (op = "remoteCreate" /\ id = i))
        BY <1>1, <1>2, <2>2, <2>6, <3>i, <3>5, PostedOne
      <3>7. /\ Unique(events[n])' /\ Unique(net[n])'
            /\ \A id : InQueue(events[n], "create", id)' => InQueue(events[n], "create", id)
        BY <2>3, <2>4, <3>6 DEF q
      <3>8. Kept(n, i, 3)
        BY <1>3, <1>4, <1>7, <2>1, <2>3, <2>4, <3>6, <3>7 DEF Kept, q
      <3>9. QED
        BY <1>1, <1>3, <1>5, <1>6, <1>7, <3>1, <3>2, <3>3, <3>7, <3>8, MovesWay
    <2>7. QED BY <2>2, <2>5, <2>6 DEF Messages
  <1>9. CASE Timeout(n)
    <2>1. PICK i \in late[n] :
            /\ late' = [late EXCEPT ![n] = @ \ {i}]
            /\ events' = [events EXCEPT ![n] = Append(@, [op |-> "remoteCreate", id |-> i])]
      BY <1>9 DEF Timeout
    <2> DEFINE x == [op |-> "remoteCreate", id |-> i]
    <2>2. i \in Ids /\ net' = net /\ late'[n] = late[n] \ {i}
      BY <1>0, <1>9, <2>1 DEF VarsOK, Timeout
    <2>3. x \in Events /\ x.op = "remoteCreate" /\ x.id = i BY <2>2, EventTypes
    <2> HIDE DEF x
    <2>4. events'[n] = q \o <<x>> /\ <<x>> \in Seq(Events)
      BY <1>0, <1>1, <2>1, <2>3, AppendOne DEF VarsOK, x, q
    <2>5. At(n, i, 4) /\ ~At(n, i, 4)' BY <2>1, <2>2 DEF At
    <2>6. ~At(n, i, 3) /\ i.by # n BY <1>1, <1>6, <2>2, <2>5 DEF WayAt
    <2>8. ~InQueue(q, "remoteCreate", i) BY <2>6 DEF At, q
    <2>9. /\ Unique(q \o <<x>>)
          /\ \A op, id : op \in {"create", "remoteCreate", "process"} =>
               (InQueue(q \o <<x>>, op, id) =>
                  InQueue(q, op, id) \/ (op = "remoteCreate" /\ id = i))
      BY <1>1, <1>2, <2>3, <2>8, PostedOne
    <2>10. /\ Unique(events[n])' /\ Unique(net[n])'
           /\ \A id : InQueue(events[n], "create", id)' => InQueue(events[n], "create", id)
      BY <1>2, <2>2, <2>4, <2>9 DEF q
    <2>11. Kept(n, i, 3)
      BY <1>3, <1>4, <1>7, <2>2, <2>4, <2>9, <2>10 DEF Kept, q
    <2>12. QED
      BY <1>1, <1>3, <1>5, <1>6, <1>7, <2>2, <2>5, <2>6, <2>10, <2>11, MovesWay
  <1>10. QED BY <1>8, <1>9

\* Requests, and processes that start or end: nothing is on its way in them.
LEMMA NewsHere ==
  ASSUME VarsOK, NEW n \in Node, WayAt(n), Elsewhere(n), NEW evs \in Seq(Events),
         \A i \in DOMAIN evs : ~Making(evs[i]),
         events'[n] = events[n] \o evs, UNCHANGED pmpVars,
         done'[n].loads = done[n].loads,
         \/ app'[n] = app[n]
         \/ /\ app'[n].client = "idle" /\ app'[n].jobs = <<>> /\ app'[n].inst = {}
            /\ app'[n].prf = NoService
  PROVE WayOn(n)
  <1> DEFINE q == events[n]
  <1>1. q \in Seq(Events) /\ Unique(q) /\ Unique(net[n]) /\ OnceToLoad(app[n])
    BY DEF WayAt, VarsOK
  <1>2. UNCHANGED <<reg, incoming, pending, late, net>> BY DEF pmpVars
  <1>3. \A id \in Ids : Unborn(n, id)' => Unborn(n, id)
    BY DEF Unborn
  <1>4. \A id \in Ids : /\ ToLoad(app[n], id)' => ToLoad(app[n], id)
                        /\ (app[n].prf[id.p] = id)' => app[n].prf[id.p] = id
                        /\ InQueue(app[n].jobs, "died", id)' => InQueue(app[n].jobs, "died", id)
                        /\ id \in app'[n].inst => id \in app[n].inst
    <2>1. CASE app'[n] = app[n] BY <2>1
    <2>2. CASE app'[n] # app[n]
      <3>1. \A id \in Ids : NoService[id.p] # id
        BY EntriesAssumption DEF NoService, Ids
      <3>2. DOMAIN <<>> = {} OBVIOUS
      <3>3. QED BY <2>2, <3>1, <3>2 DEF ToLoad, InQueue
    <2>3. QED BY <2>1, <2>2
  <1>5. OnceToLoad(app[n])'
    <2>1. CASE app'[n] = app[n] BY <1>1, <2>1
    <2>2. CASE app'[n] # app[n]
      <3>1. DOMAIN <<>> = {} OBVIOUS
      <3>2. QED BY <2>2, <3>1 DEF OnceToLoad
    <2>3. QED BY <2>1, <2>2
  <1> HIDE DEF q
  <1>6. /\ Unique(q \o evs)
        /\ \A op, id : op \in {"create", "remoteCreate", "process"} =>
             (InQueue(q \o evs, op, id) <=> InQueue(q, op, id))
    BY <1>1, PostedQuietly
  <1>7. /\ Unique(events[n])' /\ Unique(net[n])'
        /\ \A op, id : op \in {"create", "remoteCreate", "process"} =>
             (InQueue(events[n], op, id)' => InQueue(events[n], op, id))
    BY <1>1, <1>2, <1>6 DEF q
  <1>8. \A id \in Ids : Made(n, id)' => Made(n, id)
    BY <1>2, <1>4, <1>7 DEF Made
  <1>9. Kept(n, 0, 0)
    BY <1>2, <1>3, <1>4, <1>7, <1>8 DEF Kept
  <1>10. \A id \in Ids : InQueue(events[n], "create", id)' => InQueue(events[n], "create", id)
    BY <1>7
  <1>11. reg'[n] \subseteq reg[n] /\ incoming[n] \subseteq incoming'[n] BY <1>2
  <1>12. QED BY <1>5, <1>7, <1>9, <1>10, <1>11, FallsWay

\* The jobs of a process that goes on.
LEMMA JobsFall ==
  ASSUME NEW a \in Apps, NEW b \in Apps,
         \/ DropsJob(a, b)
         \/ b.jobs = a.jobs /\ (b.phase \in {"check", "put"} => a.phase \in {"check", "put"})
  PROVE /\ \A id \in Ids : ToLoad(b, id) => ToLoad(a, id)
        /\ OnceToLoad(a) => OnceToLoad(b)
        /\ \A id : InQueue(b.jobs, "died", id) => InQueue(a.jobs, "died", id)
  <1>0. a.jobs \in Seq(Jobs) BY DEF Apps
  <1>1. CASE DropsJob(a, b)
    <2> DEFINE q == a.jobs
               r == b.jobs
    <2>1. /\ \A i \in DOMAIN r : i + 1 \in DOMAIN q /\ r[i] = q[i + 1] /\ i + 1 > 1
          /\ DOMAIN r \subseteq Nat
      BY <1>0, <1>1 DEF DropsJob
    <2> HIDE DEF q, r
    <2>2. \A i \in DOMAIN r : AwaitsLoad(b, i) => AwaitsLoad(a, i + 1)
      BY <2>1 DEF AwaitsLoad, q, r
    <2>3. \A id \in Ids : ToLoad(b, id) => ToLoad(a, id)
      BY <2>1, <2>2 DEF ToLoad, q, r
    <2>4. ASSUME OnceToLoad(a), NEW i \in DOMAIN r, NEW j \in DOMAIN r,
                 AwaitsLoad(b, i), AwaitsLoad(b, j), r[i].id = r[j].id
          PROVE i = j
      <3>1. i + 1 = j + 1 BY <2>1, <2>2, <2>4 DEF OnceToLoad, q
      <3>2. QED BY <2>1, <3>1
    <2>5. \A id : InQueue(r, "died", id) => InQueue(q, "died", id)
      BY <2>1 DEF InQueue
    <2>6. QED BY <2>3, <2>4, <2>5 DEF OnceToLoad, q, r
  <1>2. CASE b.jobs = a.jobs /\ (b.phase \in {"check", "put"} => a.phase \in {"check", "put"})
    BY <1>2 DEF ToLoad, OnceToLoad, AwaitsLoad
  <1>3. QED BY <1>1, <1>2

\* A process goes on: it only forgets, or it moves one identifier.
LEMMA EffectHere ==
  ASSUME TypeOK, ProcessInv, WayInv, NEW n \in Node, NEW b, NEW evs, Effect(n, b, evs),
         Elsewhere(n)
  PROVE /\ WayOn(n)
        /\ \A id \in Ids : /\ Unborn(n, id)' => Unborn(n, id)
                           /\ InQueue(events[n], "create", id)' =>
                                \/ InQueue(events[n], "create", id)
                                \/ Unborn(n, id) \/ id.by # n
  <1> DEFINE q == events[n]
             a == app[n]
             NewCreation == \A id \in Ids :
                 InQueue(events[n], "create", id)' =>
                   \/ InQueue(events[n], "create", id) \/ Unborn(n, id) \/ id.by # n
  <1>0. VarsOK /\ CountsOK /\ ProcessesOK
    BY TypeParts
  <1>1. /\ WayAt(n) /\ q \in Seq(Events) /\ a \in Apps /\ b \in Apps /\ evs \in Seq(Events)
        /\ Kind(n, a, b, evs)
    BY <1>0, WayParts DEF VarsOK, ProcessesOK, Effect
  <1>2. Unique(q) /\ Unique(net[n]) /\ OnceToLoad(a) BY <1>1 DEF WayAt
  <1>3. /\ events'[n] = q \o evs /\ app'[n] = b
        /\ UNCHANGED <<reg, incoming, pending, late, net>>
        /\ \A id \in Ids : Unborn(n, id)' => Unborn(n, id)
    BY <1>0 DEF Effect, pmpVars, VarsOK, ProcessesOK
  <1>4. /\ reg'[n] \subseteq reg[n] /\ incoming[n] \subseteq incoming'[n]
        /\ Unique(net[n])'
    BY <1>2, <1>3
  <1>5. \A s \in {1, 7, 8, 9} : s \in Stage BY DEF Stage
  <1> HIDE DEF q, a
  <1>6. ASSUME \A i \in DOMAIN evs : ~Making(evs[i]),
               \/ DropsJob(a, b)
               \/ b.jobs = a.jobs /\ (b.phase \in {"check", "put"} => a.phase \in {"check", "put"}),
               b.inst \subseteq a.inst
        PROVE /\ Unique(events[n])' /\ OnceToLoad(app[n])'
              /\ \A op, id : op \in {"create", "remoteCreate", "process"} =>
                   (InQueue(events[n], op, id)' => InQueue(events[n], op, id))
              /\ \A id \in Ids : /\ ToLoad(app[n], id)' => ToLoad(app[n], id)
                                 /\ Made(n, id)' => Made(n, id)
              /\ NewCreation
    <2>1. /\ Unique(q \o evs)
          /\ \A op, id : op \in {"create", "remoteCreate", "process"} =>
               (InQueue(q \o evs, op, id) <=> InQueue(q, op, id))
      BY <1>1, <1>2, <1>6, PostedQuietly
    <2>2. /\ \A id \in Ids : ToLoad(b, id) => ToLoad(a, id)
          /\ OnceToLoad(b)
          /\ \A id : InQueue(b.jobs, "died", id) => InQueue(a.jobs, "died", id)
      BY <1>1, <1>2, <1>6, JobsFall
    <2>3. /\ Unique(events[n])'
          /\ \A op, id : op \in {"create", "remoteCreate", "process"} =>
               (InQueue(events[n], op, id)' => InQueue(events[n], op, id))
      BY <1>3, <2>1 DEF q
    <2>4. \A id \in Ids : Made(n, id)' => Made(n, id)
      BY <1>3, <1>6, <2>2, <2>3 DEF Made, a
    <2>5. OnceToLoad(app[n])' /\ \A id \in Ids : ToLoad(app[n], id)' => ToLoad(app[n], id)
      BY <1>3, <2>2 DEF a
    <2>6. QED BY <2>3, <2>4, <2>5
  \* It forgets.
  <1>7. CASE Continues(a, b, evs) \/ UnloadsAll(a, b, evs) \/ GivesUpJob(a, b, evs)
             \/ RemovesOne(a, b, evs)
    <2>1. \A i \in DOMAIN evs : ~Making(evs[i])
      <3>1. DOMAIN <<>> = {} OBVIOUS
      <3>2. QED
        BY <1>7, <3>1 DEF Continues, UnloadsAll, GivesUpJob, RemovesOne, Making
    <2>2. \/ DropsJob(a, b)
          \/ b.jobs = a.jobs /\ (b.phase \in {"check", "put"} => a.phase \in {"check", "put"})
      BY <1>7 DEF Continues, UnloadsAll, GivesUpJob, RemovesOne, Keeps
    <2>3. b.inst \subseteq a.inst /\ b.prf = a.prf
      BY <1>7 DEF Continues, UnloadsAll, GivesUpJob, RemovesOne, Keeps
    <2>4. /\ Unique(events[n])' /\ OnceToLoad(app[n])'
          /\ \A op, id : op \in {"create", "remoteCreate", "process"} =>
               (InQueue(events[n], op, id)' => InQueue(events[n], op, id))
          /\ \A id \in Ids : /\ ToLoad(app[n], id)' => ToLoad(app[n], id)
                             /\ Made(n, id)' => Made(n, id)
          /\ NewCreation
      BY <1>6, <2>1, <2>2, <2>3
    <2>5. \A id \in Ids : (app[n].prf[id.p] = id)' => app[n].prf[id.p] = id
      BY <1>3, <2>3 DEF a
    <2>6. Kept(n, 0, 0)
      BY <1>3, <2>4, <2>5 DEF Kept
    <2>7. \A id \in Ids : InQueue(events[n], "create", id)' => InQueue(events[n], "create", id)
      BY <2>4
    <2>8. WayOn(n) BY <1>1, <1>4, <2>4, <2>6, <2>7, FallsWay
    <2>9. QED BY <1>3, <2>4, <2>8
  \* The piuid of the first job waits to be loaded.
  <1>8. CASE RequestsOne(a, b, evs)
    <2>i. PICK i : i = Head(a.jobs).id OBVIOUS
    <2>1. /\ evs = <<>> /\ b.inst = a.inst /\ b.jobs = a.jobs /\ a.jobs # <<>>
          /\ Head(a.jobs).op = "incoming" /\ a.phase \in {"check", "put"} /\ b.phase = "request"
          /\ \A p \in Profiles : b.prf[p] = a.prf[p] \/ (b.prf[p] = i /\ p = i.p)
      BY <1>8, <2>i DEF RequestsOne
    <2>2. i \in Ids /\ 1 \in DOMAIN a.jobs /\ a.jobs[1] = Head(a.jobs)
          /\ DOMAIN a.jobs \subseteq Nat \ {0}
      <3>1. a.jobs \in Seq(Jobs) BY <1>1 DEF Apps
      <3>2. QED BY <1>1, <2>1, <2>i, <3>1, FirstJob
    <2>3. AwaitsLoad(a, 1) /\ a.jobs[1].id = i
      BY <2>1, <2>2, <2>i DEF AwaitsLoad
    <2>4. At(n, i, 7)
      BY <2>2, <2>3 DEF At, ToLoad, a
    <2>5. i.by # n /\ i \in incoming[n]
      BY <1>1, <1>5, <2>2, <2>4 DEF WayAt
    <2>6. ~ToLoad(b, i)
      <3> SUFFICES ASSUME NEW j \in DOMAIN b.jobs, AwaitsLoad(b, j), b.jobs[j].id = i
                   PROVE FALSE
        BY DEF ToLoad
      <3>1. j > 1 BY <2>1 DEF AwaitsLoad
      <3>2. AwaitsLoad(a, j) /\ j \in DOMAIN a.jobs /\ a.jobs[j].id = i
        BY <2>1 DEF AwaitsLoad
      <3>3. j = 1 BY <1>2, <2>2, <2>3, <3>2 DEF OnceToLoad
      <3>4. QED BY <3>1, <3>3
    <2>7. ~At(n, i, 7)' BY <1>3, <2>6 DEF At
    <2>8. \A j \in DOMAIN evs : ~Making(evs[j])
      <3>1. DOMAIN <<>> = {} OBVIOUS
      <3>2. QED BY <2>1, <3>1
    <2>9. /\ Unique(events[n])' /\ OnceToLoad(app[n])'
          /\ \A op, id : op \in {"create", "remoteCreate", "process"} =>
               (InQueue(events[n], op, id)' => InQueue(events[n], op, id))
          /\ \A id \in Ids : /\ ToLoad(app[n], id)' => ToLoad(app[n], id)
                             /\ Made(n, id)' => Made(n, id)
          /\ NewCreation
      BY <1>6, <2>1, <2>8
    <2>10. \A id \in Ids : (app[n].prf[id.p] = id)' => app[n].prf[id.p] = id \/ id = i
      <3> SUFFICES ASSUME NEW id \in Ids, b.prf[id.p] = id, id # i PROVE a.prf[id.p] = id
        BY <1>3 DEF a
      <3>1. id.p \in Profiles BY DEF Ids
      <3>2. QED BY <2>1, <3>1
    <2>11. Kept(n, i, 8)
      BY <1>3, <2>9, <2>10 DEF Kept
    <2>12. \A id \in Ids : InQueue(events[n], "create", id)' => InQueue(events[n], "create", id)
      BY <2>9
    <2>13. \A id \in Ids : InQueue(events[n], "create", id)' => id \notin reg'[n]
      BY <1>1, <1>3, <2>12 DEF WayAt
    <2>14. \E s \in Stage : /\ At(n, i, s) /\ (s = 8 \/ ~At(n, i, s)')
                            /\ s \in {1, 9} => i.by = n
      BY <1>5, <2>4, <2>7
    <2>15. 8 \in Stage /\ i.by # n /\ i \in incoming'[n] BY <1>3, <1>5, <2>5
    <2>16. WayOn(n)
      BY <1>1, <1>4, <2>2, <2>9, <2>11, <2>12, <2>13, <2>14, <2>15, MovesWay
    <2>17. QED BY <1>3, <2>9, <2>16
  \* An instance is made, and its creation is sent.
  <1>9. ASSUME NEW i \in Ids, NEW f \in {1, 8}, At(n, i, f), ~At(n, i, f)', f = 1 => i.by = n,
               Creates(n, evs, i), b.inst = a.inst \cup {i},
               DropsJob(a, b) \/ (b.jobs = a.jobs /\ b.phase = a.phase),
               \A id \in Ids : b.prf[id.p] = id => a.prf[id.p] = id,
               i.by # n => i \in incoming[n]
        PROVE /\ WayOn(n)
              /\ \A id \in Ids : InQueue(events[n], "create", id)' =>
                   InQueue(events[n], "create", id) \/ id = i
    <2>1. ~At(n, i, 9) BY <1>1, <1>5, <1>9 DEF WayAt
    <2>2. ~InQueue(q, "create", i) /\ i \notin reg[n] BY <2>1 DEF At, Made, q
    <2>3. /\ 1 \in DOMAIN evs /\ evs[1].op = "create" /\ evs[1].id = i
          /\ \A j \in DOMAIN evs : j # 1 => ~Making(evs[j])
      BY <1>9 DEF Creates, Event, Making
    <2>4. /\ Unique(q \o evs)
          /\ \A op, id : op \in {"create", "remoteCreate", "process"} =>
               (InQueue(q \o evs, op, id) => InQueue(q, op, id) \/ (op = "create" /\ id = i))
      BY <1>1, <1>2, <2>2, <2>3, PostedCreation
    <2>5. /\ Unique(events[n])'
          /\ \A op, id : op \in {"create", "remoteCreate", "process"} =>
               (InQueue(events[n], op, id)' =>
                  InQueue(events[n], op, id) \/ (op = "create" /\ id = i))
      BY <1>3, <2>4 DEF q
    <2>6. /\ \A id \in Ids : ToLoad(b, id) => ToLoad(a, id)
          /\ OnceToLoad(b)
          /\ \A id : InQueue(b.jobs, "died", id) => InQueue(a.jobs, "died", id)
      BY <1>1, <1>2, <1>9, JobsFall
    <2>7. OnceToLoad(app[n])' /\ \A id \in Ids : /\ ToLoad(app[n], id)' => ToLoad(app[n], id)
                                                 /\ (app[n].prf[id.p] = id)' => app[n].prf[id.p] = id
      BY <1>3, <1>9, <2>6 DEF a
    <2>8. \A id \in Ids : Made(n, id)' => Made(n, id) \/ id = i
      BY <1>3, <1>9, <2>5, <2>6 DEF Made, a
    <2>9. Kept(n, i, 9)
      BY <1>3, <2>5, <2>7, <2>8 DEF Kept
    <2>10. \A id \in Ids : InQueue(events[n], "create", id)' =>
             InQueue(events[n], "create", id) \/ id = i
      BY <2>5
    <2>11. \A id \in Ids : InQueue(events[n], "create", id)' => id \notin reg'[n]
      BY <1>1, <1>3, <2>2, <2>10 DEF WayAt
    <2>12. \A id \in Ids : id.by # n /\ InQueue(events[n], "create", id)' =>
             InQueue(events[n], "create", id) \/ id \in incoming'[n]
      BY <1>3, <1>9, <2>10
    <2>13. 9 \in Stage /\ f \in Stage /\ 9 \notin {7, 8} BY <1>5
    <2>14. \E s \in Stage : /\ At(n, i, s) /\ (s = 9 \/ ~At(n, i, s)')
                            /\ s \in {1, 9} => i.by = n
      BY <1>9, <2>13
    <2>15. WayOn(n)
      BY <1>1, <1>4, <2>5, <2>7, <2>9, <2>11, <2>12, <2>13, <2>14, MovesWay
    <2>16. QED BY <2>10, <2>15
  <1>10. CASE LoadsOne(n, a, b, evs)
    <2>1. PICK i \in Ids :
            /\ Keeps(a, b) /\ b.inst = a.inst \cup {i}
            /\ Unborn(n, i) /\ ~Unborn(n, i)' /\ Creates(n, evs, i)
      BY <1>10 DEF LoadsOne, Creates
    <2>2. i.by = n BY <2>1 DEF Unborn
    <2>3. At(n, i, 1) /\ ~At(n, i, 1)' BY <2>1, <2>2 DEF At, Coming
    <2>4. /\ b.jobs = a.jobs /\ b.phase = a.phase
          /\ \A id \in Ids : b.prf[id.p] = id => a.prf[id.p] = id
      BY <2>1 DEF Keeps
    <2>5. /\ WayOn(n)
          /\ \A id \in Ids : InQueue(events[n], "create", id)' =>
               InQueue(events[n], "create", id) \/ id = i
      BY <1>9, <2>1, <2>2, <2>3, <2>4
    <2>6. QED BY <1>3, <2>1, <2>5
  <1>11. CASE MakesOne(n, a, b, evs)
    <2>i. PICK i : i = a.prf[Head(a.jobs).id.p] OBVIOUS
    <2>1. /\ DropsJob(a, b) /\ b.prf = [a.prf EXCEPT ![i.p] = Absent]
          /\ b.inst = a.inst \cup {i} /\ i \in Ids /\ a.prf[i.p] = i
          /\ evs = IF i \notin a.inst THEN <<Event("create", i, life[n])>> ELSE <<>>
      BY <1>11, <2>i DEF MakesOne
    <2>2. At(n, i, 8) BY <2>1 DEF At, a
    <2>3. ~At(n, i, 9) /\ i.by # n /\ i \in incoming[n]
      BY <1>1, <1>5, <2>1, <2>2 DEF WayAt
    <2>4. i \notin a.inst BY <2>3 DEF At, Made, a
    <2>5. Creates(n, evs, i)
      <3> DEFINE x == Event("create", i, life[n])
      <3>1. evs = <<x>> BY <2>1, <2>4
      <3> HIDE DEF x
      <3>2. DOMAIN evs = {1} /\ evs[1] = x BY <3>1
      <3>3. QED BY <3>2 DEF Creates, x
    <2>6. /\ b.prf[i.p] = Absent
          /\ \A id \in Ids : b.prf[id.p] = id => a.prf[id.p] = id
      <3>1. /\ i.p \in Profiles /\ a.prf \in [Profiles -> Ids \cup {Absent}]
            /\ \A id \in Ids : id.p \in Profiles /\ id # Absent
        BY <1>1, <2>1, EntriesAssumption DEF Apps, Ids
      <3>2. QED BY <2>1, <3>1
    <2>7. ~At(n, i, 8)' BY <1>3, <2>1, <2>6, EntriesAssumption DEF At
    <2>8. /\ WayOn(n)
          /\ \A id \in Ids : InQueue(events[n], "create", id)' =>
               InQueue(events[n], "create", id) \/ id = i
      BY <1>9, <2>1, <2>2, <2>3, <2>5, <2>6, <2>7
    <2>9. QED BY <1>3, <2>3, <2>8
  <1>12. QED BY <1>1, <1>7, <1>8, <1>10, <1>11 DEF Kind

LEMMA WayStep ==
  ASSUME TypeOK, ProcessInv, ConnectionInv, WayInv, NEW n \in Node, Step(n)
  PROVE WayInv' /\ WayOn(n) /\ WayOn(Peer(n))
  <1> DEFINE m == Peer(n)
  <1>0. VarsOK /\ CountsOK /\ ProcessesOK
    BY TypeParts
  <1>1. /\ m \in Node \ {n} /\ \A x \in Node : x = n \/ x = m
        /\ WayAt(n) /\ WayAt(m) /\ Elsewhere(n)
    BY PeerType, StepElsewhere, WayParts
  <1> HIDE DEF m
  <1>s. SUFFICES WayOn(n) /\ WayOn(m)
    <2>1. WayOn(n) /\ WayOn(m) => \A x \in Node : WayAt(x)' BY <1>1 DEF WayOn
    <2>2. QED BY <2>1 DEF WayInv, WayAt, m
  <1>2. ASSUME net'[m] = net[m],
               \A id \in Ids : /\ Unborn(n, id)' => Unborn(n, id)
                               /\ InQueue(events[n], "create", id)' =>
                                    \/ InQueue(events[n], "create", id)
                                    \/ Unborn(n, id) \/ id.by # n
        PROVE WayOn(m)
    <2>1. /\ \A id \in Ids : InQueue(net[m], "remoteCreate", id)' => InQueue(net[m], "remoteCreate", id)
          /\ Unique(net[m])'
      BY <1>1, <1>2 DEF WayAt
    <2>2. QED BY <1>1, <1>2, <2>1, WayThere
  <1>3. ASSUME NEW evs \in Seq(Events), \A i \in DOMAIN evs : ~Making(evs[i]),
               events'[n] = events[n] \o evs, UNCHANGED pmpVars,
               done'[n].loads = done[n].loads,
               \/ app'[n] = app[n]
               \/ /\ app'[n].client = "idle" /\ app'[n].jobs = <<>> /\ app'[n].inst = {}
                  /\ app'[n].prf = NoService
        PROVE WayOn(n) /\ WayOn(m)
    <2>1. WayOn(n) BY <1>0, <1>1, <1>3, NewsHere
    <2>2. Unique(events[n]) BY <1>1 DEF WayAt
    <2>3. /\ Unique(events[n] \o evs)
          /\ \A op, id : op \in {"create", "remoteCreate", "process"} =>
               (InQueue(events[n] \o evs, op, id) <=> InQueue(events[n], op, id))
      BY <1>0, <1>3, <2>2, PostedQuietly DEF VarsOK
    <2>4. \A id \in Ids : /\ Unborn(n, id)' => Unborn(n, id)
                          /\ InQueue(events[n], "create", id)' => InQueue(events[n], "create", id)
      BY <1>3, <2>3 DEF Unborn
    <2>5. net'[m] = net[m] BY <1>3 DEF pmpVars
    <2>6. QED BY <1>2, <2>1, <2>4, <2>5
  <1>4. <<>> \in Seq(Events) /\ \A x \in Events : <<x>> \in Seq(Events) OBVIOUS
  <1>f. Fresh.client = "idle" /\ Fresh.jobs = <<>> /\ Fresh.inst = {} /\ Fresh.prf = NoService
        /\ [Fresh EXCEPT !.up = TRUE].client = "idle" /\ [Fresh EXCEPT !.up = TRUE].jobs = <<>>
        /\ [Fresh EXCEPT !.up = TRUE].inst = {} /\ [Fresh EXCEPT !.up = TRUE].prf = NoService
    BY DEF Fresh
  <1>5. CASE PmpStep(n) BY <1>1, <1>5, PmpHere, PmpThere DEF m
  <1>6. CASE Receive(n) \/ Timeout(n)
    <2>1. WayOn(n) BY <1>1, <1>6, DeliveryHere
    <2>2. net'[m] = net[m]
      <3>1. net' = [net EXCEPT ![n] = Tail(@)] \/ net' = net BY <1>6 DEF Receive, Timeout
      <3>2. QED BY <1>0, <1>1, <3>1 DEF VarsOK
    <2>3. \A id \in Ids : Unborn(n, id)' => Unborn(n, id)
      <3>1. UNCHANGED <<app, done>> BY <1>6 DEF Receive, Timeout
      <3>2. QED BY <3>1 DEF Unborn
    <2>4. \A id \in Ids : InQueue(events[n], "create", id)' => InQueue(events[n], "create", id)
      <3>1. PICK x \in Events : x.op \in {"remoteCreate", "remoteDied"}
                                /\ events' = [events EXCEPT ![n] = Append(@, x)]
        <4>1. CASE Receive(n)
          <5>1. PICK x : x = Head(net[n]) OBVIOUS
          <5>2. x \in Messages BY <1>0, <4>1, <5>1 DEF Receive, VarsOK
          <5>3. QED BY <4>1, <5>1, <5>2, EventTypes DEF Receive, Messages
        <4>2. CASE Timeout(n)
          <5>1. PICK id \in late[n] :
                  events' = [events EXCEPT ![n] = Append(@, [op |-> "remoteCreate", id |-> id])]
            BY <4>2 DEF Timeout
          <5>2. id \in Ids BY <1>0 DEF VarsOK
          <5>3. [op |-> "remoteCreate", id |-> id] \in Events BY <5>2, EventTypes
          <5>4. QED BY <5>1, <5>3
        <4>3. QED BY <1>6, <4>1, <4>2
      <3>2. events[n] \in Seq(Events) /\ events'[n] = events[n] \o <<x>>
        BY <1>0, <3>1, AppendOne DEF VarsOK
      <3>3. \A op, id : InQueue(events[n] \o <<x>>, op, id) <=>
              InQueue(events[n], op, id) \/ InQueue(<<x>>, op, id)
        BY ONLY <1>4, <3>2, InParts, x \in Events
      <3>4. \A id : ~InQueue(<<x>>, "create", id) BY <3>1, InFew
      <3>5. QED BY <3>2, <3>3, <3>4
    <2>5. QED BY <1>2, <2>1, <2>2, <2>3, <2>4
  <1>7. CASE Launch(n) \/ StartByUser(n)
    <2>1. NewLife(n) /\ UNCHANGED <<pmpVars, done>> BY <1>7 DEF Launch, StartByUser
    <2> DEFINE x == ConnEvent("connected", life[n] + 1)
    <2>2. <<x>> \in Seq(Events) BY <2>1, NewLifeTypes DEF pmpVars
    <2>3. ~Making(x) BY DEF ConnEvent, Making
    <2>4. Post(n, <<x>>) /\ app' = [app EXCEPT ![n] = [Fresh EXCEPT !.up = TRUE]]
      BY <2>1 DEF NewLife
    <2> HIDE DEF x
    <2>5. /\ events'[n] = events[n] \o <<x>> /\ app'[n] = [Fresh EXCEPT !.up = TRUE]
          /\ \A i \in DOMAIN <<x>> : ~Making(<<x>>[i])
      BY <1>0, <2>3, <2>4 DEF Post, VarsOK, ProcessesOK
    <2>6. QED BY <1>3, <1>f, <2>1, <2>2, <2>5
  <1>8. CASE SessionRequest(n)
    <2>1. PICK r \in requests[n] : /\ app[n].up /\ Post(n, <<Event("ready", r.id, life[n])>>)
                                   /\ UNCHANGED <<pmpVars, life, app, done>>
      BY <1>8 DEF SessionRequest
    <2> DEFINE x == Event("ready", r.id, life[n])
    <2>2. x \in Events /\ ~Making(x)
      <3>1. r.id \in Ids BY <1>0 DEF VarsOK
      <3>2. life[n] \in 1 .. MaxLives
        BY <1>0, <2>1, BoundsAssumption DEF ProcessInv, CountsOK
      <3>3. x \in Events BY <3>1, <3>2, EventTypes
      <3>4. x.op = "ready" BY DEF Event
      <3>5. QED BY <3>3, <3>4 DEF Making
    <2>3. Post(n, <<x>>) BY <2>1
    <2> HIDE DEF x
    <2>4. events'[n] = events[n] \o <<x>> /\ \A i \in DOMAIN <<x>> : ~Making(<<x>>[i])
      BY <1>0, <2>2, <2>3 DEF Post, VarsOK
    <2>5. QED BY <1>3, <1>4, <2>1, <2>2, <2>4
  <1>9. CASE LoseRequest(n)
    <2>1. UNCHANGED <<pmpVars, events, life, app>> BY <1>9 DEF LoseRequest
    <2>2. done'[n].loads = done[n].loads
      <3>1. done' = [done EXCEPT ![n].losses = @ + 1] BY <1>9 DEF LoseRequest
      <3>2. QED BY <1>0, <3>1 DEF CountsOK
    <2>3. events'[n] = events[n] \o <<>> /\ \A i \in DOMAIN <<>> : ~Making(<<>>[i])
      BY <1>0, <2>1 DEF VarsOK
    <2>4. QED BY <1>3, <1>4, <2>1, <2>2, <2>3
  <1>10. CASE \E b, evs : Effect(n, b, evs)
    <2>1. PICK b, evs : Effect(n, b, evs) BY <1>10
    <2>2. /\ WayOn(n)
          /\ \A id \in Ids : /\ Unborn(n, id)' => Unborn(n, id)
                             /\ InQueue(events[n], "create", id)' =>
                                  \/ InQueue(events[n], "create", id)
                                  \/ Unborn(n, id) \/ id.by # n
      BY <1>1, <2>1, EffectHere
    <2>3. net'[m] = net[m] BY <2>1 DEF Effect, pmpVars
    <2>4. QED BY <1>2, <2>2, <2>3
  <1>11. CASE Dies(n) /\ DoneKeeps(n) /\ app[n].up
    <2> DEFINE x == ConnEvent("lost", life[n])
    <2>1. <<x>> \in Seq(Events) BY <1>11, DiesTypes DEF DoneKeeps
    <2>2. ~Making(x) BY DEF ConnEvent, Making
    <2>3. Post(n, <<x>>) /\ app' = [app EXCEPT ![n] = Fresh] /\ UNCHANGED pmpVars
      BY <1>11 DEF Dies
    <2> HIDE DEF x
    <2>4. /\ events'[n] = events[n] \o <<x>> /\ app'[n] = Fresh
          /\ \A i \in DOMAIN <<x>> : ~Making(<<x>>[i])
          /\ done'[n].loads = done[n].loads
      BY <1>0, <1>11, <2>2, <2>3 DEF Post, VarsOK, ProcessesOK, DoneKeeps
    <2>5. QED BY <1>3, <1>f, <2>1, <2>3, <2>4
  <1>12. QED BY <1>5, <1>6, <1>7, <1>8, <1>9, <1>10, <1>11 DEF Step

\* At the start nothing is on its way.
LEMMA WayInit ==
  ASSUME Init
  PROVE ConnectionInv /\ WayInv
  <1>1. TypeOK /\ ProcessInv BY TypeInit
  <1>0. VarsOK /\ CountsOK /\ ProcessesOK
    BY <1>1, TypeParts
  <1>2. SUFFICES ASSUME NEW n \in Node PROVE ConnAt(n) /\ WayAt(n)
    BY WayParts DEF ConnectionInv, ConnAt
  <1>3. /\ events[n] = <<>> /\ net[n] = <<>> /\ reg[n] = {} /\ incoming[n] = {}
        /\ pending[n] = {} /\ late[n] = {} /\ known = life
        /\ \A x \in Node : events[x] = <<>>
    BY DEF Init, Empty, None
  <1>4. DOMAIN <<>> = {} OBVIOUS
  <1>5. /\ app[n].inst = {} /\ app[n].jobs = <<>> /\ app[n].prf = NoService
        /\ app[n].up = (life[n] = 1)
    <2>1. app[n] = [Fresh EXCEPT !.up = life[n] = 1, !.cbs = life[n] = 1]
      BY DEF Init
    <2>2. \A x, y : LET b == [Fresh EXCEPT !.up = x, !.cbs = y]
                    IN b.inst = {} /\ b.jobs = <<>> /\ b.prf = NoService /\ b.up = x
      BY DEF Fresh
    <2>3. QED BY <2>1, <2>2
  <1>6. ConnAt(n)
    <2>1. life[n] \in {0, 1} BY DEF Init
    <2>2. Ordered(<<>>, known[n], life[n], app[n].up)
      <3>1. app[n].up => life[n] = 1 BY <1>5
      <3>2. life[n] = 1 => app[n].up BY <1>5
      <3>3. QED BY <1>3, <1>4, <2>1, <3>1, <3>2 DEF Ordered
    <2>3. QED BY <1>3, <2>2 DEF ConnAt
  <1>7. \A id \in Ids, s \in Stage : At(n, id, s) => s = 1
    <2>1. \A op, id : ~InQueue(<<>>, op, id) BY InFew
    <2>2. \A id \in Ids : NoService[id.p] # id
      BY EntriesAssumption DEF NoService, Ids
    <2>3. \A id : ~ToLoad(app[n], id) BY <1>4, <1>5 DEF ToLoad
    <2>4. QED BY <1>3, <1>5, <2>1, <2>2, <2>3 DEF At, Made
  <1>8. \A op, id : ~InQueue(events[n], op, id) BY <1>3, InFew
  <1>9. Unique(net[n]) /\ Unique(events[n]) /\ OnceToLoad(app[n])
    BY <1>3, <1>4, <1>5, UniqueFew DEF OnceToLoad
  <1>10. 7 \in Stage /\ 8 \in Stage BY DEF Stage
  <1>11. QED BY <1>6, <1>7, <1>8, <1>9, <1>10 DEF WayAt

-----------------------------------------------------------------------------
(* MatchInv: the registry and the instances.                                   *)

\* Events added to a queue end what was expected, or they are creations.
LEMMA ExpectedParts ==
  ASSUME NEW q \in Seq(Events), NEW evs \in Seq(Events), NEW R, NEW id \in Ids
  PROVE id \in Expected(q \o evs, R) <=>
          \/ id \in Expected(q, R) /\ Lasts(evs, 0, id)
          \/ \E i \in DOMAIN evs : evs[i].op = "create" /\ evs[i].id = id /\ Lasts(evs, i, id)
  <1> DEFINE c == q \o evs
             New == \E i \in DOMAIN evs : /\ evs[i].op = "create" /\ evs[i].id = id
                                          /\ Lasts(evs, i, id)
  <1>1. /\ \A i \in DOMAIN q : i \in DOMAIN c /\ c[i] = q[i]
        /\ \A i \in DOMAIN evs : Len(q) + i \in DOMAIN c /\ c[Len(q) + i] = evs[i]
        /\ \A i \in DOMAIN c : \/ i \in DOMAIN q
                               \/ i > Len(q) /\ i - Len(q) \in DOMAIN evs /\ c[i] = evs[i - Len(q)]
        /\ DOMAIN q = 1 .. Len(q) /\ Len(q) \in Nat
        /\ DOMAIN evs \subseteq Nat \ {0} /\ DOMAIN c \subseteq Nat \ {0}
    BY Appended
  <1> HIDE DEF c
  <1>2. \A i \in {0} \cup DOMAIN q : Lasts(c, i, id) <=> Lasts(q, i, id) /\ Lasts(evs, 0, id)
    <2> TAKE i \in {0} \cup DOMAIN q
    <2>1. i <= Len(q) /\ i \in Nat BY <1>1
    <2>2. ASSUME Lasts(c, i, id) PROVE Lasts(q, i, id) /\ Lasts(evs, 0, id)
      <3>1. Lasts(q, i, id) BY <1>1, <2>2 DEF Lasts
      <3>2. Lasts(evs, 0, id)
        <4> SUFFICES ASSUME NEW j \in DOMAIN evs PROVE ~Ends(evs[j], id)
          BY DEF Lasts
        <4>1. Len(q) + j > i BY <1>1, <2>1
        <4>2. QED BY <1>1, <2>2, <4>1 DEF Lasts
      <3>3. QED BY <3>1, <3>2
    <2>3. ASSUME Lasts(q, i, id), Lasts(evs, 0, id) PROVE Lasts(c, i, id)
      BY <1>1, <2>3 DEF Lasts
    <2>4. QED BY <2>2, <2>3
  <1>3. \A i \in DOMAIN evs : Lasts(c, Len(q) + i, id) <=> Lasts(evs, i, id)
    <2> TAKE i \in DOMAIN evs
    <2>1. ASSUME Lasts(c, Len(q) + i, id) PROVE Lasts(evs, i, id)
      <3> SUFFICES ASSUME NEW j \in DOMAIN evs, j > i PROVE ~Ends(evs[j], id)
        BY DEF Lasts
      <3>1. Len(q) + j > Len(q) + i BY <1>1
      <3>2. QED BY <1>1, <2>1, <3>1 DEF Lasts
    <2>2. ASSUME Lasts(evs, i, id) PROVE Lasts(c, Len(q) + i, id)
      <3> SUFFICES ASSUME NEW j \in DOMAIN c, j > Len(q) + i PROVE ~Ends(c[j], id)
        BY DEF Lasts
      <3>1. j \notin DOMAIN q /\ j - Len(q) > i BY <1>1
      <3>2. QED BY <1>1, <2>2, <3>1 DEF Lasts
    <2>3. QED BY <2>1, <2>2
  <1>4. ASSUME id \in Expected(c, R) PROVE (id \in Expected(q, R) /\ Lasts(evs, 0, id)) \/ New
    <2>1. CASE id \in R /\ Lasts(c, 0, id)
      BY <1>2, <2>1 DEF Expected
    <2>2. ASSUME NEW i \in DOMAIN c, c[i].op = "create", c[i].id = id, Lasts(c, i, id)
          PROVE (id \in Expected(q, R) /\ Lasts(evs, 0, id)) \/ New
      <3>1. CASE i \in DOMAIN q BY <1>1, <1>2, <2>2, <3>1 DEF Expected
      <3>2. CASE i \notin DOMAIN q
        <4>1. PICK j \in DOMAIN evs : j = i - Len(q) /\ c[i] = evs[j] BY <1>1, <3>2
        <4>2. i = Len(q) + j BY <1>1, <4>1
        <4>3. QED BY <1>3, <2>2, <4>1, <4>2
      <3>3. QED BY <3>1, <3>2
    <2>3. QED BY <1>4, <2>1, <2>2 DEF Expected
  <1>5. ASSUME id \in Expected(q, R) /\ Lasts(evs, 0, id) PROVE id \in Expected(c, R)
    BY <1>1, <1>2, <1>5 DEF Expected
  <1>6. ASSUME New PROVE id \in Expected(c, R)
    BY <1>1, <1>3, <1>6 DEF Expected
  <1>7. QED BY <1>4, <1>5, <1>6 DEF c

\* Events that PmpPim does not end or create anything for.
LEMMA ExpectedQuiet ==
  ASSUME NEW q \in Seq(Events), NEW evs \in Seq(Events), NEW R,
         \A i \in DOMAIN evs : evs[i].op \notin {"create", "died", "lost"}
  PROVE Expected(q \o evs, R) = Expected(q, R)
  <1>1. \A id \in Ids : Lasts(evs, 0, id) BY DEF Lasts, Ends
  <1>2. \A id \in Ids : id \in Expected(q \o evs, R) <=> id \in Expected(q, R)
    BY <1>1, ExpectedParts
  <1>3. QED BY <1>2 DEF Expected

\* Handling the first event does to the registry what it says.
LEMMA ExpectedRest ==
  ASSUME NEW q \in Seq(Events), q # <<>>, NEW R, NEW S, NEW id \in Ids,
         id \in S <=> \/ id \in R /\ ~Ends(Head(q), id)
                      \/ Head(q).op = "create" /\ Head(q).id = id
  PROVE id \in Expected(Tail(q), S) <=> id \in Expected(q, R)
  <1> DEFINE e == Head(q)
             r == Tail(q)
  <1>1. /\ e = q[1] /\ 1 \in DOMAIN q
        /\ \A i \in DOMAIN r : i + 1 \in DOMAIN q /\ r[i] = q[i + 1]
        /\ \A i \in DOMAIN q : i = 1 \/ (i - 1 \in DOMAIN r /\ q[i] = r[i - 1])
        /\ DOMAIN r \subseteq Nat \ {0} /\ DOMAIN q \subseteq Nat \ {0}
    BY Handled
  <1>e. id \in S <=> (id \in R /\ ~Ends(e, id)) \/ (e.op = "create" /\ e.id = id)
    OBVIOUS
  <1> HIDE DEF e, r
  <1>2. \A i \in {0} \cup DOMAIN r : Lasts(q, i + 1, id) <=> Lasts(r, i, id)
    <2> TAKE i \in {0} \cup DOMAIN r
    <2>1. ASSUME Lasts(q, i + 1, id) PROVE Lasts(r, i, id)
      <3> SUFFICES ASSUME NEW j \in DOMAIN r, j > i PROVE ~Ends(r[j], id)
        BY DEF Lasts
      <3>1. j + 1 > i + 1 BY <1>1
      <3>2. QED BY <1>1, <2>1, <3>1 DEF Lasts
    <2>2. ASSUME Lasts(r, i, id) PROVE Lasts(q, i + 1, id)
      <3> SUFFICES ASSUME NEW j \in DOMAIN q, j > i + 1 PROVE ~Ends(q[j], id)
        BY DEF Lasts
      <3>1. j # 1 /\ j - 1 > i BY <1>1
      <3>2. QED BY <1>1, <2>2, <3>1 DEF Lasts
    <2>3. QED BY <2>1, <2>2
  <1>3. Lasts(q, 1, id) <=> Lasts(r, 0, id)
    BY <1>2
  <1>4. Lasts(q, 0, id) <=> ~Ends(e, id) /\ Lasts(r, 0, id)
    <2>1. \A j \in DOMAIN q : j > 0 /\ (j > 1 \/ j = 1) BY <1>1
    <2>2. QED BY <1>1, <1>3, <2>1 DEF Lasts
  <1>5. ASSUME id \in Expected(r, S) PROVE id \in Expected(q, R)
    <2>1. CASE id \in S /\ Lasts(r, 0, id)
      BY <1>1, <1>3, <1>4, <1>e, <2>1 DEF Expected
    <2>2. ASSUME NEW i \in DOMAIN r, r[i].op = "create", r[i].id = id, Lasts(r, i, id)
          PROVE id \in Expected(q, R)
      BY <1>1, <1>2, <2>2 DEF Expected
    <2>3. QED BY <1>5, <2>1, <2>2 DEF Expected
  <1>6. ASSUME id \in Expected(q, R) PROVE id \in Expected(r, S)
    <2>1. CASE id \in R /\ Lasts(q, 0, id)
      BY <1>4, <1>e, <2>1 DEF Expected
    <2>2. ASSUME NEW i \in DOMAIN q, q[i].op = "create", q[i].id = id, Lasts(q, i, id)
          PROVE id \in Expected(r, S)
      <3>1. CASE i = 1 BY <1>1, <1>3, <1>e, <2>2, <3>1 DEF Expected
      <3>2. CASE i # 1
        <4>1. PICK j \in DOMAIN r : j = i - 1 /\ q[i] = r[j] BY <1>1, <3>2
        <4>2. i = j + 1 BY <1>1, <4>1
        <4>3. QED BY <1>2, <2>2, <4>1, <4>2 DEF Expected
      <3>3. QED BY <3>1, <3>2
    <2>3. QED BY <1>6, <2>1, <2>2 DEF Expected
  <1>7. QED BY <1>5, <1>6 DEF r

\* What is no creation's and not registered is not expected; a lost connection
\* ends everything that is registered.
LEMMA NotExpected ==
  ASSUME NEW q, NEW R, NEW id \in Ids, ~InQueue(q, "create", id)
  PROVE /\ id \notin R => id \notin Expected(q, R)
        /\ \A l : Queued(q, "lost", l) /\ DOMAIN q \subseteq Nat \ {0} => id \notin Expected(q, R)
  <1>1. id \in Expected(q, R) => id \in R /\ Lasts(q, 0, id)
    BY DEF Expected, InQueue
  <1>2. ASSUME NEW l, Queued(q, "lost", l), DOMAIN q \subseteq Nat \ {0}
        PROVE ~Lasts(q, 0, id)
    <2>1. PICK j \in DOMAIN q : q[j].op = "lost" BY <1>2 DEF Queued
    <2>2. j > 0 BY <1>2
    <2>3. QED BY <2>1, <2>2 DEF Lasts, Ends
  <1>3. QED BY <1>1, <1>2

\* A process goes on.
LEMMA EffectMatch ==
  ASSUME TypeOK, ProcessInv, WayInv, MatchInv, NEW n \in Node, NEW b, NEW evs,
         Effect(n, b, evs)
  PROVE Matches(app[n], events[n], reg[n])'
  <1> DEFINE q == events[n]
             a == app[n]
             R == reg[n]
  <1>0. VarsOK /\ CountsOK /\ ProcessesOK
    BY TypeParts
  <1>1. /\ WayAt(n) /\ q \in Seq(Events) /\ a \in Apps /\ b \in Apps /\ evs \in Seq(Events)
        /\ Kind(n, a, b, evs) /\ Matches(a, q, R)
    BY <1>0, WayParts DEF VarsOK, ProcessesOK, Effect, MatchInv
  <1>2. events'[n] = q \o evs /\ app'[n] = b /\ reg' = reg
    BY <1>0 DEF Effect, pmpVars, VarsOK, ProcessesOK
  <1>3. \A s \in {1, 8, 9} : s \in Stage BY DEF Stage
  <1>4. \A id \in Ids :
          id \in Expected(q \o evs, R) <=>
            \/ id \in Expected(q, R) /\ Lasts(evs, 0, id)
            \/ \E i \in DOMAIN evs : evs[i].op = "create" /\ evs[i].id = id /\ Lasts(evs, i, id)
    BY <1>1, ExpectedParts
  <1>s. SUFFICES Matches(b, q \o evs, R)
    BY <1>2
  <1> HIDE DEF q, a, R
  <1>5. DOMAIN evs \subseteq Nat \ {0} /\ DOMAIN <<>> = {} BY <1>1
  \* The jobs that are left.
  <1>6. ASSUME a.jobs # <<>>, b.jobs = Tail(a.jobs)
        PROVE \A id : InQueue(a.jobs, "died", id) <=>
                (Head(a.jobs).op = "died" /\ Head(a.jobs).id = id) \/ InQueue(b.jobs, "died", id)
    <2>1. a.jobs \in Seq(Jobs) BY <1>1 DEF Apps
    <2>2. QED BY <1>6, <2>1, InRest
  <1>7. ASSUME evs = <<>> PROVE \A id \in Ids : id \in Expected(q \o evs, R) <=> id \in Expected(q, R)
    BY <1>4, <1>5, <1>7 DEF Lasts
  <1>8. CASE Continues(a, b, evs)
    <2>1. \A i \in DOMAIN evs : evs[i].op \notin {"create", "died", "lost"}
      BY <1>8 DEF Continues
    <2>2. Expected(q \o evs, R) = Expected(q, R) BY <1>1, <2>1, ExpectedQuiet
    <2>3. b.inst = a.inst /\ b.jobs = a.jobs BY <1>8 DEF Continues
    <2>4. QED BY <1>1, <2>2, <2>3 DEF Matches
  <1>9. CASE RequestsOne(a, b, evs)
    <2>1. evs = <<>> /\ b.inst = a.inst /\ b.jobs = a.jobs BY <1>9 DEF RequestsOne
    <2>2. QED BY <1>1, <1>7, <2>1 DEF Matches
  <1>10. CASE GivesUpJob(a, b, evs)
    <2>1. /\ evs = <<>> /\ b.inst = a.inst /\ a.jobs # <<>> /\ b.jobs = Tail(a.jobs)
          /\ Head(a.jobs).op = "incoming"
               \/ (Head(a.jobs).op = "died" /\ Head(a.jobs).id \notin a.inst)
      BY <1>10 DEF GivesUpJob, DropsJob
    <2>2. QED BY <1>1, <1>6, <1>7, <2>1 DEF Matches
  <1>11. CASE RemovesOne(a, b, evs)
    <2>1. /\ evs = <<>> /\ b.inst = a.inst \ {Head(a.jobs).id} /\ a.jobs # <<>>
          /\ b.jobs = Tail(a.jobs) /\ Head(a.jobs).op = "died"
      BY <1>11 DEF RemovesOne, DropsJob
    <2>2. QED BY <1>1, <1>6, <1>7, <2>1 DEF Matches
  <1>12. CASE UnloadsAll(a, b, evs)
    <2>1. PICK H \in SUBSET Ids :
            /\ b.inst = a.inst \ H
            /\ \A i \in DOMAIN evs : evs[i].op = "died" /\ evs[i].id \in H
            /\ \A id \in H : InQueue(evs, "died", id)
      BY <1>12 DEF UnloadsAll
    <2>2. \A id \in Ids : Lasts(evs, 0, id) <=> id \notin H
      <3> TAKE id \in Ids
      <3>1. ASSUME id \in H PROVE ~Lasts(evs, 0, id)
        <4>1. PICK i \in DOMAIN evs : evs[i].op = "died" /\ evs[i].id = id
          BY <2>1, <3>1 DEF InQueue
        <4>2. i > 0 BY <1>5
        <4>3. QED BY <4>1, <4>2 DEF Lasts, Ends
      <3>2. ASSUME id \notin H PROVE Lasts(evs, 0, id)
        BY <2>1, <3>2 DEF Lasts, Ends
      <3>3. QED BY <3>1, <3>2
    <2>3. \A id \in Ids : id \in Expected(q \o evs, R) <=> id \in Expected(q, R) /\ id \notin H
      BY <1>4, <2>1, <2>2
    <2>4. \A id : InQueue(b.jobs, "died", id) <=> InQueue(a.jobs, "died", id)
      <3>1. CASE b.jobs = a.jobs BY <3>1
      <3>2. CASE a.jobs # <<>> /\ b.jobs = Tail(a.jobs) /\ Head(a.jobs).op = "incoming"
        BY <1>6, <3>2
      <3>3. QED BY <1>12, <3>1, <3>2 DEF UnloadsAll, Keeps, DropsJob
    <2>5. QED BY <1>1, <2>1, <2>3, <2>4 DEF Matches
  \* A new instance: PmpPim is told of it, and its death is no job yet.
  <1>13. ASSUME NEW i \in Ids, NEW f \in {1, 8}, At(n, i, f), Creates(n, evs, i),
                b.inst = a.inst \cup {i},
                \A id : InQueue(b.jobs, "died", id) <=> InQueue(a.jobs, "died", id)
         PROVE Matches(b, q \o evs, R)
    <2>1. ~At(n, i, 9) BY <1>1, <1>3, <1>13 DEF WayAt
    <2>2. ~InQueue(a.jobs, "died", i) BY <1>3, <2>1 DEF At, Made, a
    <2>3. /\ 1 \in DOMAIN evs /\ evs[1].op = "create" /\ evs[1].id = i
          /\ \A j \in DOMAIN evs : j # 1 => evs[j].op = "ask"
      BY <1>13 DEF Creates, Event
    <2>4. \A id \in Ids : \A j \in DOMAIN evs : ~Ends(evs[j], id)
      BY <2>3 DEF Ends
    <2>5. \A id \in Ids : id \in Expected(q \o evs, R) <=> id \in Expected(q, R) \/ id = i
      <3>1. \A id \in Ids, j \in {0} \cup DOMAIN evs : Lasts(evs, j, id) BY <2>4 DEF Lasts
      <3>2. \A id \in Ids :
              (\E j \in DOMAIN evs : evs[j].op = "create" /\ evs[j].id = id) <=> id = i
        BY <2>3
      <3>3. QED BY <1>4, <3>1, <3>2
    <2>6. QED BY <1>1, <1>13, <2>2, <2>5 DEF Matches
  <1>14. CASE LoadsOne(n, a, b, evs)
    <2>1. PICK i \in Ids :
            /\ Keeps(a, b) /\ b.inst = a.inst \cup {i}
            /\ Unborn(n, i) /\ Creates(n, evs, i)
      BY <1>14 DEF LoadsOne, Creates
    <2>2. At(n, i, 1) BY <2>1 DEF At, Coming, Unborn
    <2>3. b.jobs = a.jobs BY <2>1 DEF Keeps
    <2>4. QED BY <1>13, <2>1, <2>2, <2>3
  <1>15. CASE MakesOne(n, a, b, evs)
    <2>i. PICK i : i = a.prf[Head(a.jobs).id.p] OBVIOUS
    <2>1. /\ DropsJob(a, b) /\ b.inst = a.inst \cup {i} /\ i \in Ids /\ a.prf[i.p] = i
          /\ Head(a.jobs).op = "incoming"
          /\ evs = IF i \notin a.inst THEN <<Event("create", i, life[n])>> ELSE <<>>
      BY <1>15, <2>i DEF MakesOne
    <2>2. At(n, i, 8) BY <2>1 DEF At, a
    <2>3. ~At(n, i, 9) BY <1>1, <1>3, <2>1, <2>2 DEF WayAt
    <2>4. i \notin a.inst BY <2>3 DEF At, Made, a
    <2>5. Creates(n, evs, i)
      <3> DEFINE x == Event("create", i, life[n])
      <3>1. evs = <<x>> BY <2>1, <2>4
      <3> HIDE DEF x
      <3>2. DOMAIN evs = {1} /\ evs[1] = x BY <3>1
      <3>3. QED BY <3>2 DEF Creates, x
    <2>6. \A id : InQueue(b.jobs, "died", id) <=> InQueue(a.jobs, "died", id)
      BY <1>6, <2>1 DEF DropsJob
    <2>7. QED BY <1>13, <2>1, <2>2, <2>5, <2>6
  <1>16. QED
    BY <1>1, <1>8, <1>9, <1>10, <1>11, <1>12, <1>14, <1>15 DEF Kind

\* PmpPim handles an event.
LEMMA PmpMatch ==
  ASSUME TypeOK, ProcessInv, ConnectionInv, WayInv, MatchInv, NEW n \in Node, PmpStep(n)
  PROVE Matches(app[n], events[n], reg[n])'
  <1> DEFINE q == events[n]
             e == Head(q)
             r == Tail(q)
             a == app[n]
             R == reg[n]
             R2 == reg'[n]
  <1>0. VarsOK /\ CountsOK /\ ProcessesOK
    BY TypeParts
  <1>1. WayAt(n) /\ Matches(a, q, R) BY WayParts DEF MatchInv
  <1>2. q \in Seq(Events) /\ a \in Apps /\ app \in [Node -> Apps] /\ R \subseteq Ids
    BY <1>0 DEF VarsOK, ProcessesOK
  <1>3. q # <<>>
    BY DEF PmpStep, OnConnection, OnConnectionLost, CreateProfile, ProfileDied,
       ReadyToServe, OnCreateProfile, ProcessIncomingProfile, OnProfileDied, Answer, Head1
  <1>4. e \in Events /\ r \in Seq(Events) BY <1>2, <1>3
  <1>5. SameApp(a, app'[n]) BY PmpFrame
  <1>6. /\ Ordered(q, known[n], life[n], a.up) /\ (known[n] = 0 => R = {})
        /\ known[n] \in Nat /\ life[n] \in Nat
    BY <1>0, BoundsAssumption DEF ConnectionInv, VarsOK, CountsOK
  <1>i. PICK i : i = e.id OBVIOUS
  <1>u. e.op \in {"create", "died", "ready", "process", "remoteCreate", "remoteDied"} => i \in Ids
    BY <1>4, <1>i, EventFields
  <1>7. <<>> \in Seq(Events) OBVIOUS
  \* What it pushes is no creation.
  <1>8. \A pushed \in Seq(Events) : Then(n, pushed) => events'[n] = r \o pushed
    BY <1>0, <1>3, ThenTypes DEF VarsOK
  <1>9. ASSUME NEW x, x \in Ids, NEW l \in 1 .. MaxLives
        PROVE /\ <<Process(x, l)>> \in Seq(Events)
              /\ \A j \in DOMAIN <<Process(x, l)>> :
                   <<Process(x, l)>>[j].op \notin {"create", "died", "lost"}
    <2> DEFINE y == Process(x, l)
    <2>1. y \in Events BY <1>9, EventTypes DEF Process
    <2>2. y.op = "process" BY DEF Process, Event
    <2> HIDE DEF y
    <2>3. QED BY <2>1, <2>2 DEF y
  <1>10. \E pushed \in Seq(Events) :
           /\ events'[n] = r \o pushed
           /\ \A j \in DOMAIN pushed : pushed[j].op \notin {"create", "died", "lost"}
    <2>1. \/ Then(n, <<>>)
          \/ Then(n, <<Process(i, e.life)>>) /\ e.op = "ready"
          \/ Then(n, <<Process(i, known[n])>>) /\ e.op = "remoteCreate" /\ serves[n]
      BY <1>i DEF PmpStep, OnConnection, OnConnectionLost, CreateProfile, ProfileDied,
         ReadyToServe, OnCreateProfile, ProcessIncomingProfile, OnProfileDied, Answer, Head1
    <2>2. CASE Then(n, <<>>)
      <3>1. \A j \in DOMAIN <<>> : <<>>[j].op \notin {"create", "died", "lost"} OBVIOUS
      <3>2. QED BY <1>7, <1>8, <2>2, <3>1
    <2>3. CASE Then(n, <<Process(i, e.life)>>) /\ e.op = "ready"
      <3>1. PICK l \in 1 .. MaxLives : l = e.life BY <1>4, <2>3, EventFields
      <3>2. i \in Ids /\ Then(n, <<Process(i, l)>>) BY <1>u, <2>3, <3>1
      <3>3. QED BY <1>8, <1>9, <3>2
    <2>4. CASE Then(n, <<Process(i, known[n])>>) /\ e.op = "remoteCreate" /\ serves[n]
      <3>1. known[n] \in 1 .. MaxLives
        <4>1. known[n] \in 0 .. MaxLives /\ known[n] # 0
          BY <1>0, <2>4 DEF VarsOK, ProcessInv
        <4>2. QED BY <4>1, BoundsAssumption
      <3>2. PICK l \in 1 .. MaxLives : l = known[n] BY <3>1
      <3>3. i \in Ids /\ Then(n, <<Process(i, l)>>) BY <1>u, <2>4, <3>2
      <3>4. QED BY <1>8, <1>9, <3>3
    <2>5. QED BY <2>1, <2>2, <2>3, <2>4
  <1>11. Expected(events[n], reg[n])' = Expected(r, R2)
    <2>1. PICK pushed \in Seq(Events) :
            /\ events'[n] = r \o pushed
            /\ \A j \in DOMAIN pushed : pushed[j].op \notin {"create", "died", "lost"}
      BY <1>10
    <2>2. Expected(r \o pushed, R2) = Expected(r, R2)
      BY <1>4, <2>1, ExpectedQuiet
    <2>3. QED BY <2>1, <2>2
  <1>s. SUFFICES Matches(app'[n], r, R2)
    <2>1. Matches(app[n], events[n], reg[n])' <=> Matches(app'[n], r, R2)
      BY <1>11 DEF Matches
    <2>2. QED BY <2>1
  <1>inst. app'[n].inst = a.inst BY <1>5 DEF SameApp
  <1> HIDE DEF q, e, r, a, R, R2
  <1>12. \A S, id : id \in Ids /\ (id \in S <=> (id \in R /\ ~Ends(e, id))
                                                \/ (e.op = "create" /\ e.id = id))
           => (id \in Expected(r, S) <=> id \in Expected(q, R))
    BY <1>2, <1>3, ExpectedRest DEF e, r
  \* The event does to the registry what it says, and no job is a death.
  <1>13. ASSUME \A id \in Ids : id \in R2 <=> (id \in R /\ ~Ends(e, id))
                                              \/ (e.op = "create" /\ e.id = id),
                \A id \in Ids : InQueue(app'[n].jobs, "died", id) <=> InQueue(a.jobs, "died", id)
         PROVE Matches(app'[n], r, R2)
    <2>1. \A id \in Ids : id \in Expected(r, R2) <=> id \in Expected(q, R)
      BY <1>12, <1>13
    <2>2. QED BY <1>1, <1>inst, <1>13, <2>1 DEF Matches
  <1>14. CASE \/ OnConnection(n) \/ OnConnectionLost(n) \/ CreateProfile(n) \/ ProfileDied(n)
              \/ ReadyToServe(n) \/ OnCreateProfile(n) \/ Answer(n)
    <2>1. app'[n].jobs = a.jobs
      <3>1. CASE Answer(n)
        <4>1. app' = app \/ \E t : app' = [app EXCEPT ![n] = [a EXCEPT !.told = t]]
          BY <1>2, <3>1 DEF Answer, a
        <4>2. app'[n] = a \/ \E t : app'[n] = [a EXCEPT !.told = t]
          BY <1>2, <4>1 DEF a
        <4>3. QED BY <1>2, <4>2 DEF Apps
      <3>2. QED BY <1>14, <3>1 DEF OnConnection, OnConnectionLost, CreateProfile, ProfileDied,
            ReadyToServe, OnCreateProfile, a
    <2>2. \A id \in Ids : id \in R2 <=> (id \in R /\ ~Ends(e, id))
                                        \/ (e.op = "create" /\ e.id = id)
      <3>1. CASE OnConnection(n) \/ ReadyToServe(n) \/ OnCreateProfile(n) \/ Answer(n)
        <4>1. R2 = R /\ e.op \notin {"create", "died", "lost"}
          BY <3>1 DEF OnConnection, ReadyToServe, OnCreateProfile, Answer, Head1, pmpVars,
             e, q, R, R2
        <4>2. QED BY <4>1 DEF Ends
      <3>2. CASE OnConnectionLost(n)
        <4>1. R2 = {} /\ e.op = "lost"
          BY <1>0, <3>2 DEF OnConnectionLost, Head1, VarsOK, e, q, R2
        <4>2. QED BY <4>1 DEF Ends
      <3>3. CASE ProfileDied(n)
        <4>1. R2 = R \ {e.id} /\ e.op = "died"
          BY <1>0, <3>3 DEF ProfileDied, Head1, VarsOK, e, q, R, R2
        <4>2. QED BY <4>1 DEF Ends
      <3>4. CASE CreateProfile(n)
        <4>1. e.op = "create" BY <3>4 DEF CreateProfile, Head1, e, q
        <4>2. known[n] = e.life
          BY <1>2, <1>3, <1>6, <4>1, OrderedHandle DEF e
        <4>3. R2 = R \cup {e.id}
          BY <1>0, <3>4, <4>2 DEF CreateProfile, VarsOK, e, q, R, R2
        <4>4. QED BY <4>1, <4>3 DEF Ends
      <3>5. QED BY <1>14, <3>1, <3>2, <3>3, <3>4
    <2>3. QED BY <1>13, <2>1, <2>2
  <1>15. CASE ProcessIncomingProfile(n)
    <2>1. /\ e.op = "process" /\ i \in Ids /\ reg' = reg
          /\ app' = app \/ ToApp(n, e.life, "incoming", i)
      <3>1. e.op = "process" /\ i \in Ids /\ reg' = reg
        BY <1>u, <1>15 DEF ProcessIncomingProfile, Head1, e, q
      <3>2. app' = app \/ ToApp(n, e.life, "incoming", i)
        BY <1>i, <1>15 DEF ProcessIncomingProfile, e, q
      <3>3. QED BY <3>1, <3>2
    <2>2. \A id \in Ids : InQueue(app'[n].jobs, "died", id) <=> InQueue(a.jobs, "died", id)
      <3> DEFINE j == [op |-> "incoming", id |-> i]
      <3>1. app' = app \/ app'[n].jobs = a.jobs \o <<j>> \/ app'[n] = a
        <4>1. PICK l : l = e.life OBVIOUS
        <4>2. app' = app \/ ToApp(n, l, "incoming", i) BY <2>1, <4>1
        <4>3. QED BY <1>2, <2>1, <4>2, ToAppJobs DEF a
      <3>2. j \in Jobs /\ j.op = "incoming" BY <2>1 DEF Jobs
      <3> HIDE DEF j
      <3>3. a.jobs \in Seq(Jobs) /\ <<j>> \in Seq(Jobs) BY <1>2, <3>2 DEF Apps
      <3>4. \A id : InQueue(a.jobs \o <<j>>, "died", id) <=>
              InQueue(a.jobs, "died", id) \/ InQueue(<<j>>, "died", id)
        BY ONLY <3>3, InParts
      <3>5. \A id : ~InQueue(<<j>>, "died", id) BY <3>2, InFew
      <3>6. QED BY <3>1, <3>4, <3>5 DEF a
    <2>3. R2 = R BY <2>1 DEF R, R2
    <2>4. \A id \in Ids : id \in R2 <=> (id \in R /\ ~Ends(e, id))
                                        \/ (e.op = "create" /\ e.id = id)
      BY <2>1, <2>3 DEF Ends
    <2>5. QED BY <1>13, <2>2, <2>4
  \* The peer's instance is gone: the one made for it will be a job's, unless the
  \* application is gone, whose connection will be found lost.
  <1>16. CASE OnProfileDied(n)
    <2>1. /\ e.op = "remoteDied" /\ i \in Ids
          /\ \/ i \in R /\ R2 = R \ {i} /\ ToApp(n, known[n], "died", i)
             \/ i \notin R /\ R2 = R /\ app' = app
      BY <1>0, <1>u, <1>i, <1>16 DEF OnProfileDied, Head1, VarsOK, e, q, R, R2
    <2>2. \A id : ~Ends(e, id) /\ e.op # "create" BY <2>1 DEF Ends
    <2>3. CASE i \notin R /\ R2 = R /\ app' = app
      BY <1>13, <2>2, <2>3 DEF a
    <2>4. CASE i \in R /\ R2 = R \ {i} /\ ToApp(n, known[n], "died", i)
      <3>1. ~InQueue(q, "create", i) BY <1>1, <2>1, <2>4 DEF WayAt, q, R
      <3>2. ~InQueue(r, "create", i) BY <1>2, <1>3, <3>1, InRest DEF r
      <3>3. i \notin Expected(r, R2) BY <2>1, <2>4, <3>2, NotExpected
      <3>4. \A id \in Ids \ {i} : id \in Expected(r, R2) <=> id \in Expected(q, R)
        BY <1>12, <2>2, <2>4
      <3> DEFINE j == [op |-> "died", id |-> i]
      <3>5. /\ IF a.up /\ life[n] = known[n] THEN app'[n].jobs = a.jobs \o <<j>> ELSE app' = app
            /\ j \in Jobs /\ a.jobs \in Seq(Jobs)
        BY <1>2, <2>1, <2>4, ToAppJobs DEF a
      <3>6. j.op = "died" /\ j.id = i OBVIOUS
      <3> HIDE DEF j
      <3>7. CASE a.up /\ life[n] = known[n]
        <4>1. <<j>> \in Seq(Jobs) BY <3>5
        <4>2. \A id : InQueue(a.jobs \o <<j>>, "died", id) <=>
                InQueue(a.jobs, "died", id) \/ InQueue(<<j>>, "died", id)
          BY ONLY <3>5, <4>1, InParts
        <4>3. \A id : InQueue(<<j>>, "died", id) <=> id = i BY <3>6, InFew
        <4>4. \A id : InQueue(app'[n].jobs, "died", id) <=>
                InQueue(a.jobs, "died", id) \/ id = i
          BY <3>5, <3>7, <4>2, <4>3
        <4>5. QED BY <1>1, <1>inst, <3>3, <3>4, <4>4 DEF Matches
      <3>8. CASE ~(a.up /\ life[n] = known[n])
        <4>1. Queued(q, "lost", known[n])
          <5>1. known[n] # 0 BY <1>6, <2>4
          <5>2. QED BY <1>6, <3>8, <5>1 DEF Ordered
        <4>2. DOMAIN q \subseteq Nat \ {0} BY <1>2
        <4>3. i \notin Expected(q, R) BY <2>1, <3>1, <4>1, <4>2, NotExpected
        <4>4. app'[n] = a BY <3>5, <3>8 DEF a
        <4>5. QED BY <1>1, <3>3, <3>4, <4>3, <4>4 DEF Matches
      <3>9. QED BY <3>7, <3>8
    <2>5. QED BY <2>1, <2>3, <2>4
  <1>17. QED BY <1>14, <1>15, <1>16 DEF PmpStep

LEMMA MatchStep ==
  ASSUME TypeOK, ProcessInv, ConnectionInv, WayInv, MatchInv, NEW n \in Node, Step(n)
  PROVE MatchInv'
  <1>0. VarsOK /\ CountsOK /\ ProcessesOK
    BY TypeParts
  <1>1. /\ events[n] \in Seq(Events) /\ Matches(app[n], events[n], reg[n])
        /\ Elsewhere(n) /\ ProcessOK(app[n])
    BY <1>0, StepElsewhere DEF VarsOK, MatchInv, ProcessInv
  <1>s. SUFFICES Matches(app[n], events[n], reg[n])'
    <2>1. \A m \in Node \ {n} : Matches(app[m], events[m], reg[m])'
      BY <1>1 DEF Elsewhere, MatchInv, Matches
    <2>2. QED BY <2>1 DEF MatchInv
  <1>f. /\ Fresh.inst = {} /\ Fresh.jobs = <<>>
        /\ [Fresh EXCEPT !.up = TRUE].inst = {} /\ [Fresh EXCEPT !.up = TRUE].jobs = <<>>
    BY DEF Fresh
  <1>q. \A op, id : ~InQueue(<<>>, op, id) BY InFew
  \* One more event that neither creates nor ends anything.
  <1>2. ASSUME NEW x \in Events, x.op \notin {"create", "died", "lost"},
               events'[n] = events[n] \o <<x>>, reg' = reg,
               app'[n].inst = app[n].inst, app'[n].jobs = app[n].jobs
        PROVE Matches(app[n], events[n], reg[n])'
    <2>1. <<x>> \in Seq(Events) /\ \A i \in DOMAIN <<x>> : <<x>>[i] = x
      BY <1>2
    <2>2. \A i \in DOMAIN <<x>> : <<x>>[i].op \notin {"create", "died", "lost"}
      BY <1>2, <2>1
    <2>3. Expected(events[n] \o <<x>>, reg[n]) = Expected(events[n], reg[n])
      BY <1>1, <2>1, <2>2, ExpectedQuiet
    <2>4. QED BY <1>1, <1>2, <2>3 DEF Matches
  <1>3. CASE PmpStep(n) BY <1>3, PmpMatch
  <1>4. CASE Receive(n) \/ Timeout(n)
    <2>1. PICK x \in Events : x.op \in {"remoteCreate", "remoteDied"}
                              /\ events' = [events EXCEPT ![n] = Append(@, x)]
      <3>1. CASE Receive(n)
        <4>1. PICK x : x = Head(net[n]) OBVIOUS
        <4>2. x \in Messages BY <1>0, <3>1, <4>1 DEF Receive, VarsOK
        <4>3. QED BY <3>1, <4>1, <4>2, EventTypes DEF Receive, Messages
      <3>2. CASE Timeout(n)
        <4>1. PICK id \in late[n] :
                events' = [events EXCEPT ![n] = Append(@, [op |-> "remoteCreate", id |-> id])]
          BY <3>2 DEF Timeout
        <4>2. id \in Ids BY <1>0 DEF VarsOK
        <4>3. [op |-> "remoteCreate", id |-> id] \in Events BY <4>2, EventTypes
        <4>4. QED BY <4>1, <4>3
      <3>3. QED BY <1>4, <3>1, <3>2
    <2>2. events'[n] = events[n] \o <<x>>
      BY <1>0, <2>1, AppendOne DEF VarsOK
    <2>3. UNCHANGED <<reg, app>> BY <1>4 DEF Receive, Timeout
    <2>4. QED BY <1>2, <2>1, <2>2, <2>3
  <1>5. CASE SessionRequest(n)
    <2>1. PICK r \in requests[n] : /\ app[n].up /\ Post(n, <<Event("ready", r.id, life[n])>>)
                                   /\ UNCHANGED <<pmpVars, life, app>>
      BY <1>5 DEF SessionRequest
    <2> DEFINE x == Event("ready", r.id, life[n])
    <2>2. x \in Events /\ x.op = "ready"
      <3>1. r.id \in Ids BY <1>0 DEF VarsOK
      <3>2. life[n] \in 1 .. MaxLives
        BY <1>0, <2>1, BoundsAssumption DEF ProcessInv, CountsOK
      <3>3. x \in Events BY <3>1, <3>2, EventTypes
      <3>4. x.op = "ready" BY DEF Event
      <3>5. QED BY <3>3, <3>4
    <2>3. Post(n, <<x>>) BY <2>1
    <2> HIDE DEF x
    <2>4. events'[n] = events[n] \o <<x>> BY <1>0, <2>3 DEF Post, VarsOK
    <2>5. QED BY <1>2, <2>1, <2>2, <2>4 DEF pmpVars
  <1>6. CASE LoseRequest(n)
    BY <1>1, <1>6 DEF LoseRequest, pmpVars, Matches
  \* A process that starts has no instances, like the one that is gone.
  <1>7. CASE Launch(n) \/ StartByUser(n)
    <2>1. NewLife(n) /\ UNCHANGED <<pmpVars, done>> BY <1>7 DEF Launch, StartByUser
    <2> DEFINE x == ConnEvent("connected", life[n] + 1)
    <2>2. <<x>> \in Seq(Events) BY <2>1, NewLifeTypes DEF pmpVars
    <2>3. x \in Events BY <2>2
    <2>4. x.op = "connected" BY DEF ConnEvent
    <2>5. /\ Post(n, <<x>>) /\ app' = [app EXCEPT ![n] = [Fresh EXCEPT !.up = TRUE]]
          /\ ~app[n].up
      BY <2>1 DEF NewLife
    <2> HIDE DEF x
    <2>6. /\ events'[n] = events[n] \o <<x>> /\ app'[n] = [Fresh EXCEPT !.up = TRUE]
          /\ app[n] = Fresh
      BY <1>0, <1>1, <2>5 DEF Post, VarsOK, ProcessesOK, ProcessOK
    <2>7. QED BY <1>2, <1>f, <2>1, <2>3, <2>4, <2>6 DEF pmpVars
  <1>8. CASE \E b, evs : Effect(n, b, evs) BY <1>8, EffectMatch
  \* The end of a process takes all its instances; its connection will be lost.
  <1>9. CASE Dies(n) /\ DoneKeeps(n) /\ app[n].up
    <2> DEFINE x == ConnEvent("lost", life[n])
    <2>1. <<x>> \in Seq(Events) BY <1>9, DiesTypes DEF DoneKeeps
    <2>2. x.op = "lost" BY DEF ConnEvent
    <2>3. Post(n, <<x>>) /\ app' = [app EXCEPT ![n] = Fresh] /\ reg' = reg
      BY <1>9 DEF Dies, pmpVars
    <2> HIDE DEF x
    <2>4. events'[n] = events[n] \o <<x>> /\ app'[n] = Fresh
      BY <1>0, <2>3 DEF Post, VarsOK, ProcessesOK
    <2>5. DOMAIN <<x>> = {1} /\ <<x>>[1] = x OBVIOUS
    <2>6. \A id \in Ids : id \notin Expected(events[n] \o <<x>>, reg[n])
      <3> TAKE id \in Ids
      <3>1. ~Lasts(<<x>>, 0, id)
        <4>1. Ends(<<x>>[1], id) BY <2>2, <2>5 DEF Ends
        <4>2. 1 > 0 OBVIOUS
        <4>3. QED BY <2>5, <4>1, <4>2 DEF Lasts
      <3>2. ~\E i \in DOMAIN <<x>> : <<x>>[i].op = "create" BY <2>2, <2>5
      <3>3. QED BY <1>1, <2>1, <3>1, <3>2, ExpectedParts
    <2>7. QED BY <1>f, <1>q, <2>3, <2>4, <2>6 DEF Matches
  <1>10. QED BY <1>3, <1>4, <1>5, <1>6, <1>7, <1>8, <1>9 DEF Step

\* At the start nothing is registered and no instance exists.
LEMMA MatchInit ==
  ASSUME Init
  PROVE MatchInv
  <1> SUFFICES ASSUME NEW n \in Node PROVE Matches(app[n], events[n], reg[n])
    BY DEF MatchInv
  <1>1. events[n] = <<>> /\ reg[n] = {} BY DEF Init, Empty, None
  <1>2. app[n].inst = {} /\ app[n].jobs = <<>>
    <2>1. app[n] = [Fresh EXCEPT !.up = life[n] = 1, !.cbs = life[n] = 1]
      BY DEF Init
    <2>2. \A x, y : LET b == [Fresh EXCEPT !.up = x, !.cbs = y]
                    IN b.inst = {} /\ b.jobs = <<>>
      BY DEF Fresh
    <2>3. QED BY <2>1, <2>2
  <1>3. \A op, id : ~InQueue(<<>>, op, id) BY InFew
  <1>4. \A id \in Ids : id \notin Expected(<<>>, {})
    <2>1. DOMAIN <<>> = {} OBVIOUS
    <2>2. QED BY <2>1 DEF Expected
  <1>5. QED BY <1>1, <1>2, <1>3, <1>4 DEF Matches

-----------------------------------------------------------------------------
(* DeathInv: deaths on their way between the devices.                          *)

\* What a step at a device does to the registry, to creations and to deaths.
Flow(n, id) ==
  LET m == Peer(n)
      Leaves == id \in reg[n] /\ id \notin reg'[n]
  IN
  /\ Dying(n, id)' => Dying(n, id) \/ Leaves
  /\ id \in reg'[n] => id \in reg[n] \/ InQueue(events[n], "create", id)
  /\ InQueue(events[n], "create", id)' => InQueue(events[n], "create", id) \/ ~Made(n, id)
  /\ DeathTo(n, id)' => DeathTo(n, id)
  /\ DeathTo(m, id)' => DeathTo(m, id) \/ (Leaves /\ (Dying(n, id)' => Dying(n, id)))
  /\ DeathTo(n, id) => DeathTo(n, id)' \/ id \in missed'[n] \/ Dying(n, id)' \/ Leaves
  /\ Leaves => DeathTo(m, id)' \/ DeathTo(n, id)
  /\ DeathTo(m, id) => DeathTo(m, id)'
  /\ id \in missed[n] => id \in missed'[n]

\* An instance that is not registered, will not be, and is no job's, is gone.
LEMMA Gone ==
  ASSUME NEW a, NEW q, NEW R, Matches(a, q, R), NEW id \in Ids,
         id \notin R, ~InQueue(q, "create", id), ~InQueue(a.jobs, "died", id)
  PROVE id \notin a.inst
  BY NotExpected DEF Matches

LEMMA FlowKeeps ==
  ASSUME NEW n \in Node, WayInv, MatchInv', DeathInv, Elsewhere(n),
         missed'[Peer(n)] = missed[Peer(n)],
         WayOn(n), WayOn(Peer(n)), \A id \in Ids : Flow(n, id)
  PROVE DeathInv'
  <1>m. PICK m \in Node \ {n} : m = Peer(n) /\ \A x \in Node : x = n \/ x = m
    BY PeerType
  <1>1. /\ events'[m] = events[m] /\ reg'[m] = reg[m] /\ app'[m] = app[m]
        /\ missed'[m] = missed[m] /\ WayOn(m)
    BY <1>m DEF Elsewhere
  <1>2. SUFFICES ASSUME NEW id \in Ids
        PROVE /\ Dying(n, id)' => id \notin reg'[n] /\ ~InQueue(events[n], "create", id)'
              /\ Dying(m, id)' => id \notin reg'[m] /\ ~InQueue(events[m], "create", id)'
              /\ id.by = m =>
                   /\ DeathTo(m, id)' => ~Somewhere(n, id)'
                   /\ Sent(n, id)' => \/ id \in reg'[m] \/ DeathTo(n, id)'
                                      \/ Dying(n, id)' \/ id \in missed'[n]
              /\ id.by = n =>
                   /\ DeathTo(n, id)' => ~Somewhere(m, id)'
                   /\ Sent(m, id)' => \/ id \in reg'[n] \/ DeathTo(m, id)'
                                      \/ Dying(m, id)' \/ id \in missed'[m]
    <2>1. \A id \in Ids : id.by \in Node BY DEF Ids
    <2> DEFINE Good(x, id) ==
          /\ Dying(x, id) => id \notin reg[x] /\ ~InQueue(events[x], "create", id)
          /\ id.by # x =>
               /\ DeathTo(id.by, id) => ~Somewhere(x, id)
               /\ Sent(x, id) => \/ id \in reg[id.by] \/ DeathTo(x, id)
                                 \/ Dying(x, id) \/ id \in missed[x]
    <2>2. \A id \in Ids : Good(n, id)' /\ Good(m, id)'
      BY <1>m, <1>2, <2>1
    <2>3. \A x \in Node, id \in Ids : Good(x, id)' BY <1>m, <2>2
    <2>4. QED BY <2>3 DEF DeathInv
  <1> DEFINE Leaves == id \in reg[n] /\ id \notin reg'[n]
  <1>3. /\ Dying(n, id)' => Dying(n, id) \/ Leaves
        /\ id \in reg'[n] => id \in reg[n] \/ InQueue(events[n], "create", id)
        /\ InQueue(events[n], "create", id)' => InQueue(events[n], "create", id) \/ ~Made(n, id)
        /\ DeathTo(n, id)' => DeathTo(n, id)
        /\ DeathTo(m, id)' => DeathTo(m, id) \/ (Leaves /\ (Dying(n, id)' => Dying(n, id)))
        /\ DeathTo(n, id) => DeathTo(n, id)' \/ id \in missed'[n] \/ Dying(n, id)' \/ Leaves
        /\ Leaves => DeathTo(m, id)' \/ DeathTo(n, id)
        /\ DeathTo(m, id) => DeathTo(m, id)'
        /\ id \in missed[n] => id \in missed'[n]
    BY <1>m DEF Flow
  <1>4. /\ Dying(n, id) => id \notin reg[n] /\ ~InQueue(events[n], "create", id)
        /\ Dying(m, id) => id \notin reg[m] /\ ~InQueue(events[m], "create", id)
        /\ id.by = m =>
             /\ DeathTo(m, id) => ~Somewhere(n, id)
             /\ Sent(n, id) => \/ id \in reg[m] \/ DeathTo(n, id)
                               \/ Dying(n, id) \/ id \in missed[n]
        /\ id.by = n =>
             /\ DeathTo(n, id) => ~Somewhere(m, id)
             /\ Sent(m, id) => \/ id \in reg[n] \/ DeathTo(m, id)
                               \/ Dying(m, id) \/ id \in missed[m]
    BY DEF DeathInv
  <1>5. /\ Dying(n, id) \/ id \in reg[n] => Made(n, id)
        /\ InQueue(events[n], "create", id) => id \notin reg[n]
    BY DEF Made, Dying, WayInv
  <1>6. /\ Somewhere(n, id)' => Somewhere(n, id)
        /\ Somewhere(m, id)' => Somewhere(m, id)
        /\ id.by = m => (Sent(n, id)' => Sent(n, id) \/ id \in reg'[m])
        /\ id.by = n => (Sent(m, id)' => Sent(m, id) \/ id \in reg'[n])
        /\ Made(n, id) /\ Somewhere(n, id)' => Made(n, id)'
    BY <1>1 DEF WayOn
  <1>7. /\ Sent(n, id)' => Somewhere(n, id)'
        /\ Sent(m, id) => Somewhere(m, id)
    BY DEF Sent, Somewhere
  <1>8. Dying(m, id)' <=> Dying(m, id) BY <1>1 DEF Dying
  \* Whatever was made and is neither registered nor a job any more is gone.
  <1>9. ASSUME Dying(n, id) \/ Leaves, id \notin reg'[n], ~Dying(n, id)'
        PROVE ~Somewhere(n, id)'
    <2>1. Made(n, id) BY <1>5, <1>9
    <2>2. ~InQueue(events[n], "create", id)' BY <1>3, <1>4, <1>5, <1>9, <2>1
    <2>3. Matches(app'[n], events'[n], reg'[n]) BY DEF MatchInv
    <2>4. ~InQueue(app'[n].jobs, "died", id) BY <1>9 DEF Dying
    <2>5. id \notin app'[n].inst BY <1>9, <2>2, <2>3, <2>4, Gone
    <2>6. ~Made(n, id)' BY <1>9, <2>2, <2>4, <2>5 DEF Made
    <2>7. QED BY <1>6, <2>1, <2>6
  <1> HIDE DEF Leaves
  <1>10. Leaves <=> id \in reg[n] /\ id \notin reg'[n] BY DEF Leaves
  <1>11. Dying(n, id)' => id \notin reg'[n] /\ ~InQueue(events[n], "create", id)'
    BY <1>3, <1>4, <1>5, <1>10
  <1>12. Dying(m, id)' => id \notin reg'[m] /\ ~InQueue(events[m], "create", id)'
    BY <1>1, <1>4, <1>8
  <1>13. ASSUME id.by = m, DeathTo(m, id)' PROVE ~Somewhere(n, id)'
    <2>1. CASE DeathTo(m, id) BY <1>4, <1>6, <1>13, <2>1
    <2>2. CASE Leaves /\ (Dying(n, id)' => Dying(n, id))
      <3>1. ~Dying(n, id)' BY <1>4, <1>10, <2>2
      <3>2. QED BY <1>9, <1>10, <2>2, <3>1
    <2>3. QED BY <1>3, <1>13, <2>1, <2>2
  <1>14. ASSUME id.by = m, Sent(n, id)',
                id \notin reg'[m], ~DeathTo(n, id)', ~Dying(n, id)', id \notin missed'[n]
         PROVE FALSE
    <2>1. Sent(n, id) /\ Somewhere(n, id)' /\ id \notin reg[m] BY <1>1, <1>6, <1>7, <1>14
    <2>2. CASE DeathTo(n, id) BY <1>3, <1>9, <1>10, <1>14, <2>1, <2>2
    <2>3. CASE Dying(n, id)
      <3>1. id \notin reg'[n] BY <1>3, <1>4, <2>3
      <3>2. QED BY <1>9, <1>14, <2>1, <2>3, <3>1
    <2>4. CASE id \in missed[n] BY <1>3, <1>14, <2>4
    <2>5. QED BY <1>4, <1>14, <2>1, <2>2, <2>3, <2>4
  <1>15. ASSUME id.by = n PROVE DeathTo(n, id)' => ~Somewhere(m, id)'
    BY <1>3, <1>4, <1>6, <1>15
  <1>16. ASSUME id.by = n, Sent(m, id)',
                id \notin reg'[n], ~DeathTo(m, id)', ~Dying(m, id)', id \notin missed'[m]
         PROVE FALSE
    <2>1. Sent(m, id) /\ Somewhere(m, id) BY <1>6, <1>7, <1>16
    <2>2. id \notin missed[m] /\ ~Dying(m, id) /\ ~DeathTo(m, id) BY <1>1, <1>3, <1>8, <1>16
    <2>3. Leaves BY <1>4, <1>10, <1>16, <2>1, <2>2
    <2>4. DeathTo(n, id) BY <1>3, <1>16, <2>3
    <2>5. QED BY <1>4, <1>16, <2>1, <2>4
  <1>17. QED BY <1>11, <1>12, <1>13, <1>14, <1>15, <1>16

\* A step of no PmpPim handler leaves the registry as it is.
LEMMA QuietFlow ==
  ASSUME NEW n \in Node, Elsewhere(n), reg'[n] = reg[n], missed' = missed,
         net'[Peer(n)] = net[Peer(n)],
         \A id \in Ids :
           /\ DeathTo(n, id)' <=> DeathTo(n, id)
           /\ Dying(n, id)' => Dying(n, id)
           /\ InQueue(events[n], "create", id)' =>
                InQueue(events[n], "create", id) \/ ~Made(n, id)
  PROVE \A id \in Ids : Flow(n, id)
  <1>m. PICK m \in Node \ {n} : m = Peer(n) BY PeerType
  <1>1. events'[m] = events[m] /\ net'[m] = net[m] BY <1>m DEF Elsewhere
  <1>2. \A id : DeathTo(m, id)' <=> DeathTo(m, id) BY <1>1 DEF DeathTo
  <1>3. QED BY <1>m, <1>2 DEF Flow

\* Events added to the queue, none of them a message of the peer.
LEMMA PostedFlow ==
  ASSUME VarsOK, NEW n \in Node, Elsewhere(n), NEW evs \in Seq(Events),
         events'[n] = events[n] \o evs, UNCHANGED <<net, reg, missed>>,
         \A i \in DOMAIN evs : evs[i].op # "remoteDied",
         \A id \in Ids :
           /\ Dying(n, id)' => Dying(n, id)
           /\ InQueue(evs, "create", id) => ~Made(n, id)
  PROVE \A id \in Ids : Flow(n, id)
  <1> DEFINE q == events[n]
  <1>1. q \in Seq(Events) BY DEF VarsOK
  <1> HIDE DEF q
  <1>2. \A op, id : InQueue(q \o evs, op, id) <=> InQueue(q, op, id) \/ InQueue(evs, op, id)
    BY ONLY <1>1, InParts, evs \in Seq(Events)
  <1>3. \A id : ~InQueue(evs, "remoteDied", id) BY DEF InQueue
  <1>4. \A id : DeathTo(n, id)' <=> DeathTo(n, id) BY <1>2, <1>3 DEF DeathTo, q
  <1>5. \A id \in Ids : InQueue(events[n], "create", id)' =>
                          InQueue(events[n], "create", id) \/ ~Made(n, id)
    BY <1>2 DEF q
  <1>6. QED BY <1>4, <1>5, QuietFlow

LEMMA DeliveryFlow ==
  ASSUME VarsOK, NEW n \in Node, Receive(n) \/ Timeout(n), Elsewhere(n)
  PROVE missed' = missed /\ \A id \in Ids : Flow(n, id)
  <1> DEFINE q == events[n]
  <1>1. q \in Seq(Events) /\ net[n] \in Seq(Messages) BY DEF VarsOK
  <1>2. UNCHANGED <<reg, missed, app>> BY DEF Receive, Timeout, history
  <1>3. \A id : Dying(n, id)' <=> Dying(n, id) BY <1>2 DEF Dying
  <1> HIDE DEF q
  <1>4. CASE Receive(n)
    <2>x. PICK x : x = Head(net[n]) OBVIOUS
    <2>1. net[n] # <<>> BY <1>4 DEF Receive
    <2>2. x \in Messages /\ x \in Events
      <3>1. x \in Messages BY <1>1, <2>1, <2>x
      <3>2. QED BY <3>1, EventTypes
    <2>3. /\ events'[n] = q \o <<x>> /\ net'[n] = Tail(net[n]) /\ <<x>> \in Seq(Events)
          /\ net'[Peer(n)] = net[Peer(n)]
      <3>1. events' = [events EXCEPT ![n] = Append(@, x)] /\ net' = [net EXCEPT ![n] = Tail(@)]
        BY <1>4, <2>x DEF Receive
      <3>2. Append(q, x) = q \o <<x>> /\ <<x>> \in Seq(Events) BY <1>1, <2>2, AppendOne
      <3>3. Peer(n) \in Node /\ Peer(n) # n BY PeerType
      <3>4. QED BY <3>1, <3>2, <3>3 DEF VarsOK, q
    <2>4. \A op, id : InQueue(net[n], op, id) <=>
            (x.op = op /\ x.id = id) \/ InQueue(Tail(net[n]), op, id)
      BY <1>1, <2>1, <2>x, InRest
    <2>5. \A op, id : InQueue(q \o <<x>>, op, id) <=> InQueue(q, op, id) \/ InQueue(<<x>>, op, id)
      BY ONLY <1>1, <2>3, InParts
    <2>6. \A op, id : InQueue(<<x>>, op, id) <=> x.op = op /\ x.id = id BY InFew
    <2>7. \A id : DeathTo(n, id)' <=> DeathTo(n, id)
      BY <2>3, <2>4, <2>5, <2>6 DEF DeathTo, q
    <2>8. \A id : InQueue(events[n], "create", id)' => InQueue(events[n], "create", id)
      <3>1. x.op # "create" BY <2>2 DEF Messages
      <3>2. QED BY <2>3, <2>5, <2>6, <3>1 DEF q
    <2>9. QED BY <1>2, <1>3, <2>3, <2>7, <2>8, QuietFlow
  <1>5. CASE Timeout(n)
    <2>1. PICK i \in late[n] :
            events' = [events EXCEPT ![n] = Append(@, [op |-> "remoteCreate", id |-> i])]
      BY <1>5 DEF Timeout
    <2> DEFINE x == [op |-> "remoteCreate", id |-> i]
    <2>2. i \in Ids /\ net' = net BY <1>5 DEF VarsOK, Timeout
    <2>3. x \in Events /\ x.op = "remoteCreate" BY <2>2, EventTypes
    <2> HIDE DEF x
    <2>4. events'[n] = q \o <<x>> /\ <<x>> \in Seq(Events)
      BY <1>1, <2>1, <2>3, AppendOne DEF VarsOK, x, q
    <2>5. \A id : ~InQueue(<<x>>, "create", id) BY <2>3, InFew
    <2>6. DOMAIN <<x>> = {1} /\ <<x>>[1] = x OBVIOUS
    <2> DEFINE evs == <<x>>
    <2>7. /\ evs \in Seq(Events) /\ events'[n] = events[n] \o evs
          /\ \A id : ~InQueue(evs, "create", id)
          /\ \A j \in DOMAIN evs : evs[j].op # "remoteDied"
      BY <2>3, <2>4, <2>5, <2>6 DEF q
    <2> HIDE DEF evs
    <2>8. QED BY <1>2, <1>3, <2>2, <2>7, PostedFlow
  <1>6. QED BY <1>4, <1>5

\* A process goes on: PmpPim is told of an instance it never knew.
LEMMA EffectFlow ==
  ASSUME TypeOK, ProcessInv, WayInv, NEW n \in Node, NEW b, NEW evs, Effect(n, b, evs),
         Elsewhere(n)
  PROVE missed' = missed /\ \A id \in Ids : Flow(n, id)
  <1> DEFINE a == app[n]
  <1>0. VarsOK /\ CountsOK /\ ProcessesOK
    BY TypeParts
  <1>1. /\ WayAt(n) /\ a \in Apps /\ b \in Apps /\ evs \in Seq(Events)
        /\ Kind(n, a, b, evs)
    BY <1>0, WayParts DEF VarsOK, ProcessesOK, Effect
  <1>2. events'[n] = events[n] \o evs /\ app'[n] = b /\ UNCHANGED <<reg, net, missed>>
    BY <1>0 DEF Effect, pmpVars, VarsOK, ProcessesOK
  <1>3. \A s \in {1, 8, 9} : s \in Stage BY DEF Stage
  <1> HIDE DEF a
  <1>4. \A id \in Ids : Dying(n, id)' => Dying(n, id)
    <2>1. DropsJob(a, b) \/ b.jobs = a.jobs
      BY <1>1 DEF Kind, Continues, LoadsOne, UnloadsAll, RequestsOne, GivesUpJob, MakesOne,
         RemovesOne, Keeps
    <2>2. a.jobs \in Seq(Jobs) BY <1>1 DEF Apps
    <2>3. a.jobs # <<>> => \A id : InQueue(Tail(a.jobs), "died", id) => InQueue(a.jobs, "died", id)
      BY <2>2, InRest
    <2>4. \A id : InQueue(b.jobs, "died", id) => InQueue(a.jobs, "died", id)
      BY <2>1, <2>3 DEF DropsJob
    <2>5. QED BY <1>2, <2>4 DEF Dying, a
  <1>5. \A i \in DOMAIN evs : evs[i].op # "remoteDied"
    <2>1. \/ \A i \in DOMAIN evs : evs[i].op \in {"ask", "died"}
          \/ \E id \in Ids : Creates(n, evs, id)
      BY <1>1, EffectSends
    <2>2. ASSUME NEW id \in Ids, Creates(n, evs, id)
          PROVE \A i \in DOMAIN evs : evs[i].op # "remoteDied"
      BY <2>2 DEF Creates, Event
    <2>3. QED BY <2>1, <2>2
  <1>6. ASSUME NEW i \in Ids, NEW f \in {1, 8}, At(n, i, f), Creates(n, evs, i)
        PROVE \A id \in Ids : InQueue(evs, "create", id) => ~Made(n, id)
    <2>1. ~At(n, i, 9) BY <1>1, <1>3, <1>6 DEF WayAt
    <2>2. \A id : InQueue(evs, "create", id) => id = i
      BY <1>6 DEF Creates, Event, InQueue
    <2>3. QED BY <2>1, <2>2 DEF At
  <1>7. \A id \in Ids : InQueue(evs, "create", id) => ~Made(n, id)
    <2>1. CASE LoadsOne(n, a, b, evs)
      <3>1. PICK i \in Ids : Unborn(n, i) /\ Creates(n, evs, i) BY <2>1 DEF LoadsOne, Creates
      <3>2. At(n, i, 1) BY <3>1 DEF At, Coming, Unborn
      <3>3. QED BY <1>6, <3>1, <3>2
    <2>2. CASE MakesOne(n, a, b, evs)
      <3>i. PICK i : i = a.prf[Head(a.jobs).id.p] OBVIOUS
      <3>1. /\ i \in Ids /\ a.prf[i.p] = i
            /\ evs = <<>> \/ evs = <<Event("create", i, life[n])>>
        BY <2>2, <3>i DEF MakesOne
      <3>2. At(n, i, 8) BY <3>1 DEF At, a
      <3>3. CASE evs = <<>> BY <3>3, InFew
      <3>4. CASE evs = <<Event("create", i, life[n])>>
        <4> DEFINE x == Event("create", i, life[n])
        <4>1. evs = <<x>> BY <3>4
        <4> HIDE DEF x
        <4>2. DOMAIN evs = {1} /\ evs[1] = x BY <4>1
        <4>3. Creates(n, evs, i) BY <4>2 DEF Creates, x
        <4>4. QED BY <1>6, <3>1, <3>2, <4>3
      <3>5. QED BY <3>1, <3>3, <3>4
    <2>3. CASE \A i \in DOMAIN evs : evs[i].op # "create" BY <2>3 DEF InQueue
    <2>4. QED
      <3>1. evs = <<>> => \A i \in DOMAIN evs : evs[i].op # "create" OBVIOUS
      <3>2. QED BY <1>1, <2>1, <2>2, <2>3, <3>1 DEF Kind, Continues, UnloadsAll, RequestsOne,
            GivesUpJob, RemovesOne
  <1>8. QED BY <1>0, <1>1, <1>2, <1>4, <1>5, <1>7, PostedFlow

\* Messages to the other device.
LEMMA SentFlow ==
  ASSUME VarsOK, NEW n \in Node, Elsewhere(n), NEW msgs \in Seq(Messages), Send(n, msgs)
  PROVE \A id : DeathTo(Peer(n), id)' <=>
                  DeathTo(Peer(n), id) \/ InQueue(msgs, "remoteDied", id)
  <1>m. PICK m \in Node \ {n} : m = Peer(n) BY PeerType
  <1>1. /\ net'[m] = net[m] \o msgs /\ net[m] \in Seq(Messages) /\ events'[m] = events[m]
    BY <1>m, SendTypes DEF VarsOK, Elsewhere
  <1>2. \A id : InQueue(net[m] \o msgs, "remoteDied", id) <=>
                  InQueue(net[m], "remoteDied", id) \/ InQueue(msgs, "remoteDied", id)
    BY <1>1, InParts
  <1>3. QED BY <1>m, <1>1, <1>2 DEF DeathTo

LEMMA DeathsOf ==
  ASSUME NEW S \in SUBSET Ids, NEW order \in SetToSeqs(S)
  PROVE \A id : InQueue(Deaths(order), "remoteDied", id) <=> id \in S
  <1>1. PICK k \in Nat : order \in [1 .. k -> S] /\ \A x \in S : \E i \in 1 .. k : order[i] = x
    BY IdsFinite, FS_Subset, OrderCovers
  <1>2. Deaths(order) = [i \in 1 .. k |-> [op |-> "remoteDied", id |-> order[i]]]
    BY <1>1 DEF Deaths
  <1> DEFINE d == Deaths(order)
  <1>3. /\ DOMAIN d = 1 .. k
        /\ \A i \in 1 .. k : d[i].op = "remoteDied" /\ d[i].id = order[i]
    BY <1>2
  <1> HIDE DEF d
  <1>5. \A id : InQueue(d, "remoteDied", id) <=> \E i \in 1 .. k : order[i] = id
    BY <1>3 DEF InQueue
  <1>4. QED BY <1>1, <1>5 DEF d

\* PmpPim handles an event.
LEMMA PmpFlow ==
  ASSUME TypeOK, ProcessInv, NEW n \in Node, PmpStep(n), Elsewhere(n)
  PROVE missed'[Peer(n)] = missed[Peer(n)] /\ \A id \in Ids : Flow(n, id)
  <1>m. PICK m \in Node \ {n} : m = Peer(n) BY PeerType
  <1> DEFINE q == events[n]
             e == Head(q)
             r == Tail(q)
             a == app[n]
  <1>0. VarsOK /\ CountsOK /\ ProcessesOK
    BY TypeParts
  <1>1. /\ q \in Seq(Events) /\ q # <<>> /\ e \in Events /\ r \in Seq(Events)
        /\ \A op, id : op # "process" =>
             (InQueue(events[n], op, id)' <=> InQueue(r, op, id))
    BY PmpQueue
  <1>2. \A op, id : InQueue(q, op, id) <=> (e.op = op /\ e.id = id) \/ InQueue(r, op, id)
    BY <1>1, InRest
  <1>3. a \in Apps /\ app \in [Node -> Apps] /\ a.jobs \in Seq(Jobs)
    BY <1>0 DEF ProcessesOK, Apps
  <1>4. net'[n] = net[n] BY PmpFrame
  <1>i. PICK i : i = e.id OBVIOUS
  <1>u. e.op \in {"create", "died", "process", "remoteDied"} => i \in Ids
    BY <1>1, <1>i, EventFields
  <1>5. \A id : InQueue(events[n], "create", id)' => InQueue(events[n], "create", id)
    BY <1>1, <1>2
  <1>6. \A id : DeathTo(n, id)' => DeathTo(n, id)
    BY <1>1, <1>2, <1>4 DEF DeathTo
  <1>7. \A id : DeathTo(n, id) => DeathTo(n, id)' \/ (e.op = "remoteDied" /\ id = i)
    BY <1>1, <1>2, <1>4, <1>i DEF DeathTo
  <1>8. UNCHANGED net => \A id : DeathTo(m, id)' <=> DeathTo(m, id)
    BY <1>m DEF DeathTo, Elsewhere
  <1>9. app'[n].jobs = a.jobs => \A id : Dying(n, id)' <=> Dying(n, id)
    BY DEF Dying
  <1> HIDE DEF q, e, r, a
  \* The registry stays.
  <1>10. ASSUME reg' = reg, UNCHANGED <<net, missed>>, e.op # "remoteDied",
                \A id : Dying(n, id)' => Dying(n, id)
         PROVE missed'[m] = missed[m] /\ \A id \in Ids : Flow(n, id)
    BY <1>m, <1>5, <1>6, <1>7, <1>8, <1>10 DEF Flow
  <1>11. CASE OnConnection(n) \/ ReadyToServe(n) \/ OnCreateProfile(n) \/ Answer(n)
    <2>1. reg' = reg /\ UNCHANGED <<net, missed>> /\ e.op # "remoteDied"
      BY <1>11 DEF OnConnection, ReadyToServe, OnCreateProfile, Answer, Head1, pmpVars,
         history, e, q
    <2>2. app'[n].jobs = a.jobs
      <3>1. CASE Answer(n)
        <4>1. app' = app \/ \E t : app' = [app EXCEPT ![n] = [a EXCEPT !.told = t]]
          BY <1>3, <3>1 DEF Answer, a
        <4>2. app'[n] = a \/ \E t : app'[n] = [a EXCEPT !.told = t]
          BY <1>3, <4>1 DEF a
        <4>3. QED BY <1>3, <4>2 DEF Apps
      <3>2. QED BY <1>11, <3>1 DEF OnConnection, ReadyToServe, OnCreateProfile, a
    <2>3. QED BY <1>m, <1>9, <1>10, <2>1, <2>2
  <1>12. CASE ProcessIncomingProfile(n)
    <2>1. /\ e.op = "process" /\ reg' = reg /\ UNCHANGED <<net, missed>>
      BY <1>12 DEF ProcessIncomingProfile, Head1, e, q
    <2>2. app' = app \/ ToApp(n, e.life, "incoming", i)
      BY <1>12, <1>i DEF ProcessIncomingProfile, e, q
    <2>3. \A id : Dying(n, id)' => Dying(n, id)
      <3> DEFINE j == [op |-> "incoming", id |-> i]
      <3>1. app' = app \/ app'[n].jobs = a.jobs \o <<j>>
        <4>1. PICK l : l = e.life OBVIOUS
        <4>2. app' = app \/ ToApp(n, l, "incoming", i) BY <2>2, <4>1
        <4>3. QED BY <1>3, <1>u, <2>1, <4>2, ToAppJobs DEF a
      <3>2. j \in Jobs /\ j.op = "incoming" BY <1>u, <2>1 DEF Jobs
      <3> HIDE DEF j
      <3>3. <<j>> \in Seq(Jobs) BY <3>2
      <3>4. \A id : InQueue(a.jobs \o <<j>>, "died", id) <=>
              InQueue(a.jobs, "died", id) \/ InQueue(<<j>>, "died", id)
        BY ONLY <1>3, <3>3, InParts
      <3>5. \A id : ~InQueue(<<j>>, "died", id) BY <3>2, InFew
      <3>6. QED BY <3>1, <3>4, <3>5 DEF Dying, a
    <2>4. QED BY <1>m, <1>10, <2>1, <2>3
  <1>13. CASE CreateProfile(n)
    <2>1. /\ e.op = "create" /\ i \in Ids /\ UNCHANGED <<app, missed>>
      BY <1>u, <1>13 DEF CreateProfile, Head1, history, e, q
    <2>2. reg' = reg \/ reg' = [reg EXCEPT ![n] = @ \cup {i}]
      BY <1>13, <1>i DEF CreateProfile, e, q
    <2>3. reg[n] \subseteq reg'[n] /\ reg'[n] \subseteq reg[n] \cup {i}
      BY <1>0, <2>2 DEF VarsOK
    <2>4. InQueue(events[n], "create", i) BY <1>2, <1>i, <2>1 DEF q
    <2> DEFINE x == [op |-> "remoteCreate", id |-> i]
    <2>5. UNCHANGED net \/ Send(n, <<>>) \/ Send(n, <<x>>)
      BY <1>13, <1>i DEF CreateProfile, e, q
    <2>6. x \in Messages /\ x.op = "remoteCreate" BY <2>1 DEF Messages
    <2> HIDE DEF x
    <2>7. <<>> \in Seq(Messages) /\ <<x>> \in Seq(Messages) BY <2>6
    <2>8. \A id : ~InQueue(<<>>, "remoteDied", id) /\ ~InQueue(<<x>>, "remoteDied", id)
      BY <2>6, InFew
    <2>9. \A id : DeathTo(m, id)' <=> DeathTo(m, id)
      BY <1>0, <1>m, <1>8, <2>5, <2>7, <2>8, SentFlow
    <2>10. \A id : Dying(n, id)' <=> Dying(n, id) BY <1>9, <2>1 DEF a
    <2>11. QED BY <1>m, <1>5, <1>6, <1>7, <2>1, <2>3, <2>4, <2>9, <2>10 DEF Flow
  \* What is not registered any more is told to the other device.
  <1>14. ASSUME UNCHANGED <<app, missed>>, e.op # "remoteDied", NEW S \in SUBSET reg[n],
                reg'[n] = reg[n] \ S,
                \A id : DeathTo(m, id)' <=> DeathTo(m, id) \/ id \in S
         PROVE missed'[m] = missed[m] /\ \A id \in Ids : Flow(n, id)
    <2>1. \A id : Dying(n, id)' <=> Dying(n, id) BY <1>9, <1>14 DEF a
    <2>2. \A id : id \in S <=> id \in reg[n] /\ id \notin reg'[n] BY <1>14
    <2>3. QED BY <1>m, <1>5, <1>6, <1>7, <1>14, <2>1, <2>2 DEF Flow
  <1>15. CASE ProfileDied(n)
    <2>1. /\ e.op = "died" /\ i \in Ids /\ UNCHANGED <<app, missed>>
      BY <1>u, <1>15 DEF ProfileDied, Head1, history, e, q
    <2>2. reg'[n] = reg[n] \ {i} BY <1>0, <1>15, <1>i DEF ProfileDied, VarsOK, e, q
    <2>3. Send(n, Deaths(IF i \in reg[n] THEN <<i>> ELSE <<>>))
      BY <1>15, <1>i DEF ProfileDied, e, q
    <2> DEFINE x == [op |-> "remoteDied", id |-> i]
    <2>4. /\ Deaths(<<>>) = <<>> /\ Deaths(<<i>>) = <<x>>
          /\ <<>> \in Seq(Messages) /\ <<x>> \in Seq(Messages)
      BY <2>1, SingleDeath
    <2>5. x.op = "remoteDied" /\ x.id = i OBVIOUS
    <2> HIDE DEF x
    <2>6. /\ \A id : ~InQueue(<<>>, "remoteDied", id)
          /\ \A id : InQueue(<<x>>, "remoteDied", id) <=> id = i
      BY <2>5, InFew
    <2>7. CASE i \in reg[n]
      <3>1. \A id : DeathTo(m, id)' <=> DeathTo(m, id) \/ id \in {i}
        BY <1>0, <1>m, <2>3, <2>4, <2>6, <2>7, SentFlow
      <3>2. QED BY <1>m, <1>14, <2>1, <2>2, <2>7, <3>1
    <2>8. CASE i \notin reg[n]
      <3>1. \A id : DeathTo(m, id)' <=> DeathTo(m, id) \/ id \in {}
        BY <1>0, <1>m, <2>3, <2>4, <2>6, <2>8, SentFlow
      <3>2. reg'[n] = reg[n] \ {} BY <2>2, <2>8
      <3>3. QED BY <1>m, <1>14, <2>1, <3>1, <3>2
    <2>9. QED BY <2>7, <2>8
  <1>16. CASE OnConnectionLost(n)
    <2>1. /\ e.op = "lost" /\ UNCHANGED <<app, missed>>
      BY <1>16 DEF OnConnectionLost, Head1, history, e, q
    <2>2. reg'[n] = reg[n] \ reg[n] BY <1>0, <1>16 DEF OnConnectionLost, VarsOK
    <2>3. PICK order \in SetToSeqs(reg[n]) : Send(n, Deaths(order))
      BY <1>16 DEF OnConnectionLost
    <2>4. reg[n] \in SUBSET Ids BY <1>0 DEF VarsOK
    <2>5. /\ Deaths(order) \in Seq(Messages)
          /\ \A id : InQueue(Deaths(order), "remoteDied", id) <=> id \in reg[n]
      BY <2>3, <2>4, DeathTypes, DeathsOf
    <2>6. \A id : DeathTo(m, id)' <=> DeathTo(m, id) \/ id \in reg[n]
      BY <1>0, <1>m, <2>3, <2>5, SentFlow
    <2>7. QED BY <1>m, <1>14, <2>1, <2>2, <2>6
  \* A death of the other device becomes the application's, or was not known.
  <1>17. CASE OnProfileDied(n)
    <2>1. /\ e.op = "remoteDied" /\ i \in Ids /\ UNCHANGED net
      BY <1>u, <1>17 DEF OnProfileDied, Head1, e, q
    <2>2. DeathTo(n, i) BY <1>2, <1>i, <2>1 DEF DeathTo, q
    <2>3. \A id : DeathTo(m, id)' <=> DeathTo(m, id) BY <1>8, <2>1
    <2>4. CASE /\ i \in reg[n] /\ reg' = [reg EXCEPT ![n] = @ \ {i}]
               /\ ToApp(n, known[n], "died", i) /\ UNCHANGED missed
      <3>1. reg'[n] = reg[n] \ {i} BY <1>0, <2>4 DEF VarsOK
      <3> DEFINE j == [op |-> "died", id |-> i]
      <3>2. app' = app \/ app'[n].jobs = a.jobs \o <<j>>
        BY <1>3, <2>1, <2>4, ToAppJobs DEF a
      <3>3. j \in Jobs /\ j.id = i BY <2>1 DEF Jobs
      <3> HIDE DEF j
      <3>4. <<j>> \in Seq(Jobs) BY <3>3
      <3>5. \A id : InQueue(a.jobs \o <<j>>, "died", id) <=>
              InQueue(a.jobs, "died", id) \/ InQueue(<<j>>, "died", id)
        BY ONLY <1>3, <3>4, InParts
      <3>6. \A id : InQueue(<<j>>, "died", id) => id = i BY <3>3, InFew
      <3>7. \A id : Dying(n, id)' => Dying(n, id) \/ id = i
        BY <3>2, <3>5, <3>6 DEF Dying, a
      <3>8. QED BY <1>m, <1>5, <1>6, <1>7, <2>2, <2>3, <2>4, <3>1, <3>7 DEF Flow
    <2>5. CASE /\ i \notin reg[n] /\ missed' = [missed EXCEPT ![n] = @ \cup {i}]
               /\ UNCHANGED <<reg, app>>
      <3>1. missed'[n] = missed[n] \cup {i} /\ missed'[m] = missed[m]
        BY <1>0, <2>5 DEF VarsOK
      <3>2. \A id : Dying(n, id)' <=> Dying(n, id) BY <1>9, <2>5 DEF a
      <3>3. QED BY <1>m, <1>5, <1>6, <1>7, <2>3, <2>5, <3>1, <3>2 DEF Flow
    <2>6. QED BY <1>17, <1>i, <2>4, <2>5 DEF OnProfileDied, e, q
  <1>18. QED
    BY <1>m, <1>11, <1>12, <1>13, <1>15, <1>16, <1>17 DEF PmpStep

LEMMA DeathStep ==
  ASSUME TypeOK, ProcessInv, ConnectionInv, WayInv, MatchInv, DeathInv,
         NEW n \in Node, Step(n)
  PROVE DeathInv'
  <1>0. VarsOK /\ CountsOK /\ ProcessesOK
    BY TypeParts
  <1>1. /\ Elsewhere(n) /\ WayOn(n) /\ WayOn(Peer(n)) /\ MatchInv' /\ Peer(n) \in Node
    BY StepElsewhere, WayStep, MatchStep, PeerType
  <1>s. SUFFICES missed'[Peer(n)] = missed[Peer(n)] /\ \A id \in Ids : Flow(n, id)
    BY ONLY <1>1, WayInv, DeathInv, n \in Node, FlowKeeps, <1>s
  <1>f. Fresh.jobs = <<>> /\ [Fresh EXCEPT !.up = TRUE].jobs = <<>>
    BY DEF Fresh
  <1>q. \A op, id : ~InQueue(<<>>, op, id) BY InFew
  \* One more event of the application, which creates nothing.
  <1>2. ASSUME NEW x, <<x>> \in Seq(Events), x.op \notin {"create", "remoteDied"},
               events'[n] = events[n] \o <<x>>, UNCHANGED <<net, reg, missed>>,
               app'[n].jobs = app[n].jobs \/ app'[n].jobs = <<>>
        PROVE missed' = missed /\ \A id \in Ids : Flow(n, id)
    <2> DEFINE evs == <<x>>
    <2>1. DOMAIN evs = {1} /\ evs[1] = x OBVIOUS
    <2>2. evs \in Seq(Events) /\ events'[n] = events[n] \o evs BY <1>2
    <2> HIDE DEF evs
    <2>3. \A i \in DOMAIN evs : evs[i].op # "remoteDied" BY <1>2, <2>1
    <2>4. \A id \in Ids : InQueue(evs, "create", id) => ~Made(n, id)
      BY <1>2, <2>1 DEF InQueue
    <2>5. \A id \in Ids : Dying(n, id)' => Dying(n, id)
      BY <1>2, <1>q DEF Dying
    <2>6. QED BY <1>0, <1>1, <1>2, <2>2, <2>3, <2>4, <2>5, PostedFlow
  <1>3. CASE PmpStep(n) BY <1>1, <1>3, PmpFlow
  <1>4. CASE Receive(n) \/ Timeout(n) BY <1>0, <1>1, <1>4, DeliveryFlow
  <1>5. CASE \E b, evs : Effect(n, b, evs) BY <1>1, <1>5, EffectFlow
  <1>6. CASE SessionRequest(n)
    <2>1. PICK r \in requests[n] : /\ app[n].up /\ Post(n, <<Event("ready", r.id, life[n])>>)
                                   /\ UNCHANGED <<pmpVars, life, app, missed>>
      BY <1>6 DEF SessionRequest, history
    <2> DEFINE x == Event("ready", r.id, life[n])
    <2>2. x \in Events /\ x.op = "ready"
      <3>1. r.id \in Ids BY <1>0 DEF VarsOK
      <3>2. life[n] \in 1 .. MaxLives
        BY <1>0, <2>1, BoundsAssumption DEF ProcessInv, CountsOK
      <3>3. x \in Events BY <3>1, <3>2, EventTypes
      <3>4. x.op = "ready" BY DEF Event
      <3>5. QED BY <3>3, <3>4
    <2>3. Post(n, <<x>>) BY <2>1
    <2> HIDE DEF x
    <2>4. events'[n] = events[n] \o <<x>> /\ <<x>> \in Seq(Events)
      BY <1>0, <2>2, <2>3 DEF Post, VarsOK
    <2>5. QED BY <1>2, <2>1, <2>2, <2>4 DEF pmpVars
  <1>7. CASE LoseRequest(n)
    <2>1. UNCHANGED <<events, net, reg, missed, app>> BY <1>7 DEF LoseRequest, pmpVars, history
    <2>2. \A id : (Dying(n, id)' <=> Dying(n, id)) /\ (DeathTo(n, id)' <=> DeathTo(n, id))
      BY <2>1 DEF Dying, DeathTo
    <2>3. QED BY <1>1, <2>1, <2>2, QuietFlow
  <1>8. CASE Launch(n) \/ StartByUser(n)
    <2>1. NewLife(n) /\ UNCHANGED <<pmpVars, done, missed>>
      BY <1>8 DEF Launch, StartByUser, history
    <2> DEFINE x == ConnEvent("connected", life[n] + 1)
    <2>2. <<x>> \in Seq(Events) BY <2>1, NewLifeTypes DEF pmpVars
    <2>3. x.op = "connected" BY DEF ConnEvent
    <2>4. Post(n, <<x>>) /\ app' = [app EXCEPT ![n] = [Fresh EXCEPT !.up = TRUE]]
      BY <2>1 DEF NewLife
    <2> HIDE DEF x
    <2>5. events'[n] = events[n] \o <<x>> /\ app'[n] = [Fresh EXCEPT !.up = TRUE]
      BY <1>0, <2>4 DEF Post, VarsOK, ProcessesOK
    <2>6. QED BY <1>2, <1>f, <2>1, <2>2, <2>3, <2>5 DEF pmpVars
  <1>9. CASE Dies(n) /\ DoneKeeps(n) /\ app[n].up
    <2> DEFINE x == ConnEvent("lost", life[n])
    <2>1. <<x>> \in Seq(Events) BY <1>9, DiesTypes DEF DoneKeeps
    <2>2. x.op = "lost" BY DEF ConnEvent
    <2>3. Post(n, <<x>>) /\ app' = [app EXCEPT ![n] = Fresh] /\ UNCHANGED <<pmpVars, missed>>
      BY <1>9 DEF Dies
    <2> HIDE DEF x
    <2>4. events'[n] = events[n] \o <<x>> /\ app'[n] = Fresh
      BY <1>0, <2>3 DEF Post, VarsOK, ProcessesOK
    <2>5. QED BY <1>2, <1>f, <2>1, <2>2, <2>3, <2>4 DEF pmpVars
  <1>10. QED BY <1>3, <1>4, <1>5, <1>6, <1>7, <1>8, <1>9 DEF Step

\* At the start nobody has died.
LEMMA DeathInit ==
  ASSUME Init
  PROVE DeathInv
  <1> SUFFICES ASSUME NEW n \in Node, NEW id \in Ids
               PROVE ~Dying(n, id) /\ ~DeathTo(n, id) /\ ~DeathTo(id.by, id) /\ ~Sent(n, id)
    BY DEF DeathInv
  <1>1. /\ \A m \in Node : events[m] = <<>> /\ net[m] = <<>>
        /\ reg[n] = {} /\ pending[n] = {} /\ late[n] = {}
    BY DEF Init, Empty, None
  <1>2. \A op, i : ~InQueue(<<>>, op, i) BY InFew
  <1>3. id.by \in Node BY DEF Ids
  <1>4. app[n].inst = {} /\ app[n].jobs = <<>> /\ app[n].prf = NoService
    <2>1. app[n] = [Fresh EXCEPT !.up = life[n] = 1, !.cbs = life[n] = 1]
      BY DEF Init
    <2>2. \A x, y : LET b == [Fresh EXCEPT !.up = x, !.cbs = y]
                    IN b.inst = {} /\ b.jobs = <<>> /\ b.prf = NoService
      BY DEF Fresh
    <2>3. QED BY <2>1, <2>2
  <1>5. ~Dying(n, id) BY <1>2, <1>4 DEF Dying
  <1>6. \A m \in Node : ~DeathTo(m, id) BY <1>1, <1>2 DEF DeathTo
  <1>7. \A s \in Stage : At(n, id, s) => s = 1
    <2>1. NoService[id.p] # id BY EntriesAssumption DEF NoService, Ids
    <2>2. ~ToLoad(app[n], id)
      <3>1. DOMAIN <<>> = {} OBVIOUS
      <3>2. QED BY <1>4, <3>1 DEF ToLoad
    <2>3. QED BY <1>1, <1>2, <1>4, <2>1, <2>2 DEF At, Made
  <1>8. QED BY <1>3, <1>5, <1>6, <1>7 DEF Sent

-----------------------------------------------------------------------------
(* The theorems. *)

LEMMA InvInit ==
  ASSUME Init
  PROVE IInv
  BY TypeInit, WayInit, MatchInit, DeathInit DEF IInv

LEMMA InvStep ==
  ASSUME IInv, [Next]_vars
  PROVE IInv'
  <1>1. TypeOK' /\ ProcessInv' BY TypeStep DEF IInv
  <1>2. CASE Next
    <2>1. PICK n \in Node : Step(n) BY <1>2, StepKinds DEF IInv
    <2>2. ConnectionInv' BY <2>1, ConnStep DEF IInv
    <2>3. WayInv' BY <2>1, WayStep DEF IInv
    <2>4. MatchInv' BY <2>1, MatchStep DEF IInv
    <2>5. DeathInv' BY <2>1, DeathStep DEF IInv
    <2>6. QED BY <1>1, <2>2, <2>3, <2>4, <2>5 DEF IInv
  <1>3. CASE UNCHANGED vars
    <2>1. ConnectionInv' BY <1>3 DEF IInv, vars, ConnectionInv
    <2>2. \A n \in Node : WayAt(n)' BY <1>3, WayParts DEF IInv, vars, WayAt, At, Coming, Unborn, Made
    <2>3. WayInv' BY <2>2 DEF WayInv, WayAt
    <2>4. MatchInv' BY <1>3 DEF IInv, vars, MatchInv
    <2>5. DeathInv'
      BY <1>3 DEF IInv, vars, DeathInv, Dying, DeathTo, Somewhere, Sent, At, Coming, Unborn, Made
    <2>6. QED BY <1>1, <2>1, <2>3, <2>4, <2>5 DEF IInv
  <1>4. QED BY <1>2, <1>3

\* A death that is a job of the application is one of its registry as well.
LEMMA InvMatches ==
  ASSUME IInv
  PROVE RegistryMatchesApp
  <1> SUFFICES ASSUME NEW n \in Node, NEW id \in Ids,
                      [op |-> "died", id |-> id] \notin ToSet(app[n].jobs)
               PROVE id \in app[n].inst <=> id \in Expected(events[n], reg[n])
    BY DEF RegistryMatchesApp
  <1>1. app[n].jobs \in Seq(Jobs) /\ Matches(app[n], events[n], reg[n])
    BY TypeParts DEF IInv, MatchInv, ProcessesOK, Apps
  <1>2. ~InQueue(app[n].jobs, "died", id)
    <2> SUFFICES ASSUME NEW i \in DOMAIN app[n].jobs,
                        app[n].jobs[i].op = "died", app[n].jobs[i].id = id
                 PROVE FALSE
      BY DEF InQueue
    <2>1. PICK j \in Jobs : j = app[n].jobs[i] BY <1>1
    <2>2. j = [op |-> "died", id |-> id] BY <2>1 DEF Jobs
    <2>3. j \in ToSet(app[n].jobs) BY <2>1 DEF ToSet
    <2>4. QED BY <2>2, <2>3
  <1>3. QED BY <1>1, <1>2 DEF Matches

\* An instance made for the peer is on its way no more, and nobody's death is.
LEMMA InvOrphans ==
  ASSUME IInv
  PROVE NoOrphans
  <1> SUFFICES ASSUME Quiet, NEW n \in Node, NEW id \in app[n].inst,
                      id.by # n, id \notin missed[n]
               PROVE id \in app[id.by].inst
    BY DEF NoOrphans
  <1>1. id \in Ids /\ id.by \in Node
    BY TypeParts DEF IInv, ProcessesOK, Apps, Ids
  <1>2. \A m \in Node : events[m] = <<>> /\ net[m] = <<>> /\ app[m].jobs = <<>>
    BY DEF Quiet
  <1>3. \A op, i : ~InQueue(<<>>, op, i) BY InFew
  <1>4. Sent(n, id)
    <2>1. 9 \in Stage \ {1} BY DEF Stage
    <2>2. QED BY <2>1 DEF Sent, At, Made
  <1>5. id \in reg[id.by] BY <1>1, <1>2, <1>3, <1>4 DEF IInv, DeathInv, DeathTo, Dying
  <1>6. id \in Expected(events[id.by], reg[id.by])
    <2>1. DOMAIN <<>> = {} OBVIOUS
    <2>2. QED BY <1>1, <1>2, <1>5, <2>1 DEF Expected, Lasts
  <1>7. QED BY <1>1, <1>2, <1>3, <1>6 DEF IInv, MatchInv, Matches

\* TypeOK: what the mutexes and the single job thread of an application
\* guarantee.  A job that waits for PmpPim's answer holds a service that is
\* active and was made for an incoming profile, and the piuid it waits for is
\* still in mIncomingPrfMap (CService::incomingProfileRequest).
THEOREM TypeCorrect == Spec => []TypeOK
  <1>1. Init => TypeOK /\ ProcessInv BY TypeInit
  <1>2. TypeOK /\ ProcessInv /\ [Next]_vars => TypeOK' /\ ProcessInv' BY TypeStep
  <1>3. QED BY <1>1, <1>2, PTL DEF Spec

\* RegistryMatchesApp: whatever creations, deaths and crashes cross between an
\* application and its Profile Manager, the profiles PmpPim has registered for
\* it (ClientAppRegistry) are, once the queued events are handled, those whose
\* instances its CPIM holds, but for deaths the job thread has still to handle.
THEOREM RegistryMatches == Spec => []RegistryMatchesApp
  <1>1. Init => IInv BY InvInit
  <1>2. IInv /\ [Next]_vars => IInv' BY InvStep
  <1>3. IInv => RegistryMatchesApp BY InvMatches
  <1>4. QED BY <1>1, <1>2, <1>3, PTL DEF Spec

\* NoOrphans: when everything is handled, an instance made for a profile of the
\* peer has the peer's instance behind it: whatever deaths, crashes and lost
\* connections (ProfileDied, OnConnectionLost) the peer sends after or before
\* the creation reach the instance, except a death that comes before PmpPim
\* knows of the instance, which onProfileDied ignores.
THEOREM OrphansExplained == Spec => []NoOrphans
  <1>1. Init => IInv BY InvInit
  <1>2. IInv /\ [Next]_vars => IInv' BY InvStep
  <1>3. IInv => NoOrphans BY InvOrphans
  <1>4. QED BY <1>1, <1>2, <1>3, PTL DEF Spec
=============================================================================
