---------------------- MODULE SystemStateMachineProofs ----------------------
(***************************************************************************)
(* The state machine uses TriggerQueue as that module describes it, so     *)
(* that what is proved of the queue holds for the System Controller.  An   *)
(* authentication has one outcome, whatever the threads do.  And the       *)
(* bring-up keeps its order (StartupInv): a trigger is sent once, the state *)
(* waits for the process that the trigger starts, and the watchdog is told *)
(* of processes that were started only.                                    *)
(***************************************************************************)
EXTENDS SystemStateMachine, TriggerQueueProofs

Verdict == {"AUTHENTICATION_CANCELED", "AUTHENTICATION_ESTABLISHED"}

\* What a step of the state machine does to the queue.
LEMMA StepIsQueueStep ==
  ASSUME [SSMNext]_ssmVars
  PROVE [Next]_vars
  <1>1. CASE UNCHANGED ssmVars
    BY <1>1 DEF ssmVars, vars
  <1>2. ASSUME NEW t \in Thread, Send(t) \/ (SignalTrigger(t) /\ UNCHANGED own)
        PROVE Next
    BY <1>2 DEF Send, Next
  <1>3. ASSUME TriggerThread PROVE [Next]_vars
    <2>1. CASE Receive
      BY <2>1 DEF Receive, Next, HandlerStep
    <2>2. CASE LaunchComponent \/ ConnectComponent \/ ReportLaunch \/ SendRole
      BY <2>2 DEF LaunchComponent, ConnectComponent, ReportLaunch, SendRole
    <2>3. CASE SkipAuthentication \/ EndSkip \/ UnlockAuthentication
               \/ ConnectAuthentication
      BY <2>3 DEF SkipAuthentication, EndSkip, UnlockAuthentication,
                  ConnectAuthentication
    <2>4. CASE StartAuthentication \/ WatchAuthentication \/ UnlockProfiles \/ LinkUp
      BY <2>4 DEF StartAuthentication, WatchAuthentication, UnlockProfiles, LinkUp
    <2>5. CASE CancelAuthentication \/ IgnoreTrigger
      BY <2>5 DEF CancelAuthentication, IgnoreTrigger
    <2>6. QED BY <1>3, <2>1, <2>2, <2>3, <2>4, <2>5 DEF TriggerThread
  <1>4. ASSUME NEW c \in Component,
               OnConnection(c) \/ OnCounterConnected(c) \/ ConnectTooEarly(c) \/ Crash(c)
        PROVE [Next]_vars
    BY <1>4 DEF OnConnection, OnCounterConnected, ConnectTooEarly, Crash, Next
  <1>5. ASSUME \/ OnCounterDisconnected \/ ResetLostLink \/ LaunchedByPeer
               \/ \E event \in {"finishAuthentication", "cancelAuthentication"} :
                    OnVerdict(event)
               \/ OnAuthenticationError
               \/ WatchComponent \/ KillProcesses
        PROVE UNCHANGED vars
    BY <1>5 DEF OnCounterDisconnected, ResetLostLink, LaunchedByPeer, OnVerdict,
                OnAuthenticationError, WatchComponent, KillProcesses
  <1>6. ASSUME RestartByWatchdog \/ ReplaceProcess PROVE Next
    BY <1>6 DEF RestartByWatchdog, ReplaceProcess, Next
  <1>7. QED BY <1>1, <1>2, <1>3, <1>4, <1>5, <1>6 DEF SSMNext, Progress, Mishap

\* CSystemStateMachine and its IPC threads only do to TriggerQueue what
\* sendTrigger, receiveTrigger and an exit of the process do.
THEOREM UsesTriggerQueue == SSMSpec => Spec
  <1>1. SSMInit => Init
    BY DEF SSMInit
  <1>2. [SSMNext]_ssmVars => [Next]_vars
    BY StepIsQueueStep
  <1>3. QED BY <1>1, <1>2, PTL DEF SSMSpec, Spec

\* During startup the trigger thread never sleeps over a trigger whose sender is
\* done with it.
THEOREM StartupIsWoken == SSMSpec => []NoLostWakeup
  BY UsesTriggerQueue, NoWakeupIsLost, PTL
-----------------------------------------------------------------------------
\* What a thread has sent as a trigger or is about to send.
Said(t) == ToSet(triggers[t]) \cup {announce[t]}

\* A verdict ends in Idle, the state that heeds nothing, so that no second one
\* follows.
VerdictInv ==
  /\ triggers \in [Thread -> Seq(TriggerName)]
  /\ announce \in [Thread -> TriggerName \cup {None, Blocked}]
  /\ \A t \in Thread : Said(t) \cap Verdict # {} => mSystemState = "Idle"
  /\ \A t, u \in Thread : ~(/\ "AUTHENTICATION_CANCELED" \in Said(t)
                           /\ "AUTHENTICATION_ESTABLISHED" \in Said(u))

LEMMA MovesFacts ==
  ASSUME NEW m \in Moves
  PROVE /\ m.from # "Idle"
        /\ m.trigger \in Verdict => m.to = "Idle"
        /\ m.trigger \in TriggerName
        /\ m.trigger # None /\ m.trigger # Blocked
  <1>1. m.trigger \in TriggerName
    BY DEF TriggerName
  <1>2. QED BY <1>1 DEF Moves, Move, Verdict, None, Blocked

LEMMA ToSetAppend ==
  ASSUME NEW S, NEW s \in Seq(S), NEW e \in S
  PROVE ToSet(Append(s, e)) = ToSet(s) \cup {e}
  <1>1. DOMAIN Append(s, e) = (DOMAIN s) \cup {Len(s) + 1}
    OBVIOUS
  <1>2. \A i \in DOMAIN s : Append(s, e)[i] = s[i]
    OBVIOUS
  <1>3. Append(s, e)[Len(s) + 1] = e
    OBVIOUS
  <1>4. QED BY <1>1, <1>2, <1>3 DEF ToSet

\* An event that is heeded makes the only verdict, if it makes one.
LEMMA EventKeepsVerdict ==
  ASSUME VerdictInv, NEW t \in Thread, NEW event, Event(t, event),
         triggers' = triggers
  PROVE VerdictInv'
  <1>1. CASE Heeds(event) = {}
    BY <1>1 DEF Event, VerdictInv, Said
  <1>2. CASE Heeds(event) # {}
    <2>1. PICK m \in Heeds(event) :
            mSystemState' = m.to /\ announce' = [announce EXCEPT ![t] = m.trigger]
      BY <1>2 DEF Event
    <2>2. m \in Moves /\ mSystemState = m.from
      BY <2>1 DEF Heeds
    <2>3. \A u \in Thread : Said(u) \cap Verdict = {}
      BY <2>2, MovesFacts DEF VerdictInv
    <2>4. announce' \in [Thread -> TriggerName \cup {None, Blocked}]
      BY <2>1, <2>2, MovesFacts DEF VerdictInv
    <2>5. \A u \in Thread : announce'[u] = IF u = t THEN m.trigger ELSE announce[u]
      BY <2>1 DEF VerdictInv
    <2>6. \A u \in Thread : Said(u)' \subseteq Said(u) \cup {m.trigger}
      BY <2>5 DEF Said
    <2>7. \A u \in Thread : Said(u)' \cap Verdict # {} => mSystemState' = "Idle"
      BY <2>1, <2>2, <2>3, <2>6, MovesFacts
    <2>8. \A u, v \in Thread : ~(/\ "AUTHENTICATION_CANCELED" \in Said(u)'
                               /\ "AUTHENTICATION_ESTABLISHED" \in Said(v)')
      BY <2>3, <2>6 DEF Verdict
    <2>9. QED BY <2>4, <2>7, <2>8 DEF VerdictInv
  <1>3. QED BY <1>1, <1>2

\* A thread that enters doReset says nothing.
LEMMA BlockKeepsVerdict ==
  ASSUME VerdictInv, NEW t \in Thread, announce' = [announce EXCEPT ![t] = Blocked],
         UNCHANGED <<triggers, mSystemState>>
  PROVE VerdictInv'
  <1>1. \A u \in Thread : announce'[u] = IF u = t THEN Blocked ELSE announce[u]
    BY DEF VerdictInv
  <1>2. announce' \in [Thread -> TriggerName \cup {None, Blocked}]
    BY DEF VerdictInv
  <1>3. \A u \in Thread : Said(u)' \subseteq Said(u) \cup {Blocked}
    BY <1>1 DEF Said
  <1>4. Blocked \notin Verdict
    BY DEF Blocked, Verdict
  <1>5. QED BY <1>2, <1>3, <1>4 DEF VerdictInv, Verdict

\* A sent trigger was announced before.
LEMMA SendKeepsVerdict ==
  ASSUME VerdictInv, NEW t \in Thread, Send(t)
  PROVE VerdictInv'
  <1>1. /\ announce[t] \in TriggerName
        /\ triggers' = [triggers EXCEPT ![t] = Append(@, announce[t])]
        /\ announce' = [announce EXCEPT ![t] = None]
        /\ mSystemState' = mSystemState
    BY DEF Send, VerdictInv
  <1>2. triggers[t] \in Seq(TriggerName)
    BY DEF VerdictInv
  <1>3. ToSet(Append(triggers[t], announce[t])) = ToSet(triggers[t]) \cup {announce[t]}
    BY <1>1, <1>2, ToSetAppend
  <1>4. Append(triggers[t], announce[t]) \in Seq(TriggerName)
    BY <1>1, <1>2
  <1>5. triggers' \in [Thread -> Seq(TriggerName)]
    BY <1>1, <1>4 DEF VerdictInv
  <1>6. announce' \in [Thread -> TriggerName \cup {None, Blocked}]
    BY <1>1 DEF VerdictInv
  <1>7. \A u \in Thread :
          /\ triggers'[u] = IF u = t THEN Append(triggers[t], announce[t]) ELSE triggers[u]
          /\ announce'[u] = IF u = t THEN None ELSE announce[u]
    BY <1>1 DEF VerdictInv
  <1>8. \A u \in Thread : Said(u)' \subseteq Said(u) \cup {None}
    BY <1>3, <1>7 DEF Said
  <1>9. None \notin Verdict
    BY DEF None, Verdict
  <1>10. QED BY <1>1, <1>5, <1>6, <1>8, <1>9 DEF VerdictInv, Verdict

LEMMA OtherStepsKeepVerdict ==
  ASSUME VerdictInv, UNCHANGED <<triggers, announce, mSystemState>>
  PROVE VerdictInv'
  BY DEF VerdictInv, Said

LEMMA StepKeepsVerdict ==
  ASSUME VerdictInv, [SSMNext]_ssmVars
  PROVE VerdictInv'
  <1> DEFINE Same == UNCHANGED <<triggers, announce, mSystemState>>
  <1>1. Handler \in Thread /\ Component \subseteq Thread
    BY SenderAssumption DEF Thread
  <1>2. CASE UNCHANGED ssmVars
    BY <1>2, OtherStepsKeepVerdict DEF ssmVars, own
  <1>3. ASSUME NEW t \in Thread, Send(t) \/ (SignalTrigger(t) /\ UNCHANGED own)
        PROVE VerdictInv'
    BY <1>3, SendKeepsVerdict, OtherStepsKeepVerdict DEF own
  <1>4. ASSUME TriggerThread PROVE VerdictInv'
    <2>1. CASE SkipAuthentication
      BY <2>1, <1>1, EventKeepsVerdict DEF SkipAuthentication
    <2>2. CASE Receive \/ LaunchComponent \/ ConnectComponent \/ ReportLaunch
               \/ SendRole \/ EndSkip
      <3>1. Same
        BY <2>2 DEF Receive, LaunchComponent, ConnectComponent, ReportLaunch,
                    SendRole, EndSkip
      <3>2. QED BY <3>1, OtherStepsKeepVerdict
    <2>3. CASE UnlockAuthentication \/ ConnectAuthentication \/ StartAuthentication
               \/ WatchAuthentication
      <3>1. Same
        BY <2>3 DEF UnlockAuthentication, ConnectAuthentication, StartAuthentication,
                    WatchAuthentication
      <3>2. QED BY <3>1, OtherStepsKeepVerdict
    <2>4. CASE UnlockProfiles \/ LinkUp \/ CancelAuthentication \/ IgnoreTrigger
      <3>1. Same
        BY <2>4 DEF UnlockProfiles, LinkUp, CancelAuthentication, IgnoreTrigger
      <3>2. QED BY <3>1, OtherStepsKeepVerdict
    <2>5. QED BY <1>4, <2>1, <2>2, <2>3, <2>4 DEF TriggerThread
  <1>5. ASSUME NEW c \in Component, OnConnection(c) \/ OnCounterConnected(c)
        PROVE VerdictInv'
    <2>1. CASE OnConnection(c)
      BY <2>1, <1>1, EventKeepsVerdict DEF OnConnection
    <2>2. CASE OnCounterConnected(c)
      BY <2>2, <1>1, EventKeepsVerdict DEF OnCounterConnected
    <2>3. QED BY <1>5, <2>1, <2>2
  <1>6. ASSUME NEW event, OnVerdict(event) PROVE VerdictInv'
    <2>1. "authenticationApp" \in Thread
      BY <1>1 DEF Component
    <2>2. QED BY <1>6, <2>1, EventKeepsVerdict DEF OnVerdict
  <1>7. ASSUME ResetLostLink \/ OnAuthenticationError PROVE VerdictInv'
    <2>1. "authenticationApp" \in Thread /\ "connectivityAgent" \in Thread
      BY <1>1 DEF Component, Core
    <2>2. QED BY <1>7, <2>1, BlockKeepsVerdict DEF ResetLostLink, OnAuthenticationError
  <1>8. ASSUME NEW c \in Component, ConnectTooEarly(c) \/ Crash(c) PROVE VerdictInv'
    BY <1>8, OtherStepsKeepVerdict DEF ConnectTooEarly, Crash
  <1>9. ASSUME \/ OnCounterDisconnected \/ LaunchedByPeer \/ WatchComponent
               \/ RestartByWatchdog \/ KillProcesses \/ ReplaceProcess
        PROVE VerdictInv'
    <2>1. Same
      BY <1>9 DEF OnCounterDisconnected, LaunchedByPeer, WatchComponent,
                  RestartByWatchdog, KillProcesses, ReplaceProcess, own
    <2>2. QED BY <2>1, OtherStepsKeepVerdict
  <1>10. QED BY <1>2, <1>3, <1>4, <1>5, <1>6, <1>7, <1>8, <1>9
             DEF SSMNext, Progress, Mishap

-----------------------------------------------------------------------------
(* Startup goes through the states in their order.  A trigger that starts a  *)
(* process is sent once, in the state before that process, and the state     *)
(* machine stays there until the process has been started: the only event    *)
(* it heeds then is one of the process.                                      *)

Rank(state) ==
  CASE state = "Initial" -> 0
    [] state = "WatchdogReady" -> 1
    [] state = "ApplicationManagerReady" -> 2
    [] state = "ApplicationManagerInitDone" -> 3
    [] state = "PhysicalLayerReady" -> 4
    [] state = "PhysicalLayerHandshakeDone" -> 5
    [] state = "ChannelLayerReady" -> 6
    [] state = "ChannelLayerHandshakeDone" -> 7
    [] state = "ProfileManagerReady" -> 8
    [] state = "Authenticate" -> 9
    [] state = "Idle" -> 10

App == "authenticationApp"

\* What the watchdog is told.
Message == [op : {"add", "remove"}, component : Component]

\* The types of SSMTypeOK but for those of the queue and of what is sent.
OwnTypes ==
  /\ authOn \in BOOLEAN /\ roleSent \in BOOLEAN /\ linkIsUp \in BOOLEAN
  /\ mSystemGender \in 0..2
  /\ mSystemState \in State
  /\ handling \in {"new", "connect", "report", "sending", "connectApp", "start",
                   "watchApp", "linkUp", "resets", "done"}
  /\ listening \subseteq Component /\ watched \subseteq Component
  /\ process \in [Component -> {"off", "launched", "unconnected", "connected",
                               "ready", "dead"}]
  /\ unlocked \subseteq {"authentication", "all"}
  /\ peer \in {"away", "connected", "lost"}
  /\ reset \in {"no", "running", "killed"}
  /\ mailbox \in Seq(Message)
  /\ crashes \in 0..MaxCrashes

\* The queue holds every trigger once, and not the one the thread has taken.
QueueInv ==
  /\ \A t \in Thread : sent[t] = Len(triggers[t])
  /\ \A i \in DOMAIN mQueue : mQueue[i].n <= sent[mQueue[i].from]
  /\ \A i, j \in DOMAIN mQueue : mQueue[i] = mQueue[j] => i = j
  /\ received # <<>> =>
       /\ Last(received).n <= sent[Last(received).from]
       /\ \A i \in DOMAIN mQueue : mQueue[i] # Last(received)
  /\ at \in {"check", "update", "handle"} => received # <<>>
  /\ at \in {"wait", "pop"} => handling = "done"

\* The name of a trigger of the queue.
Name(trigger) == triggers[trigger.from][trigger.n]

Announced(x) == \E t \in Thread : announce[t] = x
Queued(x) == \E i \in DOMAIN mQueue : Name(mQueue[i]) = x
IsTaken(x) == at \in {"check", "update", "handle"} /\ handling = "new" /\ Current = x

\* The trigger x was decided on and startTriggerHandler has not looked at it.
Pending(x) == Announced(x) \/ Queued(x) \/ IsTaken(x)

\* Each trigger is sent once, and not before its state is reached.
OnceInv ==
  /\ \A t \in Thread : \A m \in Moves :
       m.trigger \in Said(t) => Rank(m.to) <= Rank(mSystemState)
  /\ \A t, u \in Thread : \A i \in DOMAIN triggers[t] : \A j \in DOMAIN triggers[u] :
       triggers[t][i] = triggers[u][j] => t = u /\ i = j
  /\ \A t, u \in Thread :
       announce[t] \in TriggerName =>
         /\ announce[t] \notin ToSet(triggers[u])
         /\ announce[t] = announce[u] => t = u

\* What a process has done tells the state: it is off in the state before it and
\* while its trigger is on the way, and connects in that state only.
Ordered(l) ==
  /\ Pending(l.on) => process[l.component] = "off"
  /\ process[l.component] = "off" => Rank(mSystemState) <= Rank(l.in)
  /\ process[l.component] # "off" => Rank(mSystemState) >= Rank(l.in)
  /\ process[l.component] = "launched" => mSystemState = l.in
  /\ l.component \in Core /\ process[l.component] = "connected"
       => Rank(mSystemState) = Rank(l.in) + 1
  /\ handling \in {"connect", "report"} /\ Current = l.on => process[l.component] # "off"

LaunchInv == \A l \in Launches : Ordered(l)

\* The authentication application runs only after its profile was unlocked, and
\* the state machine waits for it unless it was switched off.
AppInv ==
  /\ Pending("PROFILE_MANAGER_ESTABLISHED")
       => mSystemState = "Authenticate" /\ "authentication" \notin unlocked
  /\ "authentication" \in unlocked => authOn /\ Rank(mSystemState) >= 9
  /\ process[App] # "off" => "authentication" \in unlocked
  /\ process[App] = "launched" => mSystemState = "Authenticate"
  /\ handling \in {"connectApp", "start", "watchApp"}
       => "authentication" \in unlocked /\ "all" \notin unlocked
  /\ handling \in {"connectApp", "start"} =>
       IF process[App] = "off" THEN mSystemState = "Authenticate" ELSE mSystemGender = 2

\* What has been unlocked, and by which verdict.
UnlockInv ==
  /\ \A t \in Thread :
       "AUTHENTICATION_ESTABLISHED" \in Said(t) => "authentication" \in unlocked \/ ~authOn
  /\ "all" \in unlocked =>
       mSystemState = "Idle" /\ ("authentication" \in unlocked \/ ~authOn)

AddApp == [op |-> "add", component |-> App]
RemoveApp == [op |-> "remove", component |-> App]

\* The last word of the System Controller on the application is not to watch it.
AppForgotten ==
  \/ \E k \in DOMAIN mailbox :
       /\ mailbox[k] = RemoveApp
       /\ \A j \in DOMAIN mailbox : j > k => mailbox[j] # AddApp
  \/ App \notin watched /\ \A j \in DOMAIN mailbox : mailbox[j] # AddApp

Watches(c) ==
  \/ c \in watched
  \/ \E i \in DOMAIN mailbox : mailbox[i] = [op |-> "add", component |-> c]

\* A watched process was launched; one that is gone crashed, or the reset has
\* begun, or it is the application, which comes and goes.
WatchInv ==
  /\ \A c \in Core : /\ Watches(c) => process[c] # "off"
                     /\ process[c] = "dead" => crashes > 0 \/ reset = "killed"
  /\ Watches(App) => "authentication" \in unlocked
  /\ "all" \in unlocked => AppForgotten
  /\ process[App] = "dead" => crashes > 0 \/ reset = "killed" \/ mSystemState = "Authenticate"
  /\ process[App] = "off" /\ mSystemState = "Idle"
       => ~authOn \/ "all" \in unlocked \/ reset # "no"

\* The inductive invariant of the bring-up, over the types of the queue and
\* VerdictInv.
StartupInv ==
  OwnTypes /\ QueueInv /\ OnceInv /\ LaunchInv /\ AppInv /\ UnlockInv /\ WatchInv
  /\ OnlyCrashesRestart

-----------------------------------------------------------------------------
(* The moves and the launches.                                               *)

LEMMA RankFacts ==
  /\ \A s \in State : Rank(s) \in 0..10
  /\ \A s, u \in State : Rank(s) = Rank(u) => s = u
  /\ Rank("Authenticate") = 9 /\ Rank("Idle") = 10
  /\ "Authenticate" \in State /\ "Idle" \in State
  <1>1. State = {"Initial", "WatchdogReady", "ApplicationManagerReady",
                 "ApplicationManagerInitDone", "PhysicalLayerReady",
                 "PhysicalLayerHandshakeDone", "ChannelLayerReady",
                 "ChannelLayerHandshakeDone", "ProfileManagerReady", "Authenticate", "Idle"}
    BY DEF State, Moves, Move
  <1>2. \A s \in State : Rank(s) \in 0..10
    BY <1>1 DEF Rank
  <1>3. ASSUME NEW s \in State, NEW u \in State, Rank(s) = Rank(u)
        PROVE  s = u
    BY <1>1, <1>3 DEF Rank
  <1>4. QED BY <1>1, <1>2, <1>3 DEF Rank

LEMMA MoveFacts ==
  ASSUME NEW m \in Moves
  PROVE /\ m.from \in State /\ m.to \in State /\ Rank(m.to) = Rank(m.from) + 1
        /\ m.trigger \in TriggerName
        /\ m.trigger # None /\ m.trigger # Blocked /\ m.trigger # "INITIALIZED"
        /\ m.trigger = "PROFILE_MANAGER_ESTABLISHED" <=> m.to = "Authenticate"
        /\ m.trigger = "AUTHENTICATION_ESTABLISHED" => m.event = "finishAuthentication"
        /\ m.from = "Authenticate"
             <=> m.event \in {"finishAuthentication", "cancelAuthentication"}
  <1>1. m.from \in State /\ m.to \in State /\ m.trigger \in TriggerName
    BY DEF State, TriggerName
  <1>2. QED BY <1>1 DEF Moves, Move, Rank, None, Blocked

LEMMA OneMovePerTrigger ==
  ASSUME NEW m \in Moves, NEW k \in Moves, m.trigger = k.trigger
  PROVE m = k
  BY DEF Moves, Move

LEMMA LaunchFacts ==
  ASSUME NEW l \in Launches
  PROVE /\ l.in \in State /\ l.component \in Component /\ l.component # App
        /\ Rank(l.in) < 9
        /\ \/ l.on = "INITIALIZED" /\ Rank(l.in) = 0
           \/ \E m \in Moves : m.trigger = l.on /\ m.to = l.in
        /\ l.on # None /\ l.on # Blocked /\ l.on # "PROFILE_MANAGER_ESTABLISHED"
        /\ l.on \notin Verdict /\ l.on \notin Logged /\ l.on # "CHANNEL_SUPERVISOR_STARTED"
  <1>1. l.in \in State
    BY DEF Launches, State, Moves, Move
  <1>2. \/ l.on = "INITIALIZED" /\ Rank(l.in) = 0
        \/ \E m \in Moves : m.trigger = l.on /\ m.to = l.in
    BY DEF Launches, Moves, Move, Rank
  <1>3. QED
    BY <1>1, <1>2
       DEF Launches, Component, Core, App, Rank, None, Blocked, Verdict, Logged

LEMMA OneLaunch ==
  ASSUME NEW l \in Launches, NEW k \in Launches,
         l.on = k.on \/ l.component = k.component \/ l.in = k.in
  PROVE l = k
  BY DEF Launches

LEMMA LaunchOfCore ==
  ASSUME NEW c \in Core \cup {"watchdog"}
  PROVE \E l \in Launches : l.component = c
  BY DEF Launches, Core

\* The state before a process is left only when the process connects, the one
\* after it only when it reports its counterpart.
LEMMA LeavesLaunch ==
  ASSUME NEW l \in Launches, NEW m \in Moves
  PROVE /\ m.from = l.in <=> m.event = Available(l.component)
        /\ l.component \in Core =>
             (Rank(m.from) = Rank(l.in) + 1 <=> m.event = HandshakeDone(l.component))
  BY DEF Launches, Moves, Move, Available, HandshakeDone, Core, Rank

LEMMA LaunchIsHeeded ==
  ASSUME NEW l \in Launches
  PROVE \E m \in Moves : m.from = l.in /\ m.event = Available(l.component)
  BY DEF Launches, Moves, Move, Available

LEMMA AppIsNotHeeded ==
  ASSUME NEW m \in Moves
  PROVE m.event # Available(App)
  BY DEF Moves, Move, Available, App

LEMMA OneEventEach ==
  /\ \A c, d \in Component : Available(c) = Available(d) => c = d
  /\ \A c, d \in Core : HandshakeDone(c) = HandshakeDone(d) => c = d
  /\ \A c \in Component, d \in Core : Available(c) # HandshakeDone(d)
  /\ \A c \in Component : Available(c) \notin {"finishAuthentication", "cancelAuthentication"}
  /\ \A d \in Core : HandshakeDone(d) \notin {"finishAuthentication", "cancelAuthentication"}
  BY DEF Available, HandshakeDone, Component, Core

-----------------------------------------------------------------------------
(* The queue, and the triggers on their way through it.                      *)

Queues == <<mQueue, sent, received, triggers>>

\* Handling a trigger, and an exit, leave the queue alone.
LEMMA QueueKept ==
  ASSUME QueueInv, UNCHANGED Queues,
         UNCHANGED <<at, handling>> \/ (at = "handle" /\ at' = at) \/ at' = "exited"
  PROVE QueueInv'
  BY DEF QueueInv, Queues

LEMMA SendKeepsQueue ==
  ASSUME TypeOK, VerdictInv, QueueInv, NEW t \in Thread, Send(t)
  PROVE QueueInv'
  <1> DEFINE new == [from |-> t, n |-> sent[t] + 1]
  <1>1. /\ mQueue' = Append(mQueue, new) /\ sent' = [sent EXCEPT ![t] = @ + 1]
        /\ triggers' = [triggers EXCEPT ![t] = Append(@, announce[t])]
        /\ announce[t] \in TriggerName
        /\ UNCHANGED <<received, at, handling>>
    BY DEF Send, PushTrigger, Enqueued, VerdictInv
  <1>2. /\ mQueue \in Seq(Trigger) /\ sent \in [Thread -> Nat]
        /\ triggers \in [Thread -> Seq(TriggerName)]
        /\ received # <<>> => Last(received) \in Trigger
    BY DEF TypeOK, VerdictInv, Last
  <1>3. \A u \in Thread : sent[u] <= sent'[u] /\ sent'[u] \in Nat
    BY <1>1, <1>2
  <1>4. \A u \in Thread : sent'[u] = Len(triggers'[u])
    BY <1>1, <1>2 DEF QueueInv
  <1>5. \A e \in Trigger : e.n <= sent[e.from] => e.n <= sent'[e.from] /\ e # new
    <2> SUFFICES ASSUME NEW e \in Trigger, e.n <= sent[e.from]
                 PROVE  e.n <= sent'[e.from] /\ e # new
      OBVIOUS
    <2>1. e.from \in Thread /\ e.n \in Nat
      BY DEF Trigger
    <2>2. new.from = t /\ new.n = sent[t] + 1
      OBVIOUS
    <2>3. QED BY <1>2, <1>3, <2>1, <2>2
  <1>6. new.n <= sent'[new.from]
    BY <1>1, <1>2
  <1>7. /\ DOMAIN mQueue' = DOMAIN mQueue \cup {Len(mQueue) + 1}
        /\ \A i \in DOMAIN mQueue : mQueue'[i] = mQueue[i] /\ mQueue[i] \in Trigger
        /\ mQueue'[Len(mQueue) + 1] = new
    BY <1>1, <1>2
  <1> HIDE DEF new
  <1>8. \A i \in DOMAIN mQueue : mQueue[i].n <= sent[mQueue[i].from]
    BY DEF QueueInv
  <1>9. \A i \in DOMAIN mQueue' : mQueue'[i].n <= sent'[mQueue'[i].from]
    BY <1>5, <1>6, <1>7, <1>8
  <1>10. \A i, j \in DOMAIN mQueue' : mQueue'[i] = mQueue'[j] => i = j
    BY <1>5, <1>7, <1>8 DEF QueueInv
  <1>11. received' # <<>> =>
           /\ Last(received').n <= sent'[Last(received').from]
           /\ \A i \in DOMAIN mQueue' : mQueue'[i] # Last(received')
    BY <1>1, <1>2, <1>5, <1>7 DEF QueueInv
  <1>12. QED BY <1>1, <1>4, <1>9, <1>10, <1>11 DEF QueueInv

LEMMA ReceiveKeepsQueue ==
  ASSUME TypeOK, QueueInv, Receive
  PROVE QueueInv'
  <1>1. CASE ~PopTrigger
    BY <1>1 DEF Receive, Wake, CheckQueue, UpdateFlag, Handled, QueueInv
  <1>2. CASE PopTrigger /\ mQueue = <<>>
    BY <1>2 DEF Receive, PopTrigger, QueueInv, Wake, CheckQueue, UpdateFlag, Handled
  <1>3. CASE PopTrigger /\ mQueue # <<>>
    <2>1. /\ received' = Append(received, Head(mQueue)) /\ mQueue' = Tail(mQueue)
          /\ at' = "check" /\ UNCHANGED <<sent, triggers>>
      BY <1>3 DEF Receive, PopTrigger
    <2>2. mQueue \in Seq(Trigger) /\ received \in Seq(Trigger) /\ Head(mQueue) = mQueue[1]
      BY <1>3 DEF TypeOK
    <2>3. received' # <<>> /\ Last(received') = mQueue[1]
      BY <2>1, <2>2 DEF Last
    <2>4. /\ 1 \in DOMAIN mQueue
          /\ \A i \in DOMAIN Tail(mQueue) :
               /\ i + 1 \in DOMAIN mQueue /\ i + 1 # 1 /\ i \in Nat
               /\ Tail(mQueue)[i] = mQueue[i + 1]
      BY <1>3, <2>2
    <2>5. /\ \A i \in DOMAIN mQueue : mQueue[i].n <= sent[mQueue[i].from]
          /\ \A i, j \in DOMAIN mQueue : mQueue[i] = mQueue[j] => i = j
      BY DEF QueueInv
    <2>6. \A i, j \in DOMAIN mQueue' : mQueue'[i] = mQueue'[j] => i = j
      <3> SUFFICES ASSUME NEW i \in DOMAIN mQueue', NEW j \in DOMAIN mQueue',
                          mQueue'[i] = mQueue'[j]
                   PROVE  i = j
        OBVIOUS
      <3>1. i + 1 = j + 1 /\ i \in Nat /\ j \in Nat
        BY <2>1, <2>4, <2>5
      <3>2. QED BY <3>1
    <2>7. \A i \in DOMAIN mQueue' : mQueue'[i] # Last(received')
      BY <2>1, <2>3, <2>4, <2>5
    <2>8. \A i \in DOMAIN mQueue' : mQueue'[i].n <= sent'[mQueue'[i].from]
      BY <2>1, <2>4, <2>5
    <2>9. Last(received').n <= sent'[Last(received').from]
      BY <2>1, <2>3, <2>4, <2>5
    <2>10. QED BY <2>1, <2>3, <2>6, <2>7, <2>8, <2>9 DEF QueueInv
  <1>4. QED BY <1>1, <1>2, <1>3

\* What handling a trigger, and an exit, do to what is pending: the trigger that
\* has been looked at is not.
LEMMA PendingKept ==
  ASSUME UNCHANGED Queues, UNCHANGED announce,
         \/ UNCHANGED <<at, handling>>
         \/ at = "handle" /\ at' = at /\ handling' # "new"
         \/ at' = "exited"
  PROVE \A x : Pending(x)' => Pending(x)
  BY DEF Pending, Announced, Queued, IsTaken, Name, Current, Queues

\* A trigger's name stands for one trigger, which is in one place.
LEMMA TakenOnce ==
  ASSUME TypeOK, VerdictInv, QueueInv, OnceInv, NEW x \in TriggerName, IsTaken(x)
  PROVE ~Announced(x) /\ ~Queued(x)
  <1> DEFINE last == Last(received)
  <1>1. last \in Trigger /\ last.n <= sent[last.from] /\ x = triggers[last.from][last.n]
    BY DEF IsTaken, Current, QueueInv, TypeOK, Last
  <1>2. \A e \in Trigger : e.n <= sent[e.from] =>
          e.from \in Thread /\ e.n \in DOMAIN triggers[e.from]
    BY DEF Trigger, QueueInv, TypeOK, VerdictInv
  <1>3. \A e \in Trigger : e = [from |-> e.from, n |-> e.n]
    BY DEF Trigger
  <1>4. \A i \in DOMAIN mQueue :
          mQueue[i] \in Trigger /\ mQueue[i].n <= sent[mQueue[i].from] /\ mQueue[i] # last
    BY DEF QueueInv, TypeOK, IsTaken
  <1> HIDE DEF last
  <1>5. ~Queued(x)
    <2> SUFFICES ASSUME NEW i \in DOMAIN mQueue, Name(mQueue[i]) = x
                 PROVE  FALSE
      BY DEF Queued
    <2>1. mQueue[i].from = last.from /\ mQueue[i].n = last.n
      BY <1>1, <1>2, <1>4 DEF OnceInv, Name
    <2>2. QED BY <1>1, <1>3, <1>4, <2>1
  <1>6. ~Announced(x)
    <2> SUFFICES ASSUME NEW t \in Thread, announce[t] = x
                 PROVE  FALSE
      BY DEF Announced
    <2>1. x \notin ToSet(triggers[last.from])
      BY <1>1, <1>2 DEF OnceInv
    <2>2. QED BY <1>1, <1>2, <2>1 DEF ToSet
  <1>7. QED BY <1>5, <1>6

\* Sending makes the queue of what was announced.
LEMMA SendPending ==
  ASSUME TypeOK, VerdictInv, QueueInv, NEW t \in Thread, Send(t)
  PROVE \A x \in TriggerName : Pending(x)' => Pending(x)
  <1> DEFINE new == [from |-> t, n |-> sent[t] + 1]
  <1>1. /\ mQueue' = Append(mQueue, new)
        /\ triggers' = [triggers EXCEPT ![t] = Append(@, announce[t])]
        /\ announce' = [announce EXCEPT ![t] = None]
        /\ UNCHANGED <<received, at, handling>>
    BY DEF Send, PushTrigger, Enqueued
  <1>2. /\ mQueue \in Seq(Trigger) /\ received \in Seq(Trigger)
        /\ triggers \in [Thread -> Seq(TriggerName)]
        /\ announce \in [Thread -> TriggerName \cup {None, Blocked}]
    BY DEF TypeOK, VerdictInv
  <1>3. ASSUME NEW e \in Trigger, e.n <= sent[e.from]
        PROVE  triggers'[e.from][e.n] = Name(e)
    <2>1. e.from \in Thread /\ e.n \in Nat \ {0} /\ e.n <= Len(triggers[e.from])
      BY <1>3 DEF Trigger, QueueInv
    <2>2. CASE e.from = t
      <3>1. triggers'[t] = Append(triggers[t], announce[t])
        BY <1>1, <1>2
      <3>2. triggers[t] \in Seq(TriggerName) /\ e.n \in DOMAIN triggers[t]
        BY <1>2, <2>1, <2>2
      <3>3. Append(triggers[t], announce[t])[e.n] = triggers[t][e.n]
        BY <3>2
      <3>4. QED BY <2>2, <3>1, <3>3 DEF Name
    <2>3. CASE e.from # t
      BY <1>1, <1>2, <2>1, <2>3 DEF Name
    <2>4. QED BY <2>2, <2>3
  <1>4. triggers'[new.from][new.n] = announce[t]
    <2>1. triggers'[t] = Append(triggers[t], announce[t]) /\ triggers[t] \in Seq(TriggerName)
      BY <1>1, <1>2
    <2>2. sent[t] = Len(triggers[t])
      BY DEF QueueInv
    <2>3. new.from = t /\ new.n = Len(triggers[t]) + 1
      BY <2>2
    <2>4. QED BY <2>1, <2>3
  <1>5. /\ \A i \in DOMAIN mQueue' : i \in DOMAIN mQueue \/ i = Len(mQueue) + 1
        /\ \A i \in DOMAIN mQueue : mQueue'[i] = mQueue[i] /\ mQueue[i] \in Trigger
        /\ mQueue'[Len(mQueue) + 1] = new
    BY <1>1, <1>2
  <1> HIDE DEF new
  <1> SUFFICES ASSUME NEW x \in TriggerName, Pending(x)' PROVE Pending(x)
    OBVIOUS
  <1>6. x # None
    BY DEF TriggerName, Moves, Move, None
  <1>7. CASE Announced(x)'
    BY <1>1, <1>2, <1>6, <1>7 DEF Pending, Announced
  <1>8. CASE Queued(x)'
    <2>1. PICK i \in DOMAIN mQueue' : triggers'[mQueue'[i].from][mQueue'[i].n] = x
      BY <1>8 DEF Queued, Name
    <2>2. CASE i \in DOMAIN mQueue
      <3>1. mQueue[i] \in Trigger /\ mQueue[i].n <= sent[mQueue[i].from]
        BY <1>5, <2>2 DEF QueueInv
      <3>2. Name(mQueue[i]) = x
        BY <1>3, <1>5, <2>1, <2>2, <3>1
      <3>3. QED BY <2>2, <3>2 DEF Pending, Queued
    <2>3. CASE i = Len(mQueue) + 1
      BY <1>4, <1>5, <2>1, <2>3 DEF Pending, Announced
    <2>4. QED BY <1>5, <2>2, <2>3
  <1>9. CASE IsTaken(x)'
    <2>1. received # <<>> /\ at \in {"check", "update", "handle"} /\ handling = "new"
      BY <1>1, <1>9 DEF IsTaken, QueueInv
    <2>2. Last(received) \in Trigger /\ Last(received).n <= sent[Last(received).from]
      BY <1>2, <2>1 DEF QueueInv, Last
    <2>3. Current' = Current
      BY <1>1, <1>3, <2>2 DEF Current, Name
    <2>4. QED BY <1>9, <2>1, <2>3 DEF IsTaken, Pending
  <1>10. QED BY <1>7, <1>8, <1>9 DEF Pending

\* receiveTrigger takes a trigger out of the queue.
LEMMA ReceivePending ==
  ASSUME TypeOK, QueueInv, Receive
  PROVE \A x : Pending(x)' => Pending(x)
  <1> SUFFICES ASSUME NEW x, Pending(x)' PROVE Pending(x)
    OBVIOUS
  <1>1. UNCHANGED <<triggers, announce>>
    BY DEF Receive
  <1>2. CASE ~PopTrigger
    <2>1. UNCHANGED <<mQueue, received, handling>>
      BY <1>2 DEF Receive, Wake, CheckQueue, UpdateFlag, Handled
    <2>2. at' \in {"check", "update", "handle"} => at \in {"check", "update"}
      BY <1>2 DEF Receive, Wake, CheckQueue, UpdateFlag, Handled
    <2>3. QED BY <1>1, <2>1, <2>2 DEF Pending, Announced, Queued, IsTaken, Name, Current
  <1>3. CASE PopTrigger /\ mQueue = <<>>
    <2>1. UNCHANGED <<mQueue, received>> /\ at' = "aborted"
      BY <1>3 DEF PopTrigger
    <2>2. QED BY <1>1, <2>1 DEF Pending, Announced, Queued, IsTaken, Name
  <1>4. CASE PopTrigger /\ mQueue # <<>>
    <2>1. received' = Append(received, Head(mQueue)) /\ mQueue' = Tail(mQueue)
      BY <1>4 DEF PopTrigger
    <2>2. mQueue \in Seq(Trigger) /\ received \in Seq(Trigger) /\ Head(mQueue) = mQueue[1]
      BY <1>4 DEF TypeOK
    <2>3. Last(received') = mQueue[1] /\ 1 \in DOMAIN mQueue
      BY <1>4, <2>1, <2>2 DEF Last
    <2>4. \A i \in DOMAIN mQueue' : i + 1 \in DOMAIN mQueue /\ mQueue'[i] = mQueue[i + 1]
      BY <1>4, <2>1, <2>2
    <2>5. CASE Announced(x)'
      BY <1>1, <2>5 DEF Pending, Announced
    <2>6. CASE Queued(x)'
      BY <1>1, <2>4, <2>6 DEF Pending, Queued, Name
    <2>7. CASE IsTaken(x)'
      BY <1>1, <2>3, <2>7 DEF IsTaken, Current, Pending, Queued, Name
    <2>8. QED BY <2>5, <2>6, <2>7 DEF Pending
  <1>5. QED BY <1>2, <1>3, <1>4

\* An event that is heeded announces its trigger.
LEMMA EventPending ==
  ASSUME VerdictInv, NEW t \in Thread, NEW event, Event(t, event), UNCHANGED Queues,
         UNCHANGED <<at, handling>> \/ (at = "handle" /\ at' = at /\ handling' # "new")
  PROVE \A x \in TriggerName :
          Pending(x)' => Pending(x) \/ \E m \in Heeds(event) : /\ m.trigger = x
                                                              /\ mSystemState' = m.to
  <1> SUFFICES ASSUME NEW x \in TriggerName, Pending(x)', ~Pending(x)
               PROVE  \E m \in Heeds(event) : m.trigger = x /\ mSystemState' = m.to
    OBVIOUS
  <1>1. ~Queued(x)' /\ ~IsTaken(x)'
    BY DEF Pending, Queued, IsTaken, Name, Current, Queues
  <1>2. PICK u \in Thread : announce'[u] = x
    BY <1>1 DEF Pending, Announced
  <1>3. announce[u] # x
    BY DEF Pending, Announced
  <1>4. CASE Heeds(event) = {}
    BY <1>2, <1>3, <1>4 DEF Event
  <1>5. CASE Heeds(event) # {}
    <2>1. PICK m \in Heeds(event) :
            mSystemState' = m.to /\ announce' = [announce EXCEPT ![t] = m.trigger]
      BY <1>5 DEF Event
    <2>2. announce'[u] = IF u = t THEN m.trigger ELSE announce[u]
      BY <2>1 DEF VerdictInv
    <2>3. QED BY <1>2, <1>3, <2>1, <2>2
  <1>6. QED BY <1>4, <1>5

\* A thread that enters doReset announces nothing more.
LEMMA BlockPending ==
  ASSUME VerdictInv, NEW t \in Thread, announce' = [announce EXCEPT ![t] = Blocked],
         UNCHANGED Queues, UNCHANGED <<at, handling>>
  PROVE \A x \in TriggerName : Pending(x)' => Pending(x)
  <1>1. \A x \in TriggerName : x # Blocked
    BY DEF TriggerName, Moves, Move, Blocked
  <1>2. \A x \in TriggerName : Announced(x)' => Announced(x)
    BY <1>1 DEF Announced, VerdictInv
  <1>3. QED
    BY <1>2 DEF Pending, Queued, IsTaken, Name, Current, Queues

-----------------------------------------------------------------------------
(* Every trigger is sent once.                                               *)

LEMMA OthersKeepOnce ==
  ASSUME OnceInv, UNCHANGED <<triggers, announce, mSystemState>>
  PROVE OnceInv'
  BY DEF OnceInv, Said

LEMMA BlockKeepsOnce ==
  ASSUME VerdictInv, OnceInv, NEW t \in Thread, announce' = [announce EXCEPT ![t] = Blocked],
         UNCHANGED <<triggers, mSystemState>>
  PROVE OnceInv'
  <1>1. Blocked \notin TriggerName /\ \A m \in Moves : m.trigger # Blocked
    BY MoveFacts DEF TriggerName, Moves, Move, Blocked
  <1>2. \A u \in Thread : announce'[u] = IF u = t THEN Blocked ELSE announce[u]
    BY DEF VerdictInv
  <1>3. QED BY <1>1, <1>2 DEF OnceInv, Said

LEMMA SendKeepsOnce ==
  ASSUME VerdictInv, OnceInv, NEW t \in Thread, Send(t)
  PROVE OnceInv'
  <1>1. /\ triggers' = [triggers EXCEPT ![t] = Append(@, announce[t])]
        /\ announce' = [announce EXCEPT ![t] = None]
        /\ announce[t] \in TriggerName /\ mSystemState' = mSystemState
    BY DEF Send, VerdictInv
  <1>2. /\ triggers \in [Thread -> Seq(TriggerName)]
        /\ announce \in [Thread -> TriggerName \cup {None, Blocked}]
    BY DEF VerdictInv
  <1>3. None \notin TriggerName /\ \A m \in Moves : m.trigger # None
    BY MoveFacts DEF TriggerName, Moves, Move, None
  <1>4. \A u \in Thread :
          /\ triggers'[u] = IF u = t THEN Append(triggers[t], announce[t]) ELSE triggers[u]
          /\ announce'[u] = IF u = t THEN None ELSE announce[u]
    BY <1>1, <1>2
  <1>5. \A u \in Thread : /\ ToSet(triggers'[u]) \subseteq ToSet(triggers[u]) \cup {announce[t]}
                          /\ u # t => triggers'[u] = triggers[u]
    BY <1>1, <1>2, <1>4, ToSetAppend
  <1>6. \A u \in Thread : Said(u)' \subseteq Said(u) \cup {None, announce[t]}
    BY <1>4, <1>5 DEF Said
  <1>7. \A u \in Thread : \A m \in Moves :
          m.trigger \in Said(u)' => Rank(m.to) <= Rank(mSystemState)'
    <2> SUFFICES ASSUME NEW u \in Thread, NEW m \in Moves, m.trigger \in Said(u)'
                 PROVE  Rank(m.to) <= Rank(mSystemState)'
      OBVIOUS
    <2>1. m.trigger \in Said(u) \/ m.trigger \in Said(t)
      BY <1>3, <1>6 DEF Said
    <2>2. QED BY <1>1, <2>1 DEF OnceInv
  <1>8. ASSUME NEW u \in Thread, NEW v \in Thread,
               NEW i \in DOMAIN triggers'[u], NEW j \in DOMAIN triggers'[v],
               triggers'[u][i] = triggers'[v][j]
        PROVE  u = v /\ i = j
    <2> DEFINE end == Len(triggers[t]) + 1
    <2>1. \A w \in Thread : \A k \in DOMAIN triggers'[w] :
            \/ w = t /\ k = end /\ triggers'[w][k] = announce[t]
            \/ k \in DOMAIN triggers[w] /\ triggers'[w][k] = triggers[w][k]
      <3>1. triggers[t] \in Seq(TriggerName)
        BY <1>2
      <3>2. \A k \in DOMAIN Append(triggers[t], announce[t]) :
              \/ k = end /\ Append(triggers[t], announce[t])[k] = announce[t]
              \/ k \in DOMAIN triggers[t] /\ Append(triggers[t], announce[t])[k] = triggers[t][k]
        BY <3>1
      <3> HIDE DEF end
      <3>3. QED BY <1>4, <3>2
    <2>2. \A w \in Thread : \A k \in DOMAIN triggers[w] : triggers[w][k] # announce[t]
      BY <1>1 DEF OnceInv, ToSet
    <2> HIDE DEF end
    <2>3. QED BY <1>8, <2>1, <2>2 DEF OnceInv
  <1>9. \A u, v \in Thread :
          announce'[u] \in TriggerName =>
            /\ announce'[u] \notin ToSet(triggers'[v])
            /\ announce'[u] = announce'[v] => u = v
    <2> SUFFICES ASSUME NEW u \in Thread, NEW v \in Thread, announce'[u] \in TriggerName
                 PROVE  /\ announce'[u] \notin ToSet(triggers'[v])
                        /\ announce'[u] = announce'[v] => u = v
      OBVIOUS
    <2>1. u # t /\ announce'[u] = announce[u]
      BY <1>3, <1>4
    <2>2. announce[u] # announce[t] /\ announce[u] \notin ToSet(triggers[v])
      BY <2>1 DEF OnceInv
    <2>3. announce[u] = announce'[v] => u = v
      BY <1>3, <1>4, <2>1 DEF OnceInv
    <2>4. QED BY <1>5, <2>1, <2>2, <2>3
  <1>10. QED BY <1>7, <1>8, <1>9 DEF OnceInv

LEMMA EventKeepsOnce ==
  ASSUME VerdictInv, OwnTypes, OnceInv, NEW t \in Thread, NEW event, Event(t, event),
         triggers' = triggers
  PROVE OnceInv'
  <1>1. CASE Heeds(event) = {}
    BY <1>1, OthersKeepOnce DEF Event
  <1>2. CASE Heeds(event) # {}
    <2>1. PICK m \in Heeds(event) :
            mSystemState' = m.to /\ announce' = [announce EXCEPT ![t] = m.trigger]
      BY <1>2 DEF Event
    <2>2. m \in Moves /\ mSystemState = m.from
      BY <2>1 DEF Heeds
    <2>3. /\ Rank(mSystemState)' = Rank(m.to) /\ Rank(m.to) = Rank(mSystemState) + 1
          /\ Rank(mSystemState) \in Nat /\ m.trigger \in TriggerName
      BY <2>1, <2>2, MoveFacts, RankFacts
    <2>4. \A u \in Thread : announce'[u] = IF u = t THEN m.trigger ELSE announce[u]
      BY <2>1 DEF VerdictInv
    <2>5. \A u \in Thread : m.trigger \notin Said(u)
      BY <2>2, <2>3 DEF OnceInv
    <2>6. \A u \in Thread : Said(u)' \subseteq Said(u) \cup {m.trigger}
      BY <2>4 DEF Said
    <2>7. \A k \in Moves : Rank(k.to) \in Nat
      BY MoveFacts, RankFacts
    <2>8. \A u \in Thread : \A k \in Moves :
            k.trigger \in Said(u)' => Rank(k.to) <= Rank(mSystemState)'
      <3> SUFFICES ASSUME NEW u \in Thread, NEW k \in Moves, k.trigger \in Said(u)'
                   PROVE  Rank(k.to) <= Rank(mSystemState)'
        OBVIOUS
      <3>1. CASE k.trigger \in Said(u)
        BY <2>3, <2>7, <3>1 DEF OnceInv
      <3>2. CASE k.trigger = m.trigger
        BY <2>2, <2>3, <2>7, <3>2, OneMovePerTrigger
      <3>3. QED BY <2>6, <3>1, <3>2
    <2>9. \A u, v \in Thread :
            announce'[u] \in TriggerName =>
              /\ announce'[u] \notin ToSet(triggers'[v])
              /\ announce'[u] = announce'[v] => u = v
      BY <2>4, <2>5 DEF OnceInv, Said
    <2>10. QED BY <2>8, <2>9 DEF OnceInv
  <1>3. QED BY <1>1, <1>2

-----------------------------------------------------------------------------
(* The steps, as far as the queue and the triggers on their way see them.    *)

LEMMA Threads == Handler \in Thread /\ Component \subseteq Thread /\ App \in Thread
  BY SenderAssumption DEF Thread, Component, App

\* The actions of startTriggerHandler that only look at the state.
Handles ==
  \/ LaunchComponent \/ ConnectComponent \/ ReportLaunch \/ SendRole \/ EndSkip
  \/ UnlockAuthentication \/ ConnectAuthentication \/ StartAuthentication
  \/ WatchAuthentication \/ UnlockProfiles \/ LinkUp \/ CancelAuthentication
  \/ IgnoreTrigger

LEMMA HandlesFrame ==
  ASSUME Handles
  PROVE /\ UNCHANGED <<vars, triggers, announce, mSystemState, authOn, mSystemGender, peer,
                       watched, crashes>>
        /\ at = "handle" /\ handling' # "new"
  <1>1. CASE LaunchComponent \/ ConnectComponent \/ ReportLaunch \/ SendRole \/ EndSkip
    BY <1>1 DEF LaunchComponent, ConnectComponent, ReportLaunch, SendRole, EndSkip, InCase
  <1>2. CASE UnlockAuthentication \/ ConnectAuthentication \/ StartAuthentication
    BY <1>2 DEF UnlockAuthentication, ConnectAuthentication, StartAuthentication, InCase
  <1>3. CASE WatchAuthentication \/ UnlockProfiles \/ LinkUp
    BY <1>3 DEF WatchAuthentication, UnlockProfiles, LinkUp, InCase
  <1>4. CASE CancelAuthentication \/ IgnoreTrigger
    BY <1>4 DEF CancelAuthentication, IgnoreTrigger, InCase
  <1>5. QED BY <1>1, <1>2, <1>3, <1>4 DEF Handles

\* The other steps that leave the threads' triggers and the state alone.
Aside ==
  \/ \E t \in Thread : SignalTrigger(t) /\ UNCHANGED own
  \/ \E c \in Component : ConnectTooEarly(c) \/ Crash(c)
  \/ OnCounterDisconnected \/ LaunchedByPeer \/ WatchComponent \/ RestartByWatchdog
  \/ KillProcesses \/ ReplaceProcess
  \/ UNCHANGED ssmVars

LEMMA AsideFrame ==
  ASSUME Aside
  PROVE /\ UNCHANGED <<mQueue, sent, received, triggers, announce, mSystemState, handling,
                       authOn, mSystemGender, unlocked>>
        /\ at' = at \/ at' = "exited"
  <1>1. CASE UNCHANGED ssmVars
    BY <1>1 DEF ssmVars, vars, own
  <1>2. ASSUME NEW t \in Thread, SignalTrigger(t) /\ UNCHANGED own
        PROVE  /\ UNCHANGED <<mQueue, sent, received, triggers, announce, mSystemState,
                              handling, authOn, mSystemGender, unlocked>>
               /\ at' = at \/ at' = "exited"
    BY <1>2 DEF SignalTrigger, own
  <1>3. ASSUME NEW c \in Component, ConnectTooEarly(c) \/ Crash(c)
        PROVE  /\ UNCHANGED <<mQueue, sent, received, triggers, announce, mSystemState,
                              handling, authOn, mSystemGender, unlocked>>
               /\ at' = at \/ at' = "exited"
    BY <1>3 DEF ConnectTooEarly, Crash, Exit, vars
  <1>4. CASE OnCounterDisconnected \/ LaunchedByPeer \/ WatchComponent
    BY <1>4 DEF OnCounterDisconnected, LaunchedByPeer, WatchComponent, vars
  <1>5. CASE RestartByWatchdog \/ KillProcesses \/ ReplaceProcess
    BY <1>5 DEF RestartByWatchdog, KillProcesses, ReplaceProcess, Exit, vars, own
  <1>6. QED BY <1>1, <1>2, <1>3, <1>4, <1>5 DEF Aside

\* The steps that deliver an event.
Delivers(t, event) ==
  \/ SkipAuthentication /\ t = Handler /\ event = "finishAuthentication"
  \/ OnConnection(t) /\ t \in Component /\ event = Available(t)
  \/ OnCounterConnected(t) /\ t \in Core /\ event = HandshakeDone(t)
  \/ /\ OnVerdict(event) /\ t = App
     /\ event \in {"finishAuthentication", "cancelAuthentication"}

LEMMA DeliversFrame ==
  ASSUME NEW t, NEW event, Delivers(t, event)
  PROVE /\ t \in Thread /\ Event(t, event)
        /\ UNCHANGED <<vars, triggers, authOn, unlocked, reset, mailbox, watched, crashes>>
        /\ handling' = handling \/ (at = "handle" /\ handling' = "sending")
  <1>1. CASE SkipAuthentication /\ t = Handler /\ event = "finishAuthentication"
    BY <1>1, Threads DEF SkipAuthentication, InCase
  <1>2. CASE OnConnection(t) /\ t \in Component /\ event = Available(t)
    BY <1>2, Threads DEF OnConnection
  <1>3. CASE OnCounterConnected(t) /\ t \in Core /\ event = HandshakeDone(t)
    BY <1>3, Threads DEF OnCounterConnected, Component
  <1>4. CASE /\ OnVerdict(event) /\ t = App
             /\ event \in {"finishAuthentication", "cancelAuthentication"}
    BY <1>4, Threads DEF OnVerdict, App
  <1>5. QED BY <1>1, <1>2, <1>3, <1>4 DEF Delivers

\* A thread enters doReset.
Blocks(t) ==
  \/ ResetLostLink /\ t = "connectivityAgent"
  \/ OnAuthenticationError /\ t = App

LEMMA BlocksFrame ==
  ASSUME NEW t, Blocks(t)
  PROVE /\ t \in Thread /\ announce' = [announce EXCEPT ![t] = Blocked] /\ DoReset
        /\ UNCHANGED <<vars, triggers, mSystemState, handling, process, authOn,
                       mSystemGender, unlocked, mailbox, watched, crashes>>
  <1>1. t \in Thread
    BY Threads DEF Blocks, Component, Core
  <1>2. CASE ResetLostLink /\ t = "connectivityAgent"
    BY <1>1, <1>2 DEF ResetLostLink
  <1>3. CASE OnAuthenticationError /\ t = App
    BY <1>1, <1>3 DEF OnAuthenticationError, App
  <1>4. QED BY <1>2, <1>3 DEF Blocks

\* Every step is of one of these kinds.
LEMMA Kinds ==
  ASSUME [SSMNext]_ssmVars
  PROVE \/ \E t \in Thread : Send(t)
        \/ Receive
        \/ Handles
        \/ Aside
        \/ \E t, event : Delivers(t, event)
        \/ \E t : Blocks(t)
  <1>1. CASE UNCHANGED ssmVars
    BY <1>1 DEF Aside
  <1>2. CASE Progress
    <2>1. CASE TriggerThread
      BY <2>1 DEF TriggerThread, Handles, Delivers
    <2>2. CASE \E c \in Component : OnConnection(c) \/ OnCounterConnected(c)
      BY <2>2 DEF Delivers, OnCounterConnected
    <2>3. CASE \E event \in {"finishAuthentication", "cancelAuthentication"} : OnVerdict(event)
      BY <2>3 DEF Delivers
    <2>4. CASE ResetLostLink
      BY <2>4 DEF Blocks
    <2>5. QED BY <1>2, <2>1, <2>2, <2>3, <2>4 DEF Progress, Aside
  <1>3. CASE Mishap
    BY <1>3 DEF Mishap, Aside, Blocks
  <1>4. QED BY <1>1, <1>2, <1>3 DEF SSMNext

LEMMA StepKeepsQueue ==
  ASSUME TypeOK, VerdictInv, QueueInv, [SSMNext]_ssmVars
  PROVE QueueInv'
  <1>1. ASSUME NEW t \in Thread, Send(t) PROVE QueueInv'
    BY <1>1, SendKeepsQueue
  <1>2. CASE Handles
    BY <1>2, HandlesFrame, QueueKept DEF vars, Queues
  <1>3. CASE Aside
    BY <1>3, AsideFrame, QueueKept DEF Queues
  <1>4. ASSUME NEW t, NEW event, Delivers(t, event) PROVE QueueInv'
    BY <1>4, DeliversFrame, QueueKept DEF vars, Queues
  <1>5. ASSUME NEW t, Blocks(t) PROVE QueueInv'
    BY <1>5, BlocksFrame, QueueKept DEF vars, Queues
  <1>6. QED BY <1>1, <1>2, <1>3, <1>4, <1>5, Kinds, ReceiveKeepsQueue

LEMMA StepKeepsOnce ==
  ASSUME VerdictInv, OwnTypes, OnceInv, [SSMNext]_ssmVars
  PROVE OnceInv'
  <1>1. ASSUME NEW t \in Thread, Send(t) PROVE OnceInv'
    BY <1>1, SendKeepsOnce
  <1>2. CASE Receive \/ Handles \/ Aside
    BY <1>2, HandlesFrame, AsideFrame, OthersKeepOnce DEF Receive
  <1>3. ASSUME NEW t, NEW event, Delivers(t, event) PROVE OnceInv'
    BY <1>3, DeliversFrame, EventKeepsOnce
  <1>4. ASSUME NEW t, Blocks(t) PROVE OnceInv'
    BY <1>4, BlocksFrame, BlockKeepsOnce
  <1>5. QED BY <1>1, <1>2, <1>3, <1>4, Kinds

\* The step makes the move, whose trigger is now on the way.
Made(m) == mSystemState = m.from /\ mSystemState' = m.to

LEMMA DeliversPending ==
  ASSUME VerdictInv, NEW t, NEW event, Delivers(t, event)
  PROVE \A x \in TriggerName :
          Pending(x)' => Pending(x) \/ \E m \in Moves : m.trigger = x /\ Made(m)
  <1>1. /\ t \in Thread /\ Event(t, event) /\ UNCHANGED Queues
        /\ UNCHANGED <<at, handling>> \/ (at = "handle" /\ at' = at /\ handling' # "new")
    BY DeliversFrame DEF vars, Queues
  <1>2. QED BY <1>1, EventPending DEF Heeds, Made

LEMMA StepPending ==
  ASSUME TypeOK, VerdictInv, QueueInv, [SSMNext]_ssmVars
  PROVE \A x \in TriggerName :
          Pending(x)' => Pending(x) \/ \E m \in Moves : m.trigger = x /\ Made(m)
  <1> DEFINE Goal == \A x \in TriggerName :
                       Pending(x)' => Pending(x) \/ \E m \in Moves : m.trigger = x /\ Made(m)
  <1>1. ASSUME NEW t \in Thread, Send(t) PROVE Goal
    BY <1>1, SendPending
  <1>2. CASE Handles
    BY <1>2, HandlesFrame, PendingKept DEF vars, Queues
  <1>3. CASE Aside
    BY <1>3, AsideFrame, PendingKept DEF Queues
  <1>4. ASSUME NEW t, NEW event, Delivers(t, event) PROVE Goal
    BY <1>4, DeliversPending
  <1>5. ASSUME NEW t, Blocks(t) PROVE Goal
    BY <1>5, BlocksFrame, BlockPending DEF vars, Queues
  <1>6. CASE Receive
    BY <1>6, ReceivePending
  <1>7. QED BY <1>1, <1>2, <1>3, <1>4, <1>5, <1>6, Kinds

\* The trigger that has been looked at is no longer on the way.
LEMMA HandledIsGone ==
  ASSUME TypeOK, VerdictInv, QueueInv, OnceInv, InCase("new"), Current \in TriggerName,
         UNCHANGED Queues, handling' # "new",
         \A t \in Thread : announce'[t] = announce[t] \/ announce'[t] # Current
  PROVE ~Pending(Current)'
  <1>1. IsTaken(Current)
    BY DEF IsTaken, InCase
  <1>2. ~Announced(Current) /\ ~Queued(Current)
    BY <1>1, TakenOnce
  <1> DEFINE x == Current
  <1>3. Current' = x
    BY DEF Current, Queues
  <1>4. \A t \in Thread : announce[t] # x
    BY <1>2 DEF Announced
  <1>5. \A i \in DOMAIN mQueue : triggers[mQueue[i].from][mQueue[i].n] # x
    BY <1>2 DEF Queued, Name
  <1> HIDE DEF x
  <1>6. \A t \in Thread : announce'[t] # Current'
    BY <1>3, <1>4 DEF x
  <1>7. \A i \in DOMAIN mQueue' : triggers'[mQueue'[i].from][mQueue'[i].n] # Current'
    BY <1>3, <1>5 DEF Queues
  <1>8. QED BY <1>6, <1>7 DEF Pending, Announced, Queued, IsTaken, Name

\* A trigger on its way has been decided on.
LEMMA PendingIsSaid ==
  ASSUME TypeOK, QueueInv, VerdictInv, NEW x \in TriggerName, Pending(x)
  PROVE \E t \in Thread : x \in Said(t)
  <1>1. \A e \in Trigger : e.n <= sent[e.from] =>
          e.from \in Thread /\ Name(e) \in Said(e.from)
    <2> SUFFICES ASSUME NEW e \in Trigger, e.n <= sent[e.from]
                 PROVE  e.from \in Thread /\ Name(e) \in Said(e.from)
      OBVIOUS
    <2>1. e.from \in Thread /\ e.n \in Nat \ {0}
      BY DEF Trigger
    <2>2. e.n \in DOMAIN triggers[e.from]
      BY <2>1 DEF QueueInv, VerdictInv
    <2>3. QED BY <2>1, <2>2 DEF Name, Said, ToSet
  <1>2. CASE Announced(x)
    BY <1>2 DEF Announced, Said
  <1>3. CASE Queued(x)
    BY <1>1, <1>3 DEF Queued, QueueInv, TypeOK
  <1>4. CASE IsTaken(x)
    <2>1. received # <<>> /\ x = Name(Last(received))
      BY <1>4 DEF IsTaken, QueueInv, Current, Name
    <2>2. Last(received) \in Trigger /\ Last(received).n <= sent[Last(received).from]
      BY <2>1 DEF TypeOK, QueueInv, Last
    <2>3. QED BY <1>1, <2>1, <2>2
  <1>5. QED BY <1>2, <1>3, <1>4 DEF Pending

LEMMA TakenHasName ==
  ASSUME TypeOK, QueueInv, VerdictInv, at \in {"check", "update", "handle"}
  PROVE Current \in TriggerName
  <1>1. received # <<>> /\ Last(received).n <= sent[Last(received).from]
    BY DEF QueueInv
  <1>2. Last(received) \in Trigger
    BY <1>1 DEF TypeOK, Last
  <1>3. Last(received).from \in Thread /\ Last(received).n \in Nat \ {0}
    BY <1>2 DEF Trigger
  <1>4. /\ Last(received).n \in DOMAIN triggers[Last(received).from]
        /\ triggers[Last(received).from] \in Seq(TriggerName)
    BY <1>1, <1>3 DEF QueueInv, VerdictInv
  <1>5. QED BY <1>4 DEF Current

\* Until it is done, the trigger thread has the trigger in hand.
LEMMA SendCurrent ==
  ASSUME TypeOK, VerdictInv, QueueInv, at \in {"check", "update", "handle"},
         NEW t \in Thread, Send(t)
  PROVE Current' = Current
  <1>1. /\ triggers' = [triggers EXCEPT ![t] = Append(@, announce[t])]
        /\ received' = received
    BY DEF Send, PushTrigger
  <1> DEFINE last == Last(received)
  <1>2. received # <<>> /\ last.n <= sent[last.from]
    BY DEF QueueInv
  <1>3. last \in Trigger
    BY <1>2 DEF TypeOK, Last
  <1>4. last.from \in Thread /\ last.n \in Nat \ {0}
    BY <1>3 DEF Trigger
  <1>5. /\ last.n \in DOMAIN triggers[last.from]
        /\ triggers[last.from] \in Seq(TriggerName) /\ triggers[t] \in Seq(TriggerName)
    BY <1>2, <1>4 DEF QueueInv, VerdictInv
  <1>6. last.from = t => Append(triggers[t], announce[t])[last.n] = triggers[t][last.n]
    BY <1>5
  <1>7. triggers'[last.from] = IF last.from = t THEN Append(triggers[t], announce[t])
                                                ELSE triggers[last.from]
    BY <1>1, <1>4 DEF VerdictInv
  <1> HIDE DEF last
  <1>8. triggers'[last.from][last.n] = triggers[last.from][last.n]
    BY <1>6, <1>7
  <1>9. QED BY <1>1, <1>8 DEF Current, last

-----------------------------------------------------------------------------
(* Processes are launched in order.                                          *)

LEMMA LaunchTriggers ==
  ASSUME NEW l \in Launches
  PROVE l.on \in TriggerName
  BY LaunchFacts, MoveFacts DEF TriggerName

\* A trigger that starts a process finds the state that heeds it.
LEMMA LaunchFindsState ==
  ASSUME TypeOK, VerdictInv, OwnTypes, QueueInv, OnceInv, LaunchInv,
         NEW l \in Launches, Pending(l.on)
  PROVE mSystemState = l.in /\ process[l.component] = "off"
  <1>1. process[l.component] = "off" /\ Rank(mSystemState) <= Rank(l.in)
    BY DEF LaunchInv, Ordered
  <1>2. l.in \in State /\ mSystemState \in State
    BY LaunchFacts DEF OwnTypes
  <1>3. Rank(l.in) \in 0..10 /\ Rank(mSystemState) \in 0..10
    BY <1>2, RankFacts
  <1>4. Rank(l.in) <= Rank(mSystemState)
    <2>1. CASE Rank(l.in) = 0
      BY <1>3, <2>1
    <2>2. CASE \E m \in Moves : m.trigger = l.on /\ m.to = l.in
      <3>1. \E t \in Thread : l.on \in Said(t)
        BY PendingIsSaid, LaunchTriggers
      <3>2. QED BY <2>2, <3>1 DEF OnceInv
    <2>3. QED BY <2>1, <2>2, LaunchFacts
  <1>5. Rank(l.in) = Rank(mSystemState)
    BY <1>1, <1>3, <1>4
  <1>6. QED BY <1>1, <1>2, <1>5, RankFacts

\* What happens to a process that was launched, other than a connection.
Goes(l) ==
  \/ process'[l.component] = process[l.component]
  \/ /\ process[l.component] # "off"
     /\ process'[l.component] \notin {"off", "launched", "connected"}

SameTrigger ==
  handling' \in {"connect", "report"} =>
    handling \in {"connect", "report"} /\ Current' = Current

LEMMA OrderKept ==
  ASSUME NEW l \in Launches, Ordered(l), Goes(l), SameTrigger, mSystemState' = mSystemState,
         Pending(l.on)' => Pending(l.on)
  PROVE Ordered(l)'
  BY DEF Ordered, Goes, SameTrigger

\* A move between other states than those of the process.
LEMMA OrderMoved ==
  ASSUME OwnTypes, NEW l \in Launches, Ordered(l), NEW m \in Moves, Made(m),
         process'[l.component] = process[l.component], SameTrigger,
         Pending(l.on)' => Pending(l.on) \/ \E k \in Moves : k.trigger = l.on /\ Made(k),
         m.event # Available(l.component),
         l.component \in Core => m.event # HandshakeDone(l.component)
  PROVE Ordered(l)'
  <1>1. /\ Rank(mSystemState)' = Rank(mSystemState) + 1
        /\ Rank(mSystemState) \in 0..10 /\ Rank(l.in) \in 0..10 /\ l.in \in State
        /\ mSystemState = m.from /\ mSystemState \in State
    BY MoveFacts, LaunchFacts, RankFacts DEF Made
  <1>2. /\ Rank(mSystemState) # Rank(l.in)
        /\ mSystemState # l.in
        /\ l.component \in Core => Rank(mSystemState) # Rank(l.in) + 1
    BY <1>1, LeavesLaunch, RankFacts
  <1>3. Pending(l.on)' => process[l.component] = "off"
    <2>1. CASE Pending(l.on)
      BY <2>1 DEF Ordered
    <2>2. ASSUME NEW k \in Moves, k.trigger = l.on, Made(k), process[l.component] # "off"
          PROVE  FALSE
      <3>1. Rank(l.in) = Rank(mSystemState) + 1
        <4>1. k.trigger # "INITIALIZED"
          BY MoveFacts
        <4>2. PICK j \in Moves : j.trigger = l.on /\ j.to = l.in
          BY <2>2, <4>1, LaunchFacts
        <4>3. j = k
          BY <2>2, <4>2, OneMovePerTrigger
        <4>4. QED BY <1>1, <2>2, <4>2, <4>3 DEF Made
      <3>2. Rank(mSystemState) >= Rank(l.in)
        BY <2>2 DEF Ordered
      <3>3. QED BY <1>1, <3>1, <3>2
    <2>3. QED BY <2>1, <2>2
  <1>4. process[l.component] = "off" => Rank(mSystemState)' <= Rank(l.in)
    BY <1>1, <1>2 DEF Ordered
  <1>5. process[l.component] # "off" => Rank(mSystemState)' >= Rank(l.in)
    BY <1>1 DEF Ordered
  <1>6. process[l.component] # "launched"
    BY <1>2 DEF Ordered
  <1>7. ~(l.component \in Core /\ process[l.component] = "connected")
    BY <1>2 DEF Ordered
  <1>8. handling' \in {"connect", "report"} /\ Current' = l.on => process[l.component] # "off"
    BY DEF Ordered, SameTrigger
  <1>9. QED BY <1>3, <1>4, <1>5, <1>6, <1>7, <1>8 DEF Ordered

\* A process of the stack moves the state by what it does.
LEMMA OrderAdvanced ==
  ASSUME OwnTypes, NEW l \in Launches, Ordered(l), NEW m \in Moves, Made(m),
         \/ /\ process[l.component] = "launched" /\ process'[l.component] = "connected"
            /\ m.event = Available(l.component)
         \/ /\ l.component \in Core
            /\ process[l.component] = "connected" /\ process'[l.component] = "ready"
            /\ m.event = HandshakeDone(l.component),
         Pending(l.on)' => Pending(l.on) \/ \E k \in Moves : k.trigger = l.on /\ Made(k)
  PROVE Ordered(l)'
  <1>1. /\ Rank(mSystemState)' = Rank(mSystemState) + 1
        /\ Rank(mSystemState) \in 0..10 /\ Rank(l.in) \in 0..10
        /\ mSystemState = m.from
    BY MoveFacts, LaunchFacts, RankFacts DEF Made
  <1>2. process[l.component] # "off" /\ process'[l.component] # "off"
    OBVIOUS
  <1>3. Rank(mSystemState) >= Rank(l.in)
    BY <1>2 DEF Ordered
  <1>4. ~Pending(l.on)'
    <2>1. ~Pending(l.on)
      BY <1>2 DEF Ordered
    <2>2. ASSUME NEW k \in Moves, k.trigger = l.on, Made(k)
          PROVE  FALSE
      <3>1. k.trigger # "INITIALIZED"
        BY MoveFacts
      <3>2. PICK j \in Moves : j.trigger = l.on /\ j.to = l.in
        BY <2>2, <3>1, LaunchFacts
      <3>3. j = k
        BY <2>2, <3>2, OneMovePerTrigger
      <3>4. Rank(l.in) = Rank(mSystemState) + 1
        BY <1>1, <2>2, <3>2, <3>3 DEF Made
      <3>5. QED BY <1>1, <1>3, <3>4
    <2>3. QED BY <2>1, <2>2
  <1>5. process'[l.component] = "connected" => Rank(mSystemState)' = Rank(l.in) + 1
    BY <1>1, LeavesLaunch
  <1>6. QED BY <1>1, <1>2, <1>3, <1>4, <1>5 DEF Ordered

LEMMA HandlesKeepOrder ==
  ASSUME TypeOK, VerdictInv, OwnTypes, QueueInv, OnceInv, LaunchInv, Handles,
         NEW l \in Launches, Pending(l.on)' => Pending(l.on)
  PROVE Ordered(l)'
  <1> USE DEF LaunchInv
  <1>1. mSystemState' = mSystemState /\ Current' = Current /\ l.component # App
        /\ UNCHANGED Queues /\ announce' = announce
    BY HandlesFrame, LaunchFacts DEF vars, Current, Queues
  <1>2. CASE LaunchComponent
    <2>1. PICK k \in Launches :
            /\ k.on = Current
            /\ IF k.in = mSystemState
               THEN /\ process' = [process EXCEPT ![k.component] = "launched"]
                    /\ handling' = "connect"
               ELSE handling' = "report" /\ UNCHANGED process
      BY <1>2 DEF LaunchComponent
    <2>2. InCase("new")
      BY <1>2 DEF LaunchComponent
    <2>3. Pending(k.on)
      BY <2>1, <2>2 DEF InCase, Pending, IsTaken
    <2>4. mSystemState = k.in /\ process[k.component] = "off"
      BY <2>3, LaunchFindsState
    <2>5. process' = [process EXCEPT ![k.component] = "launched"]
      BY <2>1, <2>4
    <2>6. process \in [Component -> {"off", "launched", "unconnected", "connected",
                                    "ready", "dead"}]
          /\ k.component \in Component /\ l.component \in Component
      BY LaunchFacts DEF OwnTypes
    <2>7. CASE l = k
      <3>1. process'[l.component] = "launched"
        BY <2>5, <2>6, <2>7
      <3>2. ~Pending(Current)'
        BY <1>1, <2>1, <2>2, HandledIsGone, LaunchTriggers
      <3>3. ~Pending(l.on)'
        BY <1>1, <2>1, <2>7, <3>2 DEF Pending, Announced, Queued, IsTaken
      <3>4. Rank(mSystemState)' = Rank(l.in) /\ Rank(l.in) \in 0..10
        BY <1>1, <2>4, <2>7, RankFacts, LaunchFacts
      <3>5. QED BY <1>1, <2>4, <2>7, <3>1, <3>3, <3>4 DEF Ordered
    <2>8. CASE l # k
      <3>1. l.component # k.component /\ l.on # k.on
        BY <2>8, OneLaunch
      <3>2. process'[l.component] = process[l.component]
        BY <2>5, <2>6, <3>1
      <3>3. Current' # l.on
        BY <1>1, <2>1, <3>1
      <3>4. QED BY <1>1, <3>2, <3>3 DEF Ordered
    <2>9. QED BY <2>7, <2>8
  <1>3. CASE ConnectComponent
    <2>1. process' = process /\ handling = "connect"
      BY <1>3 DEF ConnectComponent, InCase
    <2>2. QED BY <1>1, <2>1, OrderKept DEF Goes, SameTrigger
  <1>4. CASE ~LaunchComponent /\ ~ConnectComponent
    <2>1. handling' \notin {"connect", "report"}
      <3>1. CASE ReportLaunch \/ SendRole \/ EndSkip \/ UnlockAuthentication
        BY <3>1 DEF ReportLaunch, SendRole, EndSkip, UnlockAuthentication
      <3>2. CASE ConnectAuthentication \/ StartAuthentication \/ WatchAuthentication
        BY <3>2 DEF ConnectAuthentication, StartAuthentication, WatchAuthentication
      <3>3. CASE UnlockProfiles \/ LinkUp \/ CancelAuthentication \/ IgnoreTrigger
        BY <3>3 DEF UnlockProfiles, LinkUp, CancelAuthentication, IgnoreTrigger
      <3>4. QED BY <1>4, <3>1, <3>2, <3>3 DEF Handles
    <2>2. process'[l.component] = process[l.component]
      <3> l.component \in DOMAIN process /\ l.component # "authenticationApp"
        BY LaunchFacts DEF OwnTypes, App
      <3>1. CASE ReportLaunch \/ SendRole \/ EndSkip \/ UnlockAuthentication
        BY <3>1 DEF ReportLaunch, SendRole, EndSkip, UnlockAuthentication
      <3>2. CASE ConnectAuthentication \/ StartAuthentication \/ WatchAuthentication
        BY <3>2 DEF ConnectAuthentication, StartAuthentication, WatchAuthentication
      <3>3. CASE UnlockProfiles \/ LinkUp \/ CancelAuthentication \/ IgnoreTrigger
        BY <3>3 DEF UnlockProfiles, LinkUp, CancelAuthentication, IgnoreTrigger, ShutDownApp
      <3>4. QED BY <1>4, <3>1, <3>2, <3>3 DEF Handles
    <2>3. QED BY <1>1, <2>1, <2>2, OrderKept DEF Goes, SameTrigger
  <1>5. QED BY <1>2, <1>3, <1>4

\* A process that crashes, is killed or does not find the System Controller.
LEMMA AsideGoes ==
  ASSUME OwnTypes, Aside, NEW l \in Launches
  PROVE Goes(l)
  <1>1. l.component \in Component /\ l.component # App
        /\ process \in [Component -> {"off", "launched", "unconnected", "connected",
                                     "ready", "dead"}]
    BY LaunchFacts DEF OwnTypes
  <1>2. ASSUME NEW c \in Component, ConnectTooEarly(c) PROVE Goes(l)
    BY <1>1, <1>2 DEF ConnectTooEarly, Goes
  <1>3. ASSUME NEW c \in Component, Crash(c) PROVE Goes(l)
    BY <1>1, <1>3 DEF Crash, Goes
  <1>4. CASE LaunchedByPeer
    BY <1>1, <1>4 DEF LaunchedByPeer, Goes, App
  <1>5. CASE KillProcesses
    BY <1>1, <1>5 DEF KillProcesses, Goes
  <1>6. CASE \/ \E t \in Thread : SignalTrigger(t) /\ UNCHANGED own
             \/ OnCounterDisconnected \/ WatchComponent \/ RestartByWatchdog
             \/ ReplaceProcess \/ UNCHANGED ssmVars
    BY <1>6 DEF own, OnCounterDisconnected, WatchComponent, RestartByWatchdog,
                ReplaceProcess, ssmVars, Goes
  <1>7. QED BY <1>2, <1>3, <1>4, <1>5, <1>6 DEF Aside

LEMMA DeliversKeepOrder ==
  ASSUME VerdictInv, OwnTypes, LaunchInv, NEW t, NEW event, Delivers(t, event),
         NEW l \in Launches
  PROVE Ordered(l)'
  <1> USE DEF LaunchInv
  <1>1. /\ Event(t, event) /\ SameTrigger
        /\ l.component \in Component /\ l.component # App
        /\ process \in [Component -> {"off", "launched", "unconnected", "connected",
                                     "ready", "dead"}]
    BY DeliversFrame, LaunchFacts DEF OwnTypes, SameTrigger, Current, vars
  <1>2. Pending(l.on)' => Pending(l.on) \/ \E k \in Moves : k.trigger = l.on /\ Made(k)
    BY DeliversPending, LaunchTriggers
  <1>3. Heeds(event) = {} \/ \E m \in Heeds(event) : Made(m)
    BY <1>1 DEF Event, Heeds, Made
  <1>4. CASE Heeds(event) = {}
    <2>1. mSystemState' = mSystemState /\ (Pending(l.on)' => Pending(l.on))
      <3>1. mSystemState' = mSystemState
        BY <1>1, <1>4 DEF Event
      <3>2. \A k \in Moves : ~Made(k)
        BY <3>1, MoveFacts, RankFacts DEF Made
      <3>3. QED BY <1>2, <3>1, <3>2
    <2>2. Goes(l)
      <3>1. CASE OnConnection(t) /\ t \in Component /\ event = Available(t)
        <4>1. t # l.component
          <5> SUFFICES ASSUME t = l.component PROVE FALSE
            OBVIOUS
          <5>1. mSystemState = l.in
            BY <3>1 DEF OnConnection, Ordered
          <5>2. QED BY <1>4, <3>1, <5>1, LaunchIsHeeded DEF Heeds
        <4>2. QED BY <1>1, <3>1, <4>1 DEF OnConnection, Goes
      <3>2. CASE OnCounterConnected(t) /\ t \in Core /\ event = HandshakeDone(t)
        BY <1>1, <3>2 DEF OnCounterConnected, Goes
      <3>3. CASE SkipAuthentication \/ OnVerdict(event)
        BY <3>3 DEF SkipAuthentication, OnVerdict, Goes
      <3>4. QED BY <3>1, <3>2, <3>3 DEF Delivers
    <2>3. QED BY <1>1, <2>1, <2>2, OrderKept
  <1>5. ASSUME NEW m \in Heeds(event), Made(m) PROVE Ordered(l)'
    <2>1. m \in Moves /\ m.event = event
      BY <1>5 DEF Heeds
    <2>2. CASE OnConnection(t) /\ t \in Component /\ event = Available(t)
      <3>1. CASE t = l.component
        <4>1. process[l.component] = "launched" /\ process'[l.component] = "connected"
          BY <1>1, <2>2, <3>1 DEF OnConnection
        <4>2. QED BY <1>2, <1>5, <2>1, <2>2, <3>1, <4>1, OrderAdvanced
      <3>2. CASE t # l.component
        <4>1. process'[l.component] = process[l.component]
          BY <1>1, <2>2, <3>2 DEF OnConnection
        <4>2. m.event # Available(l.component)
              /\ (l.component \in Core => m.event # HandshakeDone(l.component))
          BY <1>1, <2>1, <2>2, <3>2, OneEventEach
        <4>3. QED BY <1>1, <1>2, <1>5, <2>1, <4>1, <4>2, OrderMoved
      <3>3. QED BY <3>1, <3>2
    <2>3. CASE OnCounterConnected(t) /\ t \in Core /\ event = HandshakeDone(t)
      <3>1. CASE t = l.component
        <4>1. process[l.component] = "connected" /\ process'[l.component] = "ready"
          BY <1>1, <2>3, <3>1 DEF OnCounterConnected
        <4>2. QED BY <1>2, <1>5, <2>1, <2>3, <3>1, <4>1, OrderAdvanced
      <3>2. CASE t # l.component
        <4>1. process'[l.component] = process[l.component]
          BY <1>1, <2>3, <3>2 DEF OnCounterConnected
        <4>2. m.event # Available(l.component)
              /\ (l.component \in Core => m.event # HandshakeDone(l.component))
          BY <1>1, <2>1, <2>3, <3>2, OneEventEach
        <4>3. QED BY <1>1, <1>2, <1>5, <2>1, <4>1, <4>2, OrderMoved
      <3>3. QED BY <3>1, <3>2
    <2>4. CASE /\ SkipAuthentication \/ OnVerdict(event)
               /\ event \in {"finishAuthentication", "cancelAuthentication"}
      <3>1. process' = process
        BY <2>4 DEF SkipAuthentication, OnVerdict
      <3>2. m.event # Available(l.component)
            /\ (l.component \in Core => m.event # HandshakeDone(l.component))
        BY <1>1, <2>1, <2>4, OneEventEach
      <3>3. QED BY <1>1, <1>2, <1>5, <2>1, <3>1, <3>2, OrderMoved
    <2>5. QED BY <2>2, <2>3, <2>4 DEF Delivers
  <1>6. QED BY <1>3, <1>4, <1>5

LEMMA StepKeepsLaunch ==
  ASSUME TypeOK, VerdictInv, OwnTypes, QueueInv, OnceInv, LaunchInv, [SSMNext]_ssmVars
  PROVE LaunchInv'
  <1> SUFFICES ASSUME NEW l \in Launches PROVE Ordered(l)'
    BY DEF LaunchInv
  <1>1. Ordered(l) /\ l.on \in TriggerName
    BY LaunchTriggers DEF LaunchInv
  <1>2. mSystemState' = mSystemState => (Pending(l.on)' => Pending(l.on))
    <2>1. mSystemState' = mSystemState => \A k \in Moves : ~Made(k)
      BY MoveFacts, RankFacts DEF Made
    <2>2. QED BY <1>1, <2>1, StepPending
  <1>3. ASSUME NEW t \in Thread, Send(t) PROVE Ordered(l)'
    <2>1. UNCHANGED <<mSystemState, process, handling>> /\ ~Stopped
      BY <1>3 DEF Send, PushTrigger
    <2>2. handling \in {"connect", "report"} => at \in {"check", "update", "handle"}
      BY <2>1 DEF QueueInv, TypeOK, Stopped
    <2>3. SameTrigger
      BY <1>3, <2>1, <2>2, SendCurrent DEF SameTrigger
    <2>4. QED BY <1>1, <1>2, <2>1, <2>3, OrderKept DEF Goes
  <1>4. CASE Receive
    <2>1. UNCHANGED <<mSystemState, process, triggers>>
          /\ (handling' = "new" \/ UNCHANGED <<handling, received>>)
      BY <1>4 DEF Receive, Wake, CheckQueue, UpdateFlag, Handled
    <2>2. SameTrigger
      BY <2>1 DEF SameTrigger, Current
    <2>3. QED BY <1>1, <1>2, <2>1, <2>2, OrderKept DEF Goes
  <1>5. CASE Handles
    BY <1>2, <1>5, HandlesFrame, HandlesKeepOrder
  <1>6. CASE Aside
    <2>1. SameTrigger
      BY <1>6, AsideFrame DEF SameTrigger, Current
    <2>2. QED BY <1>1, <1>2, <1>6, <2>1, AsideFrame, AsideGoes, OrderKept
  <1>7. ASSUME NEW t, NEW event, Delivers(t, event) PROVE Ordered(l)'
    BY <1>7, DeliversKeepOrder
  <1>8. ASSUME NEW t, Blocks(t) PROVE Ordered(l)'
    <2>1. UNCHANGED <<mSystemState, process, handling, received, triggers>>
      BY <1>8, BlocksFrame DEF vars
    <2>2. QED BY <1>1, <1>2, <2>1, OrderKept DEF Goes, SameTrigger, Current
  <1>9. QED BY <1>3, <1>4, <1>5, <1>6, <1>7, <1>8, Kinds

-----------------------------------------------------------------------------
(* Types.                                                                    *)

LEMMA HandlesKeepTypes ==
  ASSUME OwnTypes, Handles
  PROVE OwnTypes'
  <1>1. CASE LaunchComponent
    BY <1>1, LaunchFacts DEF LaunchComponent, OwnTypes
  <1>2. CASE ConnectComponent
    BY <1>2, LaunchFacts DEF ConnectComponent, OwnTypes
  <1>3. CASE ReportLaunch
    <2>1. PICK l \in Launches :
            IF l.component = "watchdog" THEN UNCHANGED mailbox ELSE Tells("add", l.component)
      BY <1>3 DEF ReportLaunch
    <2>2. [op |-> "add", component |-> l.component]
            \in Message
      BY LaunchFacts DEF Message
    <2>3. mailbox' \in Seq(Message)
      BY <2>1, <2>2 DEF Tells, OwnTypes
    <2>4. QED BY <1>3, <2>3 DEF ReportLaunch, OwnTypes
  <1>4. CASE WatchAuthentication
    <2>1. [op |-> "add", component |-> "authenticationApp"]
            \in Message
      BY DEF Component, Message
    <2>2. mailbox' \in Seq(Message)
      BY <1>4, <2>1 DEF WatchAuthentication, Tells, OwnTypes
    <2>3. QED BY <1>4, <2>2 DEF WatchAuthentication, OwnTypes
  <1>5. CASE UnlockProfiles
    <2>1. [op |-> "remove", component |-> "authenticationApp"]
            \in Message
      BY DEF Component, Message
    <2>2. mailbox' \in Seq(Message)
      BY <1>5, <2>1 DEF UnlockProfiles, Tells, OwnTypes
    <2>3. process' \in [Component -> {"off", "launched", "unconnected", "connected",
                                     "ready", "dead"}]
      BY <1>5 DEF UnlockProfiles, ShutDownApp, OwnTypes
    <2>4. QED BY <1>5, <2>2, <2>3 DEF UnlockProfiles, OwnTypes
  <1>6. CASE SendRole \/ EndSkip \/ UnlockAuthentication \/ LinkUp \/ IgnoreTrigger
    BY <1>6 DEF SendRole, EndSkip, UnlockAuthentication, LinkUp, IgnoreTrigger, OwnTypes
  <1>7. CASE ConnectAuthentication
    BY <1>7 DEF ConnectAuthentication, OwnTypes, Component
  <1>8. CASE StartAuthentication
    BY <1>8 DEF StartAuthentication, OwnTypes
  <1>9. CASE CancelAuthentication
    BY <1>9 DEF CancelAuthentication, ShutDownApp, DoReset, OwnTypes
  <1>10. QED
    BY <1>1, <1>2, <1>3, <1>4, <1>5, <1>6, <1>7, <1>8, <1>9 DEF Handles

LEMMA WatchKeepsTypes ==
  ASSUME OwnTypes, WatchComponent
  PROVE OwnTypes'
  <1>1. mailbox # <<>> /\ mailbox' = Tail(mailbox)
    BY DEF WatchComponent
  <1>2. /\ Head(mailbox) \in Message
        /\ mailbox' \in Seq(Message)
    BY <1>1 DEF OwnTypes
  <1>3. watched' \subseteq Component
    BY <1>2 DEF WatchComponent, OwnTypes, Message
  <1>4. QED BY <1>2, <1>3 DEF WatchComponent, OwnTypes

LEMMA AsideKeepsTypes ==
  ASSUME OwnTypes, Aside
  PROVE OwnTypes'
  <1>1. ASSUME NEW c \in Component, ConnectTooEarly(c) PROVE OwnTypes'
    BY <1>1 DEF ConnectTooEarly, OwnTypes
  <1>2. ASSUME NEW c \in Component, Crash(c) PROVE OwnTypes'
    BY <1>2, MaxCrashesAssumption DEF Crash, OwnTypes
  <1>3. CASE LaunchedByPeer
    BY <1>3 DEF LaunchedByPeer, OwnTypes
  <1>4. CASE OnCounterDisconnected \/ KillProcesses
    BY <1>4 DEF OnCounterDisconnected, KillProcesses, OwnTypes
  <1>5. CASE \/ \E t \in Thread : SignalTrigger(t) /\ UNCHANGED own
             \/ RestartByWatchdog \/ ReplaceProcess \/ UNCHANGED ssmVars
    BY <1>5 DEF own, RestartByWatchdog, ReplaceProcess, ssmVars, OwnTypes
  <1>6. QED BY <1>1, <1>2, <1>3, <1>4, <1>5, WatchKeepsTypes DEF Aside

LEMMA DeliversKeepsTypes ==
  ASSUME OwnTypes, NEW t, NEW event, Delivers(t, event)
  PROVE OwnTypes'
  <1>1. mSystemState' \in State
    <2>1. Event(t, event)
      BY DeliversFrame
    <2>2. QED BY <2>1, MoveFacts DEF Event, Heeds, OwnTypes
  <1>2. CASE SkipAuthentication
    BY <1>1, <1>2 DEF SkipAuthentication, OwnTypes
  <1>3. CASE OnConnection(t)
    BY <1>1, <1>3 DEF OnConnection, OwnTypes
  <1>4. CASE OnCounterConnected(t)
    <2>1. mSystemGender' \in 0..2 /\ peer' \in {"away", "connected", "lost"}
      BY <1>4 DEF OnCounterConnected, OwnTypes
    <2>2. process' \in [Component -> {"off", "launched", "unconnected", "connected",
                                     "ready", "dead"}]
      BY <1>4 DEF OnCounterConnected, OwnTypes
    <2>3. QED BY <1>1, <1>4, <2>1, <2>2 DEF OnCounterConnected, OwnTypes
  <1>5. CASE OnVerdict(event)
    BY <1>1, <1>5 DEF OnVerdict, OwnTypes
  <1>6. QED BY <1>2, <1>3, <1>4, <1>5 DEF Delivers

LEMMA StepKeepsTypes ==
  ASSUME OwnTypes, [SSMNext]_ssmVars
  PROVE OwnTypes'
  <1>1. ASSUME NEW t \in Thread, Send(t) PROVE OwnTypes'
    BY <1>1 DEF Send, OwnTypes
  <1>2. CASE Receive
    BY <1>2 DEF Receive, OwnTypes
  <1>3. ASSUME NEW t, Blocks(t) PROVE OwnTypes'
    <2>1. CASE ResetLostLink
      BY <2>1 DEF ResetLostLink, DoReset, OwnTypes
    <2>2. CASE OnAuthenticationError
      BY <2>2 DEF OnAuthenticationError, DoReset, OwnTypes
    <2>3. QED BY <1>3, <2>1, <2>2 DEF Blocks
  <1>4. QED
    BY <1>1, <1>2, <1>3, Kinds, HandlesKeepTypes, AsideKeepsTypes, DeliversKeepsTypes

-----------------------------------------------------------------------------
(* What the threads say, and when the state is left.                         *)

LEMMA SendSays ==
  ASSUME VerdictInv, NEW t \in Thread, Send(t), NEW u \in Thread
  PROVE Said(u)' \subseteq Said(u) \cup {None, announce[t]}
  <1>1. /\ triggers' = [triggers EXCEPT ![t] = Append(@, announce[t])]
        /\ announce' = [announce EXCEPT ![t] = None]
        /\ announce[t] \in TriggerName
    BY DEF Send, VerdictInv
  <1>2. /\ triggers'[u] = IF u = t THEN Append(triggers[t], announce[t]) ELSE triggers[u]
        /\ announce'[u] = IF u = t THEN None ELSE announce[u]
    BY <1>1 DEF VerdictInv
  <1>3. ToSet(Append(triggers[t], announce[t])) = ToSet(triggers[t]) \cup {announce[t]}
    BY <1>1, ToSetAppend DEF VerdictInv
  <1>4. QED BY <1>2, <1>3 DEF Said

\* A verdict is new only when the step has made its move.
LEMMA StepSays ==
  ASSUME VerdictInv, [SSMNext]_ssmVars, NEW u \in Thread, NEW x \in Verdict, x \in Said(u)'
  PROVE (\E t \in Thread : x \in Said(t)) \/ \E m \in Moves : m.trigger = x /\ Made(m)
  <1>1. x # None /\ x # Blocked
    BY DEF Verdict, None, Blocked
  <1>2. ASSUME NEW t \in Thread, Send(t) PROVE x \in Said(u) \/ x \in Said(t)
    BY <1>1, <1>2, SendSays DEF Said
  <1>3. CASE Receive \/ Handles \/ Aside
    BY <1>3, HandlesFrame, AsideFrame DEF Receive, Said
  <1>4. ASSUME NEW t, Blocks(t) PROVE x \in Said(u)
    BY <1>1, <1>4, BlocksFrame DEF Said, VerdictInv
  <1>5. ASSUME NEW t, NEW event, Delivers(t, event), x \notin Said(u)
        PROVE  \E m \in Moves : m.trigger = x /\ Made(m)
    <2>1. t \in Thread /\ Event(t, event) /\ triggers' = triggers
      BY <1>5, DeliversFrame
    <2>2. announce' # announce
      BY <1>5, <2>1 DEF Said
    <2>3. PICK m \in Heeds(event) :
            mSystemState' = m.to /\ announce' = [announce EXCEPT ![t] = m.trigger]
      BY <2>1, <2>2 DEF Event
    <2>4. announce'[u] = m.trigger \/ announce'[u] = announce[u]
      BY <2>1, <2>3 DEF VerdictInv
    <2>5. QED BY <1>5, <2>1, <2>3, <2>4 DEF Said, Heeds, Made
  <1>6. QED BY <1>2, <1>3, <1>4, <1>5, Kinds

\* The state changes by a move, and Authenticate is left by a verdict.
LEMMA StateMoves ==
  ASSUME OwnTypes, [SSMNext]_ssmVars, mSystemState' # mSystemState
  PROVE /\ \E m \in Moves : Made(m)
        /\ Rank(mSystemState)' = Rank(mSystemState) + 1
        /\ mSystemState = "Authenticate" =>
             /\ UNCHANGED <<process, mSystemGender>>
             /\ \/ process[App] = "connected"
                \/ InCase("new") /\ Current = "PROFILE_MANAGER_ESTABLISHED" /\ ~authOn
  <1>1. PICK t, event : Delivers(t, event)
    BY Kinds, HandlesFrame, AsideFrame, BlocksFrame DEF Send, Receive
  <1>2. Event(t, event)
    BY <1>1, DeliversFrame
  <1>3. PICK m \in Heeds(event) : mSystemState' = m.to
    BY <1>2 DEF Event
  <1>4. m \in Moves /\ m.event = event /\ Made(m)
    BY <1>3 DEF Heeds, Made
  <1>5. Rank(mSystemState)' = Rank(mSystemState) + 1
    BY <1>4, MoveFacts DEF Made
  <1>6. ASSUME mSystemState = "Authenticate"
        PROVE  /\ UNCHANGED <<process, mSystemGender>>
               /\ \/ process[App] = "connected"
                  \/ InCase("new") /\ Current = "PROFILE_MANAGER_ESTABLISHED" /\ ~authOn
    <2>1. event \in {"finishAuthentication", "cancelAuthentication"}
      BY <1>4, <1>6, MoveFacts DEF Made
    <2>2. SkipAuthentication \/ OnVerdict(event)
      BY <1>1, <2>1, OneEventEach DEF Delivers
    <2>3. QED BY <2>2 DEF SkipAuthentication, OnVerdict, App
  <1>7. QED BY <1>4, <1>5, <1>6

-----------------------------------------------------------------------------
(* The authentication application.                                           *)

PME == "PROFILE_MANAGER_ESTABLISHED"

\* The cases of startTriggerHandler about the application are in their order.
SameCase ==
  /\ handling' \in {"connectApp", "start", "watchApp"} =>
       handling \in {"connectApp", "start", "watchApp"}
  /\ handling' \in {"connectApp", "start"} => handling \in {"connectApp", "start"}

LEMMA AppKept ==
  ASSUME AppInv, UNCHANGED <<mSystemState, unlocked, authOn, mSystemGender>>, SameCase,
         Pending(PME)' => Pending(PME),
         \/ process'[App] = process[App]
         \/ /\ process[App] # "off" /\ process'[App] # "launched"
            /\ process'[App] = "off" => handling' \notin {"connectApp", "start"}
  PROVE AppInv'
  BY DEF AppInv, SameCase, PME

LEMMA HandlesKeepApp ==
  ASSUME TypeOK, VerdictInv, OwnTypes, QueueInv, OnceInv, AppInv, UnlockInv, Handles,
         Pending(PME)' => Pending(PME)
  PROVE AppInv'
  <1>1. /\ UNCHANGED <<mSystemState, authOn, mSystemGender, announce>>
        /\ UNCHANGED Queues /\ at = "handle"
    BY HandlesFrame DEF vars, Queues
  <1>2. process \in [Component -> {"off", "launched", "unconnected", "connected",
                                  "ready", "dead"}]
        /\ App \in Component /\ App = "authenticationApp"
    BY DEF OwnTypes, App, Component
  <1>3. CASE UnlockAuthentication
    <2>1. /\ InCase("new") /\ Current = PME /\ authOn
          /\ unlocked' = unlocked \cup {"authentication"}
          /\ handling' = IF mSystemState = "Authenticate" THEN "connectApp" ELSE "watchApp"
          /\ process' = process
      BY <1>3 DEF UnlockAuthentication, PME
    <2>2. Pending(PME)
      BY <2>1 DEF Pending, IsTaken, InCase
    <2>3. mSystemState = "Authenticate" /\ "authentication" \notin unlocked
      BY <2>2 DEF AppInv, PME
    <2>4. process[App] = "off" /\ "all" \notin unlocked
      BY <2>3 DEF AppInv, UnlockInv
    <2>5. Current' = PME
      BY <1>1, <2>1 DEF Current, Queues
    <2>6. ~Pending(PME)'
      <3>1. ~Pending(Current)'
        BY <1>1, <2>1, <2>3, HandledIsGone, TakenHasName
      <3>2. QED BY <2>5, <3>1
    <2>7. Rank(mSystemState)' = 9
      BY <1>1, <2>3, RankFacts
    <2>8. QED BY <1>1, <2>1, <2>3, <2>4, <2>6, <2>7 DEF AppInv, PME
  <1>4. CASE StartAuthentication
    <2>1. /\ handling = "start" /\ handling' = "watchApp" /\ unlocked' = unlocked
          /\ process'[App] = IF mSystemGender = 1 THEN "launched" ELSE process[App]
      BY <1>2, <1>4 DEF StartAuthentication, InCase
    <2>2. "authentication" \in unlocked /\ "all" \notin unlocked
      BY <2>1 DEF AppInv
    <2>3. mSystemGender = 1 => mSystemState = "Authenticate"
      BY <2>1 DEF AppInv
    <2>4. QED BY <1>1, <2>1, <2>2, <2>3 DEF AppInv, PME
  <1>5. CASE UnlockProfiles
    <2>1. /\ unlocked' = unlocked \cup {"all"} /\ handling' = "linkUp"
          /\ process'[App] = process[App] \/ (process[App] # "off" /\ process'[App] = "off")
      BY <1>2, <1>5 DEF UnlockProfiles, ShutDownApp
    <2>2. QED BY <1>1, <2>1 DEF AppInv, PME
  <1>6. CASE CancelAuthentication
    <2>1. /\ unlocked' = unlocked /\ handling' = "resets"
          /\ process'[App] = process[App] \/ (process[App] # "off" /\ process'[App] = "off")
      BY <1>2, <1>6 DEF CancelAuthentication, ShutDownApp
    <2>2. QED BY <1>1, <2>1, AppKept DEF SameCase
  <1>7. CASE LaunchComponent
    <2>1. unlocked' = unlocked /\ handling' \in {"connect", "report"}
      BY <1>7 DEF LaunchComponent
    <2>2. process'[App] = process[App]
      <3>1. PICK l \in Launches : process' \in {process, [process EXCEPT ![l.component] = "launched"]}
        BY <1>7 DEF LaunchComponent
      <3>2. QED BY <1>2, <3>1, LaunchFacts
    <2>3. QED BY <1>1, <2>1, <2>2, AppKept DEF SameCase
  <1>8. CASE ConnectComponent \/ ReportLaunch \/ SendRole \/ EndSkip
    <2>1. unlocked' = unlocked /\ process' = process /\ handling' \in {"report", "done"}
      BY <1>8 DEF ConnectComponent, ReportLaunch, SendRole, EndSkip
    <2>2. QED BY <1>1, <2>1, AppKept DEF SameCase
  <1>9. CASE ConnectAuthentication \/ WatchAuthentication \/ LinkUp \/ IgnoreTrigger
    <2>1. /\ unlocked' = unlocked /\ process' = process
          /\ handling' = "done" \/ (handling = "connectApp" /\ handling' = "start")
      BY <1>9 DEF ConnectAuthentication, WatchAuthentication, LinkUp, IgnoreTrigger, InCase
    <2>2. QED BY <1>1, <2>1, AppKept DEF SameCase
  <1>10. QED
    BY <1>3, <1>4, <1>5, <1>6, <1>7, <1>8, <1>9 DEF Handles

LEMMA AsideKeepsApp ==
  ASSUME OwnTypes, AppInv, Aside, Pending(PME)' => Pending(PME)
  PROVE AppInv'
  <1>1. UNCHANGED <<mSystemState, unlocked, authOn, mSystemGender>> /\ SameCase
    BY AsideFrame DEF SameCase
  <1>2. process \in [Component -> {"off", "launched", "unconnected", "connected",
                                  "ready", "dead"}]
        /\ App \in Component /\ App = "authenticationApp"
    BY DEF OwnTypes, App, Component
  <1>3. CASE LaunchedByPeer
    <2>1. /\ "authentication" \in unlocked /\ mSystemGender = 2 /\ mSystemState = "Authenticate"
          /\ process'[App] = "launched"
      BY <1>2, <1>3 DEF LaunchedByPeer
    <2>2. QED BY <1>1, <2>1 DEF AppInv, SameCase, PME
  <1>4. CASE ~LaunchedByPeer
    <2>1. \/ process'[App] = process[App]
          \/ process[App] # "off" /\ process'[App] \in {"unconnected", "dead"}
      <3>1. ASSUME NEW c \in Component, ConnectTooEarly(c) \/ Crash(c)
            PROVE  \/ process'[App] = process[App]
                   \/ process[App] # "off" /\ process'[App] \in {"unconnected", "dead"}
        BY <1>2, <3>1 DEF ConnectTooEarly, Crash
      <3>2. CASE KillProcesses
        BY <1>2, <3>2 DEF KillProcesses
      <3>3. CASE \/ \E t \in Thread : SignalTrigger(t) /\ UNCHANGED own
                 \/ OnCounterDisconnected \/ WatchComponent \/ RestartByWatchdog
                 \/ ReplaceProcess \/ UNCHANGED ssmVars
        BY <3>3 DEF own, OnCounterDisconnected, WatchComponent, RestartByWatchdog,
                    ReplaceProcess, ssmVars
      <3>4. QED BY <1>4, <3>1, <3>2, <3>3 DEF Aside
    <2>2. QED BY <1>1, <2>1, AppKept
  <1>5. QED BY <1>3, <1>4

\* The role of this side is known before the authentication.
LEMMA GenderIsKnown ==
  ASSUME OwnTypes, LaunchInv, NEW t, NEW event, Delivers(t, event), Rank(mSystemState) >= 9
  PROVE mSystemGender' = mSystemGender
  <1>1. CASE OnCounterConnected(t) /\ t = "connectivityAgent"
    <2>1. PICK l \in Launches : l.component = "connectivityAgent"
      BY LaunchOfCore DEF Core
    <2>2. Rank(mSystemState) = Rank(l.in) + 1
      BY <1>1, <2>1 DEF OnCounterConnected, LaunchInv, Ordered
    <2>3. Rank(l.in) = 3
      BY <2>1 DEF Launches, Rank
    <2>4. QED BY <2>2, <2>3
  <1>2. CASE OnCounterConnected(t) /\ t # "connectivityAgent"
    BY <1>2 DEF OnCounterConnected
  <1>3. CASE ~OnCounterConnected(t)
    BY <1>3 DEF Delivers, SkipAuthentication, OnConnection, OnVerdict
  <1>4. QED BY <1>1, <1>2, <1>3

LEMMA DeliversKeepsApp ==
  ASSUME TypeOK, VerdictInv, OwnTypes, QueueInv, OnceInv, LaunchInv, AppInv,
         NEW t, NEW event, Delivers(t, event)
  PROVE AppInv'
  <1>1. /\ t \in Thread /\ Event(t, event) /\ UNCHANGED Queues /\ UNCHANGED <<authOn, unlocked>>
        /\ handling' = handling \/ handling' = "sending"
    BY DeliversFrame DEF vars, Queues
  <1>2. Rank(mSystemState) \in 0..10 /\ mSystemState \in State
    BY RankFacts DEF OwnTypes
  <1>3. Pending(PME)' => Pending(PME) \/ \E m \in Moves : m.trigger = PME /\ Made(m)
    <2>1. PME \in TriggerName
      BY DEF TriggerName, Moves, Move, PME
    <2>2. QED BY <2>1, DeliversPending
  <1>4. \/ process'[App] = process[App]
        \/ process[App] = "launched" /\ process'[App] = "connected" /\ mSystemState' = mSystemState
    <2>1. CASE OnConnection(t) /\ t \in Component /\ event = Available(t)
      <3>1. t # App => process'[App] = process[App]
        BY <2>1 DEF OnConnection
      <3>2. t = App => /\ process[App] = "launched" /\ process'[App] = "connected"
                       /\ mSystemState' = mSystemState
        BY <1>1, <2>1, AppIsNotHeeded DEF OnConnection, OwnTypes, Event, Heeds
      <3>3. QED BY <3>1, <3>2
    <2>2. CASE OnCounterConnected(t)
      BY <2>2 DEF OnCounterConnected, Core, App
    <2>3. CASE SkipAuthentication \/ OnVerdict(event)
      BY <2>3 DEF SkipAuthentication, OnVerdict
    <2>4. QED BY <2>1, <2>2, <2>3 DEF Delivers
  <1>5. handling \in {"connectApp", "start", "watchApp"} =>
          mSystemGender' = mSystemGender /\ Rank(mSystemState) >= 9
    BY GenderIsKnown DEF AppInv
  <1>6. CASE mSystemState' = mSystemState
    <2>1. Pending(PME)' => Pending(PME)
      BY <1>2, <1>3, <1>6, MoveFacts, RankFacts DEF Made
    <2>2. QED BY <1>1, <1>4, <1>5, <1>6, <2>1 DEF AppInv, PME
  <1>7. CASE mSystemState' # mSystemState
    <2>1. PICK m \in Heeds(event) : mSystemState' = m.to
      BY <1>1, <1>7 DEF Event
    <2>2. /\ m \in Moves /\ m.event = event /\ Made(m)
          /\ Rank(mSystemState)' = Rank(mSystemState) + 1
          /\ process'[App] = process[App]
      BY <1>4, <1>7, <2>1, MoveFacts DEF Heeds, Made
    <2>3. \A k \in Moves : k.trigger = PME /\ Made(k)
            => mSystemState' = "Authenticate" /\ Rank(mSystemState) = 8
      BY <1>2, <2>2, MoveFacts, RankFacts DEF Made, PME
    <2>4. CASE mSystemState # "Authenticate"
      <3>1. ~Pending(PME)
        BY <2>4 DEF AppInv, PME
      <3>2. Rank(mSystemState) # 9
        BY <1>2, <2>4, RankFacts
      <3>3. Pending(PME)' => mSystemState' = "Authenticate" /\ "authentication" \notin unlocked
        BY <1>3, <2>3, <3>1 DEF AppInv
      <3>4. "authentication" \in unlocked => Rank(mSystemState)' >= 9
        BY <1>2, <2>2 DEF AppInv
      <3>5. QED BY <1>1, <1>5, <2>2, <2>4, <3>3, <3>4 DEF AppInv, PME
    <2>5. CASE mSystemState = "Authenticate"
      <3>1. Rank(mSystemState) = 9
        BY <2>5, RankFacts
      <3>2. event \in {"finishAuthentication", "cancelAuthentication"}
        BY <2>2, <2>5, MoveFacts DEF Made
      <3>3. CASE OnVerdict(event)
        <4>1. process[App] = "connected"
          BY <3>3 DEF OnVerdict, App
        <4>2. "authentication" \in unlocked
          BY <4>1 DEF AppInv
        <4>3. ~Pending(PME)'
          BY <1>3, <2>3, <3>1, <4>2 DEF AppInv, PME
        <4>4. QED BY <1>1, <1>2, <1>5, <2>2, <4>1, <4>3 DEF AppInv, PME
      <3>4. CASE SkipAuthentication
        <4>1. InCase("new") /\ Current = PME /\ ~authOn /\ handling' = "sending"
          BY <3>4 DEF SkipAuthentication, PME
        <4>2. "authentication" \notin unlocked /\ process[App] = "off"
          BY <4>1 DEF AppInv
        <4>3. ~Pending(PME)'
          <5>1. Current \in TriggerName
            BY <4>1 DEF TriggerName, Moves, Move, PME
          <5>2. m.trigger # PME
            BY <2>2, <2>3, <3>1
          <5>3. \A u \in Thread : announce'[u] = announce[u] \/ announce'[u] # Current
            <6>1. PICK k \in Heeds(event) :
                    mSystemState' = k.to /\ announce' = [announce EXCEPT ![t] = k.trigger]
              BY <1>1, <2>1 DEF Event
            <6>2. k.trigger # PME
              BY <2>3, <3>1, <6>1 DEF Heeds, Made
            <6>3. QED BY <4>1, <6>1, <6>2 DEF VerdictInv
          <5>4. ~Pending(Current)'
            BY <1>1, <4>1, <5>1, <5>3, HandledIsGone
          <5>5. Current' = PME
            BY <1>1, <4>1 DEF Current, Queues
          <5>6. QED BY <5>4, <5>5
        <4>4. QED BY <1>1, <2>2, <4>1, <4>2, <4>3 DEF AppInv, PME
      <3>5. QED BY <3>2, <3>3, <3>4, OneEventEach DEF Delivers
    <2>6. QED BY <2>4, <2>5
  <1>8. QED BY <1>6, <1>7

LEMMA StepKeepsApp ==
  ASSUME TypeOK, VerdictInv, OwnTypes, QueueInv, OnceInv, LaunchInv, AppInv, UnlockInv,
         [SSMNext]_ssmVars
  PROVE AppInv'
  <1>1. mSystemState' = mSystemState => (Pending(PME)' => Pending(PME))
    <2>1. mSystemState' = mSystemState => \A k \in Moves : ~Made(k)
      BY MoveFacts, RankFacts DEF Made
    <2>2. PME \in TriggerName
      BY DEF TriggerName, Moves, Move, PME
    <2>3. QED BY <2>1, <2>2, StepPending
  <1>2. ASSUME NEW t \in Thread, Send(t) PROVE AppInv'
    <2>1. UNCHANGED <<mSystemState, unlocked, authOn, mSystemGender, process, handling>>
      BY <1>2 DEF Send
    <2>2. QED BY <1>1, <2>1, AppKept DEF SameCase
  <1>3. CASE Receive
    <2>1. /\ UNCHANGED <<mSystemState, unlocked, authOn, mSystemGender, process>>
          /\ handling' = "new" \/ handling' = handling
      BY <1>3 DEF Receive
    <2>2. QED BY <1>1, <2>1, AppKept DEF SameCase
  <1>4. CASE Handles
    BY <1>1, <1>4, HandlesFrame, HandlesKeepApp
  <1>5. CASE Aside
    BY <1>1, <1>5, AsideFrame, AsideKeepsApp
  <1>6. ASSUME NEW t, Blocks(t) PROVE AppInv'
    <2>1. UNCHANGED <<mSystemState, unlocked, authOn, mSystemGender, process, handling>>
      BY <1>6, BlocksFrame
    <2>2. QED BY <1>1, <2>1, AppKept DEF SameCase
  <1>7. QED BY <1>2, <1>3, <1>4, <1>5, <1>6, Kinds, DeliversKeepsApp

\* The profiles are unlocked by a verdict, which comes from the application or
\* from the option to do without.
LEMMA StepKeepsUnlock ==
  ASSUME TypeOK, VerdictInv, OwnTypes, QueueInv, OnceInv, AppInv, UnlockInv,
         [SSMNext]_ssmVars
  PROVE UnlockInv'
  <1>1. authOn' = authOn
    BY Kinds, HandlesFrame, AsideFrame, DeliversFrame, BlocksFrame DEF Send, Receive
  <1>2. unlocked' = unlocked \/ (UnlockAuthentication \/ UnlockProfiles)
    <2>1. CASE Handles
      BY <2>1 DEF Handles, LaunchComponent, ConnectComponent, ReportLaunch, SendRole, EndSkip,
         ConnectAuthentication, StartAuthentication, WatchAuthentication, LinkUp,
         CancelAuthentication, IgnoreTrigger
    <2>2. QED BY <2>1, Kinds, AsideFrame, DeliversFrame, BlocksFrame DEF Send, Receive
  <1>3. unlocked \subseteq unlocked' /\ (unlocked' # unlocked => Handles)
    BY <1>2 DEF UnlockAuthentication, UnlockProfiles, Handles
  <1>4. mSystemState = "Idle" => mSystemState' = "Idle"
    BY StateMoves, MovesFacts DEF Made
  <1>5. ASSUME NEW t \in Thread, "AUTHENTICATION_ESTABLISHED" \in Said(t)'
        PROVE  "authentication" \in unlocked \/ ~authOn
    <2>1. CASE \E u \in Thread : "AUTHENTICATION_ESTABLISHED" \in Said(u)
      BY <2>1 DEF UnlockInv
    <2>2. ASSUME NEW m \in Moves, m.trigger = "AUTHENTICATION_ESTABLISHED", Made(m)
          PROVE  "authentication" \in unlocked \/ ~authOn
      <3>1. mSystemState = "Authenticate"
        BY <2>2, MoveFacts DEF Made
      <3>2. mSystemState' # mSystemState
        BY <2>2, MoveFacts, RankFacts DEF Made
      <3>3. process[App] = "connected" \/ ~authOn
        BY <3>1, <3>2, StateMoves
      <3>4. QED BY <3>3 DEF AppInv
    <2>3. QED BY <1>5, <2>1, <2>2, StepSays DEF Verdict
  <1>6. ASSUME "all" \in unlocked'
        PROVE  mSystemState' = "Idle" /\ ("authentication" \in unlocked \/ ~authOn)
    <2>1. CASE "all" \in unlocked
      BY <1>4, <2>1 DEF UnlockInv
    <2>2. CASE "all" \notin unlocked
      <3>1. UnlockProfiles
        BY <1>2, <1>6, <2>2 DEF UnlockAuthentication
      <3>2. InCase("new") /\ Current = "AUTHENTICATION_ESTABLISHED"
        BY <3>1 DEF UnlockProfiles
      <3>3. Pending("AUTHENTICATION_ESTABLISHED")
        BY <3>2 DEF Pending, IsTaken, InCase
      <3>4. PICK t \in Thread : "AUTHENTICATION_ESTABLISHED" \in Said(t)
        BY <3>2, <3>3, PendingIsSaid, TakenHasName DEF InCase
      <3>5. mSystemState = "Idle"
        BY <3>4 DEF VerdictInv, Verdict
      <3>6. QED BY <1>4, <3>4, <3>5 DEF UnlockInv
    <2>3. QED BY <2>1, <2>2
  <1>7. QED BY <1>1, <1>3, <1>5, <1>6 DEF UnlockInv

-----------------------------------------------------------------------------
(* The watchdog.                                                             *)

\* A message to the watchdog.
LEMMA TellsWatches ==
  ASSUME OwnTypes, NEW op \in {"add", "remove"}, NEW d \in Component, Tells(op, d),
         watched' = watched
  PROVE /\ \A c : Watches(c)' => Watches(c) \/ (op = "add" /\ c = d)
        /\ op = "remove" /\ d = App => AppForgotten'
        /\ AppForgotten /\ d # App => AppForgotten'
  <1> DEFINE new == [op |-> op, component |-> d]
  <1>1. mailbox' = Append(mailbox, new) /\ mailbox \in Seq(Message) /\ new \in Message
    BY DEF Tells, OwnTypes, Message
  <1>2. /\ \A i \in DOMAIN mailbox' : i \in DOMAIN mailbox \/ i = Len(mailbox) + 1
        /\ \A i \in DOMAIN mailbox : /\ i \in DOMAIN mailbox' /\ mailbox'[i] = mailbox[i]
                                     /\ i \in Nat /\ i <= Len(mailbox)
        /\ Len(mailbox) + 1 \in DOMAIN mailbox' /\ mailbox'[Len(mailbox) + 1] = new
        /\ Len(mailbox) \in Nat
    BY <1>1
  <1>3. new.op = op /\ new.component = d
    OBVIOUS
  <1>4. \A c : new = [op |-> "add", component |-> c] => op = "add" /\ c = d
    BY <1>3
  <1>5. \A c : Watches(c)' => Watches(c) \/ (op = "add" /\ c = d)
    BY <1>2, <1>4 DEF Watches
  <1>6. op = "remove" /\ d = App => AppForgotten'
    <2> SUFFICES ASSUME op = "remove", d = App PROVE AppForgotten'
      OBVIOUS
    <2>1. new = RemoveApp
      BY DEF RemoveApp
    <2>2. \A j \in DOMAIN mailbox' : ~(j > Len(mailbox) + 1)
      BY <1>2
    <2>3. QED BY <1>2, <2>1, <2>2 DEF AppForgotten
  <1>7. AppForgotten /\ d # App => AppForgotten'
    <2> SUFFICES ASSUME AppForgotten, d # App PROVE AppForgotten'
      OBVIOUS
    <2>1. new # AddApp
      BY <1>3 DEF AddApp
    <2>2. QED BY <1>2, <2>1 DEF AppForgotten
  <1>8. QED BY <1>5, <1>6, <1>7

\* The watchdog takes a message.
LEMMA WatchComponentWatches ==
  ASSUME OwnTypes, WatchComponent
  PROVE /\ \A c : Watches(c)' => Watches(c)
        /\ AppForgotten => AppForgotten'
  <1>1. /\ mailbox # <<>> /\ mailbox' = Tail(mailbox) /\ Head(mailbox) = mailbox[1]
        /\ watched' = IF mailbox[1].op = "add" THEN watched \cup {mailbox[1].component}
                      ELSE watched \ {mailbox[1].component}
        /\ mailbox \in Seq(Message)
    <2>1. mailbox # <<>> /\ mailbox' = Tail(mailbox) /\ mailbox \in Seq(Message)
      BY DEF WatchComponent, OwnTypes
    <2>2. Head(mailbox) = mailbox[1]
      BY <2>1
    <2>3. QED BY <2>1, <2>2 DEF WatchComponent
  <1>2. /\ 1 \in DOMAIN mailbox /\ mailbox[1] \in Message
        /\ \A i \in DOMAIN mailbox' : i + 1 \in DOMAIN mailbox /\ mailbox'[i] = mailbox[i + 1]
        /\ \A i \in DOMAIN mailbox : i # 1 => i - 1 \in DOMAIN mailbox' /\ mailbox'[i - 1] = mailbox[i]
        /\ DOMAIN mailbox \subseteq Nat \ {0} /\ DOMAIN mailbox' \subseteq Nat \ {0}
    BY <1>1
  <1>3. mailbox[1] = [op |-> mailbox[1].op, component |-> mailbox[1].component]
        /\ mailbox[1].op \in {"add", "remove"}
    BY <1>2 DEF Message
  <1>4. \A c : Watches(c)' => Watches(c)
    <2> SUFFICES ASSUME NEW c, Watches(c)' PROVE Watches(c)
      OBVIOUS
    <2>1. CASE c \in watched'
      BY <1>1, <1>2, <1>3, <2>1 DEF Watches
    <2>2. CASE c \notin watched'
      BY <1>2, <2>2 DEF Watches
    <2>3. QED BY <2>1, <2>2
  <1>5. AppForgotten => AppForgotten'
    <2> SUFFICES ASSUME AppForgotten PROVE AppForgotten'
      OBVIOUS
    <2>1. CASE App \notin watched /\ \A j \in DOMAIN mailbox : mailbox[j] # AddApp
      <3>1. App \notin watched'
        BY <1>1, <1>2, <1>3, <2>1 DEF AddApp
      <3>2. QED BY <1>2, <2>1, <3>1 DEF AppForgotten
    <2>2. ASSUME NEW k \in DOMAIN mailbox, mailbox[k] = RemoveApp,
                 \A j \in DOMAIN mailbox : j > k => mailbox[j] # AddApp
          PROVE  AppForgotten'
      <3>1. CASE k = 1
        <4>1. App \notin watched'
          BY <1>1, <2>2, <3>1 DEF RemoveApp
        <4>2. \A j \in DOMAIN mailbox' : mailbox'[j] # AddApp
          BY <1>2, <2>2, <3>1
        <4>3. QED BY <4>1, <4>2 DEF AppForgotten
      <3>2. CASE k # 1
        <4>1. k - 1 \in DOMAIN mailbox' /\ mailbox'[k - 1] = RemoveApp
          BY <1>2, <2>2, <3>2
        <4>2. \A j \in DOMAIN mailbox' : j > k - 1 => mailbox'[j] # AddApp
          BY <1>2, <2>2
        <4>3. QED BY <4>1, <4>2 DEF AppForgotten
      <3>3. QED BY <3>1, <3>2
    <2>3. QED BY <2>1, <2>2 DEF AppForgotten
  <1>6. QED BY <1>4, <1>5

\* What the watchdog is told.
LEMMA StepWatches ==
  ASSUME OwnTypes, LaunchInv, AppInv, WatchInv, [SSMNext]_ssmVars
  PROVE /\ \A c \in Core : Watches(c)' => process[c] # "off"
        /\ Watches(App)' => "authentication" \in unlocked
        /\ "all" \in unlocked' => AppForgotten'
  <1> DEFINE Goal == /\ \A c \in Core : Watches(c)' => process[c] # "off"
                     /\ Watches(App)' => "authentication" \in unlocked
                     /\ "all" \in unlocked' => AppForgotten'
  <1>1. App \in Component /\ App \notin Core /\ App = "authenticationApp"
    BY DEF App, Component, Core
  <1>2. ASSUME UNCHANGED <<mailbox, watched>>, "all" \in unlocked' => "all" \in unlocked
        PROVE  Goal
    BY <1>2 DEF WatchInv, Watches, AppForgotten
  <1>3. CASE ReportLaunch
    <2>1. PICK l \in Launches :
            /\ l.on = Current
            /\ IF l.component = "watchdog" THEN UNCHANGED mailbox ELSE Tells("add", l.component)
      BY <1>3 DEF ReportLaunch
    <2>2. UNCHANGED <<watched, unlocked>> /\ handling = "report"
      BY <1>3 DEF ReportLaunch, InCase
    <2>3. process[l.component] # "off" /\ l.component \in Component /\ l.component # App
      BY <2>1, <2>2, LaunchFacts DEF LaunchInv, Ordered
    <2>4. CASE Tells("add", l.component)
      BY <1>1, <2>2, <2>3, <2>4, TellsWatches DEF WatchInv
    <2>5. QED BY <1>2, <2>1, <2>2, <2>4
  <1>4. CASE WatchAuthentication
    <2>1. /\ Tells("add", App) /\ UNCHANGED <<watched, unlocked>>
          /\ "authentication" \in unlocked /\ "all" \notin unlocked
      BY <1>1, <1>4 DEF WatchAuthentication, InCase, AppInv
    <2>2. QED BY <1>1, <2>1, TellsWatches DEF WatchInv
  <1>5. CASE UnlockProfiles
    <2>1. Tells("remove", App) /\ watched' = watched
      BY <1>1, <1>5 DEF UnlockProfiles
    <2>2. QED BY <1>1, <2>1, TellsWatches DEF WatchInv
  <1>6. CASE WatchComponent
    BY <1>1, <1>6, WatchComponentWatches, AsideFrame DEF WatchInv, Aside
  <1>7. CASE Handles /\ ~ReportLaunch /\ ~WatchAuthentication /\ ~UnlockProfiles
    <2>1. UNCHANGED <<mailbox, watched>> /\ ("all" \in unlocked' => "all" \in unlocked)
      <3>1. CASE LaunchComponent \/ ConnectComponent \/ SendRole \/ EndSkip
        BY <3>1 DEF LaunchComponent, ConnectComponent, SendRole, EndSkip
      <3>2. CASE UnlockAuthentication \/ ConnectAuthentication \/ StartAuthentication
        BY <3>2 DEF UnlockAuthentication, ConnectAuthentication, StartAuthentication
      <3>3. CASE LinkUp \/ CancelAuthentication \/ IgnoreTrigger
        BY <3>3 DEF LinkUp, CancelAuthentication, IgnoreTrigger
      <3>4. QED BY <1>7, <3>1, <3>2, <3>3 DEF Handles
    <2>2. QED BY <1>2, <2>1
  <1>8. CASE Aside /\ ~WatchComponent
    <2>1. UNCHANGED <<mailbox, watched>>
      <3>1. ASSUME NEW c \in Component, ConnectTooEarly(c) \/ Crash(c)
            PROVE  UNCHANGED <<mailbox, watched>>
        BY <3>1 DEF ConnectTooEarly, Crash
      <3>2. CASE OnCounterDisconnected \/ LaunchedByPeer \/ KillProcesses
        BY <3>2 DEF OnCounterDisconnected, LaunchedByPeer, KillProcesses
      <3>3. QED BY <1>8, <3>1, <3>2 DEF Aside, RestartByWatchdog, ReplaceProcess, own, ssmVars
    <2>2. QED BY <1>2, <1>8, <2>1, AsideFrame
  <1>9. ASSUME NEW t, NEW event, Delivers(t, event) PROVE Goal
    BY <1>2, <1>9, DeliversFrame
  <1>10. ASSUME NEW t, Blocks(t) PROVE Goal
    <2>1. UNCHANGED <<mailbox, watched, unlocked>>
      BY <1>10 DEF Blocks, ResetLostLink, OnAuthenticationError
    <2>2. QED BY <1>2, <2>1
  <1>11. ASSUME NEW t \in Thread, Send(t) PROVE Goal
    BY <1>2, <1>11 DEF Send
  <1>12. CASE Receive
    BY <1>2, <1>12 DEF Receive
  <1>13. QED
    BY <1>3, <1>4, <1>5, <1>6, <1>7, <1>8, <1>9, <1>10, <1>11, <1>12, Kinds

\* How processes go, and that a crash and a reset are not undone.
LEMMA StepLosses ==
  ASSUME OwnTypes, AppInv, [SSMNext]_ssmVars
  PROVE /\ crashes > 0 => crashes' > 0
        /\ reset # "no" => reset' # "no"
        /\ reset = "killed" => reset' = "killed"
        /\ "all" \in unlocked => "all" \in unlocked'
        /\ \A c \in Core : /\ process'[c] = "off" => process[c] = "off"
                           /\ process'[c] = "dead" => \/ process[c] = "dead" \/ crashes' > 0
                                                      \/ reset' = "killed"
        /\ process'[App] = "dead" =>
             \/ process[App] = "dead" \/ crashes' > 0 \/ reset' = "killed"
             \/ process[App] = "launched" /\ mSystemState' = mSystemState
        /\ process'[App] = "off" =>
             process[App] = "off" \/ "all" \in unlocked' \/ reset' # "no"
  <1> DEFINE Goal ==
        /\ crashes > 0 => crashes' > 0
        /\ reset # "no" => reset' # "no"
        /\ reset = "killed" => reset' = "killed"
        /\ "all" \in unlocked => "all" \in unlocked'
        /\ \A c \in Core : /\ process'[c] = "off" => process[c] = "off"
                           /\ process'[c] = "dead" => \/ process[c] = "dead" \/ crashes' > 0
                                                      \/ reset' = "killed"
        /\ process'[App] = "dead" =>
             \/ process[App] = "dead" \/ crashes' > 0 \/ reset' = "killed"
             \/ process[App] = "launched" /\ mSystemState' = mSystemState
        /\ process'[App] = "off" =>
             process[App] = "off" \/ "all" \in unlocked' \/ reset' # "no"
  <1>1. /\ process \in [Component -> {"off", "launched", "unconnected", "connected",
                                     "ready", "dead"}]
        /\ crashes \in Nat
        /\ App \in Component /\ App \notin Core /\ Core \subseteq Component
        /\ App = "authenticationApp"
    BY MaxCrashesAssumption DEF OwnTypes, App, Core, Component
  <1>2. ASSUME UNCHANGED <<process, reset, unlocked, crashes>> PROVE Goal
    BY <1>2
  <1>3. CASE LaunchComponent
    <2>1. UNCHANGED <<reset, unlocked, crashes>>
      BY <1>3 DEF LaunchComponent
    <2>2. PICK l \in Launches : process' \in {process, [process EXCEPT ![l.component] = "launched"]}
      BY <1>3 DEF LaunchComponent
    <2>3. \A c \in Component : process'[c] = process[c] \/ process'[c] = "launched"
      BY <1>1, <2>2
    <2>4. QED BY <1>1, <2>1, <2>3
  <1>4. CASE StartAuthentication \/ LaunchedByPeer
    <2>1. UNCHANGED <<reset, unlocked, crashes>>
      BY <1>4 DEF StartAuthentication, LaunchedByPeer
    <2>2. \A c \in Component : process'[c] = process[c] \/ process'[c] = "launched"
      BY <1>1, <1>4 DEF StartAuthentication, LaunchedByPeer
    <2>3. QED BY <1>1, <2>1, <2>2
  <1>5. CASE UnlockProfiles \/ CancelAuthentication
    <2>1. /\ crashes' = crashes /\ reset' \in {reset, "running"}
          /\ reset' = "running" => reset \in {"no", "running"}
          /\ unlocked \subseteq unlocked'
          /\ "all" \in unlocked' \/ reset' # "no"
      BY <1>5 DEF UnlockProfiles, CancelAuthentication, DoReset
    <2>2. /\ \A c \in Core : process'[c] = process[c]
          /\ process'[App] = process[App] \/ process'[App] = "off"
      BY <1>1, <1>5 DEF UnlockProfiles, CancelAuthentication, ShutDownApp
    <2>3. QED BY <1>1, <2>1, <2>2
  <1>6. CASE \/ ConnectComponent \/ ReportLaunch \/ SendRole \/ EndSkip
             \/ ConnectAuthentication \/ WatchAuthentication \/ LinkUp \/ IgnoreTrigger
    <2>1. UNCHANGED <<process, reset, unlocked, crashes>>
      BY <1>6 DEF ConnectComponent, ReportLaunch, SendRole, EndSkip, ConnectAuthentication,
                  WatchAuthentication, LinkUp, IgnoreTrigger
    <2>2. QED BY <1>2, <2>1
  <1>7. CASE UnlockAuthentication
    BY <1>7 DEF UnlockAuthentication
  <1>8. ASSUME NEW c \in Component, ConnectTooEarly(c) PROVE Goal
    <2>1. UNCHANGED <<reset, unlocked, crashes, mSystemState>>
      BY <1>8 DEF ConnectTooEarly
    <2>2. /\ \A d \in Core : process'[d] \in {process[d], "unconnected"}
          /\ process'[App] = process[App] \/ (process[App] = "launched" /\ process'[App] # "off")
      BY <1>1, <1>8 DEF ConnectTooEarly
    <2>3. QED BY <1>1, <2>1, <2>2
  <1>9. ASSUME NEW c \in Component, Crash(c) PROVE Goal
    <2>1. UNCHANGED <<reset, unlocked>> /\ crashes' > 0
      BY <1>1, <1>9 DEF Crash
    <2>2. \A d \in Component : process'[d] = process[d] \/ process'[d] = "dead"
      BY <1>1, <1>9 DEF Crash
    <2>3. QED BY <1>1, <2>1, <2>2
  <1>10. CASE KillProcesses
    <2>1. UNCHANGED <<unlocked, crashes>> /\ reset' = "killed"
      BY <1>10 DEF KillProcesses
    <2>2. \A d \in Component : process'[d] = "off" => process[d] = "off"
      BY <1>1, <1>10 DEF KillProcesses
    <2>3. QED BY <1>1, <2>1, <2>2
  <1>11. CASE \/ \E t \in Thread : SignalTrigger(t) /\ UNCHANGED own
              \/ OnCounterDisconnected \/ WatchComponent \/ RestartByWatchdog
              \/ ReplaceProcess \/ UNCHANGED ssmVars
    <2>1. UNCHANGED <<process, reset, unlocked, crashes>>
      BY <1>11 DEF own, OnCounterDisconnected, WatchComponent, RestartByWatchdog,
                   ReplaceProcess, ssmVars
    <2>2. QED BY <1>2, <2>1
  <1>12. ASSUME NEW t, NEW event, Delivers(t, event) PROVE Goal
    <2>1. UNCHANGED <<reset, unlocked, crashes>>
      BY <1>12, DeliversFrame
    <2>2. \A d \in Component : process'[d] = process[d] \/ process'[d] \in {"connected", "ready"}
      BY <1>1, <1>12 DEF Delivers, SkipAuthentication, OnConnection, OnCounterConnected,
                         OnVerdict
    <2>3. QED BY <1>1, <2>1, <2>2
  <1>13. ASSUME NEW t, Blocks(t) PROVE Goal
    BY <1>13, BlocksFrame DEF DoReset
  <1>14. ASSUME NEW t \in Thread, Send(t) PROVE Goal
    BY <1>2, <1>14 DEF Send
  <1>15. CASE Receive
    BY <1>2, <1>15 DEF Receive
  <1>16. CASE Handles
    BY <1>3, <1>4, <1>5, <1>6, <1>7, <1>16 DEF Handles
  <1>17. CASE Aside
    BY <1>4, <1>8, <1>9, <1>10, <1>11, <1>17 DEF Aside
  <1>18. QED BY <1>12, <1>13, <1>14, <1>15, <1>16, <1>17, Kinds

LEMMA StepKeepsWatch ==
  ASSUME OwnTypes, LaunchInv, AppInv, WatchInv, [SSMNext]_ssmVars
  PROVE WatchInv'
  <1>1. ASSUME NEW c \in Core
        PROVE  /\ Watches(c)' => process'[c] # "off"
               /\ process'[c] = "dead" => crashes' > 0 \/ reset' = "killed"
    BY StepWatches, StepLosses DEF WatchInv
  <1>2. "authentication" \in unlocked => "authentication" \in unlocked'
    BY Kinds, AsideFrame, DeliversFrame, BlocksFrame
       DEF Send, Receive, Handles, LaunchComponent, ConnectComponent, ReportLaunch, SendRole,
           EndSkip, UnlockAuthentication, ConnectAuthentication, StartAuthentication,
           WatchAuthentication, UnlockProfiles, LinkUp, CancelAuthentication, IgnoreTrigger
  <1>3. Watches(App)' => "authentication" \in unlocked'
    BY <1>2, StepWatches
  <1>4. ASSUME process'[App] = "dead"
        PROVE  crashes' > 0 \/ reset' = "killed" \/ mSystemState' = "Authenticate"
    <2>1. CASE process[App] = "launched" /\ mSystemState' = mSystemState
      BY <2>1 DEF AppInv
    <2>2. CASE process[App] = "dead" /\ mSystemState = "Authenticate"
      BY <2>2, StateMoves DEF AppInv
    <2>3. QED BY <1>4, <2>1, <2>2, StepLosses DEF WatchInv
  <1>5. ASSUME process'[App] = "off", mSystemState' = "Idle"
        PROVE  ~authOn' \/ "all" \in unlocked' \/ reset' # "no"
    <2>1. authOn' = authOn
      BY Kinds, HandlesFrame, AsideFrame, DeliversFrame, BlocksFrame DEF Send, Receive
    <2>2. CASE mSystemState = "Idle"
      BY <1>5, <2>1, <2>2, StepLosses DEF WatchInv
    <2>3. CASE mSystemState # "Idle"
      <3>1. PICK m \in Moves : Made(m)
        BY <1>5, <2>3, StateMoves
      <3>2. mSystemState = "Authenticate"
        BY <1>5, <3>1 DEF Made, Moves, Move
      <3>3. QED BY <1>5, <2>1, <2>3, <3>2, StateMoves
    <2>4. QED BY <2>2, <2>3
  <1>6. QED BY <1>1, <1>3, <1>4, <1>5, StepWatches DEF WatchInv

\* The watchdog restarts for a process that is gone.
LEMMA StepKeepsRestart ==
  ASSUME TypeOK, OwnTypes, LaunchInv, AppInv, WatchInv, OnlyCrashesRestart, [SSMNext]_ssmVars
  PROVE OnlyCrashesRestart'
  <1>1. CASE UNCHANGED ssmVars
    BY <1>1 DEF ssmVars, vars, own, OnlyCrashesRestart, Silent
  <1>2. CASE SSMNext
    <2> SUFFICES ASSUME at' = "exited", reset' = "no"
                 PROVE  \/ crashes' > 0
                        \/ process'["watchdog"] = "launched"
                        \/ mSystemState' = "Authenticate" /\ Silent(App)'
      BY DEF OnlyCrashesRestart, App
    <2>1. at # "exited" /\ at # "aborted"
      BY <1>2 DEF SSMNext, Stopped
    <2>2. at' # at
      BY <2>1
    <2>3. ~Receive
      BY <2>1 DEF Receive, Wake, CheckQueue, UpdateFlag, PopTrigger, Handled
    <2>4. CASE Aside
      <3>1. CASE \E c \in Component : ConnectTooEarly(c)
        <4>1. PICK c \in Component : ConnectTooEarly(c)
          BY <3>1
        <4>2. c = "watchdog" /\ process' = process
          BY <2>2, <4>1 DEF ConnectTooEarly, vars
        <4>3. QED BY <4>1, <4>2 DEF ConnectTooEarly
      <3>2. CASE RestartByWatchdog
        <4>1. UNCHANGED <<crashes, reset, process, mSystemState>> /\ mailbox = <<>>
          BY <3>2 DEF RestartByWatchdog, own
        <4>2. PICK c \in watched : Silent(c)
          BY <3>2 DEF RestartByWatchdog
        <4>3. Watches(c) /\ c \in Component /\ process[c] \in {"off", "dead"}
          BY <4>2 DEF Watches, OwnTypes, Silent
        <4>4. CASE c \in Core
          BY <4>1, <4>3, <4>4 DEF WatchInv
        <4>5. CASE c = "watchdog"
          BY <3>2, <4>3, <4>5 DEF RestartByWatchdog
        <4>6. CASE c = App
          <5>1. "authentication" \in unlocked
            BY <4>3, <4>6 DEF WatchInv
          <5>2. authOn /\ Rank(mSystemState) >= 9
            BY <5>1 DEF AppInv
          <5>3. mSystemState \in {"Authenticate", "Idle"}
            BY <5>2 DEF OwnTypes, State, Moves, Move, Rank
          <5>4. ~AppForgotten
            BY <4>1, <4>2, <4>6 DEF AppForgotten
          <5>5. "all" \notin unlocked
            BY <5>4 DEF WatchInv
          <5>6. crashes > 0 \/ mSystemState = "Authenticate"
            BY <4>1, <4>3, <4>6, <5>2, <5>3, <5>5 DEF WatchInv
          <5>7. Silent(App)'
            BY <4>1, <4>3, <4>6 DEF Silent
          <5>8. QED BY <4>1, <5>6, <5>7
        <4>7. QED BY <4>3, <4>4, <4>5, <4>6 DEF Component, App
      <3>3. CASE ReplaceProcess
        BY <3>3 DEF ReplaceProcess, own
      <3>4. ASSUME NEW c \in Component, Crash(c) PROVE at' = at
        BY <3>4 DEF Crash, vars
      <3>5. CASE \/ \E t \in Thread : SignalTrigger(t) /\ UNCHANGED own
                 \/ OnCounterDisconnected \/ LaunchedByPeer \/ WatchComponent
                 \/ KillProcesses \/ UNCHANGED ssmVars
        <4>1. at' = at
          BY <3>5 DEF SignalTrigger, OnCounterDisconnected, LaunchedByPeer, WatchComponent,
                      KillProcesses, ssmVars, vars
        <4>2. QED BY <2>2, <4>1
      <3>6. QED BY <2>2, <2>4, <3>1, <3>2, <3>3, <3>4, <3>5 DEF Aside
    <2>5. ~Handles /\ ~(\E t, event : Delivers(t, event)) /\ ~(\E t : Blocks(t))
      BY <2>2, HandlesFrame, DeliversFrame, BlocksFrame DEF vars
    <2>6. ~(\E t \in Thread : Send(t))
      BY <2>2 DEF Send, PushTrigger
    <2>7. QED BY <2>3, <2>4, <2>5, <2>6, Kinds
  <1>3. QED BY <1>1, <1>2

-----------------------------------------------------------------------------
(* The theorems.                                                             *)

LEMMA VerdictStays == SSMSpec => []VerdictInv
  <1>1. SSMInit => VerdictInv
    <2> SUFFICES ASSUME SSMInit PROVE VerdictInv
      OBVIOUS
    <2>1. triggers \in [Thread -> Seq(TriggerName)]
      BY DEF SSMInit
    <2>2. announce \in [Thread -> TriggerName \cup {None, Blocked}]
      BY DEF SSMInit, TriggerName
    <2>3. \A t \in Thread : Said(t) \subseteq {"INITIALIZED", None}
      BY DEF SSMInit, Said, ToSet
    <2>4. "INITIALIZED" \notin Verdict /\ None \notin Verdict
      BY DEF Verdict, None
    <2>5. QED BY <2>1, <2>2, <2>3, <2>4 DEF VerdictInv, Verdict
  <1>2. VerdictInv /\ [SSMNext]_ssmVars => VerdictInv'
    BY StepKeepsVerdict
  <1>3. QED BY <1>1, <1>2, PTL DEF SSMSpec

\* An authentication that was cancelled is never finished, and the other way
\* round, for any number of messages of the authentication application.
THEOREM VerdictIsOne == SSMSpec => []OneVerdict
  <1>1. VerdictInv => OneVerdict
    BY DEF VerdictInv, OneVerdict, Said
  <1>2. QED BY <1>1, VerdictStays, PTL

LEMMA StartupBegins == SSMInit => StartupInv
  <1> SUFFICES ASSUME SSMInit PROVE StartupInv
    OBVIOUS
  <1>1. OwnTypes
    <2>1. "Initial" \in State
      BY DEF State, Moves, Move
    <2>2. 0 \in 0..MaxCrashes
      BY MaxCrashesAssumption
    <2>3. /\ mailbox \in Seq(Message) /\ listening \subseteq Component
          /\ watched \subseteq Component /\ unlocked \subseteq {"authentication", "all"}
      BY DEF SSMInit
    <2>4. process \in [Component -> {"off", "launched", "unconnected", "connected",
                                    "ready", "dead"}]
      BY DEF SSMInit
    <2>5. authOn \in BOOLEAN /\ roleSent \in BOOLEAN /\ linkIsUp \in BOOLEAN
      BY DEF SSMInit
    <2>6. /\ mSystemGender = 0 /\ mSystemState = "Initial" /\ handling = "done"
          /\ peer = "away" /\ reset = "no" /\ crashes = 0
      BY DEF SSMInit
    <2>7. QED BY <2>1, <2>2, <2>3, <2>4, <2>5, <2>6 DEF OwnTypes
  <1>2. at = "wait" /\ mQueue = <<>> /\ received = <<>> /\ handling = "done"
        /\ sent = [t \in Thread |-> 0] /\ triggers = [t \in Thread |-> <<>>]
        /\ mSystemState = "Initial" /\ process = [c \in Component |-> "off"]
    BY DEF SSMInit, Init
  <1>3. QueueInv
    BY <1>2 DEF QueueInv
  <1>4. \A t \in Thread : Said(t) \subseteq {"INITIALIZED", None} /\ ToSet(triggers[t]) = {}
    BY DEF SSMInit, Said, ToSet
  <1>5. OnceInv
    <2>1. \A t \in Thread : announce[t] \in TriggerName => t = "main"
      BY DEF SSMInit, None, TriggerName, Moves, Move
    <2>2. \A m \in Moves : m.trigger # None /\ m.trigger # "INITIALIZED"
      BY MoveFacts
    <2>3. QED BY <1>2, <1>4, <2>1, <2>2 DEF OnceInv
  <1>6. LaunchInv
    <2> SUFFICES ASSUME NEW l \in Launches PROVE Ordered(l)
      BY DEF LaunchInv
    <2>1. process[l.component] = "off" /\ Rank(mSystemState) = 0
      BY <1>2, LaunchFacts DEF Rank
    <2>2. Rank(l.in) \in 0..10
      BY LaunchFacts, RankFacts
    <2>3. QED BY <1>2, <2>1, <2>2 DEF Ordered
  <1>7. AppInv
    <2>1. ~Pending(PME)
      BY <1>2 DEF SSMInit, Pending, Announced, Queued, IsTaken, PME, None
    <2>2. QED BY <1>2, <2>1 DEF SSMInit, AppInv, PME, App, Component
  <1>8. UnlockInv
    BY <1>4 DEF SSMInit, UnlockInv, None
  <1>9. WatchInv
    BY <1>2 DEF SSMInit, WatchInv, Watches, App, Component, Core
  <1>10. OnlyCrashesRestart
    BY <1>2 DEF OnlyCrashesRestart
  <1>11. QED BY <1>1, <1>3, <1>5, <1>6, <1>7, <1>8, <1>9, <1>10 DEF StartupInv

LEMMA StartupStays == SSMSpec => [](StartupInv /\ TypeOK /\ VerdictInv)
  <1>1. StartupInv /\ TypeOK /\ VerdictInv /\ [SSMNext]_ssmVars => StartupInv'
    BY StepKeepsTypes, StepKeepsQueue, StepKeepsOnce, StepKeepsLaunch, StepKeepsApp,
       StepKeepsUnlock, StepKeepsWatch, StepKeepsRestart DEF StartupInv
  <1>2. SSMSpec => []TypeOK
    BY UsesTriggerQueue, TypeCorrect, PTL
  <1>3. QED BY <1>1, <1>2, StartupBegins, VerdictStays, PTL DEF SSMSpec

\* Every variable of the System Controller, its queue and its watchdog keeps its
\* type (CSystemStateMachine, TriggerQueue, componentStatusMap).
THEOREM StartupTypeCorrect == SSMSpec => []SSMTypeOK
  <1>1. StartupInv /\ TypeOK /\ VerdictInv => SSMTypeOK
    BY DEF StartupInv, OwnTypes, VerdictInv, SSMTypeOK, Message
  <1>2. QED BY <1>1, StartupStays, PTL

\* Between sendTrigger and the case of startTriggerHandler, IPC callbacks go on
\* changing mSystemState; none of them leaves the state that heeds the trigger, so
\* that every process is launched and every authentication started.
THEOREM NoLaunchIsLost == SSMSpec => []TriggerFindsItsState
  <1>1. StartupInv /\ TypeOK /\ VerdictInv => TriggerFindsItsState
    <2> SUFFICES ASSUME StartupInv, TypeOK, VerdictInv, InCase("new")
                 PROVE  /\ \A l \in Launches : l.on = Current => l.in = mSystemState
                        /\ Current = PME => mSystemState = "Authenticate"
      BY DEF TriggerFindsItsState, PME
    <2>1. Pending(Current)
      BY DEF InCase, Pending, IsTaken
    <2>2. QED BY <2>1, LaunchFindsState DEF StartupInv, AppInv, PME
  <1>2. QED BY <1>1, StartupStays, PTL

\* The profiles are unlocked only by way of an authentication, unless it is
\* switched off (unlockProfiles, unlockAuthenticationProfile).
THEOREM ProfilesStayLocked == SSMSpec => []LockedUntilAuthenticated
  <1>1. StartupInv => LockedUntilAuthenticated
    BY DEF StartupInv, UnlockInv, LockedUntilAuthenticated
  <1>2. QED BY <1>1, StartupStays, PTL

\* The watchdog restarts the stack only when a process crashed or could not
\* connect, or when an awaited authentication application does not come up
\* (waitLoop, componentStatusMap).
THEOREM RestartHasCause == SSMSpec => []OnlyCrashesRestart
  <1>1. StartupInv => OnlyCrashesRestart
    BY DEF StartupInv
  <1>2. QED BY <1>1, StartupStays, PTL

=============================================================================
