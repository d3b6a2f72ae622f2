------------------------- MODULE SystemStateMachine -------------------------
(***************************************************************************)
(* CSystemStateMachine of the System Controller, the processes it starts,  *)
(* and the watchdog it starts first.  Each process is served by the thread *)
(* of its own CIpc, named after it, whose callbacks change mSystemState    *)
(* and then send a trigger; the trigger thread starts the next process.    *)
(* A read of mSystemState and the change that follows are one step: no two *)
(* threads act on the same state.  One life of the System Controller, on   *)
(* Linux.                                                                  *)
(***************************************************************************)
EXTENDS TriggerQueue, SequencesExt

CONSTANTS Crashable,  \* processes that may crash
          MaxCrashes  \* bound: crashes

Core == {"applicationManager", "connectivityAgent", "channelSupervisor",
         "profileManager"}
Component == Core \cup {"watchdog", "authenticationApp"}

ASSUME SenderAssumption == Sender = Component \cup {"main"}
ASSUME CrashableAssumption == Crashable \subseteq Component
ASSUME MaxCrashesAssumption == MaxCrashes \in Nat

None == "none"
Blocked == "blocked"   \* what a thread in doReset is about to send: it never returns

\* What the states override: an event, the state that heeds it, the next state
\* and the trigger that is sent then.  Every other state ignores the event.
Move(from, event, to, trigger) ==
  [from |-> from, event |-> event, to |-> to, trigger |-> trigger]

Moves ==
  {Move("Initial", "watchdogAvailable", "WatchdogReady", "WATCHDOG_STARTED"),
   Move("WatchdogReady", "applicationManagerAvailable",
        "ApplicationManagerReady", "APPLICATION_MANAGER_STARTED"),
   Move("ApplicationManagerReady", "applicationManagerHandshakeDone",
        "ApplicationManagerInitDone", "APPLICATION_MANAGER_ESTABLISHED"),
   Move("ApplicationManagerInitDone", "connectivityAgentAvailable",
        "PhysicalLayerReady", "CONNECTIVITY_AGENT_STARTED"),
   Move("PhysicalLayerReady", "connectivityAgentHandshakeDone",
        "PhysicalLayerHandshakeDone", "PHYSICAL_ESTABLISHED"),
   Move("PhysicalLayerHandshakeDone", "channelSupervisorAvailable",
        "ChannelLayerReady", "CHANNEL_SUPERVISOR_STARTED"),
   Move("ChannelLayerReady", "channelSupervisorHandshakeDone",
        "ChannelLayerHandshakeDone", "CHANNEL_ESTABLISHED"),
   Move("ChannelLayerHandshakeDone", "profileManagerAvailable",
        "ProfileManagerReady", "PROFILE_MANAGER_STARTED"),
   Move("ProfileManagerReady", "profileManagerHandshakeDone",
        "Authenticate", "PROFILE_MANAGER_ESTABLISHED"),
   Move("Authenticate", "finishAuthentication", "Idle", "AUTHENTICATION_ESTABLISHED"),
   Move("Authenticate", "cancelAuthentication", "Idle", "AUTHENTICATION_CANCELED")}

State == {m.from : m \in Moves} \cup {m.to : m \in Moves}
TriggerName == {m.trigger : m \in Moves} \cup {"INITIALIZED"}

\* The process that a trigger starts, in the state that overrides launchX.
Launches ==
  {[on |-> "INITIALIZED", in |-> "Initial", component |-> "watchdog"],
   [on |-> "WATCHDOG_STARTED", in |-> "WatchdogReady",
    component |-> "applicationManager"],
   [on |-> "APPLICATION_MANAGER_ESTABLISHED", in |-> "ApplicationManagerInitDone",
    component |-> "connectivityAgent"],
   [on |-> "PHYSICAL_ESTABLISHED", in |-> "PhysicalLayerHandshakeDone",
    component |-> "channelSupervisor"],
   [on |-> "CHANNEL_ESTABLISHED", in |-> "ChannelLayerHandshakeDone",
    component |-> "profileManager"]}

\* The triggers whose case of startTriggerHandler only writes a log.
Logged == {"APPLICATION_MANAGER_STARTED", "CONNECTIVITY_AGENT_STARTED",
           "PROFILE_MANAGER_STARTED"}

VARIABLES
  authOn,        \* the program was not started with --noauth
  mSystemGender, \* role of this side: 1 starts the authentication; 0 unknown
  mSystemState,
  triggers,      \* history: names of the triggers of each thread
  announce,      \* the trigger a thread is about to send, having changed state
  handling,      \* where the trigger thread is in a case of startTriggerHandler
  listening,     \* processes whose CIpc waits for a connection
  process,       \* what each process is doing
  roleSent,      \* the Channel Supervisor has its role
  unlocked,      \* what the Profile Manager was told to unlock
  linkIsUp,
  peer,          \* the other side's Connectivity Agent
  reset,         \* progress of doReset
  mailbox,       \* messages to the watchdog, in order
  watched,       \* componentStatusMap of the watchdog
  crashes

own == <<authOn, mSystemGender, mSystemState, triggers, announce, handling,
         listening, process, roleSent, unlocked, linkIsUp, peer, reset, mailbox,
         watched, crashes>>

ssmVars == <<vars, own>>

-----------------------------------------------------------------------------
\* CSystemStateMachine::init pushes INITIALIZED and starts the trigger thread.
SSMInit ==
  /\ Init
  /\ authOn \in BOOLEAN
  /\ mSystemGender = 0
  /\ mSystemState = "Initial"
  /\ triggers = [t \in Thread |-> <<>>]
  /\ announce = [t \in Thread |-> IF t = "main" THEN "INITIALIZED" ELSE None]
  /\ handling = "done"
  /\ listening = {}
  /\ process = [c \in Component |-> "off"]
  /\ roleSent = FALSE
  /\ unlocked = {}
  /\ linkIsUp = FALSE
  /\ peer = "away"
  /\ reset = "no"
  /\ mailbox = <<>>
  /\ watched = {}
  /\ crashes = 0

\* Mutant: finish and cancel are heeded in every state.
Heeds_Always(event) ==
  {m \in Moves : m.event = event /\
     (m.from = mSystemState \/ event \in {"finishAuthentication", "cancelAuthentication"})}

\* The override of the event in the current state, if it has one.
Heeds(event) == {m \in Moves : m.event = event /\ m.from = mSystemState}

\* Mutant: the event itself is sent as the trigger.
Event_Itself(t, event) ==
  IF Heeds(event) = {}
  THEN UNCHANGED <<mSystemState, announce>>
  ELSE \E m \in Heeds(event) : /\ mSystemState' = m.to
                               /\ announce' = [announce EXCEPT ![t] = m.event]

\* Mutant: the trigger is sent, but the state does not change.
Event_Unchanged(t, event) ==
  IF Heeds(event) = {}
  THEN UNCHANGED <<mSystemState, announce>>
  ELSE \E m \in Heeds(event) : /\ UNCHANGED mSystemState
                               /\ announce' = [announce EXCEPT ![t] = m.trigger]

\* A thread delivers an event to mSystemState: changeState.
Event(t, event) ==
  IF Heeds(event) = {}
  THEN UNCHANGED <<mSystemState, announce>>
  ELSE \E m \in Heeds(event) : /\ mSystemState' = m.to
                               /\ announce' = [announce EXCEPT ![t] = m.trigger]

\* The event's sendTrigger; finishAuthentication then stops listening for the
\* authentication application.
Send(t) ==
  /\ announce[t] \notin {None, Blocked}
  /\ PushTrigger(t)
  /\ triggers' = [triggers EXCEPT ![t] = Append(@, announce[t])]
  /\ announce' = [announce EXCEPT ![t] = None]
  /\ listening' = IF announce[t] = "AUTHENTICATION_ESTABLISHED"
                  THEN listening \ {"authenticationApp"} ELSE listening
  /\ UNCHANGED <<authOn, mSystemGender, mSystemState, handling, process, roleSent,
                 unlocked, linkIsUp, peer, reset, mailbox, watched, crashes>>

\* The IPC thread of c can run its next callback.
Ready(c) == announce[c] = None /\ c \notin pushed

-----------------------------------------------------------------------------
(* The trigger thread.                                                       *)

\* The trigger that startTriggerHandler has received last.
Current == LET last == Last(received) IN triggers[last.from][last.n]

InCase(step) == at = "handle" /\ handling = step /\ Handler \notin pushed

\* receiveTrigger
Receive ==
  /\ \/ Wake /\ UNCHANGED handling
     \/ CheckQueue /\ UNCHANGED handling
     \/ UpdateFlag /\ UNCHANGED handling
     \/ PopTrigger /\ handling' = "new"
     \/ Handled /\ handling = "done" /\ UNCHANGED handling
  /\ UNCHANGED <<authOn, mSystemGender, mSystemState, triggers, announce, listening,
                 process, roleSent, unlocked, linkIsUp, peer, reset, mailbox,
                 watched, crashes>>

\* mSystemState->launchX: CComponentLauncher forks the process.
LaunchComponent ==
  /\ InCase("new")
  /\ \E l \in Launches :
       /\ l.on = Current
       /\ IF l.in = mSystemState
          THEN /\ process' = [process EXCEPT ![l.component] = "launched"]
               /\ handling' = "connect"
          ELSE handling' = "report" /\ UNCHANGED process
  /\ UNCHANGED <<vars, authOn, mSystemGender, mSystemState, triggers, announce,
                 listening, roleSent, unlocked, linkIsUp, peer, reset, mailbox,
                 watched, crashes>>

\* ...and then connectX: beginWaitForConnection of the process's CIpc.
ConnectComponent ==
  /\ InCase("connect")
  /\ \E l \in Launches : l.on = Current /\ listening' = listening \cup {l.component}
  /\ handling' = "report"
  /\ UNCHANGED <<vars, authOn, mSystemGender, mSystemState, triggers, announce,
                 process, roleSent, unlocked, linkIsUp, peer, reset, mailbox,
                 watched, crashes>>

Tells(op, c) == mailbox' = Append(mailbox, [op |-> op, component |-> c])

\* Mutant: the Channel Supervisor is not reported.
ReportLaunch_NotSupervisor ==
  /\ InCase("report")
  /\ \E l \in Launches :
       /\ l.on = Current
       /\ IF l.component \in {"watchdog", "channelSupervisor"} THEN UNCHANGED mailbox
          ELSE Tells("add", l.component)
  /\ handling' = "done"
  /\ UNCHANGED <<vars, authOn, mSystemGender, mSystemState, triggers, announce,
                 listening, process, roleSent, unlocked, linkIsUp, peer, reset,
                 watched, crashes>>

\* SystemControllerWatchdogProxy::onXStarted: the watchdog is to watch the
\* process, unless it is the watchdog itself.
ReportLaunch ==
  /\ InCase("report")
  /\ \E l \in Launches :
       /\ l.on = Current
       /\ IF l.component = "watchdog" THEN UNCHANGED mailbox
          ELSE Tells("add", l.component)
  /\ handling' = "done"
  /\ UNCHANGED <<vars, authOn, mSystemGender, mSystemState, triggers, announce,
                 listening, process, roleSent, unlocked, linkIsUp, peer, reset,
                 watched, crashes>>

\* Mutant: the Channel Supervisor learns its role only on the side with role 1.
SendRole_MasterOnly ==
  /\ InCase("new") /\ Current = "CHANNEL_SUPERVISOR_STARTED"
  /\ roleSent' = (mSystemGender = 1)
  /\ handling' = "done"
  /\ UNCHANGED <<vars, authOn, mSystemGender, mSystemState, triggers, announce,
                 listening, process, unlocked, linkIsUp, peer, reset, mailbox,
                 watched, crashes>>

SendRole ==
  /\ InCase("new") /\ Current = "CHANNEL_SUPERVISOR_STARTED"
  /\ roleSent' = TRUE
  /\ handling' = "done"
  /\ UNCHANGED <<vars, authOn, mSystemGender, mSystemState, triggers, announce,
                 listening, process, unlocked, linkIsUp, peer, reset, mailbox,
                 watched, crashes>>

\* Mutant: the option --noauth is not looked at.
SkipAuthentication_Always ==
  /\ InCase("new") /\ Current = "PROFILE_MANAGER_ESTABLISHED"
  /\ Event(Handler, "finishAuthentication")
  /\ handling' = "sending"
  /\ UNCHANGED <<vars, authOn, mSystemGender, triggers, listening, process, roleSent,
                 unlocked, linkIsUp, peer, reset, mailbox, watched, crashes>>

\* PROFILE_MANAGER_CONNECTION_ESTABLISHED without authentication: the trigger
\* thread itself finishes it.
SkipAuthentication ==
  /\ InCase("new") /\ Current = "PROFILE_MANAGER_ESTABLISHED" /\ ~authOn
  /\ Event(Handler, "finishAuthentication")
  /\ handling' = "sending"
  /\ UNCHANGED <<vars, authOn, mSystemGender, triggers, listening, process, roleSent,
                 unlocked, linkIsUp, peer, reset, mailbox, watched, crashes>>

EndSkip ==
  /\ InCase("sending") /\ announce[Handler] = None
  /\ handling' = "done"
  /\ UNCHANGED <<vars, authOn, mSystemGender, mSystemState, triggers, announce,
                 listening, process, roleSent, unlocked, linkIsUp, peer, reset,
                 mailbox, watched, crashes>>

\* With authentication: unlockAuthenticationProfile.
UnlockAuthentication ==
  /\ InCase("new") /\ Current = "PROFILE_MANAGER_ESTABLISHED" /\ authOn
  /\ unlocked' = unlocked \cup {"authentication"}
  /\ handling' = IF mSystemState = "Authenticate" THEN "connectApp" ELSE "watchApp"
  /\ UNCHANGED <<vars, authOn, mSystemGender, mSystemState, triggers, announce,
                 listening, process, roleSent, linkIsUp, peer, reset, mailbox,
                 watched, crashes>>

\* CAuthenticateState::startAuthentication: connectAuthenticationApp.
ConnectAuthentication ==
  /\ InCase("connectApp")
  /\ listening' = listening \cup {"authenticationApp"}
  /\ handling' = "start"
  /\ UNCHANGED <<vars, authOn, mSystemGender, mSystemState, triggers, announce,
                 process, roleSent, unlocked, linkIsUp, peer, reset, mailbox,
                 watched, crashes>>

\* The side with role 1 launches the authentication application.
StartAuthentication ==
  /\ InCase("start")
  /\ process' = IF mSystemGender = 1
                THEN [process EXCEPT !["authenticationApp"] = "launched"] ELSE process
  /\ handling' = "watchApp"
  /\ UNCHANGED <<vars, authOn, mSystemGender, mSystemState, triggers, announce,
                 listening, roleSent, unlocked, linkIsUp, peer, reset, mailbox,
                 watched, crashes>>

WatchAuthentication ==
  /\ InCase("watchApp")
  /\ Tells("add", "authenticationApp")
  /\ handling' = "done"
  /\ UNCHANGED <<vars, authOn, mSystemGender, mSystemState, triggers, announce,
                 listening, process, roleSent, unlocked, linkIsUp, peer, reset,
                 watched, crashes>>

\* requestShutDown of the authentication application, which exits if it runs.
ShutDownApp ==
  process' = [process EXCEPT !["authenticationApp"] = IF @ = "connected" THEN "off" ELSE @]

\* Mutant: the watchdog goes on watching the application.
UnlockProfiles_StillWatched ==
  /\ InCase("new") /\ Current = "AUTHENTICATION_ESTABLISHED"
  /\ unlocked' = unlocked \cup {"all"}
  /\ ShutDownApp
  /\ handling' = "linkUp"
  /\ UNCHANGED <<vars, authOn, mSystemGender, mSystemState, triggers, announce,
                 listening, roleSent, linkIsUp, peer, reset, mailbox, watched, crashes>>

\* AUTHENTICATION_ESTABLISHED: unlockProfiles, requestShutDown, ...
UnlockProfiles ==
  /\ InCase("new") /\ Current = "AUTHENTICATION_ESTABLISHED"
  /\ unlocked' = unlocked \cup {"all"}
  /\ ShutDownApp
  /\ Tells("remove", "authenticationApp")
  /\ handling' = "linkUp"
  /\ UNCHANGED <<vars, authOn, mSystemGender, mSystemState, triggers, announce,
                 listening, roleSent, linkIsUp, peer, reset, watched, crashes>>

\* ...and the link is up.
LinkUp ==
  /\ InCase("linkUp")
  /\ linkIsUp' = TRUE
  /\ handling' = "done"
  /\ UNCHANGED <<vars, authOn, mSystemGender, mSystemState, triggers, announce,
                 listening, process, roleSent, unlocked, peer, reset, mailbox,
                 watched, crashes>>

\* doReset: one thread resets the stack and never returns, the others wait.
DoReset == reset' = IF reset = "no" THEN "running" ELSE reset

CancelAuthentication ==
  /\ InCase("new") /\ Current = "AUTHENTICATION_CANCELED"
  /\ ShutDownApp
  /\ DoReset
  /\ handling' = "resets"
  /\ UNCHANGED <<vars, authOn, mSystemGender, mSystemState, triggers, announce,
                 listening, roleSent, unlocked, linkIsUp, peer, mailbox, watched,
                 crashes>>

IgnoreTrigger ==
  /\ InCase("new") /\ Current \in Logged
  /\ handling' = "done"
  /\ UNCHANGED <<vars, authOn, mSystemGender, mSystemState, triggers, announce,
                 listening, process, roleSent, unlocked, linkIsUp, peer, reset,
                 mailbox, watched, crashes>>

TriggerThread ==
  \/ Receive
  \/ LaunchComponent \/ ConnectComponent \/ ReportLaunch
  \/ SendRole
  \/ SkipAuthentication \/ EndSkip
  \/ UnlockAuthentication \/ ConnectAuthentication
  \/ StartAuthentication \/ WatchAuthentication
  \/ UnlockProfiles \/ LinkUp
  \/ CancelAuthentication
  \/ IgnoreTrigger

-----------------------------------------------------------------------------
(* The processes, and the callbacks of their IPC threads.                    *)

Available(c) ==
  CASE c = "watchdog" -> "watchdogAvailable"
    [] c = "applicationManager" -> "applicationManagerAvailable"
    [] c = "connectivityAgent" -> "connectivityAgentAvailable"
    [] c = "channelSupervisor" -> "channelSupervisorAvailable"
    [] c = "profileManager" -> "profileManagerAvailable"
    [] c = "authenticationApp" -> "authenticationAppAvailable"

HandshakeDone(c) ==
  CASE c = "applicationManager" -> "applicationManagerHandshakeDone"
    [] c = "connectivityAgent" -> "connectivityAgentHandshakeDone"
    [] c = "channelSupervisor" -> "channelSupervisorHandshakeDone"
    [] c = "profileManager" -> "profileManagerHandshakeDone"

\* The process connects to the System Controller: OnConnection.
OnConnection(c) ==
  /\ process[c] = "launched" /\ c \in listening /\ Ready(c)
  /\ process' = [process EXCEPT ![c] = "connected"]
  /\ Event(c, Available(c))
  /\ UNCHANGED <<vars, authOn, mSystemGender, triggers, handling, listening, roleSent,
                 unlocked, linkIsUp, peer, reset, mailbox, watched, crashes>>

\* It tries before beginWaitForConnection.  The Connectivity Agent and the
\* Channel Supervisor go on without a System Controller; the authentication
\* application kills itself; the watchdog restarts the stack.  The Application
\* and the Profile Manager try again, and stay "launched".
ConnectTooEarly(c) ==
  /\ process[c] = "launched" /\ c \notin listening
  /\ \/ /\ c \in {"connectivityAgent", "channelSupervisor"}
        /\ process' = [process EXCEPT ![c] = "unconnected"]
        /\ UNCHANGED vars
     \/ /\ c = "authenticationApp"
        /\ process' = [process EXCEPT ![c] = "dead"]
        /\ UNCHANGED vars
     \/ /\ c = "watchdog"
        /\ Exit
        /\ UNCHANGED process
  /\ UNCHANGED <<authOn, mSystemGender, mSystemState, triggers, announce, handling,
                 listening, roleSent, unlocked, linkIsUp, peer, reset, mailbox,
                 watched, crashes>>

\* The process reports that it reaches its counterpart on the other side.  The
\* Application Manager does so at once, the Channel Supervisor not before it
\* has its role.  The Connectivity Agent brings the role.
OnCounterConnected(c) ==
  /\ c \in Core /\ process[c] = "connected" /\ Ready(c)
  /\ c \in {"channelSupervisor", "profileManager"} => peer = "connected"
  /\ c = "channelSupervisor" => roleSent
  /\ process' = [process EXCEPT ![c] = "ready"]
  /\ IF c = "connectivityAgent"
     THEN mSystemGender' \in {1, 2} /\ peer' = "connected"
     ELSE UNCHANGED <<mSystemGender, peer>>
  /\ Event(c, HandshakeDone(c))
  /\ UNCHANGED <<vars, authOn, triggers, handling, listening, roleSent, unlocked,
                 linkIsUp, reset, mailbox, watched, crashes>>

\* onCounterCADisconnected: the link is down...
OnCounterDisconnected ==
  /\ peer = "connected" /\ process["connectivityAgent"] = "ready"
  /\ Ready("connectivityAgent")
  /\ peer' = "lost"
  /\ linkIsUp' = FALSE
  /\ UNCHANGED <<vars, authOn, mSystemGender, mSystemState, triggers, announce,
                 handling, listening, process, roleSent, unlocked, reset, mailbox,
                 watched, crashes>>

\* ...and doReset.
ResetLostLink ==
  /\ peer = "lost" /\ Ready("connectivityAgent")
  /\ DoReset
  /\ announce' = [announce EXCEPT !["connectivityAgent"] = Blocked]
  /\ UNCHANGED <<vars, authOn, mSystemGender, mSystemState, triggers, peer, handling,
                 listening, process, roleSent, unlocked, linkIsUp, mailbox,
                 watched, crashes>>

\* The Application Manager of the side with role 2 launches the authentication
\* application when the other side's asks for it.
LaunchedByPeer ==
  /\ "authentication" \in unlocked /\ mSystemGender = 2 /\ peer = "connected"
  /\ process["authenticationApp"] = "off" /\ mSystemState = "Authenticate"
  /\ process["applicationManager"] = "ready" /\ process["profileManager"] = "ready"
  /\ process' = [process EXCEPT !["authenticationApp"] = "launched"]
  /\ UNCHANGED <<vars, authOn, mSystemGender, mSystemState, triggers, announce,
                 handling, listening, roleSent, unlocked, linkIsUp, peer, reset,
                 mailbox, watched, crashes>>

\* onAuthenticationOK and onAuthenticationCanceled; NOK only writes a log.
OnVerdict(event) ==
  /\ process["authenticationApp"] = "connected" /\ Ready("authenticationApp")
  /\ Event("authenticationApp", event)
  /\ UNCHANGED <<vars, authOn, mSystemGender, triggers, handling, listening, process,
                 roleSent, unlocked, linkIsUp, peer, reset, mailbox, watched, crashes>>

OnAuthenticationError ==
  /\ process["authenticationApp"] = "connected" /\ Ready("authenticationApp")
  /\ DoReset
  /\ announce' = [announce EXCEPT !["authenticationApp"] = Blocked]
  /\ UNCHANGED <<vars, authOn, mSystemGender, mSystemState, triggers, handling,
                 listening, process, roleSent, unlocked, linkIsUp, peer,
                 mailbox, watched, crashes>>

\* A process crashes.  The System Controller only writes a log.
Crash(c) ==
  /\ c \in Crashable /\ crashes < MaxCrashes
  /\ process[c] \notin {"off", "dead"}
  /\ process' = [process EXCEPT ![c] = "dead"]
  /\ crashes' = crashes + 1
  /\ UNCHANGED <<vars, authOn, mSystemGender, mSystemState, triggers, announce,
                 handling, listening, roleSent, unlocked, linkIsUp, peer, reset,
                 mailbox, watched>>

-----------------------------------------------------------------------------
(* The watchdog process, and the reset.                                      *)

\* SystemControllerWatchdogListener: addComponent, removeComponent.
WatchComponent ==
  /\ mailbox # <<>> /\ process["watchdog"] = "connected"
  /\ watched' = IF Head(mailbox).op = "add"
                THEN watched \cup {Head(mailbox).component}
                ELSE watched \ {Head(mailbox).component}
  /\ mailbox' = Tail(mailbox)
  /\ UNCHANGED <<vars, authOn, mSystemGender, mSystemState, triggers, announce,
                 handling, listening, process, roleSent, unlocked, linkIsUp, peer,
                 reset, crashes>>

\* No heartbeat: the process is gone, or the peer has not had it launched yet.
Silent(c) == process[c] \in {"off", "dead"}

\* Five polls without a heartbeat, three seconds apart: long enough for the
\* trigger thread and the messages to come to rest.
RestartByWatchdog ==
  /\ process["watchdog"] = "connected"
  /\ mailbox = <<>> /\ at = "wait" /\ mQueue = <<>> /\ pushed = {}
  /\ \E c \in watched : Silent(c)
  /\ Exit
  /\ UNCHANGED own

\* hardReset kills the processes by name...
KillProcesses ==
  /\ reset = "running"
  /\ process' = [c \in Component |-> IF process[c] = "off" THEN "off" ELSE "dead"]
  /\ reset' = "killed"
  /\ UNCHANGED <<vars, authOn, mSystemGender, mSystemState, triggers, announce,
                 handling, listening, roleSent, unlocked, linkIsUp, peer, mailbox,
                 watched, crashes>>

\* ...and replaces the System Controller; its other threads ran on until now.
ReplaceProcess ==
  /\ reset = "killed"
  /\ Exit
  /\ UNCHANGED own

\* What happens unless the process stops first.
Progress ==
  \/ \E t \in Thread : Send(t) \/ (SignalTrigger(t) /\ UNCHANGED own)
  \/ TriggerThread
  \/ \E c \in Component : OnConnection(c) \/ OnCounterConnected(c)
  \/ ResetLostLink
  \/ LaunchedByPeer
  \/ \E event \in {"finishAuthentication", "cancelAuthentication"} : OnVerdict(event)
  \/ WatchComponent \/ RestartByWatchdog
  \/ KillProcesses \/ ReplaceProcess

\* What may happen: an early connection, a crash, a lost link, a failed
\* authentication.
Mishap ==
  \/ \E c \in Component : ConnectTooEarly(c) \/ Crash(c)
  \/ OnCounterDisconnected
  \/ OnAuthenticationError

SSMNext == ~Stopped /\ (Progress \/ Mishap)

SSMSpec == SSMInit /\ [][SSMNext]_ssmVars

\* Every thread runs; a process that was launched connects, the other side
\* answers, and the user decides.  One life of the process is finite, so that
\* fairness of all steps together leaves none of them out.
FairSSMSpec == SSMSpec /\ WF_ssmVars(~Stopped /\ Progress)

-----------------------------------------------------------------------------
\* Types of the trigger queue's variables and of the state machine's.
SSMTypeOK ==
  /\ TypeOK
  /\ authOn \in BOOLEAN /\ roleSent \in BOOLEAN /\ linkIsUp \in BOOLEAN
  /\ mSystemGender \in 0..2
  /\ mSystemState \in State
  /\ triggers \in [Thread -> Seq(TriggerName)]
  /\ announce \in [Thread -> TriggerName \cup {None, Blocked}]
  /\ handling \in {"new", "connect", "report", "sending", "connectApp", "start",
                   "watchApp", "linkUp", "resets", "done"}
  /\ listening \subseteq Component /\ watched \subseteq Component
  /\ process \in [Component -> {"off", "launched", "unconnected", "connected",
                               "ready", "dead"}]
  /\ unlocked \subseteq {"authentication", "all"}
  /\ peer \in {"away", "connected", "lost"}
  /\ reset \in {"no", "running", "killed"}
  /\ mailbox \in Seq([op : {"add", "remove"}, component : Component])
  /\ crashes \in 0..MaxCrashes

\* startTriggerHandler passes a trigger to mSystemState, which an IPC thread may
\* have changed since the trigger was sent: it still is the state that heeds
\* the trigger, so that no launch is lost.
TriggerFindsItsState ==
  InCase("new") =>
    /\ \A l \in Launches : l.on = Current => l.in = mSystemState
    /\ Current = "PROFILE_MANAGER_ESTABLISHED" => mSystemState = "Authenticate"

\* An authentication is finished or cancelled, never both, whatever the
\* authentication application sends (onAuthenticationOK, onAuthenticationCanceled)
\* and in whatever order the threads run: once cancelled, the stack is reset with
\* its profiles locked.
OneVerdict ==
  \A t, u \in Thread :
    ~(/\ "AUTHENTICATION_CANCELED" \in ToSet(triggers[t])
      /\ "AUTHENTICATION_ESTABLISHED" \in ToSet(triggers[u]))

\* The profiles are unlocked (unlockProfiles) only after the authentication
\* profile was, and so by way of an authentication, unless it was switched off.
LockedUntilAuthenticated == "all" \in unlocked => "authentication" \in unlocked \/ ~authOn

\* The watchdog (waitLoop) restarts the stack only for a process that crashed,
\* or for an authentication application that does not come up.
OnlyCrashesRestart ==
  at = "exited" /\ reset = "no" =>
    \/ crashes > 0
    \/ process["watchdog"] = "launched"
    \/ mSystemState = "Authenticate" /\ Silent("authenticationApp")

\* A process that went on without a System Controller is never asked for its
\* part: startup waits for it, and the watchdog hears its heartbeat.
StartsAlone == \E c \in Core : process[c] = "unconnected"

Unwatched == process["watchdog"] = "dead"

\* The bring-up ends: with the link up, or with a restart.
BringUpEnds == <>(linkIsUp \/ Stopped \/ StartsAlone \/ Unwatched)

\* When a process of the stack has crashed, the stack is restarted.
CrashIsRestarted ==
  (\E c \in Core : process[c] = "dead") ~> Stopped \/ StartsAlone \/ Unwatched

=============================================================================
