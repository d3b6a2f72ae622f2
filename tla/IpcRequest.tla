----------------------------- MODULE IpcRequest -----------------------------
(***************************************************************************)
(* CIpc and CIpcSocket: synchronous requests between two processes, a      *)
(* server that listens and a client that connects to it again whenever it  *)
(* finds itself disconnected.  Both make requests, of any threads, one at  *)
(* a time because mRequestMutex is held until the response is there.  Each *)
(* process has one receiving thread, which reads messages, runs OnRequest  *)
(* and fills in responses.  A response may be late, and a process may die  *)
(* and be started again: its message ids and direction ids start anew.     *)
(*                                                                         *)
(* A payload is a call's serial number, a history variable; message ids    *)
(* are distinct in a process, as CIpc demands of its users.  A message is  *)
(* read in two steps, header and data.  The sockets are the system's: what *)
(* a process has sent before it died can still be read.                    *)
(***************************************************************************)
EXTENDS Integers, Sequences, SequencesExt, FiniteSetsExt

CONSTANTS
  Server, Client,  \* the processes
  Thread,          \* their threads that make requests
  FirstDir,        \* FirstDir[e]: the first direction id left for this CIpc
  MaxCalls,        \* bound: MaxCalls[e], the calls made in process e
  MaxConnections,  \* bound: connections made
  None

End == {Server, Client}
Connection == 1..MaxConnections

ASSUME EndsDiffer == Server # Client
ASSUME BoundsAreNat == MaxCalls \in [End -> Nat] /\ MaxConnections \in Nat
ASSUME FirstDirIsPositive == FirstDir \in [End -> Nat \ {0}]
ASSUME NoneIsNew == None \notin Thread \cup Nat

VARIABLES
  th,         \* th[e][c]: where thread c of e is in request() or asyncRequest()
  mutex,      \* mutex[e]: who has mRequestMutex, or None
  container,  \* container[e]: mRequestDataContainer, a set of RequestData
  signalled,  \* signalled[e]: threads whose recvSem is signalled
  mMsgId,     \* mMsgId[e]: the last message id of this process
  sockets,    \* sockets[e]: mSockets
  nextDir,    \* nextDir[e]: DirectionIdGen
  wire,       \* wire[e][k]: what e can read from connection k
  reading,    \* reading[e]: the message whose header e has read, or None
  failed,     \* failed[e]: mClosedSocketsQueue, connections on which send() failed
  made,       \* how many connections there were
  serial,     \* history: serial[e], calls made in process e
  answer,     \* history: answer[e][c], the last response c got, or None
  expired     \* history: some call has timed out

callVars == <<th, mutex, container, signalled, mMsgId>>
socketVars == <<sockets, nextDir, wire, reading, failed, made>>
history == <<serial, answer, expired>>
vars == <<callVars, socketVars, history>>

Other(e) == IF e = Server THEN Client ELSE Server

Serial == [e \in End |-> 1..MaxCalls[e]]
Idle == [at |-> "idle", kind |-> "REQUEST", id |-> 0, to |-> None, n |-> 0]

\* to: pDirId, or None for NULL.
Call == [at : {"idle", "lock", "send", "wait"}, kind : {"REQUEST", "TRIGGER"},
         id : Nat, to : Nat \cup {None}, n : Nat]
RequestData == [id : Nat, by : Thread, mDirID : Nat, response : Nat \cup {None}]
Message == [type : {"REQUEST", "TRIGGER", "RESPONSE"}, id : Nat, n : Nat]
CSockInfo == [conn : Connection, dirId : Nat]

Init ==
  /\ th = [e \in End |-> [c \in Thread |-> Idle]]
  /\ mutex = [e \in End |-> None]
  /\ container = [e \in End |-> {}]
  /\ signalled = [e \in End |-> {}]
  /\ mMsgId = [e \in End |-> 0]
  /\ sockets = [e \in End |-> <<>>]
  /\ nextDir = FirstDir
  /\ wire = [e \in End |-> [k \in Connection |-> <<>>]]
  /\ reading = [e \in End |-> None]
  /\ failed = [e \in End |-> {}]
  /\ made = 0
  /\ serial = [e \in End |-> 0]
  /\ answer = [e \in End |-> [c \in Thread |-> None]]
  /\ expired = FALSE

-----------------------------------------------------------------------------
(* Connections. *)

IsOpen(e, k) == \E s \in ToSet(sockets[e]) : s.conn = k

\* Slip: whatever request is pending.
entryOf_Any(e, id) == container[e]

\* The pending request with this id.
entryOf(e, id) == {r \in container[e] : r.id = id}

\* connect() of the client and acceptConnection() of the server.
connect ==
  /\ sockets[Client] = <<>> /\ made < MaxConnections
  /\ made' = made + 1
  /\ sockets' = [e \in End |->
       Append(sockets[e], [conn |-> made + 1, dirId |-> nextDir[e]])]
  /\ nextDir' = [e \in End |-> nextDir[e] + 1]
  /\ UNCHANGED <<callVars, wire, reading, failed, history>>

\* Process e is killed and started again.
die(e) ==
  /\ made < MaxConnections
  /\ th' = [th EXCEPT ![e] = [c \in Thread |-> Idle]]
  /\ mutex' = [mutex EXCEPT ![e] = None]
  /\ container' = [container EXCEPT ![e] = {}]
  /\ signalled' = [signalled EXCEPT ![e] = {}]
  /\ mMsgId' = [mMsgId EXCEPT ![e] = 0]
  /\ sockets' = [sockets EXCEPT ![e] = <<>>]
  /\ nextDir' = [nextDir EXCEPT ![e] = FirstDir[e]]
  /\ wire' = [wire EXCEPT ![e] = [k \in Connection |-> <<>>]]
  /\ reading' = [reading EXCEPT ![e] = None]
  /\ failed' = [failed EXCEPT ![e] = {}]
  /\ answer' = [answer EXCEPT ![e] = [c \in Thread |-> None]]
  /\ UNCHANGED <<made, serial, expired>>

-----------------------------------------------------------------------------
(* request() and asyncRequest(). *)

\* getNext() and the checks on entry.
request(e, c) ==
  /\ th[e][c].at = "idle"
  /\ serial[e] < MaxCalls[e]
  /\ sockets[e] # <<>>
  /\ serial' = [serial EXCEPT ![e] = @ + 1]
  /\ mMsgId' = [mMsgId EXCEPT ![e] = @ + 1]
  /\ answer' = [answer EXCEPT ![e][c] = None]
  /\ \E kind \in {"REQUEST", "TRIGGER"},
        to \in {None} \cup {s.dirId : s \in ToSet(sockets[e])} :
       th' = [th EXCEPT ![e][c] =
                [at |-> "lock", kind |-> kind, id |-> mMsgId[e] + 1, to |-> to,
                 n |-> serial[e] + 1]]
  /\ UNCHANGED <<mutex, container, signalled, socketVars, expired>>

\* Slips: a NULL direction is stored as it is; the given one is ignored.
insert_Null(e, c) ==
  container[e] \cup {[id |-> th[e][c].id, by |-> c, response |-> None, mDirID |-> th[e][c].to]}
insert_First(e, c) ==
  container[e] \cup {[id |-> th[e][c].id, by |-> c, response |-> None, mDirID |-> 1]}

insert(e, c) ==
  container[e] \cup {[id |-> th[e][c].id, by |-> c, response |-> None,
                      mDirID |-> IF th[e][c].to = None THEN 1 ELSE th[e][c].to]}

\* mRequestMutex is taken; a request is entered in the container.
lockRequest(e, c) ==
  /\ th[e][c].at = "lock" /\ mutex[e] = None
  /\ mutex' = [mutex EXCEPT ![e] = c]
  /\ IF th[e][c].kind = "REQUEST"
     THEN /\ container' = [container EXCEPT ![e] = insert(e, c)]
          /\ signalled' = [signalled EXCEPT ![e] = @ \ {c}]
     ELSE UNCHANGED <<container, signalled>>
  /\ th' = [th EXCEPT ![e][c].at = "send"]
  /\ UNCHANGED <<mMsgId, socketVars, history>>

requestTimeout(e, c) ==
  /\ th[e][c].at = "lock" /\ mutex[e] # None
  /\ th' = [th EXCEPT ![e][c] = Idle]
  /\ expired' = TRUE
  /\ UNCHANGED <<mutex, container, signalled, mMsgId, socketVars, serial, answer>>

\* Slip: a request that fails stays.
erase_OnSuccess(e, c) ==
  container[e] \ {r \in entryOf(e, th[e][c].id) : r.response # None}

erase(e, c) == container[e] \ entryOf(e, th[e][c].id)

\* The end of a call: erase, unlock, return.
Return(e, c) ==
  /\ container' = [container EXCEPT ![e] = erase(e, c)]
  /\ mutex' = [mutex EXCEPT ![e] = None]
  /\ th' = [th EXCEPT ![e][c] = Idle]

\* findClientSocket, and what send() can reach: not the socket of a process
\* that is gone.
findClientSocket(e, to) ==
  IF to # None THEN {s.conn : s \in {x \in ToSet(sockets[e]) : x.dirId = to}}
  ELSE IF sockets[e] # <<>> THEN {Head(sockets[e]).conn} ELSE {}

Reaches(e, to) == {k \in findClientSocket(e, to) : IsOpen(Other(e), k)}

Sent(e, k, m) == [wire EXCEPT ![Other(e)][k] = Append(@, m)]

send(e, c) ==
  LET call == th[e][c]
      m == [type |-> call.kind, id |-> call.id, n |-> call.n]
  IN /\ call.at = "send"
     /\ \/ \E k \in Reaches(e, call.to) :
             /\ wire' = Sent(e, k, m)
             /\ \/ /\ call.kind = "REQUEST"
                   /\ th' = [th EXCEPT ![e][c].at = "wait"]
                   /\ UNCHANGED <<mutex, container>>
                \/ call.kind = "TRIGGER" /\ Return(e, c)
             /\ UNCHANGED failed
        \/ /\ Reaches(e, call.to) = {}
           /\ Return(e, c)
           /\ failed' = [failed EXCEPT ![e] = @ \cup findClientSocket(e, call.to)]
           /\ UNCHANGED wire
     /\ UNCHANGED <<signalled, mMsgId, sockets, nextDir, reading, made, history>>

\* Woken: the response is in the entry, or the entry is gone.
responseArrived(e, c) ==
  /\ th[e][c].at = "wait" /\ c \in signalled[e]
  /\ answer' = [answer EXCEPT ![e][c] =
       IF entryOf(e, th[e][c].id) = {} THEN None
       ELSE [to |-> th[e][c].n,
             n |-> (CHOOSE r \in entryOf(e, th[e][c].id) : TRUE).response]]
  /\ Return(e, c)
  /\ UNCHANGED <<signalled, mMsgId, socketVars, serial, expired>>

responseTimeout(e, c) ==
  /\ th[e][c].at = "wait" /\ c \notin signalled[e]
  /\ Return(e, c)
  /\ expired' = TRUE
  /\ UNCHANGED <<signalled, mMsgId, socketVars, serial, answer>>

-----------------------------------------------------------------------------
(* The receiving thread: CIpcSocket::threadFunc. *)

Eof(e, k) == wire[e][k] = <<>> /\ ~IsOpen(Other(e), k)
Readable(e, k) == wire[e][k] # <<>> \/ Eof(e, k)

\* select: the first socket in mSockets that has something.
IsFirstReadable(e, i) ==
  /\ i \in DOMAIN sockets[e] /\ Readable(e, sockets[e][i].conn)
  /\ \A j \in 1..i-1 : ~Readable(e, sockets[e][j].conn)

\* A response is for an entry that is there when its header is read, and is
\* still there when its data is.
consumeHeader(e) ==
  /\ reading[e] = None /\ failed[e] = {}
  /\ \E i \in DOMAIN sockets[e] :
       LET k == sockets[e][i].conn
       IN /\ IsFirstReadable(e, i) /\ wire[e][k] # <<>>
          /\ reading' = [reading EXCEPT ![e] =
               [conn |-> k, m |-> Head(wire[e][k]),
                known |-> entryOf(e, Head(wire[e][k]).id) # {}]]
          /\ wire' = [wire EXCEPT ![e][k] = Tail(@)]
  /\ UNCHANGED <<callVars, sockets, nextDir, failed, made, history>>

consumeResponseData(e) ==
  /\ failed[e] = {}
  /\ reading[e] # None /\ reading[e].m.type = "RESPONSE"
  /\ LET found == IF reading[e].known THEN entryOf(e, reading[e].m.id) ELSE {}
     IN /\ container' = [container EXCEPT ![e] =
             (@ \ found) \cup {[r EXCEPT !.response = reading[e].m.n] : r \in found}]
        /\ signalled' = [signalled EXCEPT ![e] = @ \cup {r.by : r \in found}]
  /\ reading' = [reading EXCEPT ![e] = None]
  /\ UNCHANGED <<th, mutex, mMsgId, sockets, nextDir, wire, failed, made, history>>

\* incomingRequest and incomingAsyncRequest: a request is answered, if there
\* is still somebody to send the response to.
incomingRequest(e) ==
  /\ failed[e] = {}
  /\ reading[e] # None /\ reading[e].m.type \in {"REQUEST", "TRIGGER"}
  /\ wire' = IF reading[e].m.type = "REQUEST" /\ IsOpen(Other(e), reading[e].conn)
             THEN Sent(e, reading[e].conn, [reading[e].m EXCEPT !.type = "RESPONSE"])
             ELSE wire
  /\ reading' = [reading EXCEPT ![e] = None]
  /\ UNCHANGED <<callVars, sockets, nextDir, failed, made, history>>

\* closeClientSocket, with what is unread: OnConnectionLost and
\* invalidateRequestsForDirection.
closeClientSocket(e, i) ==
  LET s == sockets[e][i]
      hit == {r \in container[e] : r.mDirID = s.dirId}
  IN /\ sockets' = [sockets EXCEPT ![e] = RemoveAt(@, i)]
     /\ container' = [container EXCEPT ![e] = @ \ hit]
     /\ signalled' = [signalled EXCEPT ![e] = @ \cup {r.by : r \in hit}]
     /\ wire' = [wire EXCEPT ![e][s.conn] = <<>>]
     /\ failed' = [failed EXCEPT ![e] = @ \ {s.conn}]
     /\ UNCHANGED <<th, mutex, mMsgId, nextDir, made, history>>

\* The end of the peer's data, between two messages.
receiveNothing(e) ==
  /\ reading[e] = None /\ failed[e] = {}
  /\ \E i \in DOMAIN sockets[e] :
       /\ IsFirstReadable(e, i) /\ Eof(e, sockets[e][i].conn)
       /\ closeClientSocket(e, i)
  /\ UNCHANGED reading

\* SPS_CLI_DIR_CLOSED, which is looked at before the sockets.
closeFailedSocket(e) ==
  \E i \in DOMAIN sockets[e] :
    /\ sockets[e][i].conn \in failed[e]
    /\ closeClientSocket(e, i)
    /\ reading' = [reading EXCEPT ![e] =
         IF @ # None /\ @.conn = sockets[e][i].conn THEN None ELSE @]

-----------------------------------------------------------------------------
Receive(e) ==
  consumeHeader(e) \/ consumeResponseData(e) \/ incomingRequest(e)
  \/ receiveNothing(e) \/ closeFailedSocket(e)

Proceed(e, c) == lockRequest(e, c) \/ send(e, c) \/ responseArrived(e, c)

TimeOut(e, c) == requestTimeout(e, c) \/ responseTimeout(e, c)

Next ==
  \/ connect
  \/ \E e \in End :
       \/ die(e) \/ Receive(e)
       \/ \E c \in Thread : request(e, c) \/ Proceed(e, c) \/ TimeOut(e, c)

\* The threads run; nobody has to call anything, and nothing to time out.
Fairness ==
  \A e \in End :
    /\ WF_vars(Receive(e))
    /\ \A c \in Thread : WF_vars(Proceed(e, c))

Spec == Init /\ [][Next]_vars /\ Fairness

-----------------------------------------------------------------------------
(* Properties. *)

\* The threads, the container, the sockets and the messages keep their types.
TypeOK ==
  /\ th \in [End -> [Thread -> Call]]
  /\ answer \in [End -> [Thread -> [to : Nat, n : Nat] \cup {None}]]
  /\ mutex \in [End -> Thread \cup {None}]
  /\ container \in [End -> SUBSET RequestData]
  /\ signalled \in [End -> SUBSET Thread]
  /\ sockets \in [End -> Seq(CSockInfo)]
  /\ wire \in [End -> [Connection -> Seq(Message)]]
  /\ reading \in
       [End -> [conn : Connection, m : Message, known : BOOLEAN] \cup {None}]
  /\ failed \in [End -> SUBSET Connection]
  /\ mMsgId \in [End -> Nat] /\ nextDir \in [End -> Nat] /\ made \in Nat
  /\ serial \in [End -> Nat]

\* A call that succeeds has the response to its own request: not the late one
\* to a call that timed out, of the same or of another thread, nor one to a
\* call of the process that ran here before and numbered its messages alike.
OwnResponse ==
  \A e \in End, c \in Thread : answer[e][c] # None => answer[e][c].n = answer[e][c].to

\* The receiving thread writes into the buffers in the container: they are
\* those of the one call that is in progress, which holds mRequestMutex.
OnlyCallersBuffer ==
  \A e \in End : \A r \in container[e] :
    /\ mutex[e] = r.by
    /\ th[e][r.by].at \in {"send", "wait"} /\ th[e][r.by].id = r.id

\* As long as the requests made in a process name their direction, each call
\* gets its turn and is answered, or fails because the connection is lost:
\* nobody has to wait for a timeout.
Directed(e) ==
  \A c \in Thread : th[e][c].at # "idle" /\ th[e][c].kind = "REQUEST" => th[e][c].to # None
DirectedCallsEnd ==
  \A e \in End, c \in Thread :
    [](~expired /\ Directed(e)) => (th[e][c].at # "idle" ~> th[e][c].at = "idle")

=============================================================================
