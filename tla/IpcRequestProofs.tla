-------------------------- MODULE IpcRequestProofs --------------------------
(***************************************************************************)
(* For any number of threads, calls, connections and restarts: the         *)
(* receiving thread of a process never writes into the response buffer of  *)
(* a call that has returned, and a call that succeeds has the response to  *)
(* its own request.                                                        *)
(***************************************************************************)
EXTENDS IpcRequest, SequenceTheorems, TLAPS

\* mRequestMutex is held by the thread that sends or waits.
HolderInv ==
  \A e \in End, c \in Thread : th[e][c].at \in {"send", "wait"} <=> mutex[e] = c

\* One request is pending at a time.
SinglePending == \A e \in End : \A r, q \in container[e] : r = q

\* A caller is woken with its response, or after its entry has been removed.
WokenHasResponse ==
  \A e \in End : \A r \in container[e] : r.by \in signalled[e] => r.response \in Nat

IInv == TypeOK /\ HolderInv /\ OnlyCallersBuffer /\ SinglePending /\ WokenHasResponse

-----------------------------------------------------------------------------
(* What the operators return. *)

LEMMA EndFacts ==
  /\ \A e \in End : Other(e) \in End /\ Other(e) # e
  BY EndsDiffer DEF End, Other

LEMMA IdleIsCall == Idle \in Call
  BY DEF Idle, Call

LEMMA RemoveAtType ==
  ASSUME NEW S, NEW s \in Seq(S), NEW i \in DOMAIN s
  PROVE RemoveAt(s, i) \in Seq(S)
  <1>1. i \in 1..Len(s) /\ Len(s) \in Nat
    OBVIOUS
  <1>2. SubSeq(s, 1, i-1) \in Seq(S) /\ SubSeq(s, i+1, Len(s)) \in Seq(S)
    BY <1>1
  <1>3. QED BY <1>2 DEF RemoveAt

LEMMA SentType ==
  ASSUME TypeOK, NEW e \in End, NEW k \in Connection, NEW m \in Message
  PROVE Sent(e, k, m) \in [End -> [Connection -> Seq(Message)]]
  <1>1. wire[Other(e)][k] \in Seq(Message)
    BY EndFacts DEF TypeOK
  <1>2. Append(wire[Other(e)][k], m) \in Seq(Message)
    BY <1>1
  <1>3. QED BY <1>2, EndFacts DEF TypeOK, Sent

LEMMA SocketFacts ==
  ASSUME TypeOK, NEW e \in End
  PROVE /\ sockets[e] \in Seq(CSockInfo)
        /\ \A i \in DOMAIN sockets[e] : /\ sockets[e][i] \in CSockInfo
                                       /\ sockets[e][i].conn \in Connection
                                       /\ sockets[e][i].dirId \in Nat
        /\ \A s \in ToSet(sockets[e]) : s.conn \in Connection /\ s.dirId \in Nat
        /\ sockets[e] # <<>> => Head(sockets[e]).conn \in Connection
  <1>1. sockets[e] \in Seq(CSockInfo)
    BY DEF TypeOK
  <1>2. \A i \in DOMAIN sockets[e] : sockets[e][i] \in CSockInfo
    BY <1>1
  <1>3. \A s \in CSockInfo : s.conn \in Connection /\ s.dirId \in Nat
    BY DEF CSockInfo
  <1>4. \A s \in ToSet(sockets[e]) : s \in CSockInfo
    BY <1>2 DEF ToSet
  <1>5. sockets[e] # <<>> => Head(sockets[e]) \in CSockInfo
    BY <1>1
  <1>6. QED BY <1>1, <1>2, <1>3, <1>4, <1>5

LEMMA FindsConnections ==
  ASSUME TypeOK, NEW e \in End, NEW to
  PROVE findClientSocket(e, to) \subseteq Connection
  BY SocketFacts DEF findClientSocket

-----------------------------------------------------------------------------
(* The calls. *)

\* Return leaves no entry of the call: it is the only one, as only the holder
\* of the mutex has entries.
LEMMA ReturnPreserves ==
  ASSUME IInv, NEW e \in End, NEW c \in Thread,
         th[e][c].at \in {"send", "wait"}, Return(e, c),
         UNCHANGED signalled
  PROVE /\ th' \in [End -> [Thread -> Call]]
        /\ mutex' \in [End -> Thread \cup {None}]
        /\ container' \in [End -> SUBSET RequestData]
        /\ HolderInv' /\ OnlyCallersBuffer' /\ SinglePending' /\ WokenHasResponse'
  <1>1. mutex[e] = c
    BY DEF IInv, HolderInv
  <1>2. container'[e] = {} /\ \A x \in End : x # e => container'[x] = container[x]
    BY <1>1 DEF IInv, TypeOK, OnlyCallersBuffer, Return, erase, entryOf
  <1>3. /\ th' \in [End -> [Thread -> Call]]
        /\ mutex' \in [End -> Thread \cup {None}]
        /\ container' \in [End -> SUBSET RequestData]
    BY <1>2, IdleIsCall DEF IInv, TypeOK, Return
  <1>4. /\ mutex'[e] = None
        /\ \A x \in End : x # e => mutex'[x] = mutex[x] /\ th'[x] = th[x]
        /\ \A d \in Thread : th'[e][d] = IF d = c THEN Idle ELSE th[e][d]
    BY DEF IInv, TypeOK, Return
  <1>5. HolderInv'
    BY <1>1, <1>4, NoneIsNew DEF IInv, HolderInv, Idle
  <1>6. OnlyCallersBuffer' /\ SinglePending' /\ WokenHasResponse'
    BY <1>2, <1>4 DEF IInv, OnlyCallersBuffer, SinglePending, WokenHasResponse
  <1>7. QED BY <1>3, <1>5, <1>6

LEMMA RequestPreserves ==
  ASSUME IInv, NEW e \in End, NEW c \in Thread, request(e, c)
  PROVE IInv'
  <1> USE DEF IInv
  <1>1. PICK kind \in {"REQUEST", "TRIGGER"},
             to \in {None} \cup {s.dirId : s \in ToSet(sockets[e])} :
          th' = [th EXCEPT ![e][c] =
                   [at |-> "lock", kind |-> kind, id |-> mMsgId[e] + 1, to |-> to,
                    n |-> serial[e] + 1]]
    BY DEF request
  <1>2. to \in Nat \cup {None}
    <2>1. \A s \in ToSet(sockets[e]) : s.dirId \in Nat
      BY SocketFacts
    <2>2. QED BY <2>1
  <1>3. TypeOK'
    <2>1. mMsgId[e] + 1 \in Nat /\ serial[e] + 1 \in Nat
      BY DEF TypeOK
    <2>2. th' \in [End -> [Thread -> Call]]
      BY <1>1, <1>2, <2>1 DEF TypeOK, Call
    <2>3. answer' \in [End -> [Thread -> [to : Nat, n : Nat] \cup {None}]]
      BY DEF TypeOK, request
    <2>4. mMsgId' \in [End -> Nat] /\ serial' \in [End -> Nat]
      BY <2>1 DEF TypeOK, request
    <2>5. QED BY <2>2, <2>3, <2>4 DEF TypeOK, request, socketVars
  <1>4. \A x \in End, d \in Thread :
          th'[x][d].at \in {"send", "wait"} <=> th[x][d].at \in {"send", "wait"}
    BY <1>1 DEF TypeOK, request
  <1>5. \A x \in End, d \in Thread :
          th[x][d].at \in {"send", "wait"} => th'[x][d] = th[x][d]
    BY <1>1 DEF TypeOK, request
  <1>6. HolderInv'
    BY <1>4 DEF HolderInv, request
  <1>7. OnlyCallersBuffer'
    BY <1>5 DEF OnlyCallersBuffer, request, TypeOK, RequestData
  <1>8. SinglePending' /\ WokenHasResponse'
    BY DEF SinglePending, WokenHasResponse, request
  <1>9. QED BY <1>3, <1>6, <1>7, <1>8

LEMMA LockPreserves ==
  ASSUME IInv, NEW e \in End, NEW c \in Thread, lockRequest(e, c)
  PROVE IInv'
  <1> USE DEF IInv
  <1>1. container[e] = {}
    BY NoneIsNew DEF lockRequest, OnlyCallersBuffer, TypeOK, RequestData
  <1>2. th[e][c] \in Call
    BY DEF TypeOK
  <1>3. /\ \A x \in End : x # e => container'[x] = container[x]
        /\ \A r \in container'[e] :
             r = [id |-> th[e][c].id, by |-> c, response |-> None,
                  mDirID |-> IF th[e][c].to = None THEN 1 ELSE th[e][c].to]
    BY <1>1 DEF lockRequest, insert, TypeOK
  <1>4. /\ \A x \in End : x # e => th'[x] = th[x] /\ mutex'[x] = mutex[x]
        /\ mutex'[e] = c
        /\ \A d \in Thread : d # c => th'[e][d] = th[e][d]
        /\ th'[e][c] = [th[e][c] EXCEPT !.at = "send"]
    BY DEF lockRequest, TypeOK
  <1>5. th'[e][c] \in Call /\ th'[e][c].at = "send" /\ th'[e][c].id = th[e][c].id
    BY <1>2, <1>4 DEF Call
  <1>6. TypeOK'
    <2>1. th' \in [End -> [Thread -> Call]]
      BY <1>2 DEF TypeOK, lockRequest, Call
    <2>2. mutex' \in [End -> Thread \cup {None}]
      BY DEF TypeOK, lockRequest
    <2>3. \A r \in container'[e] : r \in RequestData
      BY <1>2, <1>3 DEF Call, RequestData
    <2>4. container' \in [End -> SUBSET RequestData]
      <3>1. DOMAIN container' = End /\ container' = [x \in End |-> container'[x]]
        BY DEF TypeOK, lockRequest
      <3>2. QED BY <1>3, <2>3, <3>1 DEF TypeOK
    <2>5. signalled' \in [End -> SUBSET Thread]
      <3>1. signalled[e] \ {c} \in SUBSET Thread
        BY DEF TypeOK
      <3>2. UNCHANGED signalled \/ signalled' = [signalled EXCEPT ![e] = @ \ {c}]
        BY DEF lockRequest
      <3>3. QED BY <3>1, <3>2 DEF TypeOK
    <2>6. QED BY <2>1, <2>2, <2>4, <2>5 DEF TypeOK, lockRequest, socketVars, history
  <1>7. HolderInv'
    BY <1>4, <1>5, NoneIsNew DEF HolderInv, lockRequest
  <1>8. OnlyCallersBuffer'
    <2>1. ASSUME NEW x \in End, x # e, NEW r \in container'[x]
          PROVE mutex'[x] = r.by /\ th'[x][r.by].at \in {"send", "wait"}
                                 /\ th'[x][r.by].id = r.id
      BY <1>3, <1>4, <2>1 DEF OnlyCallersBuffer
    <2>2. ASSUME NEW r \in container'[e]
          PROVE mutex'[e] = r.by /\ th'[e][r.by].at \in {"send", "wait"}
                                 /\ th'[e][r.by].id = r.id
      <3>1. r.by = c /\ r.id = th[e][c].id
        BY <1>3
      <3>2. QED BY <1>4, <1>5, <3>1
    <2>3. QED BY <2>1, <2>2 DEF OnlyCallersBuffer
  <1>9. SinglePending'
    BY <1>3 DEF SinglePending
  <1>10. WokenHasResponse'
    <2>1. th[e][c].kind = "REQUEST" => signalled'[e] = signalled[e] \ {c}
      BY DEF lockRequest, TypeOK
    <2>2. th[e][c].kind # "REQUEST" => container'[e] = {}
      BY <1>1 DEF lockRequest
    <2>3. \A x \in End : x # e => signalled'[x] = signalled[x]
      BY DEF lockRequest, TypeOK
    <2>4. QED BY <1>3, <2>1, <2>2, <2>3 DEF WokenHasResponse
  <1>11. QED BY <1>6, <1>7, <1>8, <1>9, <1>10

LEMMA RequestTimeoutPreserves ==
  ASSUME IInv, NEW e \in End, NEW c \in Thread, requestTimeout(e, c)
  PROVE IInv'
  <1> USE DEF IInv
  <1>1. TypeOK'
    BY IdleIsCall DEF TypeOK, requestTimeout, socketVars
  <1>2. \A x \in End, d \in Thread :
          /\ th'[x][d].at \in {"send", "wait"} <=> th[x][d].at \in {"send", "wait"}
          /\ th[x][d].at \in {"send", "wait"} => th'[x][d] = th[x][d]
    BY DEF TypeOK, requestTimeout, Idle
  <1>3. HolderInv'
    BY <1>2 DEF HolderInv, requestTimeout
  <1>4. OnlyCallersBuffer'
    BY <1>2 DEF OnlyCallersBuffer, requestTimeout, TypeOK, RequestData
  <1>5. SinglePending' /\ WokenHasResponse'
    BY DEF SinglePending, WokenHasResponse, requestTimeout
  <1>6. QED BY <1>1, <1>3, <1>4, <1>5

LEMMA SendPreserves ==
  ASSUME IInv, NEW e \in End, NEW c \in Thread, send(e, c)
  PROVE IInv'
  <1> DEFINE call == th[e][c]
             m == [type |-> call.kind, id |-> call.id, n |-> call.n]
  <1>1. call \in Call /\ call.at = "send" /\ m \in Message
    BY DEF IInv, TypeOK, send, Call, Message
  <1>2. Reaches(e, call.to) \subseteq Connection
        /\ findClientSocket(e, call.to) \subseteq Connection
    BY FindsConnections DEF IInv, Reaches
  <1>3. wire' \in [End -> [Connection -> Seq(Message)]]
    <2>1. CASE UNCHANGED wire
      BY <2>1 DEF IInv, TypeOK
    <2>2. CASE \E k \in Reaches(e, call.to) : wire' = Sent(e, k, m)
      BY <1>1, <1>2, <2>2, SentType DEF IInv
    <2>3. QED BY <2>1, <2>2 DEF send
  <1>4. failed' \in [End -> SUBSET Connection]
    <2>1. \/ UNCHANGED failed
          \/ failed' = [failed EXCEPT ![e] = @ \cup findClientSocket(e, call.to)]
      BY DEF send
    <2>2. failed[e] \cup findClientSocket(e, call.to) \in SUBSET Connection
      BY <1>2 DEF IInv, TypeOK
    <2>3. QED BY <2>1, <2>2 DEF IInv, TypeOK
  <1>5. CASE Return(e, c)
    <2>1. UNCHANGED signalled
      BY DEF send
    <2>2. /\ th' \in [End -> [Thread -> Call]]
          /\ mutex' \in [End -> Thread \cup {None}]
          /\ container' \in [End -> SUBSET RequestData]
          /\ HolderInv' /\ OnlyCallersBuffer' /\ SinglePending' /\ WokenHasResponse'
      BY <1>1, <1>5, <2>1, ReturnPreserves
    <2>3. TypeOK'
      BY <1>3, <1>4, <2>2 DEF IInv, TypeOK, send, history
    <2>4. QED BY <2>2, <2>3 DEF IInv
  <1>6. CASE th' = [th EXCEPT ![e][c].at = "wait"] /\ UNCHANGED <<mutex, container>>
    <2>1. th' \in [End -> [Thread -> Call]]
      BY <1>1, <1>6 DEF IInv, TypeOK, Call
    <2>2. TypeOK'
      BY <1>3, <1>4, <1>6, <2>1 DEF IInv, TypeOK, send, history
    <2>3. \A x \in End, d \in Thread :
            /\ th'[x][d].at \in {"send", "wait"} <=> th[x][d].at \in {"send", "wait"}
            /\ th'[x][d].id = th[x][d].id
      BY <1>1, <1>6 DEF IInv, TypeOK, Call
    <2>4. HolderInv'
      BY <1>6, <2>3 DEF IInv, HolderInv
    <2>5. OnlyCallersBuffer'
      BY <1>6, <2>3 DEF IInv, OnlyCallersBuffer, TypeOK, RequestData
    <2>6. SinglePending' /\ WokenHasResponse'
      BY <1>6 DEF IInv, SinglePending, WokenHasResponse, send
    <2>7. QED BY <2>2, <2>4, <2>5, <2>6 DEF IInv
  <1>7. QED BY <1>5, <1>6 DEF send

LEMMA ResponseTimeoutPreserves ==
  ASSUME IInv, NEW e \in End, NEW c \in Thread, responseTimeout(e, c)
  PROVE IInv'
  <1>1. UNCHANGED signalled /\ Return(e, c) /\ th[e][c].at \in {"send", "wait"}
    BY DEF responseTimeout
  <1>2. /\ th' \in [End -> [Thread -> Call]]
        /\ mutex' \in [End -> Thread \cup {None}]
        /\ container' \in [End -> SUBSET RequestData]
        /\ HolderInv' /\ OnlyCallersBuffer' /\ SinglePending' /\ WokenHasResponse'
    BY <1>1, ReturnPreserves
  <1>3. TypeOK'
    BY <1>2 DEF IInv, TypeOK, responseTimeout, socketVars
  <1>4. QED BY <1>2, <1>3 DEF IInv

LEMMA ResponseArrivedPreserves ==
  ASSUME IInv, NEW e \in End, NEW c \in Thread, responseArrived(e, c)
  PROVE IInv'
  <1> DEFINE entries == entryOf(e, th[e][c].id)
             got == IF entries = {} THEN None
                    ELSE [to |-> th[e][c].n, n |-> (CHOOSE r \in entries : TRUE).response]
  <1>1. UNCHANGED signalled /\ Return(e, c) /\ th[e][c].at \in {"send", "wait"}
        /\ c \in signalled[e]
    BY DEF responseArrived
  <1>2. /\ th' \in [End -> [Thread -> Call]]
        /\ mutex' \in [End -> Thread \cup {None}]
        /\ container' \in [End -> SUBSET RequestData]
        /\ HolderInv' /\ OnlyCallersBuffer' /\ SinglePending' /\ WokenHasResponse'
    BY <1>1, ReturnPreserves
  <1>3. got \in [to : Nat, n : Nat] \cup {None}
    <2>1. th[e][c].n \in Nat
      BY DEF IInv, TypeOK, Call
    <2>2. mutex[e] = c
      BY <1>1 DEF IInv, HolderInv
    <2>3. \A r \in entries : r.response \in Nat
      BY <1>1, <2>2 DEF IInv, OnlyCallersBuffer, WokenHasResponse, entryOf
    <2>4. entries # {} => (CHOOSE r \in entries : TRUE) \in entries
      OBVIOUS
    <2>5. QED BY <2>1, <2>3, <2>4
  <1>4. answer' = [answer EXCEPT ![e][c] = got]
    BY DEF responseArrived
  <1>5. answer' \in [End -> [Thread -> [to : Nat, n : Nat] \cup {None}]]
    BY <1>3, <1>4 DEF IInv, TypeOK
  <1>6. TypeOK'
    BY <1>2, <1>5 DEF IInv, TypeOK, responseArrived, socketVars
  <1>7. QED BY <1>2, <1>6 DEF IInv

-----------------------------------------------------------------------------
(* Connections and the receiving thread. *)

LEMMA DiePreserves ==
  ASSUME IInv, NEW e \in End, die(e)
  PROVE IInv'
  <1>1. th' \in [End -> [Thread -> Call]]
        /\ answer' \in [End -> [Thread -> [to : Nat, n : Nat] \cup {None}]]
    BY IdleIsCall DEF IInv, TypeOK, die
  <1>2. mutex' \in [End -> Thread \cup {None}] /\ container' \in [End -> SUBSET RequestData]
        /\ signalled' \in [End -> SUBSET Thread]
    BY DEF IInv, TypeOK, die
  <1>3. sockets' \in [End -> Seq(CSockInfo)] /\ failed' \in [End -> SUBSET Connection]
    BY DEF IInv, TypeOK, die
  <1>4. mMsgId' \in [End -> Nat] /\ nextDir' \in [End -> Nat]
    BY FirstDirIsPositive DEF IInv, TypeOK, die
  <1>5. wire' \in [End -> [Connection -> Seq(Message)]]
    <2>1. [k \in Connection |-> <<>>] \in [Connection -> Seq(Message)]
      OBVIOUS
    <2>2. QED BY <2>1 DEF IInv, TypeOK, die
  <1>6. reading' \in
          [End -> [conn : Connection, m : Message, known : BOOLEAN] \cup {None}]
    BY DEF IInv, TypeOK, die
  <1>7. TypeOK'
    BY <1>1, <1>2, <1>3, <1>4, <1>5, <1>6 DEF IInv, TypeOK, die
  <1>8. /\ container'[e] = {} /\ mutex'[e] = None
        /\ \A c \in Thread : th'[e][c] = Idle
        /\ \A x \in End : x # e =>
             /\ container'[x] = container[x] /\ mutex'[x] = mutex[x]
             /\ th'[x] = th[x] /\ signalled'[x] = signalled[x]
    BY DEF IInv, TypeOK, die
  <1>9. HolderInv'
    BY <1>8, NoneIsNew DEF IInv, HolderInv, Idle
  <1>10. OnlyCallersBuffer' /\ SinglePending' /\ WokenHasResponse'
    BY <1>8 DEF IInv, OnlyCallersBuffer, SinglePending, WokenHasResponse
  <1>11. QED BY <1>7, <1>9, <1>10 DEF IInv

\* A step that leaves calls, mutex and container alone has only types to keep.
LEMMA CallsUntouched ==
  ASSUME IInv, TypeOK', UNCHANGED callVars
  PROVE IInv'
  BY DEF IInv, callVars, HolderInv, OnlyCallersBuffer, SinglePending, WokenHasResponse

LEMMA ConnectPreserves ==
  ASSUME IInv, connect
  PROVE IInv'
  <1>1. made + 1 \in Connection /\ made' \in Nat
    BY BoundsAreNat DEF IInv, TypeOK, connect, Connection
  <1>2. \A e \in End : [conn |-> made + 1, dirId |-> nextDir[e]] \in CSockInfo
    BY <1>1 DEF IInv, TypeOK, CSockInfo
  <1>3. sockets' \in [End -> Seq(CSockInfo)]
    <2>1. \A e \in End :
            Append(sockets[e], [conn |-> made + 1, dirId |-> nextDir[e]]) \in Seq(CSockInfo)
      BY <1>2 DEF IInv, TypeOK
    <2>2. QED BY <2>1 DEF connect
  <1>4. nextDir' \in [End -> Nat]
    BY DEF IInv, TypeOK, connect
  <1>5. TypeOK'
    BY <1>1, <1>3, <1>4 DEF IInv, TypeOK, connect, callVars, history
  <1>6. QED BY <1>5, CallsUntouched DEF connect

LEMMA ConsumeHeaderPreserves ==
  ASSUME IInv, NEW e \in End, consumeHeader(e)
  PROVE IInv'
  <1>1. PICK i \in DOMAIN sockets[e] :
          /\ wire[e][sockets[e][i].conn] # <<>>
          /\ reading' = [reading EXCEPT ![e] =
               [conn |-> sockets[e][i].conn, m |-> Head(wire[e][sockets[e][i].conn]),
                known |-> entryOf(e, Head(wire[e][sockets[e][i].conn]).id) # {}]]
          /\ wire' = [wire EXCEPT ![e][sockets[e][i].conn] = Tail(@)]
    BY DEF consumeHeader
  <1> DEFINE k == sockets[e][i].conn
  <1>2. k \in Connection
    BY SocketFacts DEF IInv
  <1>3. wire[e][k] \in Seq(Message)
    BY <1>2 DEF IInv, TypeOK
  <1>4. Head(wire[e][k]) \in Message /\ Tail(wire[e][k]) \in Seq(Message)
    BY <1>1, <1>3
  <1>5. wire' \in [End -> [Connection -> Seq(Message)]]
    BY <1>1, <1>4 DEF IInv, TypeOK
  <1>6. reading' \in
          [End -> [conn : Connection, m : Message, known : BOOLEAN] \cup {None}]
    BY <1>1, <1>2, <1>4 DEF IInv, TypeOK
  <1>7. TypeOK'
    BY <1>5, <1>6 DEF IInv, TypeOK, consumeHeader, callVars, history
  <1>8. QED BY <1>7, CallsUntouched DEF consumeHeader

LEMMA IncomingRequestPreserves ==
  ASSUME IInv, NEW e \in End, incomingRequest(e)
  PROVE IInv'
  <1>1. reading[e].conn \in Connection /\ reading[e].m \in Message
    BY DEF IInv, TypeOK, incomingRequest
  <1>2. [reading[e].m EXCEPT !.type = "RESPONSE"] \in Message
    BY <1>1 DEF Message
  <1>3. wire' \in [End -> [Connection -> Seq(Message)]]
    <2>1. Sent(e, reading[e].conn, [reading[e].m EXCEPT !.type = "RESPONSE"])
            \in [End -> [Connection -> Seq(Message)]]
      BY <1>1, <1>2, SentType DEF IInv
    <2>2. QED BY <2>1 DEF IInv, TypeOK, incomingRequest
  <1>4. reading' \in
          [End -> [conn : Connection, m : Message, known : BOOLEAN] \cup {None}]
    BY DEF IInv, TypeOK, incomingRequest
  <1>5. TypeOK'
    BY <1>3, <1>4 DEF IInv, TypeOK, incomingRequest, callVars, history
  <1>6. QED BY <1>5, CallsUntouched DEF incomingRequest

LEMMA ConsumeResponsePreserves ==
  ASSUME IInv, NEW e \in End, consumeResponseData(e)
  PROVE IInv'
  <1> DEFINE found == IF reading[e].known THEN entryOf(e, reading[e].m.id) ELSE {}
             n == reading[e].m.n
             answered == {[r EXCEPT !.response = n] : r \in found}
             woken == {r.by : r \in found}
  <1>1. n \in Nat
    BY DEF IInv, TypeOK, consumeResponseData, Message
  <1>2. found \subseteq container[e] /\ container[e] \subseteq RequestData
    BY DEF IInv, TypeOK, entryOf
  <1>3. \A r \in found : /\ [r EXCEPT !.response = n] \in RequestData
                         /\ [r EXCEPT !.response = n].response = n
                         /\ [r EXCEPT !.response = n].by = r.by
                         /\ [r EXCEPT !.response = n].id = r.id
                         /\ r.by \in Thread
    BY <1>1, <1>2 DEF RequestData
  <1>4. /\ container' = [container EXCEPT ![e] = (container[e] \ found) \cup answered]
        /\ signalled' = [signalled EXCEPT ![e] = signalled[e] \cup woken]
    BY DEF consumeResponseData
  <1>5. /\ container'[e] = (container[e] \ found) \cup answered
        /\ signalled'[e] = signalled[e] \cup woken
        /\ \A x \in End : x # e => container'[x] = container[x] /\ signalled'[x] = signalled[x]
    BY <1>4 DEF IInv, TypeOK
  <1>6. TypeOK'
    <2>1. container' \in [End -> SUBSET RequestData]
      <3>1. (container[e] \ found) \cup answered \subseteq RequestData
        BY <1>2, <1>3
      <3>2. QED BY <1>4, <3>1 DEF IInv, TypeOK
    <2>2. signalled' \in [End -> SUBSET Thread]
      <3>1. signalled'[e] \in SUBSET Thread
        <4>1. \A r \in found : r.by \in Thread
          BY <1>3
        <4>2. woken \subseteq Thread
          BY <4>1
        <4>3. signalled[e] \subseteq Thread
          BY DEF IInv, TypeOK
        <4>4. QED BY <1>5, <4>2, <4>3
      <3>2. \A x \in End : signalled'[x] \in SUBSET Thread
        BY <1>5, <3>1 DEF IInv, TypeOK
      <3>3. signalled' = [x \in End |-> signalled'[x]]
        BY <1>4 DEF IInv, TypeOK
      <3>4. QED BY <3>2, <3>3
    <2>3. reading' \in
            [End -> [conn : Connection, m : Message, known : BOOLEAN] \cup {None}]
      BY DEF IInv, TypeOK, consumeResponseData
    <2>4. QED BY <2>1, <2>2, <2>3 DEF IInv, TypeOK, consumeResponseData, history
  <1>7. HolderInv'
    BY DEF IInv, HolderInv, consumeResponseData
  <1>8. \A r \in container'[e] :
          \E q \in container[e] :
            /\ r.by = q.by /\ r.id = q.id
            /\ \/ q \in found /\ r = [q EXCEPT !.response = n]
               \/ q \notin found /\ r = q
    BY <1>2, <1>3, <1>5
  <1>9. OnlyCallersBuffer'
    BY <1>5, <1>8 DEF IInv, OnlyCallersBuffer, consumeResponseData
  <1>10. SinglePending'
    <2>1. ASSUME NEW r \in container'[e], NEW q \in container'[e] PROVE r = q
      BY <1>8 DEF IInv, SinglePending
    <2>2. QED BY <1>5, <2>1 DEF IInv, SinglePending
  <1>11. WokenHasResponse'
    <2>1. ASSUME NEW r \in container'[e], r.by \in signalled'[e]
          PROVE r.response \in Nat
      <3>1. PICK q \in container[e] :
              /\ r.by = q.by /\ r.id = q.id
              /\ \/ q \in found /\ r = [q EXCEPT !.response = n]
                 \/ q \notin found /\ r = q
        BY <1>8
      <3>2. CASE q \in found
        BY <1>1, <1>3, <3>1, <3>2
      <3>3. CASE q \notin found /\ r = q
        <4>1. found = {}
          BY <1>2, <3>3 DEF IInv, SinglePending
        <4>2. signalled'[e] = signalled[e]
          BY <1>5, <4>1
        <4>3. QED BY <2>1, <3>3, <4>2 DEF IInv, WokenHasResponse
      <3>4. QED BY <3>1, <3>2, <3>3
    <2>2. QED BY <1>5, <2>1 DEF IInv, WokenHasResponse
  <1>12. QED BY <1>6, <1>7, <1>9, <1>10, <1>11 DEF IInv

LEMMA ClosePreserves ==
  ASSUME IInv, NEW e \in End, NEW i \in DOMAIN sockets[e], closeClientSocket(e, i),
         reading' \in
           [End -> [conn : Connection, m : Message, known : BOOLEAN] \cup {None}]
  PROVE IInv'
  <1> DEFINE s == sockets[e][i]
             hit == {r \in container[e] : r.mDirID = s.dirId}
  <1>1. s.conn \in Connection
    BY SocketFacts DEF IInv
  <1>2. /\ container'[e] = container[e] \ hit
        /\ \A x \in End : x # e => container'[x] = container[x] /\ signalled'[x] = signalled[x]
        /\ signalled'[e] = signalled[e] \cup {r.by : r \in hit}
        /\ UNCHANGED <<th, mutex>>
    BY DEF IInv, TypeOK, closeClientSocket
  <1>3. TypeOK'
    <2>1. sockets' \in [End -> Seq(CSockInfo)]
      <3>1. RemoveAt(sockets[e], i) \in Seq(CSockInfo)
        BY SocketFacts, RemoveAtType DEF IInv
      <3>2. QED BY <3>1 DEF IInv, TypeOK, closeClientSocket
    <2>2. container' \in [End -> SUBSET RequestData]
      BY DEF IInv, TypeOK, closeClientSocket
    <2>3. signalled' \in [End -> SUBSET Thread]
      <3>1. \A r \in hit : r.by \in Thread
        BY DEF IInv, TypeOK, RequestData
      <3>2. signalled[e] \cup {r.by : r \in hit} \subseteq Thread
        BY <3>1 DEF IInv, TypeOK
      <3>3. QED BY <3>2 DEF IInv, TypeOK, closeClientSocket
    <2>4. wire' \in [End -> [Connection -> Seq(Message)]]
      <3>1. <<>> \in Seq(Message)
        OBVIOUS
      <3>2. QED BY <1>1, <3>1 DEF IInv, TypeOK, closeClientSocket
    <2>5. failed' \in [End -> SUBSET Connection]
      BY DEF IInv, TypeOK, closeClientSocket
    <2>6. QED BY <2>1, <2>2, <2>3, <2>4, <2>5 DEF IInv, TypeOK, closeClientSocket, history
  <1>4. HolderInv'
    BY <1>2 DEF IInv, HolderInv
  <1>5. OnlyCallersBuffer' /\ SinglePending'
    BY <1>2 DEF IInv, OnlyCallersBuffer, SinglePending
  <1>6. WokenHasResponse'
    <2>1. ASSUME NEW r \in container'[e], r.by \in signalled'[e]
          PROVE r.response \in Nat
      <3>1. r \in container[e] /\ hit = {}
        BY <1>2 DEF IInv, SinglePending
      <3>2. signalled'[e] = signalled[e]
        BY <1>2, <3>1
      <3>3. QED BY <2>1, <3>1, <3>2 DEF IInv, WokenHasResponse
    <2>2. QED BY <1>2, <2>1 DEF IInv, WokenHasResponse
  <1>7. QED BY <1>3, <1>4, <1>5, <1>6 DEF IInv

LEMMA ReceivePreserves ==
  ASSUME IInv, NEW e \in End, Receive(e)
  PROVE IInv'
  <1>1. CASE receiveNothing(e)
    <2>1. PICK i \in DOMAIN sockets[e] : closeClientSocket(e, i)
      BY <1>1 DEF receiveNothing
    <2>2. QED BY <1>1, <2>1, ClosePreserves DEF receiveNothing, IInv, TypeOK
  <1>2. CASE closeFailedSocket(e)
    <2>1. PICK i \in DOMAIN sockets[e] :
            /\ closeClientSocket(e, i)
            /\ reading' = [reading EXCEPT ![e] =
                 IF @ # None /\ @.conn = sockets[e][i].conn THEN None ELSE @]
      BY <1>2 DEF closeFailedSocket
    <2>2. reading' \in
            [End -> [conn : Connection, m : Message, known : BOOLEAN] \cup {None}]
      BY <2>1 DEF IInv, TypeOK
    <2>3. QED BY <2>1, <2>2, ClosePreserves
  <1>3. QED BY <1>1, <1>2, ConsumeHeaderPreserves, ConsumeResponsePreserves,
               IncomingRequestPreserves DEF Receive

-----------------------------------------------------------------------------
LEMMA InitHolds == Init => IInv
  <1> SUFFICES ASSUME Init PROVE IInv
    OBVIOUS
  <1>1. TypeOK
    BY IdleIsCall, FirstDirIsPositive DEF Init, TypeOK
  <1>2. HolderInv
    BY NoneIsNew DEF Init, HolderInv, Idle
  <1>3. OnlyCallersBuffer /\ SinglePending /\ WokenHasResponse
    BY DEF Init, OnlyCallersBuffer, SinglePending, WokenHasResponse
  <1>4. QED BY <1>1, <1>2, <1>3 DEF IInv

LEMMA StepPreserves == IInv /\ [Next]_vars => IInv'
  <1> SUFFICES ASSUME IInv, [Next]_vars PROVE IInv'
    OBVIOUS
  <1>1. CASE UNCHANGED vars
    BY <1>1 DEF vars, callVars, socketVars, history, IInv, TypeOK, HolderInv,
                OnlyCallersBuffer, SinglePending, WokenHasResponse
  <1>2. CASE connect
    BY <1>2, ConnectPreserves
  <1>3. ASSUME NEW e \in End, die(e) \/ Receive(e) PROVE IInv'
    BY <1>3, DiePreserves, ReceivePreserves
  <1>4. ASSUME NEW e \in End, NEW c \in Thread, request(e, c) \/ TimeOut(e, c)
        PROVE IInv'
    BY <1>4, RequestPreserves, RequestTimeoutPreserves, ResponseTimeoutPreserves
       DEF TimeOut
  <1>5. ASSUME NEW e \in End, NEW c \in Thread, Proceed(e, c) PROVE IInv'
    BY <1>5, LockPreserves, SendPreserves, ResponseArrivedPreserves DEF Proceed
  <1>6. QED BY <1>1, <1>2, <1>3, <1>4, <1>5 DEF Next

\* Calls, entries, sockets and messages keep their types, in every process that
\* uses CIpc; an answer is a response, never the buffer of a call that got none.
THEOREM IpcTypeCorrect == Spec => []TypeOK
  <1>1. IInv => TypeOK
    BY DEF IInv
  <1>2. QED BY <1>1, InitHolds, StepPreserves, PTL DEF Spec

\* consumeResponseData writes into the buffer of the one call in progress: timed
\* out, failed and interrupted calls have left no entry behind.
THEOREM BuffersAreCallers == Spec => []OnlyCallersBuffer
  <1>1. IInv => OnlyCallersBuffer
    BY DEF IInv
  <1>2. QED BY <1>1, InitHolds, StepPreserves, PTL DEF Spec

-----------------------------------------------------------------------------
(* Responses are the caller's own.  In one life of a process the serial    *)
(* numbers and the message ids of its calls grow together, so that they    *)
(* differ by the same amount in each of its messages that may still come   *)
(* back: those on connections it has open.                                 *)

\* m is, or answers, a message of the present life of e.
Own(e, m) == m.n + mMsgId[e] = m.id + serial[e]

CallsAreOwn == \A e \in End, c \in Thread : th[e][c].at # "idle" => Own(e, th[e][c])

ResponsesAreOwn ==
  \A e \in End, k \in Connection : IsOpen(e, k) =>
    \A m \in ToSet(wire[e][k]) : m.type = "RESPONSE" => Own(e, m)

RequestsAreOwn ==
  \A e \in End, k \in Connection : IsOpen(e, k) =>
    \A m \in ToSet(wire[Other(e)][k]) : m.type = "REQUEST" => Own(e, m)

ReadResponseIsOwn ==
  \A e \in End :
    reading[e] # None /\ reading[e].m.type = "RESPONSE" => Own(e, reading[e].m)

ReadRequestIsOwn ==
  \A e \in End :
    /\ reading[Other(e)] # None /\ reading[Other(e)].m.type = "REQUEST"
    /\ IsOpen(e, reading[Other(e)].conn)
    => Own(e, reading[Other(e)].m)

EntriesAreOwn ==
  \A e \in End : \A r \in container[e] :
    r.response # None => r.response + mMsgId[e] = r.id + serial[e]

\* Nothing is on a connection that is not made yet.
NewIsEmpty ==
  \A e \in End, k \in Connection : k > made => ToSet(wire[e][k]) = {} /\ ~IsOpen(e, k)

ReadFromMade == \A e \in End : reading[e] # None => reading[e].conn <= made

\* What is on the connections.
WireIsOwn == ResponsesAreOwn /\ RequestsAreOwn /\ NewIsEmpty

\* What the receiving threads have read.
ReadIsOwn == ReadResponseIsOwn /\ ReadRequestIsOwn /\ ReadFromMade

OwnInv ==
  CallsAreOwn /\ WireIsOwn /\ ReadIsOwn /\ EntriesAreOwn /\ OwnResponse

(* What is on a connection. *)

LEMMA MessageFacts ==
  ASSUME TypeOK, NEW e \in End, NEW k \in Connection
  PROVE /\ wire[e][k] \in Seq(Message)
        /\ \A m \in ToSet(wire[e][k]) :
             m \in Message /\ m.id \in Nat /\ m.n \in Nat
  <1>1. wire[e][k] \in Seq(Message)
    BY DEF TypeOK
  <1>2. \A m \in ToSet(wire[e][k]) : m \in Message
    BY <1>1 DEF ToSet
  <1>3. \A m \in Message : m.id \in Nat /\ m.n \in Nat
    BY DEF Message
  <1>4. QED BY <1>1, <1>2, <1>3

LEMMA SequenceElements ==
  ASSUME NEW S, NEW s \in Seq(S)
  PROVE /\ ToSet(<<>>) = {}
        /\ \A m \in S : ToSet(Append(s, m)) = ToSet(s) \cup {m}
        /\ s # <<>> => Head(s) \in ToSet(s) /\ ToSet(Tail(s)) \subseteq ToSet(s)
  <1>1. ToSet(<<>>) = {}
    BY DEF ToSet
  <1>2. ASSUME NEW m \in S PROVE ToSet(Append(s, m)) = ToSet(s) \cup {m}
    <2>1. /\ DOMAIN s = 1..Len(s) /\ Len(s) \in Nat
          /\ DOMAIN Append(s, m) = 1..(Len(s) + 1)
          /\ \A i \in 1..Len(s) : Append(s, m)[i] = s[i]
          /\ Append(s, m)[Len(s) + 1] = m
      OBVIOUS
    <2>2. 1..(Len(s) + 1) = 1..Len(s) \cup {Len(s) + 1}
      BY <2>1
    <2>3. QED BY <2>1, <2>2 DEF ToSet
  <1>3. ASSUME s # <<>> PROVE Head(s) \in ToSet(s) /\ ToSet(Tail(s)) \subseteq ToSet(s)
    <2>1. /\ DOMAIN s = 1..Len(s) /\ Len(s) \in Nat \ {0}
          /\ Head(s) = s[1] /\ 1 \in DOMAIN s
      BY <1>3
    <2>2. /\ DOMAIN Tail(s) = 1..(Len(s) - 1)
          /\ \A i \in 1..(Len(s) - 1) : Tail(s)[i] = s[i + 1]
      BY <1>3
    <2>3. \A i \in 1..(Len(s) - 1) : i + 1 \in 1..Len(s)
      BY <2>1
    <2>4. QED BY <2>1, <2>2, <2>3 DEF ToSet
  <1>4. QED BY <1>1, <1>2, <1>3

LEMMA RemoveAtElements ==
  ASSUME NEW S, NEW s \in Seq(S), NEW i \in DOMAIN s
  PROVE ToSet(RemoveAt(s, i)) \subseteq ToSet(s)
  <1> DEFINE a == SubSeq(s, 1, i-1)
             b == SubSeq(s, i+1, Len(s))
  <1>1. i \in 1..Len(s) /\ Len(s) \in Nat /\ DOMAIN s = 1..Len(s)
    OBVIOUS
  <1>2. /\ a \in Seq(S) /\ b \in Seq(S)
        /\ Len(a) = i - 1 /\ Len(b) = Len(s) - i
        /\ \A j \in 1..(i-1) : a[j] = s[j]
        /\ \A j \in 1..(Len(s) - i) : b[j] = s[i + j]
    BY <1>1
  <1>3. RemoveAt(s, i) = a \o b
    BY DEF RemoveAt
  <1> HIDE DEF a, b
  <1>4. ASSUME NEW j \in DOMAIN (a \o b) PROVE \E l \in DOMAIN s : (a \o b)[j] = s[l]
    <2>1. j \in 1..(Len(a) + Len(b)) /\ j \in Nat
      BY <1>2
    <2>2. CASE j <= Len(a)
      <3>1. (a \o b)[j] = a[j]
        BY <1>2, <2>1, <2>2
      <3>2. j \in 1..(i-1) /\ j \in DOMAIN s
        BY <1>1, <1>2, <2>1, <2>2
      <3>3. QED BY <1>2, <3>1, <3>2
    <2>3. CASE ~(j <= Len(a))
      <3>1. (a \o b)[j] = b[j - Len(a)]
        BY <1>2, <2>1, <2>3, ConcatProperties
      <3>2. j - Len(a) \in 1..(Len(s) - i) /\ i + (j - Len(a)) \in DOMAIN s
        BY <1>1, <1>2, <2>1, <2>3
      <3>3. QED BY <1>2, <3>1, <3>2
    <2>4. QED BY <2>2, <2>3
  <1>5. QED BY <1>3, <1>4 DEF ToSet

\* A step that puts nothing on the connections.
LEMMA ShrinkOwn ==
  ASSUME WireIsOwn, UNCHANGED <<mMsgId, serial, made>>,
         \A x \in End, k \in Connection :
           /\ IsOpen(x, k)' => IsOpen(x, k)
           /\ ToSet(wire[x][k])' \subseteq ToSet(wire[x][k])
  PROVE WireIsOwn'
  <1>1. ResponsesAreOwn'
    BY DEF WireIsOwn, ResponsesAreOwn, Own
  <1>2. RequestsAreOwn'
    BY EndFacts DEF WireIsOwn, RequestsAreOwn, Own
  <1>3. NewIsEmpty'
    BY DEF WireIsOwn, NewIsEmpty
  <1>4. QED BY <1>1, <1>2, <1>3 DEF WireIsOwn

\* e puts a message on a connection.
LEMMA SentOwn ==
  ASSUME TypeOK, WireIsOwn, UNCHANGED <<mMsgId, serial, made, sockets>>,
         NEW e \in End, NEW k \in Connection, NEW m \in Message,
         IsOpen(Other(e), k), wire' = Sent(e, k, m),
         m.type = "RESPONSE" => Own(Other(e), m),
         m.type = "REQUEST" => Own(e, m)
  PROVE WireIsOwn'
  <1>1. ASSUME NEW x \in End, NEW l \in Connection
        PROVE wire'[x][l] = IF x = Other(e) /\ l = k THEN Append(wire[x][l], m)
                            ELSE wire[x][l]
    BY EndFacts DEF TypeOK, Sent
  <1>2. ASSUME NEW x \in End, NEW l \in Connection
        PROVE ToSet(wire'[x][l]) = IF x = Other(e) /\ l = k THEN ToSet(wire[x][l]) \cup {m}
                                   ELSE ToSet(wire[x][l])
    <2>1. wire[x][l] \in Seq(Message)
      BY MessageFacts
    <2>2. ToSet(Append(wire[x][l], m)) = ToSet(wire[x][l]) \cup {m}
      BY <2>1, SequenceElements
    <2>3. CASE x = Other(e) /\ l = k
      BY <1>1, <2>2, <2>3
    <2>4. CASE ~(x = Other(e) /\ l = k)
      <3>1. wire'[x][l] = wire[x][l]
        BY <1>1, <2>4
      <3>2. QED BY <2>4, <3>1
    <2>5. QED BY <2>3, <2>4
  <1>3. \A x \in End, l \in Connection : IsOpen(x, l)' <=> IsOpen(x, l)
    BY DEF IsOpen
  <1>4. \A x \in End : Other(x) = Other(e) => x = e
    BY EndsDiffer DEF End, Other
  <1>5. ResponsesAreOwn'
    BY <1>2, <1>3 DEF WireIsOwn, ResponsesAreOwn, Own
  <1>6. RequestsAreOwn'
    BY <1>2, <1>3, <1>4, EndFacts DEF WireIsOwn, RequestsAreOwn, Own
  <1>7. NewIsEmpty'
    BY <1>2, <1>3, EndFacts DEF WireIsOwn, NewIsEmpty
  <1>8. QED BY <1>5, <1>6, <1>7 DEF WireIsOwn

\* A step of calls that leaves the connections alone.
LEMMA CallStep ==
  ASSUME OwnInv, UNCHANGED <<mMsgId, serial, wire, sockets, reading, made>>,
         CallsAreOwn', EntriesAreOwn', OwnResponse'
  PROVE OwnInv'
  <1>1. WireIsOwn'
    BY ShrinkOwn DEF OwnInv, IsOpen
  <1>2. ReadIsOwn'
    BY DEF OwnInv, ReadIsOwn, ReadResponseIsOwn, ReadRequestIsOwn, ReadFromMade, Own, IsOpen
  <1>3. QED BY <1>1, <1>2 DEF OwnInv

LEMMA ReturnOwn ==
  ASSUME IInv, OwnInv, NEW e \in End, NEW c \in Thread, Return(e, c),
         UNCHANGED <<mMsgId, serial>>
  PROVE CallsAreOwn' /\ EntriesAreOwn'
  <1>1. \A x \in End, d \in Thread : th'[x][d] = IF x = e /\ d = c THEN Idle ELSE th[x][d]
    BY DEF IInv, TypeOK, Return
  <1>2. \A x \in End : container'[x] \subseteq container[x]
    BY DEF IInv, TypeOK, Return, erase
  <1>3. CallsAreOwn'
    BY <1>1 DEF OwnInv, CallsAreOwn, Own, Idle
  <1>4. EntriesAreOwn'
    BY <1>2 DEF OwnInv, EntriesAreOwn
  <1>5. QED BY <1>3, <1>4

LEMMA LockOwn ==
  ASSUME IInv, OwnInv, NEW e \in End, NEW c \in Thread, lockRequest(e, c)
  PROVE OwnInv'
  <1>1. \A x \in End, d \in Thread :
          /\ th'[x][d].at # "idle" => th[x][d].at # "idle"
          /\ th'[x][d].id = th[x][d].id /\ th'[x][d].n = th[x][d].n
    BY DEF IInv, TypeOK, lockRequest, Call
  <1>2. CallsAreOwn'
    BY <1>1 DEF OwnInv, CallsAreOwn, Own, lockRequest, history
  <1>3. \A x \in End : \A r \in container'[x] : r \in container[x] \/ r.response = None
    <2>1. CASE UNCHANGED container
      BY <2>1
    <2>2. CASE container' = [container EXCEPT ![e] = insert(e, c)]
      <3>1. \A r \in insert(e, c) : r \in container[e] \/ r.response = None
        BY DEF insert
      <3>2. \A x \in End : container'[x] = IF x = e THEN insert(e, c) ELSE container[x]
        BY <2>2 DEF IInv, TypeOK
      <3>3. QED BY <3>1, <3>2
    <2>3. QED BY <2>1, <2>2 DEF lockRequest
  <1>4. EntriesAreOwn'
    BY <1>3 DEF OwnInv, EntriesAreOwn, lockRequest, history
  <1>5. OwnResponse'
    BY DEF OwnInv, OwnResponse, lockRequest, history
  <1>6. QED BY <1>2, <1>4, <1>5, CallStep DEF lockRequest, socketVars, history

LEMMA TimeoutOwn ==
  ASSUME IInv, OwnInv, NEW e \in End, NEW c \in Thread, TimeOut(e, c)
  PROVE OwnInv'
  <1>1. OwnResponse'
    BY DEF OwnInv, OwnResponse, TimeOut, requestTimeout, responseTimeout
  <1>2. CASE requestTimeout(e, c)
    <2>1. \A x \in End, d \in Thread :
            th'[x][d] = IF x = e /\ d = c THEN Idle ELSE th[x][d]
      BY <1>2 DEF IInv, TypeOK, requestTimeout
    <2>2. CallsAreOwn'
      BY <1>2, <2>1 DEF OwnInv, CallsAreOwn, Own, Idle, requestTimeout
    <2>3. EntriesAreOwn'
      BY <1>2 DEF OwnInv, EntriesAreOwn, requestTimeout
    <2>4. QED BY <1>1, <1>2, <2>2, <2>3, CallStep DEF requestTimeout, socketVars
  <1>3. CASE responseTimeout(e, c)
    BY <1>1, <1>3, ReturnOwn, CallStep DEF responseTimeout, socketVars
  <1>4. QED BY <1>2, <1>3 DEF TimeOut

\* The caller that is woken takes the response in its own entry.
LEMMA ResponseArrivedOwn ==
  ASSUME IInv, OwnInv, NEW e \in End, NEW c \in Thread, responseArrived(e, c)
  PROVE OwnInv'
  <1> DEFINE entries == entryOf(e, th[e][c].id)
             r == CHOOSE r \in entries : TRUE
             got == IF entries = {} THEN None ELSE [to |-> th[e][c].n, n |-> r.response]
  <1>1. th[e][c].at = "wait" /\ c \in signalled[e] /\ mutex[e] = c
    BY DEF responseArrived, IInv, HolderInv
  <1>2. ASSUME entries # {} PROVE r.response = th[e][c].n
    <2>1. r \in entries
      BY <1>2
    <2>2. r \in container[e] /\ r.id = th[e][c].id /\ r.by = c
      BY <1>1, <2>1 DEF entryOf, IInv, OnlyCallersBuffer
    <2>3. r.response \in Nat
      BY <1>1, <2>2 DEF IInv, WokenHasResponse
    <2>4. r.response + mMsgId[e] = r.id + serial[e]
      BY <2>2, <2>3, NoneIsNew DEF OwnInv, EntriesAreOwn
    <2>5. th[e][c].n + mMsgId[e] = th[e][c].id + serial[e]
      BY <1>1 DEF OwnInv, CallsAreOwn, Own
    <2>6. th[e][c].n \in Nat /\ th[e][c].id \in Nat /\ mMsgId[e] \in Nat /\ serial[e] \in Nat
      BY DEF IInv, TypeOK, Call
    <2>7. QED BY <2>2, <2>3, <2>4, <2>5, <2>6
  <1>3. got # None => got.n = got.to
    BY <1>2
  <1>4. answer' = [answer EXCEPT ![e][c] = got]
    BY DEF responseArrived
  <1>5. OwnResponse'
    BY <1>3, <1>4 DEF IInv, TypeOK, OwnInv, OwnResponse
  <1>6. QED BY <1>5, ReturnOwn, CallStep DEF responseArrived, socketVars

LEMMA RequestOwn ==
  ASSUME IInv, OwnInv, NEW e \in End, NEW c \in Thread, request(e, c)
  PROVE OwnInv'
  <1>1. \A x \in End : mMsgId[x] \in Nat /\ serial[x] \in Nat
    BY DEF IInv, TypeOK
  <1>2. /\ mMsgId'[e] = mMsgId[e] + 1 /\ serial'[e] = serial[e] + 1
        /\ \A x \in End : x # e => mMsgId'[x] = mMsgId[x] /\ serial'[x] = serial[x]
    BY DEF IInv, TypeOK, request
  <1>3. ASSUME NEW x \in End, NEW i \in Nat, NEW n \in Nat, n + mMsgId[x] = i + serial[x]
        PROVE n + mMsgId'[x] = i + serial'[x]
    BY <1>1, <1>2, <1>3
  <1>4. UNCHANGED <<wire, sockets, reading, made, container>>
    BY DEF request, socketVars
  <1>5. CallsAreOwn'
    <2>1. ASSUME NEW x \in End, NEW d \in Thread, th'[x][d].at # "idle"
          PROVE th'[x][d].n + mMsgId'[x] = th'[x][d].id + serial'[x]
      <3>1. CASE x = e /\ d = c
        <4>1. th'[e][c].id = mMsgId[e] + 1 /\ th'[e][c].n = serial[e] + 1
          BY DEF IInv, TypeOK, request
        <4>2. QED BY <1>1, <1>2, <3>1, <4>1
      <3>2. CASE ~(x = e /\ d = c)
        <4>1. th'[x][d] = th[x][d]
          BY <3>2 DEF IInv, TypeOK, request
        <4>2. th[x][d].id \in Nat /\ th[x][d].n \in Nat
          BY DEF IInv, TypeOK, Call
        <4>3. th[x][d].n + mMsgId[x] = th[x][d].id + serial[x]
          BY <2>1, <4>1 DEF OwnInv, CallsAreOwn, Own
        <4>4. QED BY <1>3, <4>1, <4>2, <4>3
      <3>3. QED BY <3>1, <3>2
    <2>2. QED BY <2>1 DEF CallsAreOwn, Own
  <1>6. ResponsesAreOwn'
    <2>1. ASSUME NEW x \in End, NEW k \in Connection, IsOpen(x, k),
                 NEW m \in ToSet(wire[x][k]), m.type = "RESPONSE"
          PROVE m.n + mMsgId'[x] = m.id + serial'[x]
      <3>1. m.n \in Nat /\ m.id \in Nat
        BY MessageFacts DEF IInv
      <3>2. QED BY <1>3, <2>1, <3>1 DEF OwnInv, WireIsOwn, ResponsesAreOwn, Own
    <2>2. QED BY <1>4, <2>1 DEF ResponsesAreOwn, Own, IsOpen
  <1>7. RequestsAreOwn'
    <2>1. ASSUME NEW x \in End, NEW k \in Connection, IsOpen(x, k),
                 NEW m \in ToSet(wire[Other(x)][k]), m.type = "REQUEST"
          PROVE m.n + mMsgId'[x] = m.id + serial'[x]
      <3>1. m.n \in Nat /\ m.id \in Nat
        BY EndFacts, MessageFacts DEF IInv
      <3>2. QED BY <1>3, <2>1, <3>1 DEF OwnInv, WireIsOwn, RequestsAreOwn, Own
    <2>2. QED BY <1>4, <2>1 DEF RequestsAreOwn, Own, IsOpen
  <1>8. \A x \in End : reading[x] # None => reading[x].m.id \in Nat /\ reading[x].m.n \in Nat
    BY DEF IInv, TypeOK, Message
  <1>9. ReadResponseIsOwn'
    BY <1>3, <1>4, <1>8 DEF OwnInv, ReadIsOwn, ReadResponseIsOwn, Own
  <1>10. ReadRequestIsOwn'
    BY <1>3, <1>4, <1>8, EndFacts DEF OwnInv, ReadIsOwn, ReadRequestIsOwn, Own, IsOpen
  <1>11. EntriesAreOwn'
    <2>1. ASSUME NEW x \in End, NEW r \in container[x], r.response # None
          PROVE r.response + mMsgId'[x] = r.id + serial'[x]
      <3>1. r.response \in Nat /\ r.id \in Nat
        BY <2>1 DEF IInv, TypeOK, RequestData
      <3>2. QED BY <1>3, <2>1, <3>1 DEF OwnInv, EntriesAreOwn
    <2>2. QED BY <1>4, <2>1 DEF EntriesAreOwn
  <1>12. NewIsEmpty' /\ ReadFromMade'
    BY <1>4 DEF OwnInv, WireIsOwn, NewIsEmpty, ReadIsOwn, ReadFromMade, IsOpen
  <1>13. OwnResponse'
    BY DEF IInv, TypeOK, OwnInv, OwnResponse, request
  <1>14. QED BY <1>5, <1>6, <1>7, <1>9, <1>10, <1>11, <1>12, <1>13 DEF OwnInv, WireIsOwn, ReadIsOwn

\* A request that is sent has the caller's id and serial number.
LEMMA SendOwn ==
  ASSUME IInv, OwnInv, NEW e \in End, NEW c \in Thread, send(e, c)
  PROVE OwnInv'
  <1> DEFINE call == th[e][c]
             m == [type |-> call.kind, id |-> call.id, n |-> call.n]
  <1>1. /\ call \in Call /\ call.at = "send" /\ m \in Message
        /\ m.type \in {"REQUEST", "TRIGGER"} /\ m.id = call.id /\ m.n = call.n
    BY DEF IInv, TypeOK, send, Call, Message
  <1>2. UNCHANGED <<mMsgId, serial, made, sockets, reading, answer>>
    BY DEF send, history
  <1>3. WireIsOwn'
    <2>1. CASE UNCHANGED wire
      BY <1>2, <2>1, ShrinkOwn DEF OwnInv, IsOpen
    <2>2. CASE \E k \in Reaches(e, call.to) : wire' = Sent(e, k, m)
      <3>1. PICK k \in Reaches(e, call.to) : wire' = Sent(e, k, m)
        BY <2>2
      <3>2. k \in Connection /\ IsOpen(Other(e), k)
        BY FindsConnections DEF Reaches, IInv
      <3>3. Own(e, m)
        BY <1>1 DEF OwnInv, CallsAreOwn, Own
      <3>4. m.type # "RESPONSE"
        BY <1>1
      <3> HIDE DEF m
      <3>5. QED BY <1>1, <1>2, <3>1, <3>2, <3>3, <3>4, SentOwn DEF IInv, OwnInv
    <2>3. QED BY <2>1, <2>2 DEF send
  <1>4. ReadIsOwn'
    BY <1>2 DEF OwnInv, ReadIsOwn, ReadResponseIsOwn, ReadRequestIsOwn, ReadFromMade,
                Own, IsOpen
  <1>5. CallsAreOwn' /\ EntriesAreOwn'
    <2>1. CASE Return(e, c)
      BY <1>2, <2>1, ReturnOwn
    <2>2. CASE th' = [th EXCEPT ![e][c].at = "wait"] /\ UNCHANGED container
      <3>1. \A x \in End, d \in Thread :
              /\ th'[x][d].at # "idle" => th[x][d].at # "idle"
              /\ th'[x][d].id = th[x][d].id /\ th'[x][d].n = th[x][d].n
        BY <1>1, <2>2 DEF IInv, TypeOK, Call
      <3>2. CallsAreOwn'
        BY <1>2, <3>1 DEF OwnInv, CallsAreOwn, Own
      <3>3. QED BY <1>2, <2>2, <3>2 DEF OwnInv, EntriesAreOwn
    <2>3. QED BY <2>1, <2>2 DEF send
  <1>6. OwnResponse'
    BY <1>2 DEF OwnInv, OwnResponse
  <1>7. QED BY <1>3, <1>4, <1>5, <1>6 DEF OwnInv

LEMMA ConnectOwn ==
  ASSUME IInv, OwnInv, connect
  PROVE OwnInv'
  <1>1. \A x \in End : sockets'[x] = Append(sockets[x], [conn |-> made + 1, dirId |-> nextDir[x]])
    BY DEF connect
  <1>2. /\ UNCHANGED <<th, container, mMsgId, wire, reading, serial, answer>>
        /\ made' = made + 1 /\ made \in Nat
    BY DEF connect, callVars, history, IInv, TypeOK
  <1>3. ASSUME NEW x \in End, NEW k, k # made + 1 PROVE IsOpen(x, k)' => IsOpen(x, k)
    <2>1. sockets[x] \in Seq(CSockInfo) /\ nextDir[x] \in Nat
      BY DEF IInv, TypeOK
    <2>2. [conn |-> made + 1, dirId |-> nextDir[x]] \in CSockInfo
      <3>1. made + 1 \in Connection
        BY <1>2, BoundsAreNat DEF connect, Connection
      <3>2. QED BY <2>1, <3>1 DEF CSockInfo
    <2>3. ToSet(sockets'[x]) =
            ToSet(sockets[x]) \cup {[conn |-> made + 1, dirId |-> nextDir[x]]}
      <3>1. ToSet(Append(sockets[x], [conn |-> made + 1, dirId |-> nextDir[x]])) =
              ToSet(sockets[x]) \cup {[conn |-> made + 1, dirId |-> nextDir[x]]}
        BY <2>1, <2>2, SequenceElements
      <3>2. QED BY <1>1, <3>1
    <2>4. QED BY <1>3, <2>3 DEF IsOpen
  <1>4. \A k \in Connection : k \in Nat
    BY DEF Connection
  <1>5. ASSUME NEW x \in End, NEW k \in Connection, IsOpen(x, k)', k = made + 1
        PROVE ToSet(wire[x][k]) = {} /\ ToSet(wire[Other(x)][k]) = {}
    <2>1. k > made
      BY <1>2, <1>4, <1>5
    <2>2. QED BY <2>1, EndFacts DEF OwnInv, WireIsOwn, NewIsEmpty
  <1>6. ResponsesAreOwn'
    BY <1>2, <1>3, <1>5 DEF OwnInv, WireIsOwn, ResponsesAreOwn, Own
  <1>7. RequestsAreOwn'
    BY <1>2, <1>3, <1>5 DEF OwnInv, WireIsOwn, RequestsAreOwn, Own
  <1>8. NewIsEmpty'
    <2>1. \A k \in Connection : k > made + 1 => k > made /\ k # made + 1
      BY <1>2, <1>4
    <2>2. QED BY <1>2, <1>3, <2>1 DEF OwnInv, WireIsOwn, NewIsEmpty
  <1>9. ReadFromMade' /\ ReadResponseIsOwn'
    <2>1. \A x \in End : reading[x] # None => reading[x].conn \in Nat
      BY DEF IInv, TypeOK, Connection
    <2>2. QED BY <1>2, <2>1 DEF OwnInv, ReadIsOwn, ReadResponseIsOwn, ReadFromMade, Own
  <1>10. ReadRequestIsOwn'
    <2>1. ASSUME NEW x \in End, reading[Other(x)] # None PROVE reading[Other(x)].conn # made + 1
      <3>1. reading[Other(x)].conn <= made /\ reading[Other(x)].conn \in Nat
        BY <2>1, EndFacts DEF OwnInv, ReadIsOwn, ReadFromMade, IInv, TypeOK, Connection
      <3>2. QED BY <1>2, <3>1
    <2>2. QED BY <1>2, <1>3, <2>1 DEF OwnInv, ReadIsOwn, ReadRequestIsOwn, Own
  <1>11. CallsAreOwn' /\ EntriesAreOwn' /\ OwnResponse'
    BY <1>2 DEF OwnInv, CallsAreOwn, EntriesAreOwn, OwnResponse, Own
  <1>12. QED BY <1>6, <1>7, <1>8, <1>9, <1>10, <1>11 DEF OwnInv, WireIsOwn, ReadIsOwn

\* A process that dies takes with it every connection on which its requests
\* were to be answered.
LEMMA DieOwn ==
  ASSUME IInv, OwnInv, NEW e \in End, die(e)
  PROVE OwnInv'
  <1>1. /\ UNCHANGED <<made, serial>>
        /\ \A x \in End : x # e =>
             /\ mMsgId'[x] = mMsgId[x] /\ sockets'[x] = sockets[x]
             /\ wire'[x] = wire[x] /\ reading'[x] = reading[x]
             /\ th'[x] = th[x] /\ container'[x] = container[x] /\ answer'[x] = answer[x]
    BY DEF die, IInv, TypeOK
  <1>2. /\ sockets'[e] = <<>> /\ reading'[e] = None /\ container'[e] = {}
        /\ \A k \in Connection : wire'[e][k] = <<>>
        /\ \A c \in Thread : th'[e][c] = Idle /\ answer'[e][c] = None
    BY DEF die, IInv, TypeOK
  <1>3. \A k \in Connection : ToSet(wire'[e][k]) = {}
    BY <1>2 DEF ToSet
  <1>4. \A k : ~IsOpen(e, k)'
    BY <1>2 DEF IsOpen, ToSet
  <1>5. \A x \in End : \A k : x # e => (IsOpen(x, k)' <=> IsOpen(x, k))
    BY <1>1 DEF IsOpen
  <1>6. ResponsesAreOwn'
    BY <1>1, <1>4, <1>5 DEF OwnInv, WireIsOwn, ResponsesAreOwn, Own
  <1>7. RequestsAreOwn'
    BY <1>1, <1>3, <1>4, <1>5, EndFacts DEF OwnInv, WireIsOwn, RequestsAreOwn, Own
  <1>8. NewIsEmpty'
    BY <1>1, <1>3, <1>4, <1>5 DEF OwnInv, WireIsOwn, NewIsEmpty
  <1>9. ReadResponseIsOwn' /\ ReadFromMade'
    BY <1>1, <1>2 DEF OwnInv, ReadIsOwn, ReadResponseIsOwn, ReadFromMade, Own
  <1>10. ReadRequestIsOwn'
    BY <1>1, <1>2, <1>4, <1>5, EndFacts DEF OwnInv, ReadIsOwn, ReadRequestIsOwn, Own
  <1>11. CallsAreOwn'
    BY <1>1, <1>2 DEF OwnInv, CallsAreOwn, Own, Idle
  <1>12. EntriesAreOwn' /\ OwnResponse'
    BY <1>1, <1>2 DEF OwnInv, EntriesAreOwn, OwnResponse
  <1>13. QED BY <1>6, <1>7, <1>8, <1>9, <1>10, <1>11, <1>12
             DEF OwnInv, WireIsOwn, ReadIsOwn

LEMMA ConsumeHeaderOwn ==
  ASSUME IInv, OwnInv, NEW e \in End, consumeHeader(e)
  PROVE OwnInv'
  <1>1. PICK i \in DOMAIN sockets[e] :
          LET k == sockets[e][i].conn
          IN /\ wire[e][k] # <<>>
             /\ reading' = [reading EXCEPT ![e] =
                  [conn |-> k, m |-> Head(wire[e][k]),
                   known |-> entryOf(e, Head(wire[e][k]).id) # {}]]
             /\ wire' = [wire EXCEPT ![e][k] = Tail(@)]
    BY DEF consumeHeader
  <1> DEFINE k == sockets[e][i].conn
             m == Head(wire[e][k])
  <1>2. UNCHANGED <<th, container, mMsgId, sockets, made, serial, answer>>
    BY DEF consumeHeader, callVars, history
  <1>3. k \in Connection /\ IsOpen(e, k)
    BY SocketFacts DEF IInv, IsOpen, ToSet
  <1>4. wire[e][k] \in Seq(Message)
    BY <1>3, MessageFacts DEF IInv
  <1>5. m \in ToSet(wire[e][k]) /\ ToSet(Tail(wire[e][k])) \subseteq ToSet(wire[e][k])
    BY <1>1, <1>4, SequenceElements
  <1>6. k <= made
    BY <1>3 DEF IInv, TypeOK, OwnInv, WireIsOwn, NewIsEmpty, Connection
  <1>7. /\ reading'[e] # None => reading'[e].conn = k /\ reading'[e].m = m
        /\ \A x \in End : x # e => reading'[x] = reading[x]
    BY <1>1 DEF IInv, TypeOK
  <1>8. \A x \in End, l \in Connection :
          wire'[x][l] = IF x = e /\ l = k THEN Tail(wire[x][l]) ELSE wire[x][l]
    BY <1>1 DEF IInv, TypeOK
  <1> HIDE DEF k, m
  <1>9. \A x \in End : \A l : IsOpen(x, l)' <=> IsOpen(x, l)
    BY <1>2 DEF IsOpen
  <1>10. \A x \in End, l \in Connection : ToSet(wire[x][l])' \subseteq ToSet(wire[x][l])
    BY <1>5, <1>8
  <1>11. WireIsOwn'
    BY <1>2, <1>9, <1>10, ShrinkOwn DEF OwnInv
  <1>12. ReadResponseIsOwn'
    <2>1. m.type = "RESPONSE" => Own(e, m)
      BY <1>3, <1>5 DEF OwnInv, WireIsOwn, ResponsesAreOwn
    <2>2. QED BY <1>2, <1>7, <2>1 DEF OwnInv, ReadIsOwn, ReadResponseIsOwn, Own
  <1>13. ReadRequestIsOwn'
    <2>1. ASSUME NEW x \in End, Other(x) = e, IsOpen(x, k), m.type = "REQUEST"
          PROVE Own(x, m)
      BY <1>3, <1>5, <2>1 DEF OwnInv, WireIsOwn, RequestsAreOwn
    <2>2. QED BY <1>2, <1>7, <1>9, <2>1, EndFacts DEF OwnInv, ReadIsOwn, ReadRequestIsOwn, Own
  <1>14. ReadFromMade'
    BY <1>2, <1>6, <1>7 DEF OwnInv, ReadIsOwn, ReadFromMade
  <1>15. CallsAreOwn' /\ EntriesAreOwn' /\ OwnResponse'
    BY <1>2 DEF OwnInv, CallsAreOwn, EntriesAreOwn, OwnResponse, Own
  <1>16. QED BY <1>11, <1>12, <1>13, <1>14, <1>15 DEF OwnInv, ReadIsOwn

LEMMA ForgetOwn ==
  ASSUME OwnInv, UNCHANGED <<mMsgId, serial, made>>,
         \A x \in End : reading'[x] = reading[x] \/ reading'[x] = None,
         \A x \in End : \A k : IsOpen(x, k)' => IsOpen(x, k)
  PROVE ReadIsOwn'
  BY EndFacts DEF OwnInv, ReadIsOwn, ReadResponseIsOwn, ReadRequestIsOwn, ReadFromMade, Own

\* The response data goes to the entry with the response's id.
LEMMA ConsumeResponseOwn ==
  ASSUME IInv, OwnInv, NEW e \in End, consumeResponseData(e)
  PROVE OwnInv'
  <1> DEFINE m == reading[e].m
             found == IF reading[e].known THEN entryOf(e, m.id) ELSE {}
             answered == {[r EXCEPT !.response = m.n] : r \in found}
  <1>1. UNCHANGED <<th, mMsgId, sockets, wire, made, serial, answer>>
    BY DEF consumeResponseData, history
  <1>2. \A x \in End : \A k : IsOpen(x, k)' <=> IsOpen(x, k)
    BY <1>1 DEF IsOpen
  <1>3. \A x \in End : reading'[x] = reading[x] \/ reading'[x] = None
    BY DEF IInv, TypeOK, consumeResponseData
  <1>4. WireIsOwn'
    BY <1>1, <1>2, ShrinkOwn DEF OwnInv
  <1>5. ReadIsOwn'
    BY <1>1, <1>2, <1>3, ForgetOwn
  <1>6. m.n + mMsgId[e] = m.id + serial[e]
    BY DEF consumeResponseData, OwnInv, ReadIsOwn, ReadResponseIsOwn, Own
  <1>7. /\ container'[e] = (container[e] \ found) \cup answered
        /\ \A x \in End : x # e => container'[x] = container[x]
    BY DEF consumeResponseData, IInv, TypeOK
  <1>8. \A r \in found : r \in RequestData /\ r.id = m.id
    BY DEF entryOf, IInv, TypeOK
  <1> HIDE DEF m, found
  <1>9. \A r \in answered : r.response = m.n /\ r.id = m.id
    BY <1>8 DEF RequestData
  <1> HIDE DEF answered
  <1>10. EntriesAreOwn'
    <2>1. ASSUME NEW r \in container'[e], r.response # None
          PROVE r.response + mMsgId[e] = r.id + serial[e]
      BY <1>6, <1>7, <1>9, <2>1 DEF OwnInv, EntriesAreOwn
    <2>2. QED BY <1>1, <1>7, <2>1 DEF OwnInv, EntriesAreOwn
  <1>11. CallsAreOwn' /\ OwnResponse'
    BY <1>1 DEF OwnInv, CallsAreOwn, OwnResponse, Own
  <1>12. QED BY <1>4, <1>5, <1>10, <1>11 DEF OwnInv

\* A response has the id and the serial number of its request.
LEMMA IncomingRequestOwn ==
  ASSUME IInv, OwnInv, NEW e \in End, incomingRequest(e)
  PROVE OwnInv'
  <1> DEFINE k == reading[e].conn
             m == reading[e].m
             response == [m EXCEPT !.type = "RESPONSE"]
  <1>1. UNCHANGED <<th, container, mMsgId, sockets, made, serial, answer>>
    BY DEF incomingRequest, callVars, history
  <1>2. \A x \in End : \A l : IsOpen(x, l)' <=> IsOpen(x, l)
    BY <1>1 DEF IsOpen
  <1>3. \A x \in End : reading'[x] = reading[x] \/ reading'[x] = None
    BY DEF IInv, TypeOK, incomingRequest
  <1>4. ReadIsOwn'
    BY <1>1, <1>2, <1>3, ForgetOwn
  <1>5. reading[e] # None /\ m \in Message /\ k \in Connection
    BY DEF incomingRequest, IInv, TypeOK
  <1>6. WireIsOwn'
    <2>1. CASE UNCHANGED wire
      BY <1>1, <1>2, <2>1, ShrinkOwn DEF OwnInv
    <2>2. CASE /\ m.type = "REQUEST" /\ IsOpen(Other(e), k)
               /\ wire' = Sent(e, k, response)
      <3>1. Other(Other(e)) = e /\ Other(e) \in End
        BY EndsDiffer DEF End, Other
      <3>2. Own(Other(e), m)
        BY <1>5, <2>2, <3>1 DEF OwnInv, ReadIsOwn, ReadRequestIsOwn
      <3>3. /\ response \in Message /\ response.type = "RESPONSE"
            /\ response.n = m.n /\ response.id = m.id
        BY <1>5 DEF Message
      <3>4. Own(Other(e), response)
        BY <3>2, <3>3 DEF Own
      <3> HIDE DEF k, m, response
      <3>5. QED BY <1>1, <1>5, <2>2, <3>3, <3>4, SentOwn DEF IInv, OwnInv
    <2>3. QED BY <2>1, <2>2 DEF incomingRequest
  <1>7. CallsAreOwn' /\ EntriesAreOwn' /\ OwnResponse'
    BY <1>1 DEF OwnInv, CallsAreOwn, EntriesAreOwn, OwnResponse, Own
  <1>8. QED BY <1>4, <1>6, <1>7 DEF OwnInv

LEMMA CloseOwn ==
  ASSUME IInv, OwnInv, NEW e \in End, NEW i \in DOMAIN sockets[e], closeClientSocket(e, i),
         \A x \in End : reading'[x] = reading[x] \/ reading'[x] = None
  PROVE OwnInv'
  <1> DEFINE s == sockets[e][i]
  <1>1. UNCHANGED <<th, mMsgId, made, serial, answer>>
    BY DEF closeClientSocket, history
  <1>2. \A x \in End : ToSet(sockets'[x]) \subseteq ToSet(sockets[x])
    <2>1. \A x \in End : sockets'[x] = IF x = e THEN RemoveAt(sockets[e], i) ELSE sockets[x]
      BY DEF closeClientSocket, IInv, TypeOK
    <2>2. ToSet(RemoveAt(sockets[e], i)) \subseteq ToSet(sockets[e])
      BY SocketFacts, RemoveAtElements DEF IInv
    <2>3. QED BY <2>1, <2>2
  <1>3. \A x \in End : \A k : IsOpen(x, k)' => IsOpen(x, k)
    BY <1>2 DEF IsOpen
  <1>4. \A x \in End, k \in Connection : ToSet(wire[x][k])' \subseteq ToSet(wire[x][k])
    <2>1. \A x \in End, k \in Connection : wire'[x][k] = wire[x][k] \/ wire'[x][k] = <<>>
      BY DEF closeClientSocket, IInv, TypeOK
    <2>2. ToSet(<<>>) = {}
      BY DEF ToSet
    <2>3. QED BY <2>1, <2>2
  <1>5. WireIsOwn'
    BY <1>1, <1>3, <1>4, ShrinkOwn DEF OwnInv
  <1>6. ReadIsOwn'
    BY <1>1, <1>3, ForgetOwn
  <1>7. \A x \in End : container'[x] \subseteq container[x]
    BY DEF closeClientSocket, IInv, TypeOK
  <1>8. CallsAreOwn' /\ EntriesAreOwn' /\ OwnResponse'
    BY <1>1, <1>7 DEF OwnInv, CallsAreOwn, EntriesAreOwn, OwnResponse, Own
  <1>9. QED BY <1>5, <1>6, <1>8 DEF OwnInv

LEMMA ReceiveOwn ==
  ASSUME IInv, OwnInv, NEW e \in End, Receive(e)
  PROVE OwnInv'
  <1>1. CASE receiveNothing(e)
    <2>1. PICK i \in DOMAIN sockets[e] : closeClientSocket(e, i)
      BY <1>1 DEF receiveNothing
    <2>2. QED BY <1>1, <2>1, CloseOwn DEF receiveNothing
  <1>2. CASE closeFailedSocket(e)
    <2>1. PICK i \in DOMAIN sockets[e] :
            /\ closeClientSocket(e, i)
            /\ reading' = [reading EXCEPT ![e] =
                 IF @ # None /\ @.conn = sockets[e][i].conn THEN None ELSE @]
      BY <1>2 DEF closeFailedSocket
    <2>2. \A x \in End : reading'[x] = reading[x] \/ reading'[x] = None
      BY <2>1 DEF IInv, TypeOK
    <2>3. QED BY <2>1, <2>2, CloseOwn
  <1>3. QED BY <1>1, <1>2, ConsumeHeaderOwn, ConsumeResponseOwn, IncomingRequestOwn
               DEF Receive

LEMMA InitOwn == Init => OwnInv
  <1> SUFFICES ASSUME Init PROVE OwnInv
    OBVIOUS
  <1>1. \A e \in End : \A k : ~IsOpen(e, k)
    BY DEF Init, IsOpen, ToSet
  <1>2. \A e \in End, k \in Connection : ToSet(wire[e][k]) = {}
    BY DEF Init, ToSet
  <1>3. WireIsOwn
    BY <1>1, <1>2 DEF WireIsOwn, ResponsesAreOwn, RequestsAreOwn, NewIsEmpty
  <1>4. ReadIsOwn
    BY EndFacts DEF Init, ReadIsOwn, ReadResponseIsOwn, ReadRequestIsOwn, ReadFromMade
  <1>5. CallsAreOwn /\ EntriesAreOwn /\ OwnResponse
    BY DEF Init, CallsAreOwn, EntriesAreOwn, OwnResponse, Idle
  <1>6. QED BY <1>3, <1>4, <1>5 DEF OwnInv

LEMMA StepOwn == IInv /\ OwnInv /\ [Next]_vars => OwnInv'
  <1> SUFFICES ASSUME IInv, OwnInv, [Next]_vars PROVE OwnInv'
    OBVIOUS
  <1>1. CASE UNCHANGED vars
    <2>1. UNCHANGED <<mMsgId, serial, wire, sockets, reading, made>>
      BY <1>1 DEF vars, callVars, socketVars, history
    <2>2. CallsAreOwn' /\ EntriesAreOwn' /\ OwnResponse'
      BY <1>1 DEF vars, callVars, socketVars, history, OwnInv, CallsAreOwn, EntriesAreOwn,
                  OwnResponse, Own
    <2>3. QED BY <2>1, <2>2, CallStep
  <1>2. CASE connect
    BY <1>2, ConnectOwn
  <1>3. ASSUME NEW e \in End, die(e) \/ Receive(e) PROVE OwnInv'
    BY <1>3, DieOwn, ReceiveOwn
  <1>4. ASSUME NEW e \in End, NEW c \in Thread, request(e, c) \/ TimeOut(e, c)
        PROVE OwnInv'
    BY <1>4, RequestOwn, TimeoutOwn
  <1>5. ASSUME NEW e \in End, NEW c \in Thread, Proceed(e, c) PROVE OwnInv'
    BY <1>5, LockOwn, SendOwn, ResponseArrivedOwn DEF Proceed
  <1>6. QED BY <1>1, <1>2, <1>3, <1>4, <1>5 DEF Next

\* A call that succeeds has the response to its own request, for any number of
\* threads, late responses, lost connections and restarts of either process.
THEOREM AnswersAreOwn == Spec => []OwnResponse
  <1>1. IInv /\ OwnInv => OwnResponse
    BY DEF OwnInv
  <1>2. Init => IInv /\ OwnInv
    BY InitHolds, InitOwn
  <1>3. IInv /\ OwnInv /\ [Next]_vars => (IInv /\ OwnInv)'
    BY StepPreserves, StepOwn
  <1>4. QED BY <1>1, <1>2, <1>3, PTL DEF Spec
=============================================================================
