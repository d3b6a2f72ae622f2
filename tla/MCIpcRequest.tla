---------------------------- MODULE MCIpcRequest ----------------------------
(* Model checking IpcRequest: a server and a client with two threads each.  *)
EXTENDS IpcRequest

CONSTANTS CallsOfServer, CallsOfClient

MCMaxCalls == [e \in {Server, Client} |-> IF e = Server THEN CallsOfServer ELSE CallsOfClient]

\* This CIpc is the only one in the server, and the second one in the client.
MCFirstDir == [e \in {Server, Client} |-> IF e = Server THEN 1 ELSE 2]

=============================================================================
