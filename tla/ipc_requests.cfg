SPECIFICATION Spec
CONSTANTS
  Server = s
  Client = c
  Thread = {t, u}
  FirstDir <- MCFirstDir
  CallsOfServer = 1
  CallsOfClient = 2
  MaxCalls <- MCMaxCalls
  MaxConnections = 2
  None = None
CHECK_DEADLOCK FALSE
INVARIANTS
  TypeOK
  OwnResponse
  OnlyCallersBuffer
PROPERTY
  DirectedCallsEnd
