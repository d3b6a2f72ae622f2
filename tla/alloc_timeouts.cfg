SPECIFICATION Spec
CONSTANTS
  car = car
  phone = phone
  Node <- Devices
  Channel = {c1}
  NoDir = NoDir
  Client = {app, watchdog}
  QueueSize = 2
  MaxCalls = 2
SYMMETRY Symmetry
CHECK_DEADLOCK FALSE
INVARIANTS
  TypeOK
  NotRequestedAndRegistered
  RegisteredIffOpen
