SPECIFICATION Spec
CONSTANTS
  car = car
  phone = phone
  service = service
  data = data
  Node <- Devices
  Channel <- Channels
  Service = service
  Wrap = 8
  QueueSize = 2
  WireSize = 4
  Window = 3
  Budget <- BothWays
  Fault = {"early", "reject", "expire", "break", "half"}
  MaxFaults = 2
CHECK_DEADLOCK FALSE
INVARIANTS
  TypeOK
  UndeliveredIsKept

  
  
