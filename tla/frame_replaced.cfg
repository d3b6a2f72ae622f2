SPECIFICATION FairSpec
CONSTANTS
  car = car
  phone = phone
  service = service
  data = data
  Node <- Devices
  Channel <- Channels
  Service = service
  Wrap = 8
  QueueSize = 2
  WireSize = 8
  Window = 2
  Budget <- OneWay
  Fault = {"break"}
  MaxFaults = 1
CHECK_DEADLOCK FALSE
PROPERTY
  FramesAreProcessed
