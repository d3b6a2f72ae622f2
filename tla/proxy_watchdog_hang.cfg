SPECIFICATION ProxySpec
CONSTANTS
  car = car
  phone = phone
  Node <- Devices
  Channel = {c1}
  NoDir = NoDir
  App = {app}
  QueueSize = 8
  Client = {app, wd}
  Watchdog = {wd}
  MaxForced = 1
  MaxFailed = 0
  MaxCalls = 1
CHECK_DEADLOCK FALSE
PROPERTY
  DeallocateEnds
