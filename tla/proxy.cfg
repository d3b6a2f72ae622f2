SPECIFICATION ProxySpec
CONSTANTS
  car = car
  phone = phone
  Node <- Devices
  Channel = {c1}
  NoDir = NoDir
  App = {app}
  QueueSize = 8
  Client = {app, wd}
  Watchdog = {wd}
  MaxCalls = 1000
  MaxForced = 1000
  MaxFailed = 1
VIEW View
CHECK_DEADLOCK FALSE
INVARIANTS
  ProxyTypeOK
  QuietAgreement
  ClientMatchesAgent
  ResultIsForItsCaller
PROPERTIES
  OperationalEndsByDeallocation
  UndisturbedDeallocateEnds
