SPECIFICATION FairSpec
CONSTANTS
  NoChannel = NoChannel
  service = service
  video = video
  audio = audio
  logs = logs
  Channel <- Busy
  Priority <- Priorities
  Closable = {video, logs}
  QueueSize = 1
  Window = 1
  MaxOpens = 2
CHECK_DEADLOCK FALSE
INVARIANTS
  TypeOK
  SourceInUse
  OvertakenOnce
PROPERTY
  EarlySourcesAreServed
