SPECIFICATION FairSSMSpec
CONSTANTS
  Handler = Handler
  Sender <- CallbackThreads
  MaxSent = 2
  Crashable <- SomeCrash
  MaxCrashes = 1
CHECK_DEADLOCK FALSE
INVARIANTS
  SSMTypeOK
  NoLostWakeup
  TriggerFindsItsState
  OneVerdict
  LockedUntilAuthenticated
  OnlyCrashesRestart
PROPERTIES
  BringUpEnds
  CrashIsRestarted
