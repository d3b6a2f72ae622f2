SPECIFICATION SSMSpec
CONSTANTS
  Handler = Handler
  Sender <- CallbackThreads
  MaxSent = 2
  Crashable <- SomeCrash
  MaxCrashes = 1
CHECK_DEADLOCK FALSE
INVARIANT
  NeverReadsEmptyQueue
