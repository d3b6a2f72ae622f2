SPECIFICATION Spec
CONSTANTS
  Master = m
  Slave = s
  media = media
  phone = phone
  Name = {media, phone}
  Uses <- MCUses
  App <- MCApp
  StartId = 1
  MaxId = 3
  Scenario <- MCScenario
  None = None
INVARIANTS
  TypeOK
  NoCrossedChannels
  SameNumber
  AssertionsHold
  
PROPERTY
  PromptCallsSucceed
CHECK_DEADLOCK FALSE
