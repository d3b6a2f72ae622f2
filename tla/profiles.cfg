SPECIFICATION FairSpec
CONSTANTS
  car = car
  phone = phone
  Node = {car, phone}
  Profiles <- MCProfiles
  MapOrder <- MCMapOrder
  Absent = Absent
  Null = Null
  MaxLives = 2
  MaxLoads = 2
  Scenario <- MCScenario
CHECK_DEADLOCK FALSE
INVARIANTS
  TypeOK
  RegistryMatchesApp
  NoOrphans
PROPERTIES
  EveryCreationIsDecided
