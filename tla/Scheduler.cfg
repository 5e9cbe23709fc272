SPECIFICATION FairSpec
CONSTANTS
  Instances = {"i1", "i2"}
  Groups = {"health"}
  Interval <- MCInterval
  HealthGroup = "health"
  OwnInterval <- MCOwnInterval
  MaxConcurrent = 1
  Edited = {"i1"}
  MaxEvents = 2
CHECK_DEADLOCK FALSE
INVARIANTS
  TypeOK
  SlotsGoToDistinctInstances
  CollectingIsTrue
PROPERTIES
  NoStarvation
  CapabilitiesConverge
