SPECIFICATION FairSpec
CONSTANTS
  Hooks = {"w1", "w2"}
  Requests <- MCOneRequest
  Capacity = 2
  MaxRetries = 2
  Outcomes = {"ok", "refused", "unavailable", "late"}
  MaxEnqueues = 3
  MaxEdits = 1
  MaxCrashes = 1
CHECK_DEADLOCK FALSE
INVARIANTS
  TypeOK
  DeliveriesAreBounded
PROPERTIES
  RecordedSuccessIsFinal
  EveryRequestIsRecorded
  QueueDrains
