SPECIFICATION Spec
CONSTANTS
  Hooks = {"w1"}
  Requests <- MCOneRequest
  Capacity = 2
  MaxRetries = 2
  Outcomes = {"ok", "unavailable"}
  MaxEnqueues = 3
  MaxEdits = 0
  MaxCrashes = 0
CHECK_DEADLOCK FALSE
INVARIANTS
  NotifiedOnce
