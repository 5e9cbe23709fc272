SPECIFICATION Spec
CONSTANTS
  Rules = {"r1", "r2"}
  Targets = {"t1", "t2"}
  RuleOf <- MCOneEach
  MaxRows = 1
  Limit = 5
  Setups <- MCOneRequest
CHECK_DEADLOCK FALSE
PROPERTIES
  IgnoredStaysIgnored
