SPECIFICATION Spec
CONSTANTS
  Rules = {"r1"}
  Targets = {"t1", "t2"}
  RuleOf <- MCTwoTargets
  MaxRows = 2
  Limit = 5
  Setups <- MCNothingElse
CHECK_DEADLOCK FALSE
PROPERTIES
  ReportedIsKept
