SPECIFICATION Spec
CONSTANTS
  RuleOrder <- MCTwoRules
  Options <- MCOptions
  Setups <- MCTimedOut
CHECK_DEADLOCK FALSE
INVARIANTS
  CostIsCapped
