SPECIFICATION Spec
CONSTANTS
  RuleOrder <- MCTwoRules
  Options <- MCOptions
  Setups <- MCOverlapping
CHECK_DEADLOCK FALSE
INVARIANTS
  ReactivationIsClean
