SPECIFICATION Spec
CONSTANTS
  RuleOrder <- MCTwoRules
  Options <- MCOptions
  Setups <- MCSetups
CHECK_DEADLOCK FALSE
INVARIANTS
  TypeOK
  NoSilentRow
  ShownIsComplete
  CostIsCappedInTurn
  ReactivationIsCleanInTurn
PROPERTIES
  RowsAreGuarded
