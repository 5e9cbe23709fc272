SPECIFICATION Spec
CONSTANTS
  Orders = {TRUE}
  MaxMoves = 3
CHECK_DEADLOCK FALSE
INVARIANTS
  NothingTypedIsLost
