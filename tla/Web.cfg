SPECIFICATION FrontEndSpec
CONSTANTS
  Orders = {TRUE, FALSE}
  MaxMoves = 8
  Moves <- MCMoves
  WidgetMoves <- MCWidgetMoves
  Unordered <- MCUnordered
  Items = {"f1"}
  Capacity = 2
  Rules = {1, 2}
  Ids = {"a", "b"}
  Instances = {"i1", "i2"}
  Normalised = {"i1"}
  Hooks = {"w1"}
  Accounts = {"ann"}
  Options = 4
  MaxNodes = 4
  Cards = {"n1", "n2"}
CHECK_DEADLOCK FALSE
INVARIANTS
  FrontEndTypeOK
  PagesShowTheServer
  InputIsKept
  AnswersAreAboutTheScreen
  ArrivalsAreToldOnce
  PlanIsReadable
  WidgetsObey
PROPERTIES
  HalvesAreKept
  PollCatchesUp
