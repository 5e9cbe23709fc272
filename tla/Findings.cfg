SPECIFICATION FairSpec
CONSTANTS
  Rules = {"r1", "r2"}
  Targets = {"t1", "t2"}
  RuleOf <- MCOneEach
  MaxRows = 1
  Limit = 5
  Setups <- MCSetups
CHECK_DEADLOCK FALSE
INVARIANTS
  TypeOK
  HistoryTellsStatus
  EachEpisodeAnnouncedOnce
  HistoryIsConsistent
  NoLastingOrphan
PROPERTIES
  OnlyGoneIsResolved
  IgnoredStaysIgnoredInTurn
  EventuallyAccurate
