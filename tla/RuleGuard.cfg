SPECIFICATION Spec
CONSTANTS
  Configs <- MCConfigs
  Runs <- MCRuns
  MaxClock = 6
INVARIANTS
  TypeOK
  StateMatchesStrikes
  FaultyRuleCost
  NeverSilent
  CycleNamesEpisode
  RenewalsAnnounced
  QuarantineIsBounded
