SPECIFICATION FairSpec
CONSTANTS
  N = 5
  Loaded = 3
  PageSize = 2
  MaxInFlight = 2
  Budget = 3
  Filters <- AllAndEnded
INVARIANTS TypeOK IndicatorsOwned OnlyCurrentRows Reachable
PROPERTIES Converges
CHECK_DEADLOCK FALSE
