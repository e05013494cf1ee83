SPECIFICATION Spec
CONSTANTS
  MaxPlayers = 1
  Budget <- SeriesBudget
  MaxEvents = 3
CHECK_DEADLOCK FALSE
INVARIANTS
  RestOneSeries
  NothingPublishedOnceGone
