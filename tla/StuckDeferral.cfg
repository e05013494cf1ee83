SPECIFICATION FairSpec
CONSTANTS
  Requests <- SwitchRequests
  Legacy = {}
  MaxSecret = 1
  MaxPlayers = 1
  Budget <- SwitchBudget
  MaxEvents = 4
CHECK_DEADLOCK FALSE
PROPERTIES
  DeferredUpdateIsApplied
  EmptyServerComesUp
