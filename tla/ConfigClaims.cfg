SPECIFICATION Spec
CONSTANTS
  Requests <- RemoveRequests
  Legacy = {}
  MaxSecret = 1
  MaxPlayers = 1
  Budget <- RemoveBudget
  MaxEvents = 1
CHECK_DEADLOCK FALSE
INVARIANTS
  NoLeftoverConfig
  VolumeFollowsSpec
