SPECIFICATION Spec
CONSTANTS
  Requests <- PortRequests
  Legacy = {}
  MaxSecret = 1
  MaxPlayers = 1
  Budget <- SwitchBudget
  MaxEvents = 4
CHECK_DEADLOCK FALSE
INVARIANT
  PlayersKeepTheirPort
