SPECIFICATION Spec
CONSTANTS
  Requests <- SwitchRequests
  Legacy = {}
  MaxSecret = 2
  MaxPlayers = 1
  Budget <- PasswordBudget
  MaxEvents = 3
CHECK_DEADLOCK FALSE
INVARIANT
  LoadedConfigIsCurrent
