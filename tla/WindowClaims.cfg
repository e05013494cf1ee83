SPECIFICATION Spec
CONSTANTS
  MaxPlayers = 1
  Budget <- WindowBudget
  MaxEvents = 3
CHECK_DEADLOCK FALSE
INVARIANTS
  RestPlayersProtected
  RestWindowAllowsDrains
  RestWindowPublished
