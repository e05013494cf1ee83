SPECIFICATION Spec
CONSTANTS
  Requests <- RemoveRequests
  Legacy <- ClashingSpec
  MaxSecret = 1
  MaxPlayers = 1
  Budget <- RemoveBudget
  MaxEvents = 1
CHECK_DEADLOCK FALSE
INVARIANT
  OperatorIsAdmitted
