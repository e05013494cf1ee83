SPECIFICATION FairSpec
CONSTANTS
  v1 = v1
  v2 = v2
  Image = {v1, v2}
  Specs <- DeletionSpecs
  MaxSecret = 0
  MaxPlayers = 0
  Budget <- DeletionBudget
CHECK_DEADLOCK FALSE
PROPERTIES
  DeletionCompletes
  ServerReturns
