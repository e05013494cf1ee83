SPECIFICATION FairSpec
CONSTANTS
  v1 = v1
  v2 = v2
  Image = {v1, v2}
  Specs <- DeferralSpecs
  MaxSecret = 0
  MaxPlayers = 1
  Budget <- RemovedBudget
CHECK_DEADLOCK FALSE
PROPERTIES
  UpdateIsApplied
