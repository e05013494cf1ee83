SPECIFICATION Spec
CONSTANTS
  v1 = v1
  v2 = v2
  Image = {v1, v2}
  Specs <- DeferralSpecs
  MaxSecret = 0
  MaxPlayers = 1
  Budget <- DeferralBudget
CHECK_DEADLOCK FALSE
PROPERTIES
  UpdatesHeldBackWhilePlaying
