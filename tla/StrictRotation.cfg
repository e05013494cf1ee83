SPECIFICATION Spec
CONSTANTS
  v1 = v1
  v2 = v2
  Image = {v1, v2}
  Specs <- UpgradeSpecs
  MaxSecret = 1
  MaxPlayers = 0
  Budget <- UpgradeBudget
CHECK_DEADLOCK FALSE
PROPERTIES
  StrictSnapshotBeforeAnyUpdate
