SPECIFICATION Spec
CONSTANTS
  Version <- MCVersion
  Banner <- MCBanner
  MaxPlayers = 1
  Budget <- SidecarBudget
INVARIANTS
  OneInfoSeries
  CountsAreObserved
