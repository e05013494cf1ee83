SPECIFICATION Spec
CONSTANTS
  v1 = v1
  v2 = v2
  Image = {v1, v2}
  Specs <- LifecycleSpecs
  MaxSecret = 0
  MaxPlayers = 0
  Budget <- LifecycleBudget
CHECK_DEADLOCK FALSE
INVARIANTS
  FinalizerPinsServer
PROPERTIES
  LiveServerKeepsSaveData
  ImplementsLifecycle
