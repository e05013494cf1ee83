SPECIFICATION Spec
CONSTANTS
  Requests <- SmallRequests
  Specs <- SwitchSpecs
  Budget <- SwitchBudget
CHECK_DEADLOCK FALSE
INVARIANTS
  BoundsFollowSpec
  DisabledMeansNoVPA
