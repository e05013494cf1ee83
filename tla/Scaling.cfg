SPECIFICATION Spec
CONSTANTS
  Requests <- SmallRequests
  Specs <- AllModes
  Budget <- ScalingBudget
CHECK_DEADLOCK FALSE
INVARIANTS
  TypeOK
  RestRequestsSpec
  RestVPAMode
  RestVPAGone
PROPERTIES
  ApplyKeepsMemoryWhilePlaying
