SPECIFICATION Spec
CONSTANTS
  Requests <- SmallRequests
  Specs <- WhenIdleSpecs
  Budget <- QuietBudget
CHECK_DEADLOCK FALSE
PROPERTIES
  MemoryGuarded
