SPECIFICATION FairSpec
CONSTANTS
  Requests <- SmallRequests
  Specs <- WhenIdleSpecs
  Budget <- RemovalBudget
CHECK_DEADLOCK FALSE
PROPERTIES
  StatefulSetComesBack
