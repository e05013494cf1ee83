SPECIFICATION Spec
CONSTANTS
  RetainCount = 2
  Due <- MCDue
  HourLength = 2
  MaxTime = 5
  Budget <- PruneBudget
CHECK_DEADLOCK FALSE
INVARIANT
  SnapshotsAreBounded
PROPERTIES
  RecentSnapshotsKept
  PrunedToRetainCount
