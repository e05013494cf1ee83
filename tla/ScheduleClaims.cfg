SPECIFICATION Spec
CONSTANTS
  RetainCount = 2
  Due <- MCDue
  HourLength = 2
  MaxTime = 6
  Budget <- EventBudget
CHECK_DEADLOCK FALSE
INVARIANT
  OneSnapshotPerDueHour
PROPERTY
  DueHourHasSnapshot
