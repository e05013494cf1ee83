SPECIFICATION Spec
CONSTANTS
  Offset <- MCOffset
  Exprs <- SupportedExprs
INVARIANT
  SupportedWindowsOpen
