SPECIFICATION Spec
CONSTANTS
  Offset <- MCOffset
  Exprs <- ExampleExprs
INVARIANT
  ExampleScheduleDue
