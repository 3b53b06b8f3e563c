CONSTANTS
  MaxDepth = 7
  MaxRoots = 3
  MaxVars = 1
  MaxText = 2
SPECIFICATION Spec
INVARIANTS HandlerIsInnermost HeldByOuter GenvNotOuter
CHECK_DEADLOCK FALSE
