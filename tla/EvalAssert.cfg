CONSTANTS
  MaxDepth = 7
  MaxRoots = 3
  MaxVars = 1
  MaxText = 3
SPECIFICATION Spec
INVARIANTS GenvIsOwn
CHECK_DEADLOCK FALSE
