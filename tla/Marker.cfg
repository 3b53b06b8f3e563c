SPECIFICATION Spec
CONSTANTS
  n1 = n1
  n2 = n2
  n3 = n3
  Node <- ThreeNodes
  InitSize = 2
  MaxRoots = 2
  MaxFields <- FewFields
INVARIANTS MarkedReachable StackFits
PROPERTIES TracingEnds
