SPECIFICATION Spec
CONSTANTS
  None = None
  Symbol <- TwoSymbols
  Boxed <- RealBoxed
  Value <- TwoValues
  DELTA = 7
  MaxGrow = 1
PROPERTIES RemoveIsSeen
