SPECIFICATION Spec
CONSTANTS
  None = None
  Symbol <- SmallSymbols
  Boxed <- SmallBoxed
  Value <- TwoValues
  DELTA = 3
  MaxGrow = 2
INVARIANTS TypeOK
PROPERTIES SetIsSeen
