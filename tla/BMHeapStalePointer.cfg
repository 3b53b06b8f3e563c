SPECIFICATION Spec
CONSTANTS
  k1 = k1
  k2 = k2
  s1 = s1
  s2 = s2
  s3 = s3
  s4 = s4
  NoSeg = NoSeg
  Klass <- TwoKlasses
  Seg <- FourSegs
  Pool <- TwoPools
  MaxPool = 2
  Bits <- SmallBits
  Blocks <- Blocks32
  L1Limit <- ExactL1
SYMMETRY SegSymmetry
INVARIANTS LiveInHeap
CHECK_DEADLOCK FALSE
