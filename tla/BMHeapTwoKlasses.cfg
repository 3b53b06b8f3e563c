SPECIFICATION Spec
CONSTANTS
  k1 = k1
  k2 = k2
  s1 = s1
  s2 = s2
  s3 = s3
  s4 = s4
  NoSeg = NoSeg
  Klass <- TwoKlasses
  Seg <- ThreeSegs
  Pool <- OnePool
  MaxPool = 1
  Bits <- SmallBits
  Blocks <- Blocks3
  L1Limit <- LowL1
SYMMETRY PoolSymmetry
INVARIANTS SegmentOwnership LiveNotFreed
CHECK_DEADLOCK FALSE
