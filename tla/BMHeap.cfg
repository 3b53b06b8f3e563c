SPECIFICATION Spec
CONSTANTS
  k1 = k1
  k2 = k2
  s1 = s1
  s2 = s2
  s3 = s3
  s4 = s4
  NoSeg = NoSeg
  Klass <- OneKlass
  Seg <- ThreeSegs
  Pool <- SmallPools
  MaxPool = 2
  Bits <- SmallBits
  Blocks <- Blocks3
  L1Limit <- ExactL1
INVARIANTS LiveInHeap SummarySound CountExact RetrySucceeds
PROPERTIES KeepsPromise CollectionEnds
CHECK_DEADLOCK FALSE
