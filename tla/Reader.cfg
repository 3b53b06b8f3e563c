CONSTANTS
  Byte <- Bytes
  InitMax = 3
  MaxWrite = 3
  MaxPrint = 2
  MaxBytes = 40
  MaxOpen = 4
  MaxStatement = 3
  Files <- FilesDef
  Outer <- OuterDef
SPECIFICATION ReaderSpec
INVARIANTS TextWhole TokensOfChunk MovedByLongLine LinesAgree Progresses
PROPERTY ReadingEnds
CHECK_DEADLOCK FALSE
