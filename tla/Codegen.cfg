CONSTANTS
  Programs <- Methods
SPECIFICATION CodegenSpec
INVARIANTS CountsCover CodeFits AssertsHold Threaded CrashBehindJump
PROPERTIES RunsAsWritten ComesToLeaf
CHECK_DEADLOCK FALSE
