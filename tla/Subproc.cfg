CONSTANTS
  Obj <- OneObject
  Pid <- TwoPids
  Settable <- TwoStreams
SPECIFICATION Spec
INVARIANTS AlarmOnlyInWait StreamsOpen TimedOutStops ChildKnown
PROPERTIES WaitEnds
CHECK_DEADLOCK FALSE
