CONSTANTS
  MaxMsgId = 1
  NBuff = 2
  Ends = {a, b}
  Openers = {a}
  LateFlush = FALSE
  MaxOpens = 2
  MaxPackets = 2
  MaxBurst = 0
  MaxInFlight = 2
  MaxBreaks = 0
SPECIFICATION Spec
INVARIANT ResponseExpected
CHECK_DEADLOCK FALSE
