CONSTANTS
  MaxMsgId = 2
  NBuff = 2
  Ends = {a, b}
  Openers = {a, b}
  LateFlush = FALSE
  MaxOpens = 1
  MaxPackets = 1
  MaxBurst = 0
  MaxInFlight = 2
  MaxBreaks = 0
SPECIFICATION Spec
INVARIANT Addressed
CHECK_DEADLOCK FALSE
