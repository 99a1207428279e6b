CONSTANTS
  MaxMsgId = 1
  NBuff = 2
  Ends = {a, b}
  Openers = {a}
  LateFlush = FALSE
  MaxOpens = 2
  MaxPackets = 3
  MaxBurst = 1
  MaxInFlight = 2
  MaxBreaks = 1
SPECIFICATION Spec
INVARIANTS FlowControl StopAndWait InOrder WritingIsPending ImsgidMap
CHECK_DEADLOCK FALSE
