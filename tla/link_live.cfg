CONSTANTS
  MaxMsgId = 1
  NBuff = 2
  Ends = {a, b}
  Openers = {a}
  LateFlush = FALSE
  MaxOpens = 1
  MaxPackets = 2
  MaxBurst = 1
  MaxInFlight = 2
  MaxBreaks = 0
SPECIFICATION FairSpec
PROPERTIES ClosedIsFreed WaitEnds CloseReachesPeer
CHECK_DEADLOCK FALSE
