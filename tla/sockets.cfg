CONSTANTS
  Fds = {0, 1}
  ListenModes = {FALSE, TRUE}
  ConnectModes = {FALSE}
  EarlyWrites = FALSE
  MaxOpen = 2
SPECIFICATION Spec
INVARIANTS SelectableCounted ActiveExists WatchCurrent ReadBufferFree WritePending Accounted
CHECK_DEADLOCK FALSE
