CONSTANTS
  Fds = {0, 1}
  ListenModes = {TRUE}
  ConnectModes = {}
  EarlyWrites = FALSE
  MaxOpen = 1
SPECIFICATION FairSpec
PROPERTY BackgroundEnds
CHECK_DEADLOCK FALSE
