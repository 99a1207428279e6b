CONSTANTS
  Apps = {1, 2}
  Clis = {1, 2}
  Requests <- MCRequests
  MaxPid = 2
  MaxCommands = 4
SPECIFICATION Spec
INVARIANTS OneProcess StoppedFirst
PROPERTY CommandEnds
CHECK_DEADLOCK FALSE
