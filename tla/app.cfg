CONSTANTS
  MaxMsgId = 3
  NBuff = 2
  Descriptors = {1, 2}
  FileSizes = {0, 3}
  Responses <- MCResponses
  MaxEvents = 2
  MaxOpen = 1
  MaxWrites = 2
SPECIFICATION Spec
INVARIANTS TableSound FilesOwned NotCut NoSpin
PROPERTY RegistersAgain
CHECK_DEADLOCK FALSE
