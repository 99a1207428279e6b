CONSTANTS
  Fds = {3, 4, 5, 6}
  NoFd = NoFd
  MsgIds = {1, 2}
  Urls = {u1, u2}
  NoUrl = NoUrl
  Command = Command
  NBuff = 1
SPECIFICATION Spec
INVARIANTS Routed TableSound Paced Continued Registered
SYMMETRY Symmetry
CHECK_DEADLOCK FALSE
