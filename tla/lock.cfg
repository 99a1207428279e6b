CONSTANTS
  Pids = {d1, d2, d3, d4}
  Options = {{}, {"force"}, {"no-lockfile"}, {"no-daemon"}}
SYMMETRY MCSymmetry
SPECIFICATION Spec
INVARIANTS LockSound RestartAfterStop
CHECK_DEADLOCK FALSE
