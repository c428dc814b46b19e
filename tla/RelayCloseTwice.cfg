SPECIFICATION ListenSpec
CONSTANTS
  Relays = {r1, r2}
  NoRelay = NoRelay
  Closers = {"deferred", "timer"}
  MaxFaults = 0
INVARIANT CleanupCalledOnce
SYMMETRY RelaySymmetry
CHECK_DEADLOCK FALSE
