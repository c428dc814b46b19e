SPECIFICATION ListenFairSpec
CONSTANTS
  Relays = {r1, r2}
  NoRelay = NoRelay
  Closers = {"deferred", "timer"}
  MaxFaults = 2
INVARIANTS SessionKeepsRegistration NothingOutlivesAttempt
PROPERTIES KeepsReachable
CHECK_DEADLOCK FALSE
