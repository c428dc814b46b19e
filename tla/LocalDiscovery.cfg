SPECIFICATION LocalFairSpec
CONSTANTS
  Interfaces = {wifi, ethernet}
  MaxListens = 3
  MaxTrouble = 2
INVARIANTS LocalInv
PROPERTIES FindsTheMachine EverythingStops
CHECK_DEADLOCK FALSE
