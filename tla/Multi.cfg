SPECIFICATION FairSpec
CONSTANTS
  Legs = {local, relay, third}
  Calls = {"Dial", "Listen"}
INVARIANTS NobodyWaitsInVain WinnerKeepsContext LateArrivalsDrained
PROPERTIES KeepsListening
CHECK_DEADLOCK FALSE
