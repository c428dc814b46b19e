SPECIFICATION Spec
CONSTANTS
  Commands = {a}
  Holders = {h1, h2}
  NoId = NoId
  Keys = {k1, k2}
  Slots = {0, 1, 2, 3}
  FirstSlot = 0
  TokenIds = {0, 1}
  Kinds = {"replace"}
  MaxRunning = 1
  Interruptions = FALSE
INVARIANTS RotationKeepsAccess
CHECK_DEADLOCK FALSE
