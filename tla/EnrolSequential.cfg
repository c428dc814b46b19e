SPECIFICATION Spec
CONSTANTS
  Commands = {a, b, c}
  Holders = {h1, h2}
  NoId = NoId
  Keys = {k1, k2}
  Slots = {0, 1, 2, 3}
  FirstSlot = 0
  TokenIds = {0, 1}
  Kinds = {"enrol", "pair", "replace", "move", "remove"}
  MaxRunning = 1
  Interruptions = TRUE
INVARIANTS OneRecipientPerTransportId RevocationHitsItsOwn RevokedOpensNothing
PROPERTIES SuccessMeansEnrolled BystandersKeepAccess
VIEW LiveState
SYMMETRY NameSymmetry
CHECK_DEADLOCK FALSE
