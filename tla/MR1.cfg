SPECIFICATION Spec
CONSTANTS
  None = None
  Prime = 5
  Points <- Residues
  Infinity = 0
  Base = 1
  Plus <- PlusMod
  Times <- TimesMod
  XOf <- XMod
  Order = 5
  Radix = 2
  Length = 3
  OrderBytes <- Five
  Multipliers <- Numbers
INVARIANTS IInv RangeCheckIsExact
CHECK_DEADLOCK FALSE
