SPECIFICATION FairSpec
CONSTANTS
  Budget = 900
  RetryAfters = {0, 200, 12000}
  Jitters = {80, 120}
  Durations = {0, 100}
  JoinDurations = {0, 250}
  CancelTimes = {0, 100}
  MaxAddresses = 2
  MaxLate = 1
  MaxLookups = 10
INVARIANTS IInv RetryAfterHonoured AsksSparingly
PROPERTIES EndsWithOneSession
CHECK_DEADLOCK FALSE
