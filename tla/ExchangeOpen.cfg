SPECIFICATION Spec
CONSTANTS
  Sessions = {s1, s2}
  NoSession = NoSession
  NoChallenge = NoChallenge
  Challenges = {c1, c2}
  Prompts = {}
  Holdings = {"live", "duplicate"}
  Faults = {"linkDies", "stop"}
  OneShot = TRUE
INVARIANTS VerdictTruthful DeliveredOnlyForLiveApproval OpenEndsOnlyOnSuccess
SYMMETRY SessionSymmetry
CHECK_DEADLOCK FALSE
