SPECIFICATION FairSpec
CONSTANTS
  Sessions = {s1}
  NoSession = NoSession
  NoChallenge = NoChallenge
  Challenges = {c1, c2}
  Prompts = {"own", "other"}
  Holdings = {"live", "otherKey", "deadSlot", "duplicate", "mismatched"}
  Faults = {"linkDies", "lonelyEnd", "killed", "stop", "cancel"}
  OneShot = FALSE
INVARIANTS IInv VerdictLostOnlyIfDisturbed AnswerIsForThisChallenge UnlockedMeansKeySpent
PROPERTIES PromiseKept ExchangeEnds ConnectEnds AnswerIsSettledForThePerson
CHECK_DEADLOCK FALSE
