SPECIFICATION FairSpec
CONSTANTS
  Sessions = {s1}
  NoSession = NoSession
  Befores = {{}, {"old"}}
  Shows = {"right", "wrongCode", "badPoint"}
  Faults = {"linkDies", "lonelyEnd", "killed", "cancel", "stepFails", "tokenLost"}
INVARIANTS NothingWithoutConsent ToldEnrolledIsEnrolled NeverWithNeither PairedMeansEnrolled
PROPERTIES PairEnds PhoneEnds
CHECK_DEADLOCK FALSE
