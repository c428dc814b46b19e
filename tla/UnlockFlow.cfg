CONSTANTS
    Sessions = {s1, s2}
    Runs = {r1, r2}
    Errands = {e1}
    None = None
SPECIFICATION LiveSpec
INVARIANTS IInv
PROPERTIES WaitingEnds
CONSTRAINT NoMishap
CHECK_DEADLOCK FALSE
