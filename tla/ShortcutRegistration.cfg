SPECIFICATION FairSpec
CONSTANTS
  Saves = {s1}
  Captures = {c1}
  Gates = {g1}
  Configs = {a, taken, hidden}
  Taken = {taken, hidden}
  LeftOut = {hidden}
  First = a
  Retry = Retry
  None = None
  MaxFaults = 1
INVARIANTS
  RegisteredAsSaved
  PauseHolds
PROPERTIES
  Recovers
CHECK_DEADLOCK FALSE
