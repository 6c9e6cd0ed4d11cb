CONSTANTS
  Tasks = {t1, t2}
  Listeners = {l1, l2}
  Names = {sam, eve}
  None = None
  MaxRuns = 1
SPECIFICATION FairSpec
INVARIANTS
  MicOwned
  SettledAsSaved
PROPERTIES
  ListenersEnd
  ListensAgain
CHECK_DEADLOCK FALSE
