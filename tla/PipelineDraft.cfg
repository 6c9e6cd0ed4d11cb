SPECIFICATION FairSpec
CONSTANTS
  Starts = {s1}
  TranslateStarts = {s1}
  Stops = {p1}
  Aborts = {}
  Drafts = {d1}
  None = None
PROPERTIES
  AlwaysBackToIdle
