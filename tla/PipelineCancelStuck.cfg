SPECIFICATION FairSpec
CONSTANTS
  Starts = {s1}
  TranslateStarts = {}
  Stops = {}
  Aborts = {a1}
  Drafts = {}
  None = None
PROPERTIES
  AlwaysBackToIdle
