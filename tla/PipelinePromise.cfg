SPECIFICATION FairSpec
CONSTANTS
  Starts = {s1, s2}
  TranslateStarts = {s2}
  Stops = {p1}
  Aborts = {}
  Drafts = {}
  None = None
PROPERTIES
  KeepsPromise
