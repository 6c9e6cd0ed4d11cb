SPECIFICATION FairSpec
CONSTANTS
  Starts = {s1}
  TranslateStarts = {}
  Stops = {}
  Aborts = {}
  Drafts = {d1}
  None = None
PROPERTIES
  MicIsReleased
