SPECIFICATION Spec
CONSTANTS
  Starts = {s1, s2}
  TranslateStarts = {}
  Stops = {}
  Aborts = {a1}
  Drafts = {}
  None = None
PROPERTIES
  EndOfRunHidesNoMic
