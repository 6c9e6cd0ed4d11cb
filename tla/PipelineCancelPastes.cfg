SPECIFICATION Spec
CONSTANTS
  Starts = {s1, s2}
  TranslateStarts = {s2}
  Stops = {p1}
  Aborts = {a1}
  Drafts = {}
  None = None
PROPERTIES
  CancelledRunsPasteNothing
