SPECIFICATION Spec
CONSTANTS
  Starts = {s1, s2}
  TranslateStarts = {s1}
  Stops = {}
  Aborts = {a1}
  Drafts = {d1}
  None = None
CONSTRAINTS
  DraftOrAbort
  TranslateFirst
INVARIANTS
  StopTakesOneRun
  MicOwned
  SpeechStaysInItsRun
  RecordingIsBounded
PROPERTIES
  OnlyCancelledRunsInterfere
