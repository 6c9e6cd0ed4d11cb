SPECIFICATION FairSpec
CONSTANTS
  Setups = {1, 2}
  Deletes = {d1}
  Models = {whisper, asr}
  TwoFiles = {asr}
  None = None
  FullSize = 2
  MaxCrashes = 1
INVARIANTS
  InstalledIsVerified
  PresetHasItsModel
PROPERTIES
  CancelEnds
