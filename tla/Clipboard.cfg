SPECIFICATION FairSpec
CONSTANTS
  Pastes = {p1, p2}
  Captures = {c1}
  Copies = {u1}
  None = None
INVARIANTS
  ClipboardComesBack
PROPERTIES
  RestoresOnlyItsText
  BatchEnds
