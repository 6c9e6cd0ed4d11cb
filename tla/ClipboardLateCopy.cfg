SPECIFICATION Spec
CONSTANTS
  Pastes = {p1}
  Captures = {c1}
  Copies = {}
  None = None
PROPERTIES
  PastesItsText
