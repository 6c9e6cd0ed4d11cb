SPECIFICATION Spec
CONSTANTS
  Pastes = {p1, p2}
  Captures = {}
  Copies = {}
  None = None
INVARIANTS
  BringsBackNoPaste
