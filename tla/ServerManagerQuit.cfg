SPECIFICATION Spec
CONSTANTS
  c1 = c1
  c2 = c2
  c3 = c3
  m1 = m1
  m2 = m2
  Calls = {c1, c2}
  Model <- MCModel
  Droppable = {}
  Stops = {q1}
  Quits = {q1}
  MaxCrashes = 0
  None = None
INVARIANTS
  QuitStopsServer
