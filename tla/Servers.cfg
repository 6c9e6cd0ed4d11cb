SPECIFICATION ServersSpec
CONSTANTS
  c1 = c1
  c2 = c2
  c3 = c3
  m1 = m1
  m2 = m2
  Calls = {c1, c2, c3}
  Model <- MCModel
  Droppable = {c2}
  Stops = {q1}
  Quits = {q1}
  MaxCrashes = 1
  None = None
  Searches = {s1, s2}
  Escaped = {s1}
  Installs = {i1}
  Updates = {u1}
  Removes = {r1}
  Exits = {e1}
  Commits = {1, 2}
  MaxSearchCalls = 3
INVARIANTS
  OneServer
  EveryServerIsOwned
  ServerIsRecoverable
  StopReachesStarts
  InstalledRuns
  SearchServerFound
PROPERTIES
  EveryStartEnds
