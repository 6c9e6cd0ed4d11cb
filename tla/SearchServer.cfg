SPECIFICATION Spec
CONSTANTS
  Searches = {s1}
  Escaped = {s1}
  Installs = {i1}
  Updates = {u1}
  Removes = {r1}
  Exits = {e1}
  Commits = {1, 2}
  MaxCrashes = 1
  None = None
INVARIANTS
  InstalledRuns
  SearchServerFound
CHECK_DEADLOCK FALSE
