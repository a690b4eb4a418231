SPECIFICATION EachSpec
CONSTANTS
  Parts = {"living"}
  Mirror = u2
  Log = log
  Note = note
  Paths = {log, note}
  Urls = {u1}
  Forge = u1
  MaxBranches = 1
  MaxCommits = 2
  MaxCaptures = 4
  MaxOthers = 0
  MaxLocal = 0
  MaxCrashes = 0
  Gh = {"answers"}
  Hasty = FALSE
INVARIANTS NothingReverted
CHECK_DEADLOCK FALSE
