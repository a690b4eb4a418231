SPECIFICATION EachSpec
CONSTANTS
  Parts = {"living", "dying"}
  Log = log
  Note = note
  Mirror = u2
  Paths = {log, note}
  Urls = {u1}
  Forge = u1
  MaxBranches = 2
  MaxCommits = 2
  MaxCaptures = 2
  MaxOthers = 1
  MaxLocal = 0
  MaxCrashes = 0
  Gh = {"silent"}
  Hasty = FALSE
INVARIANTS NoCaptureLost
PROPERTIES DropsOnlyLanded OnlyOnItsParent DyingLeavesARecord
CHECK_DEADLOCK FALSE
