SPECIFICATION EachSpec
CONSTANTS
  Parts = {"alone", "beside"}
  First = c1
  Second = c2
  Nightly = nightly
  Manual = manual
  Rounds = {nightly}
  Children = {c1}
  Paths = {log, note}
  Old = old
  NoRound = none
  MaxTexts = 2
  MaxPushes = 1
  MaxDeaths = 1
  Timed = TRUE
  Hasty = FALSE
INVARIANTS ChildrenUnderLock
PROPERTIES RestoresOnlyPushed LeavesNothingUnsaid RoundEnds NothingIsLostBeside
CHECK_DEADLOCK FALSE
