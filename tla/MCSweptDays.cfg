SPECIFICATION HistoryFairSpec
CONSTANTS
  MaxDays = 2
  Transcripts = transcripts
  Calendar = calendar
  Notes = notes
  Unset = Unset
  Local = {transcripts}
  Active = {transcripts, calendar, notes}
  Required = {calendar}
  Stuck = {transcripts}
  FirstMarks <- MarksFarOrNone
  FirstDay = 5
  MaxDay = 6
  MaxOwner = 0
  MaxClock = 0
INVARIANTS NoDayClosedUnread
PROPERTIES CatchUp
