SPECIFICATION Spec
CONSTANTS
  MaxDays = 2
  Transcripts = transcripts
  Calendar = calendar
  Notes = notes
  Unset = Unset
  Local = {transcripts}
  Active = {transcripts, calendar, notes}
  Required = {transcripts, notes}
  Stuck = {}
  FirstMarks <- MarksFew
  FirstDay = 4
  MaxDay = 5
  MaxOwner = 1
  MaxClock = 1
INVARIANTS EndedDays
PROPERTIES ClosesOnlyWhatItRead ReopenNeverCloses
