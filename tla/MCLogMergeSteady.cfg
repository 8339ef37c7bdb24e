SPECIFICATION FairSpec
CONSTANTS
  a = a  b = b  hosted = hosted  once = once
  Sources = {a, b}
  Days = {1, 2}
  DayOf <- OneDay
  Mergers = {hosted}
  Hosted = hosted
  Periodic = TRUE
  Kept = FALSE
  MaxRecords = 2
  MaxFiles = 1
  MaxMishaps = 2
  Mishaps = {"deleteOutput"}
CHECK_DEADLOCK FALSE
PROPERTIES IsOnceLog EveryRecordMerged ShutdownEndsHosted
