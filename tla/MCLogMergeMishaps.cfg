SPECIFICATION Spec
CONSTANTS
  a = a  b = b  hosted = hosted  once = once
  Sources = {a, b}
  Days = {1, 2}
  DayOf <- TwoDays
  Mergers = {hosted, once}
  Hosted = hosted
  Periodic = TRUE
  Kept = TRUE
  MaxRecords = 1
  MaxFiles = 2
  MaxMishaps = 2
  Mishaps = {"kill", "open", "write", "deleteSource", "deleteOutput", "deleteOutputNow"}
CHECK_DEADLOCK FALSE
INVARIANTS NothingLost
PROPERTIES OnlyComplete
