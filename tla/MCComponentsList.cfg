SPECIFICATION ListSpec
CONSTANTS
  a = a
  b = b
  e1 = e1
  e2 = e2
  Names = {a, b}
  Editors = {e1, e2}
  MaxRuns = 2
  MaxCuts = 1
SYMMETRY Processes
INVARIANTS SetIsLocal ChoiceStays
CHECK_DEADLOCK FALSE
