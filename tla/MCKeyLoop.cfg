SPECIFICATION FairSpec
CONSTANTS
  f1 = f1  f2 = f2  n1 = n1  n2 = n2  none = none
  Keys = {"zero", "one", "two", "three"}
  NumpadZero = "zero"
  Binding <- MCBinding
  Apps = {"near", "far", "pad"}
  Native = {"near"}
  Cycling = {"near", "far"}
  Unresolved = {"pad"}
  Windows = {f1, f2, n1, n2}
  AppOf <- MCAppOf
  NoWindow = none
  MaxQueue = 2
  MaxChanges = 1
  MaxFaults = 1
CHECK_DEADLOCK FALSE
INVARIANTS WinDownAccounted
PROPERTIES CycleMoves SecondaryOnce CloseEnds
