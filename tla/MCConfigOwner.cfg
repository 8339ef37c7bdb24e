SPECIFICATION OwnerSpec
CONSTANTS
  c1 = c1
  c2 = c2
  Instances = {c1, c2}
  Subjects <- AllPrograms
  MaxLaunches = 2
  MaxEdits = 1
  MaxMishaps = 1
  SharedLogging = "off"
INVARIANTS StoredStays ZeroIsDone
PROPERTIES KeepsContract
SYMMETRY Consoles
CHECK_DEADLOCK FALSE
