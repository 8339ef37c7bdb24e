SPECIFICATION FairSpec
CONSTANTS
  a = a  b = b  c = c  nobody = nobody
  Instances = {a, b, c}
  Nobody = nobody
  MaxFaults = 2
CHECK_DEADLOCK FALSE
INVARIANTS OneAtATime OneSuccessor
PROPERTIES CrashAcknowledged SuccessorAsks
