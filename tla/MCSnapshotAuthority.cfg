SPECIFICATION FairSpec
CONSTANTS
  c1 = c1  c2 = c2
  Clients = {c1}
  MaxGeneration = 3
CHECK_DEADLOCK FALSE
INVARIANTS WaitsInVainOnlyIfMissed
PROPERTIES CatchesUp DisconnectEnds StopEndsUnlessMissed
