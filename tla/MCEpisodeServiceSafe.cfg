SPECIFICATION FairSpec
CONSTANTS
  run = run  tool = tool  w1 = w1  w2 = w2  s1 = s1  s2 = s2  none = none
  Runtime = run
  Tools = {tool}
  Workers = {w1, w2}
  Services = {s1, s2}
  Series = {"main", "side"}
  Seeded = "main"
  None = none
  Counts = {0}
  MaxTitles = 2
  MaxItems = 1
  MaxMishaps = 1
CHECK_DEADLOCK FALSE
INVARIANTS AheadOfGiven
PROPERTIES RemoteFollows
