SPECIFICATION FairSpec
CONSTANTS
  main = main  monitor = monitor  devices = devices
  launched = launched  byhand = byhand  none = none
  Main = main
  Monitor = monitor
  Devices = devices
  Launched = launched
  ByHand = byhand
  None = none
  Lifetime = 2
  MaxTime = 1
  MaxGrants = 2
  MaxRotations = 2
  AutoLaunch = TRUE
  Commands = {"next_song", "play_pause"}
  MaxMishaps = 1
CHECK_DEADLOCK FALSE
INVARIANTS FileAccepted
PROPERTIES KeepsSignIn PromptIsNeeded StopEnds
