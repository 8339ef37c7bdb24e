SPECIFICATION Spec
CONSTANTS
  taskbar = taskbar
  wake = wake
  m = m
  h = h
  Main = m
  Hand = h
  Components = {taskbar, wake}
  Configurable = {taskbar, wake}
  Taskbar = taskbar
  MaxStarts = 2
  MaxFaults = 1
INVARIANTS UpIsComplete ListCovers
PROPERTIES FirstRunEnds
CHECK_DEADLOCK FALSE
