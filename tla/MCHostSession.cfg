SPECIFICATION MainSpec
CONSTANTS
  lg = lg  ab = ab  tb = tb
  Children = {lg, ab}
  Logger = lg
  Taskbar = ab
  FaultyJobs = {ab}
  Helpers = {ab}
  Capacity = 1
  MaxCalls = 1
  NoChild = none
CHECK_DEADLOCK FALSE
INVARIANTS GracefulSpared Accounted RefusedLeaveNothing LoggerLast
PROPERTIES ForcedOnlyAfterAsked EndsOrPrompts RequestEndsSession
