SPECIFICATION ControllerSpec
CONSTANTS
  Name = {n1}
  Slot = {r1, r2}
  MaxLives = 2
  MaxSession = 2
  MaxServer = 1
  OwnSessions = 2
  MaxUpset = 0
  Overlap = TRUE
INVARIANT ActsAsItself
CHECK_DEADLOCK FALSE
