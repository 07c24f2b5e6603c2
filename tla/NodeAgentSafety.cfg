CONSTANTS
  Instance = {a, b, d}
  Port = {p1, p2, p3}
  None = none
  MaxInstances = 1
  Client = {c1, c2}
  Loop = {}
  Poller = {l1}
  Faults = {}
  MaxDrops = 1
  Name = {n1}
  Slot = {r1, r2}
  MaxLives = 2
  MaxSession = 3
  MaxServer = 1
  OwnSessions = 2
  MaxUpset = 1
  Overlap = FALSE
SYMMETRY NodeSymmetry
SPECIFICATION NodeSpec
INVARIANTS
  PortSingleOwner
  LimitOvershoot
  LeakBound
  NextListHasChange
  NotRefused
CHECK_DEADLOCK FALSE
