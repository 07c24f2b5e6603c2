CONSTANTS
  Instance = {a, b}
  Port = {p1, p2}
  None = none
  MaxInstances = 2
  Client = {c1}
  Loop = {}
  Poller = {}
  Faults = {"start"}
  MaxDrops = 0
SPECIFICATION Spec
INVARIANTS
  PortsDistinct
