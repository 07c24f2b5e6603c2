CONSTANTS
  Instance = {a, b}
  Port = {p1}
  None = none
  MaxInstances = 2
  Client = {c1}
  Loop = {t1}
  Poller = {l1}
  Faults = {"start", "overlap"}
  MaxDrops = 1
SPECIFICATION FairSpec
PROPERTY
  StaleBridgeDropped
