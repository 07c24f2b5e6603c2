CONSTANTS
  Instance = {a}
  Copy = {base, v1, v2}
  Base = base
  None = none
  MaxInstances = 1
  Client = {c1}
  Loop = {t1}
  Races = {}
  MaxUpsets = 1
SPECIFICATION FairSpec
INVARIANTS
  PortsKept
  SlotExcludes
PROPERTIES
  DeleteUnused
  MoveKeepsServer
  QueuedCopyGoes
