CONSTANTS
  Instance = {a, b}
  Copy = {base, v1, v2}
  Base = base
  None = none
  MaxInstances = 1
  Client = {c1}
  Loop = {t1}
  Races = {}
  MaxUpsets = 0
SPECIFICATION Spec
PROPERTY
  MoveKeepsServer
