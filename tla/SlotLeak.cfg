CONSTANTS
  Instance = {a}
  Copy = {base, v1, v2}
  Base = base
  None = none
  MaxInstances = 1
  Client = {c1}
  Loop = {t1}
  Races = {}
  MaxUpsets = 1
SPECIFICATION Spec
INVARIANT
  SlotIsHeld
