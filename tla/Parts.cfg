SPECIFICATION PartsSpec
CONSTANTS
  ServerId = {a}
  Client = {c1, c2}
  Watch = watch0
  None = none
  MaxRestarts = 2
  MaxBoots = 1
  InspectFails = FALSE
  First = 1
  Last = 3
  Outside = {9}
  Any = any
  MaxSlots = 3
  Member = {m1, m2}
  Address = {x, y}
  NoAddress = nowhere
  MaxSeats = 2
  MaxRoomLink = 3
  MaxTrouble = 1
  MaxOnWay = 1
  LateUp = TRUE
  Nodes = 2
  Instance = {i1, i2, i3}
  Account = {a1}
  Caller = {t1, t2}
  Eraser = {t1}
  Limit = 1
  Total = 2
  BackupLimit = 1
  MaxBackup = 2
  RowsFit = 3
  BackupsFit = 1
INVARIANTS
  PartsTypeOK
  SeatsAgree NewestLinkSeated ViewMatchesEpoch
  LimitsOvershoot EraseComplete
PROPERTIES
  FreshExitsOnly CrashAnswered
  Rested PoolSpec
CHECK_DEADLOCK FALSE
