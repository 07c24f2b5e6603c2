SPECIFICATION ServicesSpec
CONSTANTS
  Srv = {s0, s1, s2}
  First = s0
  Moves = 2
  Actor = {owner}
  File = {f1}
  MaxMishap = 1
  MaxWrite = 1
  MaxDelta = 1
  Servers = 2
  Node = {n1, n2}
  RowsFit = 1
  Owner = {o1}
  Idle = 0
  MinLife = 1
  Expiry = 1
  MaxAge = 2
  MaxOutage = 1
  Link = {l1}
  LinkRoom = 2
  MaxData = 3
  MaxSwitch = 2
  Channel = {0, 1}
  MaxChunk = 2
  MaxSent = 3
  Room = 2
  Src = {c1}
  MaxLink = 2
  PacketRoom = 1
  MaxEmpty = 1
  Game = {g1, g2}
  Tries = 2
  MaxBegin = 3
  MaxLow = 1
  Member = {m1}
  Address = {x, y}
  NoAddress = nowhere
  MaxSeats = 1
  MaxRoomLink = 3
  MaxTrouble = 2
  MaxOnWay = 6
  LateUp = FALSE
INVARIANTS
  ServesLatest OneRunning NeverLost
  AllowlistHolds LeavesNothing NobodyStranded
  Reassembles MapsSound
  NothingLingers
  CloseComes
PROPERTIES
  FailureRestores MoveEnds
  SweepSpares SweptInTheEnd
  Decided RoomSettles
  CancelHonoured QueueKept DownloadsEnd
CHECK_DEADLOCK FALSE
