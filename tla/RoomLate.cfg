SPECIFICATION LanRoomFairSpec
CONSTANTS
  Member = {m1}
  Address = {x, y}
  NoAddress = nowhere
  MaxSeats = 1
  MaxRoomLink = 3
  MaxTrouble = 2
  MaxOnWay = 6
  LateUp = TRUE
PROPERTY DeadLinkGivenUp
CHECK_DEADLOCK FALSE
