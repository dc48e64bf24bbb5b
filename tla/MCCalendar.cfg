SPECIFICATION Spec
CONSTANTS
  i1 = i1
  i2 = i2
  room = room
  Ids = {i1, i2}
  Resources = {room}
  Times = {0, 1, 2, 3}
INVARIANTS
  NoDoubleBooking
