\* Two instances, one of which also cleans up, work on two stays that clash.
SPECIFICATION Spec
CONSTANTS
  room = room  s1 = s1  s2 = s2  w1 = w1  w2 = w2
  Room = {room}
  Stay = {s1, s2}
  RoomOf <- MCRoomOf
  CheckIn <- MCCheckIn
  CheckOut <- MCCheckOut
  Closings = {"CANCELLED"}
  Worker = {w1, w2}
  Cleaner = {w2}
INVARIANTS TypeOK GuestsPaid DoubleStaysExplained
