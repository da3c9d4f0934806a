\* One request at a time, but a payment may arrive after its booking expired.
SPECIFICATION Spec
CONSTANTS
  puja = puja  darshan = darshan
  b1 = b1  b2 = b2  b3 = b3
  w1 = w1  w2 = w2  c1 = c1  c2 = c2
  Slot = {puja}
  DarshanSlot = {}
  Booking = {b1, b2}
  SlotOf <- MCSlotOf
  Qty <- MCOneSeat
  Capacities = {1}
  Worker = {w1}
  Cleaner = {w1}
  LateCapture = TRUE
  Closings = {"CANCELLED"}
  MaxDeficit = 0
CHECK_DEADLOCK FALSE
INVARIANT NoOverbooking
