\* One request at a time, no payment after a cancellation: the seat ledger is
\* kept exactly.
SPECIFICATION Spec
CONSTANTS
  puja = puja  darshan = darshan
  b1 = b1  b2 = b2  b3 = b3
  w1 = w1  w2 = w2  c1 = c1  c2 = c2
  Slot = {puja, darshan}
  DarshanSlot = {darshan}
  Booking = {b1, b2, b3}
  SlotOf <- MCSlotOf
  Qty <- MCQty
  Capacities = {1, 2}
  Worker = {w1}
  Cleaner = {w1}
  LateCapture = FALSE
  Closings = {"CANCELLED"}
  MaxDeficit = 0
CHECK_DEADLOCK FALSE
INVARIANT SeatsConserved
PROPERTIES AdmissionStands ImplementsLedger
