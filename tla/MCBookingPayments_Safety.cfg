\* Two payment handlers, two attempts, a booking request and a clean-up pass.
SPECIFICATION SystemSpec
CONSTANTS
  puja = puja  b1 = b1  w1 = w1
  h1 = h1  h2 = h2  e1 = e1  e2 = e2
  Slot = {puja}
  DarshanSlot = {}
  Booking = {b1}
  SlotOf <- MCSlotOf
  Qty <- MCQty
  Capacities = {1}
  Worker = {w1}
  Cleaner = {w1}
  LateCapture = TRUE
  Closings <- MCClosings
  MaxDeficit = 1
  Handler = {h1, h2}
  Attempt = {e1, e2}
  AttemptOf <- MCAttemptOf
  MaxRefunds = 1
CHECK_DEADLOCK FALSE
SYMMETRY Interchangeable
INVARIANTS SystemTypeOK CapturedMeansConfirmed NothingForFree OneFulfilmentPerEvent RefundedMeansReturned
