\* Fair redelivery and polling, a clean-up pass, two instances that may fail.
SPECIFICATION FairSystemSpec
CONSTANTS
  puja = puja  b1 = b1  w1 = w1
  h1 = h1  h2 = h2  e1 = e1  e2 = e2
  Slot = {puja}
  DarshanSlot = {}
  Booking = {b1}
  SlotOf <- MCSlotOf
  Qty <- MCQty
  Capacities = {1}
  Worker = {w1}
  Cleaner = {w1}
  LateCapture = TRUE
  Closings <- MCClosings
  MaxDeficit = 0
  Handler = {h1, h2}
  Attempt = {e1}
  AttemptOf <- MCAttemptOf
  MaxRefunds = 0
CHECK_DEADLOCK FALSE
PROPERTIES EveryEventAnswered PaidIsSettledByPolling
