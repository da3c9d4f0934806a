\* A request and the clean-up cycles of two instances under fair scheduling.
SPECIFICATION FairSchedulerSpec
CONSTANTS
  puja = puja  b1 = b1  b2 = b2  w1 = w1
  c1 = c1  c2 = c2  i1 = i1  i2 = i2
  Slot = {puja}
  DarshanSlot = {}
  Booking = {b1}
  SlotOf <- MCSlotOf
  Qty <- MCQty
  Capacities = {1}
  Worker = {w1}
  Cleaner = {c1, c2}
  LateCapture = FALSE
  Closings = {"CANCELLED"}
  MaxDeficit = 1
  Instance = {i1, i2}
  HostOf <- MCHostOf
CHECK_DEADLOCK FALSE
INVARIANT CyclesApart
PROPERTY HoldReleased
