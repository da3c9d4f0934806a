\* Two requests and a clean-up pass race on one puja slot.
SPECIFICATION Spec
CONSTANTS
  puja = puja  darshan = darshan
  b1 = b1  b2 = b2  b3 = b3
  w1 = w1  w2 = w2  c1 = c1  c2 = c2
  Slot = {puja}
  DarshanSlot = {}
  Booking = {b1, b2}
  SlotOf <- MCSlotOf
  Qty <- MCQty
  Capacities = {1, 2}
  Worker = {w1, w2}
  Cleaner = {c1}
  LateCapture = TRUE
  Closings = {}
  MaxDeficit = 1
CHECK_DEADLOCK FALSE
SYMMETRY Interchangeable
INVARIANTS TypeOK BookedWithinPeak ValidHasQr
PROPERTY AdmittedOnce
