\* Two desks and a clean-up pass work on two orders that compete for two units.
SPECIFICATION Spec
CONSTANTS
  laddu = laddu  o1 = o1  o2 = o2  d1 = d1  d2 = d2  c1 = c1
  Product = {laddu}
  Order = {o1, o2}
  Items <- MCItems
  Stocks = {2}
  StatusEdits = {"PLACED", "CANCELLED", "PREPARING"}
  Desk = {d1, d2}
  Cleaner = {c1}
  Closings = {"CANCELLED"}
  MaxReopenings <- MCMaxReopenings
CHECK_DEADLOCK FALSE
SYMMETRY Interchangeable
INVARIANTS TypeOK NeverOversold TakenOnce PaidLeavesPlaced ReservedExact
