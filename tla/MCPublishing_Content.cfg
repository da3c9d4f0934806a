\* What administrators publish: rows of the catalogue, darshan schedules, pages.
SPECIFICATION AllSpec
CONSTANTS
  s1 = s1  t6 = t6  t7 = t7  closed = closed  long = long  w1 = w1  w2 = w2
  Row <- MCRow
  Table <- MCTable
  Null = Null
  Spent <- MCSpent
  Writer = {w1, w2}
  Schedule = {s1}
  Start = {t6, t7}
  Terms = {closed, long}
  Falsy = {closed}
  Recurrence <- MCRecurrence
  Horizon = 1
  LastDay = 1
  Editor = {w1}
  AskedPage = {"darshan", "accommodation", "mahaprasad"}
  Suffix = {"today"}
  Builder = {w1, w2}
  Edited = {"darshanSlot", "room", "mahaprasadSlot"}
  MaxEdits = 1
INVARIANT ActiveSlotsAgree
PROPERTIES EditsAreShown PaymentsOutlive TempleTakesItsOwn
CHECK_DEADLOCK FALSE
