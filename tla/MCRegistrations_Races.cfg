\* Two requests at once on two registrations for one event.
SPECIFICATION Spec
CONSTANTS
  event = event  r1 = r1  r2 = r2  w1 = w1  w2 = w2
  Event = {event}
  Reg = {r1, r2}
  EventOf <- MCEventOf
  Capacities = {0, 1}
  MaxTokens = 2
  MinBooked <- MCMinBooked
  Worker = {w1, w2}
INVARIANTS TypeOK OverflowBounded NeverOvercounted OneEntryPerCode
CHECK_DEADLOCK FALSE
