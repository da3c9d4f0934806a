\* Two requests at once: a donation and two meal bookings of one session.
SPECIFICATION Spec
CONSTANTS
  d1 = d1  slot = slot  b1 = b1  b2 = b2  w1 = w1  w2 = w2
  Donation = {d1}
  Slot = {slot}
  Booking = {b1, b2}
  SlotOf <- MCSlotOf
  People <- MCPeople
  Capacities = {2, 3}
  Worker = {w1, w2}
INVARIANTS TypeOK SeatsExplained DonationSettled DinersPaid
