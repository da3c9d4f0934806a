\* Two requests about one phone, its OTPs and two refresh tokens.
SPECIFICATION Spec
CONSTANTS
  p1 = p1  t1 = t1  t2 = t2  w1 = w1  w2 = w2
  Phone = {p1}
  Token = {t1, t2}
  Worker = {w1, w2}
  Routes = {"verify"}
  Points <- MCPoints
  Statuses = {"ACTIVE", "SUSPENDED"}
  MaxAttempts = 2
SYMMETRY Interchangeable
INVARIANTS TypeOK OtpWithinLimits LogoutIsFinal WindowsEnd
