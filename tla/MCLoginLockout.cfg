SPECIFICATION LockSpec
CONSTANTS
  Logins = {q1, q2, q3}
  MaxAttempts = 4
  Lockout = 1
SYMMETRY Symmetry
INVARIANTS
  LockTypeOK
  GuessesBounded
  LockNeedsFailures
