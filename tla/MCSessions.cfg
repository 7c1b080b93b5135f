SPECIFICATION Spec
CONSTANTS
  Tokens = {t1, t2, t3}
  ResetTokens = {p1}
  Requests = {q1, q2}
INVARIANTS
  TypeOK
  RotationBounded
  SessionsEndUnlessOverlapped
PROPERTIES
  ResetTokensLimited
CHECK_DEADLOCK FALSE
