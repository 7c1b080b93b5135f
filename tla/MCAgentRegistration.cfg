SPECIFICATION Spec
CONSTANTS
  Hosts = {h1}
  Tokens = {t1, t2}
  Requests = {q1, q2}
  NoToken = NoToken
INVARIANTS
  TypeOK
  RowsBounded
  TokenLostOnlyToLater
PROPERTIES
  ImplementsLimitedToken
  StrandedUntilReinstalled
CHECK_DEADLOCK FALSE
