SPECIFICATION Spec
CONSTANTS
  Tabs = {b1, b2}
  Calls = {c1, c2}
  Tokens = {t1, t2}
  None = None
SYMMETRY Symmetry
INVARIANTS
  TypeOK
  OneRefreshUnlessLate
  SignedOutForAReason
  
CHECK_DEADLOCK FALSE
