SPECIFICATION Spec
CONSTANTS
  Rules = {r1}
  Servers = {s1, s2}
  Runs = {c1, c2}
  Cooldown = 1
  NoRule = NoRule
SYMMETRY Symmetry
INVARIANTS
  TypeOK
  AlertRateBounded
PROPERTIES
  DeletedRuleSilent
