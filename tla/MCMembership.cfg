SPECIFICATION Spec
CONSTANTS
  Users = {u0, u1, u2}
  Founder = u0
  PlatformAdmins = {u2}
  Invites = {i1, i2}
  Requests = {r1, r2}
SYMMETRY Symmetry
INVARIANTS
  TypeOK
  FounderStays
PROPERTIES
  RemovedStaysOut
