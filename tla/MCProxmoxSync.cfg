SPECIFICATION FairSpec
CONSTANTS
  Conns = {k1}
  Items = {i1}
  Values = {v1, v2}
  Polls = {c1}
  Syncs = {c2}
  Absent = Absent
  NoRun = NoRun
  NoConn = NoConn
INVARIANTS
  TypeOK
  NoDuplicateInsert
PROPERTIES
  StatusSettles
  InventorySettles
  DeactivatedLeftAlone
