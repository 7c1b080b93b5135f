SPECIFICATION FairSpec
CONSTANTS
  Servers = {s1, s2}
  CrashProne = {s1}
  Requests = {r1}
  Checkers = {c1, c2}
  Timeout = 1
INVARIANTS
  TypeOK
  OfflineHasAlert
  UntouchedAlertsBounded
  NoFalseAlarm
PROPERTIES
  SilentAgentNoticed
  RunningAgentShownOnline
