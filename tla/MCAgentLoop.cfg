SPECIFICATION LoopSpec
\* One tick is five seconds.
CONSTANTS
  Host = host
  Heartbeats = {r1, r2}
  Timeout = 60
  HeartbeatInterval = 12
  MetricInterval = 6
  PostTimeout = 6
  RestartDelay = 6
  ServeTimeout = 12
  Losses = 1
SYMMETRY Symmetry
INVARIANT LoopTypeOK
PROPERTY KeepsHostSteady
