SPECIFICATION FairSpec
CONSTANTS
  Rules = {r1}
  Servers = {s1, s2}
  Runs = {c1}
  Cooldown = 1
  NoRule = NoRule
PROPERTIES
  HotServerAlerted
