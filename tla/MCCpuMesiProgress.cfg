CONSTANTS
  c1 = c1
  c2 = c2
  Core = {c1, c2}
  Ops = {"load", "store"}
  Accesses = 4
  L1Evictions = 1
  L2Evictions = 0
  L3Evictions = 0
  Overtakes = {"ring"}
SPECIFICATION FairSpec
CHECK_DEADLOCK FALSE
PROPERTIES AccessesReturn
