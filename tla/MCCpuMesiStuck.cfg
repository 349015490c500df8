CONSTANTS
  c1 = c1
  c2 = c2
  c3 = c3
  Core = {c1, c2, c3}
  Ops = {"load", "store"}
  Accesses = 3
  L1Evictions = 0
  L2Evictions = 0
  L3Evictions = 0
  Overtakes = {"ring"}
SPECIFICATION FairSpec
CHECK_DEADLOCK FALSE
PROPERTIES AccessesReturn
