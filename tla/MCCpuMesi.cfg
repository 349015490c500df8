CONSTANTS
  c1 = c1
  c2 = c2
  c3 = c3
  Core = {c1, c2, c3}
  Ops = {"load", "store"}
  Accesses = 4
  L1Evictions = 0
  L2Evictions = 1
  L3Evictions = 1
  Overtakes = {"L1", "ring", "memory", "eviction"}
SPECIFICATION Spec
SYMMETRY Symm
CONSTRAINT NotLate
CHECK_DEADLOCK FALSE
INVARIANTS TypeOK Coherent NoLostStore AnswersAccounted QuietIsClean 
