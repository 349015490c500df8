CONSTANTS
  Load = {l1, l2}
  Core = {c1}
  Tag = {t1, t2}
  Written = {t1}
  QueueSize = 1
  MaxInflight = 2
  FlushBound = 1
SPECIFICATION FairSpec
INVARIANTS TypeOK Credits PausesAreSafe FlushesCounted LoadsAccounted
PROPERTIES SouthboundInOrder LoadsReturn
