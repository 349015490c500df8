CONSTANTS
  Tag = {t1, t2}
  Access = {a1, a2, a3}
  NoTag = NoTag
  NoRequest = NoRequest
  Assoc = 1
  MshrSize = 2
  MaxCoal = 3
  QueueSize = 3
  Ops = {"load", "store"}
  Grants = {"S", "E"}
  Demands = {}
SPECIFICATION FairSpec
CHECK_DEADLOCK FALSE
PROPERTIES AccessesReturn
