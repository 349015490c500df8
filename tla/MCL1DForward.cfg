CONSTANTS
  Tag = {t1, t2}
  Access = {a1, a2}
  NoTag = NoTag
  NoRequest = NoRequest
  Assoc = 2
  MshrSize = 2
  MaxCoal = 3
  QueueSize = 3
  Ops = {"load", "store"}
  Grants = {"S", "E"}
  Demands = {"getx_fwd_inval"}
SPECIFICATION Spec
SYMMETRY Symm
CHECK_DEADLOCK FALSE
INVARIANTS NoLostStore
