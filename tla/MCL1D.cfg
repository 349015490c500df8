CONSTANTS
  Tag = {t1, t2, t3}
  Access = {a1, a2, a3}
  NoTag = NoTag
  NoRequest = NoRequest
  Assoc = 2
  MshrSize = 3
  MaxCoal = 3
  QueueSize = 3
  Ops = {"load", "store"}
  Grants = {"S", "E"}
  Demands = {}
SPECIFICATION Spec
SYMMETRY Symm
INVARIANTS HandlersDoNotAbort NoLostStore NoBlockTwice SomebodyPulls
