CONSTANTS
  Tag = {t1, t2}
  Access = {a1, a2}
  NoTag = NoTag
  NoRequest = NoRequest
  Assoc = 1
  MshrSize = 2
  MaxCoal = 2
  QueueSize = 1
  Ops = {"load", "store"}
  Grants = {"S"}
  Demands = {"flush_block", "upgrade_inval", "downgrade", "getx_fwd_inval"}
SPECIFICATION Spec
SYMMETRY Symm
CHECK_DEADLOCK FALSE
INVARIANTS TypeOK MessagesAccounted RequestsAccounted
