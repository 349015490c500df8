CONSTANTS
  Deps <- AllDeps
  Flag <- AllFlags
  StackDepth = 2
  MaxOutputs = 2
  FileSize <- Sizes
  Insts <- AllInsts
  MaxUops = 4
  RobSize = 3
  IqSize = 2
  LsqSize = 1
  FetchQueueSize = 2
  UopQueueSize = 2
  RecoverKinds = {"writeback", "commit"}
SPECIFICATION FairSpec
CHECK_DEADLOCK FALSE
INVARIANTS HandlersDoNotAbort RegistersAccounted RenamingFollowsProgram
           WrongPathIsBehindABranch
PROPERTIES RetiresInOrder EveryoneRetires
