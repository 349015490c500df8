CONSTANTS
  NumCores = 4
  QueueSize = 1
  Flow <- Flows
  MaxPackets <- Packets
SPECIFICATION FairSpec
CHECK_DEADLOCK FALSE
INVARIANTS TypeOK Credits OnTheWay
PROPERTIES ImplementsInterconnect PacketsArrive
