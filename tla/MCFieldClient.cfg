CONSTANTS
  SendLimit = 12
  LockLimit = 12
  LockSpread = 2
  QueueSize = 2
  Warmup = 1
  MaxFields = 3
  MaxMessages = 3
SPECIFICATION FairSpec
INVARIANTS TypeOK
PROPERTIES PeerInOrder HandedIsSent WaitsEnd
CHECK_DEADLOCK FALSE
