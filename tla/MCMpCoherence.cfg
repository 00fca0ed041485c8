CONSTANTS
  Workers = {w1, w2}
  NData = 3
  CacheSize = 1
  MaxTasks = 2
  Descriptions <- TwoKinds
  QueueMax = 2
  LateAdd = FALSE
SPECIFICATION FairSpec
INVARIANTS TypeOK InOneHand NoAssertFails PoppersCoverForwarded
PROPERTIES ImplementsGrid NoMoreTasks FrameEnds
