\* Threads that push and pop at will over a ring with room for two values.
CONSTANTS
  Threads = {t1, t2, t3}
  Values = {v1, v2}
  NoValue = NoValue
  MaxSize = 2
  MaxStalled = 2
SPECIFICATION FairSpec
INVARIANTS TypeOK CountersCoverSleepers NoLostWakeup
PROPERTIES ImplementsFifo PopProgress PushProgress
