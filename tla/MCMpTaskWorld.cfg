CONSTANTS
  Workers = {w1, w2}
  Callers = {k1, k2}
  Tasks = {t1, t2, t3, t4}
  PerWorker = 2
  Quit = Quit
  MaxRaises = 1
SPECIFICATION FairSpec
INVARIANTS TypeOK OneOwner NoneDropped
PROPERTIES RunOnce EveryTaskRuns TerminateReturns
