CONSTANTS
  NData = 4
  AdvectDist = 1
  MaxTasks = 128
  Settings <- MCCurlSettings
SPECIFICATION Spec
INVARIANT ConflictsOrdered
