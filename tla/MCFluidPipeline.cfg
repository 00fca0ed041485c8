CONSTANTS
  NData = 4
  AdvectDist = 1
  MaxTasks = 128
  Settings <- MCSettings
SPECIFICATION Spec
INVARIANTS
  TypeOK
  ConflictsOrdered
  FramesCompatible
  AdvectedIsCurrent
