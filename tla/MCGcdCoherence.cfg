CONSTANTS
  NData = 5
  MaxTasks = 4
  Deps = {0, 1, 3}
SPECIFICATION Spec
INVARIANTS TypeOK
PROPERTIES ImplementsGrid
