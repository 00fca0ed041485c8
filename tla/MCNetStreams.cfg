CONSTANTS
  Header = 1
  Sizes = {1, 2}
  OutSize = 5
  InSize = 5
  FreeMidChunk = FALSE
  LinkSize = 2
  MaxChunks = 4
SPECIFICATION FairSpec
INVARIANTS TypeOK OnlyLargeStranded
PROPERTIES ImplementsChannel ChunksArrive
CHECK_DEADLOCK FALSE
