CONSTANTS
  RingSize = 4
  MaxFrames = 3
  MaxMessages = 5
  MaxTimeouts = 1
SPECIFICATION FairSpec
INVARIANTS TypeOK NotWhileRead
PROPERTIES FieldsAdvance MessagesInOrder NotStuck
