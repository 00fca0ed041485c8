CONSTANTS
  RingSize = 4
  MaxFrames = 3
  MaxMessages = 5
  MaxTimeouts = 1
SPECIFICATION FairSpec
PROPERTIES FieldsAreReceived
