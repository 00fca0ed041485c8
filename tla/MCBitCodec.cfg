CONSTANTS
  OverShift = "zero"
  MaxWidth = 7
  MaxComponents = 2
  MaxHeight = 3
  Fields <- SmallFields
SPECIFICATION Spec
INVARIANTS TypeOK RoundTrip
CHECK_DEADLOCK FALSE
