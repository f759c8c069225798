CONSTANTS
  Segments = 3
  Sizes = {1, 2}
  Other = 1
  Alert = 2
  Cleanup = 3
  MaxErrors = 1
SPECIFICATION Spec
PROPERTIES
  OldestGoesFirst
  OverfullIsRelieved
CHECK_DEADLOCK FALSE
