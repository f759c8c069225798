CONSTANTS
  Cameras = 2
  Ratio = 3
  Turns = 2
  MaxPending = 2
SPECIFICATION Spec
INVARIANTS
  TypeOK
  AtMostRatioBeforeBacklog
  WorkIsFound
PROPERTIES
  BacklogWaitsItsTurn
  BacklogServed
  EveryCameraServed
