CONSTANTS
  Cameras = 3
  Ratio = 3
  Turns = 6
  MaxPending = 1
SPECIFICATION Spec
PROPERTY EveryCameraServed
