CONSTANTS
  Commands = 1
  Paths = {"poll"}
  Outages = TRUE
SPECIFICATION Spec
PROPERTY PendingIsPickedUp
CHECK_DEADLOCK FALSE
