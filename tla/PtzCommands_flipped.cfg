CONSTANTS
  Commands = 1
  Paths = {"poll"}
  Outages = TRUE
SPECIFICATION Spec
PROPERTY CompletedIsKept
CHECK_DEADLOCK FALSE
