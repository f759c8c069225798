CONSTANTS
  Commands = 1
  Paths = {"poll"}
  Outages = TRUE
SPECIFICATION Spec
PROPERTY BufferedIsSent
CHECK_DEADLOCK FALSE
