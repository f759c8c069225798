CONSTANTS
  Commands = 2
  Paths = {"poll"}
  Outages = FALSE
SPECIFICATION Spec
PROPERTY NeverLeftProcessing
CHECK_DEADLOCK FALSE
