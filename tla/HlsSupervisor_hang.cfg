CONSTANT MaxFailures = 2
SPECIFICATION Spec
PROPERTY NeverGivesUp
CHECK_DEADLOCK FALSE
