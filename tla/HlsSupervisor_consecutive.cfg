CONSTANT MaxFailures = 2
SPECIFICATION Spec
PROPERTY MarkedAfterConsecutive
CHECK_DEADLOCK FALSE
