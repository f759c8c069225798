CONSTANT MaxFailures = 2
SPECIFICATION Spec
INVARIANT FallenIsNotStreaming
CHECK_DEADLOCK FALSE
