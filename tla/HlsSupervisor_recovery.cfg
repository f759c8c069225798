CONSTANT MaxFailures = 2
SPECIFICATION Spec
INVARIANTS
  NoStrayFfmpeg
  StoppedIsQuiet
  HealthFollowsProcess
PROPERTIES
  ReconnectsAfterExit
  FailingIsReported
  StopReturns
CHECK_DEADLOCK FALSE
