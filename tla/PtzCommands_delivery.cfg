CONSTANTS
  Commands = 2
  Paths = {"poll", "realtime"}
  Outages = TRUE
SPECIFICATION Spec
INVARIANTS
  DispatchedOnce
  RejectedNeverRuns
  LiveMoveIsKnown
PROPERTIES
  StopIsNotPreempted
  PendingIsHandled
  ImplementsLifecycle
CHECK_DEADLOCK FALSE
