CONSTANTS
  Names = {1, 2}
  UpsertRetries = 0
  InsertRetries = 1
  DeviceGateway = FALSE
  PtzCameras = 1
SPECIFICATION Spec
INVARIANTS
  PtzNeedsGateway
  BacklogIsTheLoops
  StoppedStaysStopped
PROPERTIES
  OutageIsNoticed
  RecoveryIsNoticed
  PtzComesUp
  ShutdownEnds
CHECK_DEADLOCK FALSE
