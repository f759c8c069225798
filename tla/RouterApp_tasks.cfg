CONSTANTS
  Names = {1}
  UpsertRetries = 0
  InsertRetries = 0
  DeviceGateway = FALSE
  PtzCameras = 0
SPECIFICATION Spec
PROPERTY ResumesAfterOutage
CHECK_DEADLOCK FALSE
