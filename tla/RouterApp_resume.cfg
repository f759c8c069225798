CONSTANTS
  Names = {1, 2}
  UpsertRetries = 0
  InsertRetries = 0
  DeviceGateway = FALSE
  PtzCameras = 0
SPECIFICATION Spec
PROPERTY ReportingResumes
CHECK_DEADLOCK FALSE
