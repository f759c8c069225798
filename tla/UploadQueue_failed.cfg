CONSTANTS
  s1 = s1
  Segment = {s1}
  NoSegment = NoSegment
  MaxRetries = 0
  S3Results = {"ok", "transient", "permanent"}
  DbErrors = FALSE
  MaxStarts = 2
SPECIFICATION Spec
PROPERTY FailedResumes
CHECK_DEADLOCK FALSE
