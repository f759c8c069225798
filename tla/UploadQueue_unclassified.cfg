CONSTANTS
  s1 = s1
  Segment = {s1}
  NoSegment = NoSegment
  MaxRetries = 0
  S3Results = {"ok", "transient", "permanent", "unclassified"}
  DbErrors = FALSE
  MaxStarts = 1
SPECIFICATION FairSpec
PROPERTY EverySegmentSettles
CHECK_DEADLOCK FALSE
