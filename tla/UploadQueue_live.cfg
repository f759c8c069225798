CONSTANTS
  s1 = s1
  Segment = {s1}
  NoSegment = NoSegment
  MaxRetries = 1
  S3Results = {"ok", "transient", "permanent"}
  DbErrors = FALSE
  MaxStarts = 3
SPECIFICATION FairSpec
INVARIANTS
  UploadingIsOwned
  ExhaustedSpentBudget
PROPERTIES
  EverySegmentSettles
  DrainEnds
CHECK_DEADLOCK FALSE
