CONSTANTS
  s1 = s1
  s2 = s2
  Segment = {s1, s2}
  NoSegment = NoSegment
  MaxRetries = 0
  S3Results = {"ok", "transient", "permanent", "unclassified"}
  DbErrors = TRUE
  MaxStarts = 2
SPECIFICATION Spec
SYMMETRY SegmentSymmetry
INVARIANTS
  TypeOK
  UploadedIsStored
  AttemptsWithinBudget
PROPERTIES
  RecycledIsStored
  UploadedIsFinal
  ImplementsDelivery
CHECK_DEADLOCK FALSE
