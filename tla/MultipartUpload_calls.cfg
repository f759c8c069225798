CONSTANTS
  Chunk = 2
  MaxSize = 7
SPECIFICATION Spec
INVARIANTS
  DanglingHasAReason
PROPERTY ImplementsAttempt
CHECK_DEADLOCK FALSE
