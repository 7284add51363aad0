SPECIFICATION Spec
CONSTANTS
  SampleCount = 3
  BatchSize = 2
  IdleLimit = 3
  MaxSent = 6
INVARIANTS
  CountedOnce
  SuccessIsComplete
PROPERTIES
  Patient
  Ends
CHECK_DEADLOCK FALSE
