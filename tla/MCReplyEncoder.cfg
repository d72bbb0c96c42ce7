\* A buffer of 9 bytes: every boundary of the flush tests is met.
SPECIFICATION Spec
CONSTANTS
  BufSize = 9
  Responses <- MCResponses
INVARIANTS
  NeverOverruns
  DecodesBack
  FramedSafely
CHECK_DEADLOCK FALSE
