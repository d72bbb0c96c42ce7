\* The connection may end at any byte, after which there is nothing to do.
SPECIFICATION Spec
CONSTANT Messages <- MCMessages
INVARIANTS
  DeliversWhatWasSent
  LooksOnlyAtReceived
PROPERTIES
  ImplementsPacketIntake
CHECK_DEADLOCK FALSE
