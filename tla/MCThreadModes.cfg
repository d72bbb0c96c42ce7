\* Every mode undone by dtmRestore; modes, resumption and stop record may fail.
SPECIFICATION Spec
CONSTANTS
  Threads <- ThreeThreads
  Junk <- MCJunk
  VContRequests <- GdbVCont
  Probes = TRUE
  SelfResetting = {}
  Failures = {"mode", "resume", "record"}
INVARIANTS
  TypeOK
  ModesRestored
  RunsAsAsked
