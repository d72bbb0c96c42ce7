\* The same with vCont.
SPECIFICATION Spec
CONSTANTS
  Threads <- MCThreads
  Junk <- MCJunk
  VContRequests <- GdbVCont
  Probes = FALSE
  SelfResetting = {"step"}
  Failures = {}
INVARIANT SelectionAlive
