\* A client without vCont: H, T, c, s, registers and reports.
SPECIFICATION InspectionSpec
CONSTANTS
  Threads <- MCThreads
  Junk <- MCJunk
  VContRequests <- NoVCont
  Probes = FALSE
  SelfResetting = {}
  Failures = {"list"}
  RegisterList <- MCRegisterList
  Contents <- MCContents
  FrameRelated <- MCFrameRelated
  Libraries <- MCLibraries
  Regions <- MCRegions
  MaxWindow = 3
INVARIANTS
  SelectionAlive
  SelectionHonoured
  RegistersAsBelieved
  ReportIsWhole
PROPERTIES
  ContinuedThreadAlive
  TransferEnds
