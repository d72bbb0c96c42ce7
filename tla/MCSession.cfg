\* Every kind of request, two break-in bytes, damaged packets; liveness under
\* the fairness of the threads and of the mutex.
SPECIFICATION FairSpec
CONSTANTS
  MaxRequests = 3
  MaxBreakIns = 2
  Kinds <- Requests
INVARIANTS
  TypeOK
  SocketExclusive
  PeekedByteStillThere
  TargetNeverDangles
  NoProtocolError
  HandlesWhatIsAwaited
  ClientUnderstands
PROPERTIES
  LateCallBeforeJoin
  SessionEnds
  ImplementsFairDebugSession
