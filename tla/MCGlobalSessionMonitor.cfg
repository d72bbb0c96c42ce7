\* Two connections and two console events; targets that close without waiting,
\* and no event before or after the monitor.
SPECIFICATION FairSpec
CONSTANTS
  a = a
  b = b
  h1 = h1
  h2 = h2
  Sessions <- MCSessions
  Handlers <- MCHandlers
  NoSession = NoSession
  CloseWaits = FALSE
  EventsOutside = FALSE
INVARIANTS
  TypeOK
  ActiveIsRegistered
  CallsLiveTarget
  ClosedBeforeExit
PROPERTIES
  BreakInArrives
  NobodyStuck
