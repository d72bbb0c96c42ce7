\* A documented claim the code does not keep.
SPECIFICATION Spec
CONSTANTS
  MaxRequests = 2
  MaxBreakIns = 1
  Kinds <- QueryAndResume
PROPERTY BreakInOnLiveStub
