\* The target may fail to remove a breakpoint.
SPECIFICATION Spec
CONSTANTS
  a1 = a1
  a2 = a2
  Addresses <- MCAddresses
  Types <- MCTypes
  Cookies <- MCCookies
INVARIANTS
  MapMatchesTarget
  ClientViewAgrees
