\* A removal that failed and is tried again.
SPECIFICATION Spec
CONSTANTS
  a1 = a1
  a2 = a2
  Addresses <- MCAddresses
  Types <- MCTypes
  Cookies <- MCCookies
INVARIANT RemoveCarriesCookie
