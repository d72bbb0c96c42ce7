\* Ranges of none to more than two chunks, also beyond the end of the memory.
SPECIFICATION FairSpec
CONSTANTS
  unknown = unknown
  none = none
  Size = 4
  FlashSize = 2
  Values <- MCValues
  ByteBits = 2
  CrcBits = 4
  Polynomial <- MCPolynomial
  Chunk = 2
  MaxData = 2
  Erased <- MCErased
  Unknown <- unknown
  None <- none
INVARIANTS
  BelievedIsThere
  ChecksumIsOfRange
PROPERTIES
  Answered
