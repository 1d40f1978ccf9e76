SPECIFICATION FairSpec
CONSTANTS
  AddressSpace = 8
  LengthSpace = 10
  ByteSpace = 2
  FillSpace = 4
INVARIANTS
  CopiesAsThroughBuffer
  TrapsCleanly
PROPERTY Ends
CHECK_DEADLOCK FALSE
