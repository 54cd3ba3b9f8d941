SPECIFICATION FairSpec
CONSTANTS
  Window = 2
  MaxMsg = 2
  MaxChunk = 3
  MaxWritten = 5
  MaxHeard = 2
INVARIANTS
  TypeOK
  PhoneHears
  BridgeHears
PROPERTIES
  WaitsEnd
CHECK_DEADLOCK FALSE
