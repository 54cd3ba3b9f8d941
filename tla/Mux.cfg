SPECIFICATION FairSpec
CONSTANTS
  Stream = {i1}
  Window = 4
  Batch = 2
  MaxPayload = 2
  MaxRead = 1
  MaxWrite = 5
  MaxBuffered = 5
INVARIANTS
  CreditKept
  NeverStalls
  EndReachesAll
PROPERTIES
  WritesEnd
CHECK_DEADLOCK FALSE
