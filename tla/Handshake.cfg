SPECIFICATION FairSpec
CONSTANT
  Pattern = {"XX", "IK"}
INVARIANTS
  CompleteIsSound
  NonceOnce
PROPERTIES
  Completes
CHECK_DEADLOCK FALSE
