SPECIFICATION Spec
CONSTANTS
  Dial = {d1, d2}
  None = None
  RetryMin = 1
  RetryMax = 4
  MaxOrphans = 1
  Hasty = TRUE
INVARIANTS
  CutMeansNoLink
