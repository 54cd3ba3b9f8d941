SPECIFICATION SilentProxySpec
CONSTANTS
  Dial = {d1, d2}
  None = None
  RetryMin = 1
  RetryMax = 4
  MaxOrphans = 0
  Hasty = FALSE
PROPERTIES
  KeepsReconnecting
