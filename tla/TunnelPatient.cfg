SPECIFICATION SilentProxySpec
CONSTANTS
  Dial = {d1, d2, d3}
  None = None
  RetryMin = 1
  RetryMax = 4
  MaxOrphans = 0
  Hasty = FALSE
INVARIANTS
  OneDriver
  OnlineIffLinked
PROPERTIES
  BackoffKept
  IsASwitch
  IsALiveSwitch
