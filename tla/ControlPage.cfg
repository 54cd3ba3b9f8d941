SPECIFICATION FairSpec
CONSTANTS
  MaxChains = 2
  MaxClicks = 1
  MaxFaults = 1
INVARIANTS
  AutoMintReuses
  AutoMintsOnce
PROPERTIES
  PageComesTrue
CHECK_DEADLOCK FALSE
