SPECIFICATION FairSpec
CONSTANTS
  Pipe = {p1, p2}
  None = None
  MaxHistory = 1
  MaxSessions = 2
  Ttl = 0
  MaxMinted = 3
  MaxCalls = 2
  MaxClock = 1
  MaxRuns = 3
INVARIANTS
  RetriesAreSafe
  Bounded
PROPERTIES
  CallsAreAnswered
  KeepsTheLedger
CHECK_DEADLOCK FALSE
