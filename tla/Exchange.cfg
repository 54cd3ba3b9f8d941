SPECIFICATION FairSpec
CONSTANTS
  Word = {"api", "mobileBridge", "session", "list"}
  ExtraAllowlist <- MCExtraAllowlist
  MinGzip = 1
  Segment = {"api", "mobileBridge", "session", "list", "file", "..", ".", ""}
  MaxDepth = 4
  MaxBody = 2
  MaxReply = 3
  HighWater = 2
INVARIANTS
  ControlIsHidden
  AnswerIsTrue
  HarnessIsTold
PROPERTIES
  Served
CHECK_DEADLOCK FALSE
