SPECIFICATION FairSpec
CONSTANTS
  Run = {r1, r2}
  StreamId = {s1}
  None = None
  MaxBytes = 2
  MaxItem = 2
INVARIANTS
  BooksBalance
  NoOrphans
  ToldUnlessOverrun
PROPERTIES
  DisposedIsLeft
  ReadersAreReleased
CHECK_DEADLOCK FALSE
