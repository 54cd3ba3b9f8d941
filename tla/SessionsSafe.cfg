SPECIFICATION Spec
CONSTANTS
  Session = {s1, s2}
  Device = {d1, d2}
  Token = {t1}
  Peer = {p1, p2}
  None = None
  DeviceTtl = 2
  PairingTtl = 1
  TouchInterval = 0
  MaxClock = 2
  MaxWrites = 1
SYMMETRY Symmetry
INVARIANTS
  BooksBalance
  PeersAreShared
  ConnectedIsPaired
  PresenceIsTrue
  CodeAdmitsOne
  RevocationIsDurable
  LastWriteIsTheList
PROPERTIES
  IsAnAccessList
