SPECIFICATION Spec
CONSTANTS
  Session = {s1}
  Device = {d1}
  Token = {t1}
  Peer = {p1}
  None = None
  DeviceTtl = 2
  PairingTtl = 1
  TouchInterval = 0
  MaxClock = 2
  MaxWrites = 1
SYMMETRY Symmetry
INVARIANTS
  RevokedIsGone
