CONSTANTS
  Source = {s1}
  Group = {g1, g2}
  Listeners = {"downstream"}
  Volatile = {}
  MaxRecords = 2
  Fd = {3, 4, 5}
  MALI = 2
  LLQI = 1
SPECIFICATION PFairSpec
INVARIANTS
  PTypeOK
  RoutesMirror
  NoSocketLeak
  JoinedExactly
  Covered
PROPERTIES
  StreamUninterrupted
  ImplementsCache
  Served
  QuietLeaves
