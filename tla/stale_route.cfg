CONSTANTS
  Source = {s1, s2}
  Group = {g1}
  Listeners = {"downstream"}
  Volatile = {}
  MaxRecords = 1
  Fd = {3, 4, 5}
  MALI = 2
  LLQI = 1
SPECIFICATION PFairSpec
PROPERTY QuietStops
