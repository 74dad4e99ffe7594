CONSTANTS
  Source = {s1}
  Group = {g1}
  Listeners = {"downstream"}
  Volatile = {"downstream"}
  MaxRecords = 1
  Fd = {3, 4, 5}
  MALI = 2
  LLQI = 1
SPECIFICATION Spec
INVARIANTS
  Survives
CHECK_DEADLOCK FALSE
