SPECIFICATION FairSpec
INVARIANTS
  TypeOK
  ClockKept
  OncePerSecond
PROPERTIES
  TimeoutsRecur
  TerminateStops
CHECK_DEADLOCK FALSE
