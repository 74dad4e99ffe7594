CONSTANTS
  Family = {"v4", "ll"}
  MaxIndex = 3
  Limit = 2
SPECIFICATION FairSpec
INVARIANTS
  TypeOK
  KnownIsHeard
PROPERTIES
  Rediscovered
  Addressed
