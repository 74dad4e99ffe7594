SPECIFICATION FairSpec
CONSTANTS
  Route = {r1, r2, r3}
  MaxUpcalls = 2
INVARIANT TypeOK
INVARIANT Mirrors
PROPERTY ImplementsCache
