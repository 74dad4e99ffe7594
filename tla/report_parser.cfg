CONSTANTS
  MaxRecords = 2
  MaxSources = 2
  MaxAux = 1
  MaxHeaders = 1
  MaxExt = 1
  Lengths = {0, 68}
SPECIFICATION Spec
INVARIANTS
  TypeOK
  SourcesInside
  ReadsReport
