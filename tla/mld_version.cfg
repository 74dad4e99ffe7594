SPECIFICATION FairSpec
CONSTANT Timeout = 3
INVARIANTS
  TypeOK
  AnsweredBelowV2
  TimedV1
PROPERTY UpgradeHappens
