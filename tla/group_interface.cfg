CONSTANTS
  Source = {s1, s2, s3}
  MALI = 3
  LLQI = 1
SPECIFICATION Spec
INVARIANTS
  TypeOK
  IncludeFollowsRfc
  ConversesLikeRfc
