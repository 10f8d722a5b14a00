SPECIFICATION FairSpec
CONSTANTS
  Item = {1, 2}
  Reader = {r1, r2}
  CreatedAt <- MCCreatedAt
  Limit = 2
  Faults = TRUE
CHECK_DEADLOCK FALSE
INVARIANTS NeverSpliced LengthBounded RebuildSerialized MissingIsExplained HitIsNotEmpty
PROPERTIES WaitersReturn
