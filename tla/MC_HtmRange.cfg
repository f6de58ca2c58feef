SPECIFICATION Spec
CONSTANTS
  KEY_MAX = 7
  Gaps <- MCGaps
INVARIANTS
  EndsAlternate
  WalkIsPaired
  KeysFound
  QueriesAreNearlyRight
PROPERTIES
  MergeIsUnion
  ImplementsIntervalSet
  DefragEnds
