SPECIFICATION Spec
CONSTANTS
  Roots = 2
  Fanout = 4
  Depth = 2
  LevelMask = 7
  KEY_MAX = 255
  Expansions <- MCExpansions
  Adaptations <- MCAdaptations
  Estimate <- MCEstimate
INVARIANTS
  ExpansionIsRight
  CompareIsContainment
  AdaptedToNearest
PROPERTIES
  ExpansionEnds
\* A call has ended.
CHECK_DEADLOCK FALSE
