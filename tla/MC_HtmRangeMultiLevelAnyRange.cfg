SPECIFICATION Spec
CONSTANTS
  Roots = 2
  Fanout = 4
  Depth = 2
  LevelMask = 3
  KEY_MAX = 127
  Ranges <- MCRanges
  errorCountMax = 100
  AnyRange = TRUE
INVARIANT EndsPaired
