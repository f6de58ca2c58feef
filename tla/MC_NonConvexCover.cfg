SPECIFICATION Spec
CONSTANTS
  Fineness = 3
  Depth = 3
  Roots = 8
  Fanout = 4
  LevelMask = 7
  KEY_MAX = 4095
  Polygons <- MCPolygons
INVARIANTS
  CoverIsSound
  SphereIsDivided
PROPERTIES
  HullIsFound
\* A call has ended.
CHECK_DEADLOCK FALSE
