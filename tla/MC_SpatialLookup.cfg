SPECIFICATION IndexSpec
CONSTANTS
  Fineness = 3
  Levels <- MCLevels
  Points <- MCPoints
  Trixels <- MCTrixels
  Strays <- MCStrays
INVARIANTS
  MeshIsShared
  SortKeepsTree
  LookupIsRight
  NeighborsMeet
