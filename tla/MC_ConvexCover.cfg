SPECIFICATION Spec
CONSTANTS
  Fineness = 4
  Fuse = 12
  Tasks <- MCTasks
INVARIANTS
  HullIsRight
  HullSurvives
  CoverIsExact
  WalkReturns
\* A call has ended.
CHECK_DEADLOCK FALSE
