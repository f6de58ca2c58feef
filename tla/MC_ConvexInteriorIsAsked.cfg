SPECIFICATION Spec
CONSTANTS
  Fineness = 4
  Fuse = 12
  Tasks <- MCTasks
INVARIANTS
  InteriorIsAsked
\* A call has ended.
CHECK_DEADLOCK FALSE
